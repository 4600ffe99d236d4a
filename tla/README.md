# A verification project for the OpenPlanr pipeline

OpenPlanr is a local-first planning and review tool: a Node.js library and CLI
(`lib/`, `bin/`) with browser front ends (`templates/`, `lib/dashboard/app`,
`lib/artifact/ui`). Its state lives in files of the user's repository and home
directory. Several processes (short-lived commands, agents, two kinds of local
servers, browser tabs) read and write those files without a database, so most of
what can go wrong is in the interleavings, crashes, retries and reorderings around
a file. This directory holds TLA+ models of those parts, the TLC runs that check
them on small instances and theorems that TLAPS proves for every instance.

`PROJECT.json` maps every definition to the source lines it models and lists the
runs, mutants, hazards and theorems.

## Inventory

| Component | State it keeps | Operations | What is hard |
|---|---|---|---|
| Start lock (`design-engine/server-util.mjs`) | a lock file with its owner | acquire, release, reclaim of dead and invalid locks | two processes around one file; crashes; timeouts |
| Review merge (`artifact/merge.mjs`) | none (pure); ledgers | merge of replies, pins, reviews, ledgers | order, duplicates, conflicts |
| Durable review store (`artifact/review.mjs`, `review-server.mjs`, `import.mjs`) | the ledger file, sessions with a copy and a write queue | register, submit, refresh, close, import | read-modify-write of several processes; stale copies; crashes; partial imports |
| Review server lifecycle (`artifact/review-server.mjs`) | state file, sessions, idle timer, draining flag | ensure, register, delete, restart, idle close | races of idle shutdown, start and registration |
| Design import (`artifact/import.mjs`) | ledger and design feedback, two files | two-file commit with backups | crash or failure between the renames; a daemon that writes one of the files |
| Live room (`artifact/live-room.mjs`, `share-client.mjs`) | events of a shared room, snapshot | encrypt, post, replay, project | reordering, duplication, late joiners |
| Artifact envelope, codec, crypto, bundle, bridge (`artifact/*.mjs`) | none | build, validate, encode, encrypt, postMessage | data formats |
| Design review board (`design-engine/daemon.mjs`, `feedback.mjs`, `board-adapter.mjs`, `cli.mjs`) | `feedback.json`, the pending round, event streams; in each tab a review, a save queue and fetches under way | save, submit, delete, fold a pending round, fetch, resolve, restart | merges of whole snapshots; answers out of order; an agent that deletes the file the daemon is folding; crash while writing |
| Board daemon lifecycle (`design-engine/cli.mjs`) | state file, registry of boards | ensure, register, stop | two commands that each start one |
| Board tokens, sessions, taste (`design-engine/*.mjs`) | small JSON files | read-modify-write | no lock |
| Dashboard (`dashboard/watcher.mjs`, `server.mjs`, `app/main.js`, `graph-*.mjs`) | last graph of watcher, server and page; subscribers | watch or poll files, recompute, patch, fetch, merge | half-written files; missed patch between fetch and subscribe; debounce |
| Operating board reducer (`operate/reducer.mjs`) | hash-chained event log, checkpoints, projected state | verify, fold, checkpoint, resume | replay from a checkpoint equals a full replay; out-of-order events |
| Artifact generation (`operate/generator.mjs`) | a session document; a run in memory | start, validate, commit, fail, resume, cancel, run | a generator that answers late or never; retry limits |
| Adapter handoff (`operate/adapter-handoff.mjs`) | none: a document of next and recovery actions | create, validate | bindings of a document |
| Ecosystem saga and release operation (`operate/saga.mjs`) | step statuses; participants of a release | create, reconcile, record | dependency order, late and repeated reports, compensation after publication |
| Cadence, mandate, missions, research, citations (`operate/*.mjs`) | none or records | derive, validate | mostly pure validation |
| SHIP engine (`pipeline/engine.mjs`, driven as `commands/ship.md` says) | task files, `.corrections.json`, error reports, `.run-manifest.jsonl`; hashes of Preserve paths in memory | prepare, next batch, record, finalize | four writes per result and a crash between any two; parallel agents; retry limit; dependency order |
| Guided interaction (`pipeline/guided-interaction.mjs`) | an interaction document | ask, answer, confirm | revision checks |
| Ecosystem discovery (`ecosystem/`) | none | scan of sibling repositories | pure I/O |
| Protocol (`protocol/*.mjs`, `schemas/`) | none | schema validation, canonical JSON | data formats |
| Design assets (`lib/design/`), templates, UI, scripts, conformance, adapters, agents | none or browser state | rendering, generation, prompts, checks | layout and text |

How they interact: the design CLI and the review commands start servers through the
start lock; browser tabs talk to the servers over HTTP and an event stream; servers
and import commands share the ledger and feedback files, guarded by per-ledger locks
(the same lock code); the dashboard only reads what the others write; the operating
board, the SHIP engine and the sagas are libraries over documents that agents and
commands load, change and save.

What makes each of them correct, in one line each: the lock is held by one process
at a time and no process waits for ever; ledgers end up equal whatever the order
revisions arrive in, and keep all of them; what a reviewer was told is stored is
stored; a pin that was dropped is in the record or its reviewer knows that it is
not; a round of feedback is carried out once; a task is done only after its
dependencies and stays done; a saga reveals the work whose prerequisites succeeded
and only that; a published package stays published; a projection resumed from a
checkpoint equals the replay of the log; every page ends up with the last graph; a
server does not stop with a session registered; a design import leaves both its
files new or both old.

## Modules

| Module | Models | Checked by | Proved in |
|---|---|---|---|
| `StartLock` | `acquireStartLock`, one action per system call; processes crash, files age, calls time out | `StartLock` | `Server_proofs` |
| `ReviewMerge` | the pure functions of `merge.mjs`, and what it means for a ledger to keep what was said | through the two below | `Review_proofs` |
| `ReviewImportOrder` | two ledgers that receive the same revisions in different orders | `ReviewImportOrder` | `Review_proofs` |
| `KeptReviews` | abstract specification: the ledger only grows, acknowledged reviews are in it | as a property of `ReviewStore` | `Review_proofs`: `ReviewStore` implements it |
| `ReviewStore` | sessions, imports, lock, crashes around one ledger file; implements `KeptReviews` | `ReviewStore` | `Review_proofs` |
| `ReviewServer` | calls that find or start the review server, register, retry and close; the server's idle timer and end | `ReviewServer` | `Server_proofs` |
| `DesignImport` | the commit of ledger and feedback file with backups, its rollback, deaths, the daemon's saves | `DesignImport` | `Design_proofs` |
| `EcosystemSaga` | steps of a multi-repository saga and reports about them | `EcosystemSaga` | `Saga_proofs` |
| `ReleaseOperation` | participants of a release, observations, derived phase and recovery | `ReleaseOperation` | `Saga_proofs` |
| `OperatingReducer` | what the operating board accepts and becomes, event kind by event kind | through the next | `OperatingLog_proofs` |
| `OperatingLog` | the event log: entries, verification, checkpoints, resumption | `OperatingLog` | `OperatingLog_proofs` |
| `ArtifactGeneration` | the generation session and the run that calls a generator | `ArtifactGeneration` | `ArtifactGeneration_proofs` |
| `DesignBoard` | one board: record, pending round, daemon, tabs, agent, crashes | `DesignBoard` | `Design_proofs` |
| `DashboardSync` | files, watcher, polling, graph server, pages | `DashboardSync` | `DashboardSync_proofs` |
| `ShipEngine` | tasks, their results recorded write by write, parallel agents, Preserve paths, crashes, interventions | `ShipEngine` | `ShipEngine_proofs` |

An `MC...` module instantiates the module of that name: a chosen set of reviews, the
process a call runs in, the author of a pin, the logs to begin from, symmetry. Every
module keeps the mutants of its definitions next to them, marked `Mutant:`: changes of
the kind a bug would make, with which the property named in `PROJECT.json` fails.

Modules build on each other: `OperatingLog` folds the operators of `OperatingReducer`
and `ReviewStore` those of `ReviewMerge`; `ReviewStore` implements `KeptReviews`;
`ReviewServer` leaves to `ReviewStore` what a session does with its ledger. `StartLock` has
every call of the start lock and shows that a waiter can remove the file of a live owner;
`ReviewStore` keeps the three steps that this takes, `ReviewServer` has the theft as one
step, and `DesignImport` leaves it to `ReviewStore`. Where the
proofs of two components share a module, the names of one of them begin with what they
are about (`LockSpec`, `ImportSpec`, `OrderSpec`).

How the state and the actions correspond to the code:

- **`StartLock`.** `lockFile` is the file at the lock path: who created it, whether the
  owner record has been written, whether it is older than the stale limit. `at` is
  where a call stands in the loop of `acquireStartLock`. `Open` is
  `openSync(path, 'wx')`, `ReadOwner` and `Decide` are `readJsonState`, `statSync` and
  `isAlive`, `Remove` is `rmSync`, `ReleaseRead` and `Unlock` are the two calls of the
  release function. Calls of one process share its event loop (`MayStep`), calls of
  different processes interleave at every system call. `stolen` is a history
  variable: a file was removed from under a live owner.
- **`ReviewStore`.** `durable` is the ledger file, `lock` its lock file, `copy`, `todo` and
  `batch` what a writer has read, still has to merge and has merged; `known` is the
  digest in a session's memory and `queue` its write queue. The writers of one process
  take turns (`reviewPathQueues`), those of different processes share the lock file, which
  a waiter finds, judges and removes in three steps (`looking`): by then it may be the file
  of a live writer. `acked`, `thefts`, `mixed` and `lost` are history variables: the
  reviews whose sender was answered, such thefts, the writers that were not alone in
  their critical section, and the answered reviews that one of these wrote away. A writer
  throws on a conflict, on a ledger that is too large and on a failing write. That a
  writer removes its own lock file is one step, and so is a refresh, whose session is
  assigned before the next writer of the process has its turn.
- **`ReviewServer`.** `pc` and `attempt` are where a call of `startArtifactReview` stands,
  `file` is the state file, `cached` the descriptor a process keeps of its own server,
  `sessions`, `pending`, `active` and `timer` are the counters and the idle timer of a
  server, `phase` goes from listening by way of closing (no new requests), closed (what
  others wait for) and removing (it has found its own name in the state file) to gone
  (file and cache cleaned up). `raced` is a history variable: the servers whose name was
  written while another one was removing the file. A server is named
  after the attempt that started it, so that two never have one name. The handler of a
  registration has two suspension points, the body and the initialization of the
  review; both are between `Post` and `Registered`.
- **`DesignImport`.** `file` and `backup` are files on disk as sets of contributions; `step` is
  the next call of `atomicDesignReviewWrite`: rename away, rename in, remove the backups,
  or, after a failure, remove and restore in reverse order. The daemon, which does not
  take the import's lock, reads the feedback (`SaveRead`) and writes it in place
  (`SaveWrite`), with any calls of an import in between. `returned`, `raced` and
  `overwritten` are history variables: what was acknowledged, the saves written while an
  import was under way, and what a save destroyed because the file had changed since it
  was read. That `writeFileSync` opens the file before it writes is left out: an import
  between the two would install the file that the daemon then fills.
- **`EcosystemSaga`, `ReleaseOperation`.** Pure functions of a document: one action per
  exported function, a refused call is no step. Statuses that a loaded document may
  hold are initial states; a loaded document starts without attempts and records.
- **`OperatingReducer`, `OperatingLog`.** `Accepts` is every check `applyEvent` makes for an
  event kind and `Apply` what it changes; what throws in the code is not accepted. A hash
  names an event and all before it, so its place in the log stands for it, and an entry
  whose content is not what was hashed is not `intact`. `board` is the projection the
  engine holds, `checkpoint` the last one it wrote. The planr engine that appends events
  is outside the repository and modelled by how the reducer is meant to be used.
- **`ArtifactGeneration`.** `document` is the session the caller holds, `session` the one the
  run works on: a run that throws leaves the caller with the old one. `calls` records
  every call of the generator, answered, overdue or aborted. The time of a call runs out
  (`TimePasses`) before its timer fires, and an answer may come in between.
- **`DesignBoard`.** `stored` and `pending` are the two files, `folding` the
  registration that is between its two writes, `review`, `queue`, `asked` and
  `answers` the page. A locked section of the daemon is synchronous and one action,
  except the fold, which writes the record (`FoldMerges`) and then empties the pending
  file (`FoldEmpties`); the agent reads that file (`AgentReads`) and then deletes what is
  there (`AgentConsumes`), or dies in between (`AgentDies`). `rounds` is history: which
  rounds were posted, carried out, carried out again, or written over and deleted
  unread, and which daemon and agent had in hand at the same time. Replies and pins are
  identities; a status stands for all that the last writer of a pin wins. A round has a
  number, pins, and whether it prefers a variant, and is folded by the merge of a save.
- **`DashboardSync`.** `disk` and `half` are the files and those half written; `snapshot`,
  `served` and `shown` are the graphs of watcher, server and page as versions of items;
  `stream` holds the patches on their way to a page and `fetch` its one request of the
  graph, which may fail and is then not repeated. Files are the Markdown ones that the
  watcher looks at. `debounce` is a flush that is scheduled. `unwatched` and `spoiled` are history
  variables: a change that nobody will look at again, a page that missed a patch.
- **`ShipEngine`.** `status`, `corrections`, `reports` and `manifest` are the files and
  `content` the project's. An invocation prepares the phase: it hashes the Preserve paths
  of all tasks, enqueues what is not done, and notes what is as skipped. The blocked tasks
  are enqueued too or left out, as `commands/ship.md` says the one and `nextShipBatch` does
  the other. `running` are the tasks in agents' hands, `recording` the result the
  orchestrator is recording and the write that is next. An invocation ends with its
  marker or with a crash, which takes the agents with it, and a new one may follow. A
  person may set a done or blocked task back (`SetBack`). `failures`, `allowed`, `touched`,
  `redone`, `since` and `unlogged` are history variables: the failed passes of a task and
  those it may have, the paths its agent changed, the done tasks set back and the rows
  they had then, the successes whose row a crash prevented.

## What the runs check

| Run | Instance | What it shows |
|---|---|---|
| `StartLock` | 2 processes, 1 call each in a loop, any crash, any failed write, ageing files | the lock is exclusive until a live owner is robbed; every acquisition ends; a dead owner's lock does not outlast a waiter |
| `ReviewImportOrder` | 9 revisions of 2 reviews, 2 receivers | same revisions, same ledger; nothing is lost; a refusal names a contradiction |
| `ReviewStore` | 2 sessions, 2 writes waiting in each, 1 import, 2 reviews that contradict each other, 2 digests, crashes of server and import, 1 theft of the lock | the store implements `KeptReviews` until the lock is stolen; acknowledged reviews stay unless a writer that was not alone writes them away; queued writes go on being answered, behind failed ones too |
| `ReviewServer` | 2 calls of one process and of two, up to 2 attempts each; one kind of disturbance: deaths, a page's request, a failed bind, a slow probe, a busy lock, a stolen lock, a refusal, a client that leaves | an open review is served, and is found by the state file unless its name was written while another server removed its own; a start ends; a server without reviews ends |
| `DesignImport` | 2 imports, 2 saves, any failure, failed undo or death at any call, any number of them | both files are new or both old unless undoing fails too; nothing that was acknowledged is destroyed, except by a save that read the feedback before an import replaced it |
| `EcosystemSaga` | all acyclic plans of 3 steps, all loaded statuses, 1 error, 2 times, 2 attempts | exactly the right work is revealed, a saga is blocked only by compensation, an ended saga stays |
| `ReleaseOperation` | 2 participants, 2 digests, every observation | publication, digest, compensation and forward-fix-only are never taken back; a next action can always be derived |
| `OperatingLog` | 2 more events of any kind on an empty log and on logs of up to 11 events, of a cycle under review with a finding and its route proposed, approved, prepared or applied; checkpoints anywhere | a resumed projection is the replayed one; a damaged log is refused; work is accepted, routes are applied as they were proposed, accepted and previewed; sensitivity does not fall |
| `ArtifactGeneration` | 2 runs of up to 2 attempts; answers good, bad, late or never | only the awaited answer that passes is committed; attempts are bounded and one at a time; every run ends |
| `DesignBoard` | 2 tabs, 1 pin, 1 reply and, of 2 edits, a deletion and a crash, any three; or 1 tab, 1 edit and an approval with a reload and a torn write; or 1 tab, an approval, 2 rounds (or 1 and an edit), with pins and a preferred variant, and one death | no pin is lost unnoticed; no write takes another's pin or reply away; every round is carried out once, except where daemon and agent share it; every pin arrives or its reviewer is told |
| `DashboardSync` | 2 items, 1 page, 3 steps of writing, 1 lost connection, failed fetch or failed watch | server and watcher agree; a page that missed nothing shows what is served; it comes to show what is on disk |
| `ShipEngine` | 2 tasks, independent, in a chain either way, in a circle or one waiting for a missing one; 1 path that one of them must preserve; up to 3 invocations, 2 writes, 1 crash, 1 setting back | done comes after the dependencies; the manifest is truthful; the third failed pass blocks; Preserve paths are kept; every invocation ends |

Why the bounds are enough. The lock has one owner and the hazards are pairwise: one
process reads the file of another. That calls of one process share an event loop is
the subject of the theorems, which hold for every assignment of calls to processes.
The store needs two sessions for a retarget and two waiting writes for one behind a
failed one; two reviews that contradict each other fail in either order; an import is
the other process that a theft of the lock takes. After one theft every exception that
the properties make is in force.
Of two calls for a review server one can start, use or end what the other depends on,
and each has the second attempt the code gives it; the theorems hold for any number.
`MaxFaults` bounds the kinds of disturbance in one behaviour, not how often they happen.
An import meets what an earlier one left; of two saves one can be made before it and one
across its renames. A plan of three
steps has chains, forks and joins, and two attempts a retry. Two participants suffice
for a release because coherence and phase quantify over them one by one. An event of
the operating board depends on at most a route, its findings and their cycle, which
the logs to begin from hold in every state that matters, in the cycle itself and in
another one; two more events are a move and what follows it, with and without a
checkpoint in between. Two attempts of a generation are one and the next, two runs a
session that is taken up again; with three attempts the same properties held, for
longer. On the board every answer out of order needs two fetches: each tab makes one
when it opens, and one is made per event; `MaxFetches` limits those that wait at the
same time. In the run rounds do not meet deletions, reloads, event streams and `feedback
resolve`, with which they share nothing but the record; the theorems have no such bound.
Pages of the dashboard do not depend on each other; three steps of writing
are a file opened, completed and removed, or two files at a time. Two tasks are a
dependency and a parallel write, and the results of a task are not bounded: three
failures, a crash among them and the passes after a task was taken up again are all
within the instance. Three invocations come with a crash or an intervention, not both,
and with neither once an agent has written a file (`MCNext`).

`CHECK_DEADLOCK FALSE` is set throughout: all sessions may be closed, all processes
crashed, a saga, a phase or a session may have ended, and the budgets of the
environment (edits, events, crashes, writes) run out.

### Fairness

- `StartLock`: a step of a call that has begun is taken eventually, strongly fair per
  call, because the event loop of its process runs due timers in turn while other
  calls of the process come and go; files grow old. Nobody has to begin a call. That a
  call which keeps trying runs out of time (`TimeLimits`) is a hypothesis of
  `AcquisitionEnds` only, so that `DeadOwnerReclaimed` does not lean on it.
- `ReviewStore`: critical sections are synchronous code after a read and so go on, and so
  does a look at the lock file; the commits of a session are strongly fair, because the
  writers of a process take their turns in the order in which they came, and a commit
  gives up when the lock stays busy. Nobody has to remove the lock of a dead owner:
  writes are answered without it. Reviewers, imports and crashes are not fair.
- `ReviewServer`: a call that was begun goes on, since its requests are answered or
  fail by their own time limit; a server handles requests, its timer fires, and closing
  ends because idle connections are closed. Nobody has to open or close a review.
- `ArtifactGeneration`: time passes and the timer of an attempt fires. The generator and
  the caller are not fair.
- `DashboardSync`: the server starts, its timers fire and events arrive; a page connects,
  fetches and takes what it is sent; who opened a file completes it. Changes, lost
  connections, failing fetches and failing watches are not fair.
- `DesignBoard`: a request under way is carried out or fails, a fold goes on, a dead
  daemon is started again by the next command, an agent told to wait for feedback
  polls. Edits, reloads, deletions, the event stream and `feedback resolve` are not fair.
- `ShipEngine`: the orchestrator dispatches, records and finalizes; an agent comes back
  with some result; changed Preserve paths are restored, as the error's hint asks.
  Agents' writes, invocations, interventions and crashes are not fair.

## What is proved

Every safety property that a run checks, invariant or action property, is also a
theorem, and so is the refinement of `KeptReviews`. TLAPS checks them for every value of
the constants, under the named assumptions of the modules: constants that must differ
do, functions have their types, bounds are natural numbers, a board has finitely many
pins and a tab can wait for at least one fetch. The bounds of the runs are part of the
specifications (`MaxEvents`, `MaxWrites`, ...), so a theorem holds for each of them,
however large.

- `Server_proofs`, about `StartLock`: types; that every live owner finds its own file at
  the lock path until one is robbed (`OwnerFileInPlace`); `MutualExclusionUnlessStolen`.
  Mutual exclusion is not inductive: that the file on disk is the owner's, which keeps a
  second `open` from succeeding, is.
- `Server_proofs`, about `ReviewServer`: `SessionsServed` and `SessionsFound`, for any calls,
  processes and spread of the calls over them. The invariant `Inv` adds to the types that
  the name of a server is not used before the attempt that starts it (`Fresh`), that
  sessions and pending registrations belong to calls that know their server (`Known`),
  which keeps the server from being idle; and, for the state file (`FileInv`), that a
  listening server is the one named (`Named`), that who holds the start lock knows
  what the file named when it was taken (`HolderKnows`), so that what it removes was dead
  or slow, and that a server which removes the file finds its own name in it or one that
  was written since it looked (`RemoversKnow`). All three make the exceptions that
  `SessionsFound` makes: a name written in between (`raced`), a slow probe and a stolen
  lock (`Disturbed`).
- `Review_proofs`, about `ReviewMerge`: a merged review covers both revisions it was made
  from; covering is transitive; merging into a ledger keeps everything in it and adds the
  review. These are the lemmas the two below rest on.
- `Review_proofs`, about `ReviewImportOrder`: `SameRevisionsSameLedger`, `MergedRevisionsKept`
  and `RefusalsJustified`, for any set of revisions in any two orders, with repetitions and
  refusals in between. The invariant (`LedgerExact`) describes a ledger without mention of
  an order: an entry holds exactly the pins and replies of the revisions of its review
  that were merged, and every field of it comes from one of them. Two such ledgers of the
  same revisions are equal because revisions that were both merged do not contradict
  each other.
- `Review_proofs`, about `ReviewStore`: types; that, until the lock file of a live writer
  is removed, a writer is in its critical section exactly while it holds the lock, and
  alone (`OneWriter`); `AcknowledgedReviewsKept`; and that the store implements
  `KeptReviews`, where `broken` stands for such a removal. None of them assumes that the
  lock excludes: what a theft breaks is stated in them. The invariant says of every
  writer in its critical section that was never joined by another that its copy extends
  the ledger on disk (`CopiesCurrent`), which holds because nobody else can
  write meanwhile, and that ledgers are keyed by the reviews they hold.
- `Saga_proofs`, about `EcosystemSaga`: the three properties of the run, that a step starts
  only after all its prerequisites succeeded, and that no report takes anything from a
  step that has ended, for any number of steps. The invariant says that the saga is
  reconciled and its plan acyclic; that a blocked saga has a compensated step uses a
  minimal element of the steps that have not ended.
- `Saga_proofs`, about `ReleaseOperation`: both properties of the run, that what is published
  has its digest, is not compensated and forces forward-fix-only, and that a replayed
  observation changes nothing, for any number of participants. The invariant adds that
  the phase is derived from the participants.
- `OperatingLog_proofs`: types, `WorkIsAccepted`, `AppliedAsApproved`,
  `SensitivityNeverLowered`, `DamageNoticed` and `ResumedAsReplayed`, for any events and
  any length of the log. The assumption on events is what their schema says: sensitivities
  are ranks, and a patch does not move a finding to another cycle. The invariant relates
  every accepted item to the entry that accepted it, and every route, by its state, to
  the entries that proposed, accepted and prepared it, with its plan and the digest of
  its preview (`RoutesTraced`); each kind of event has a lemma on what it changes of
  findings and routes.
  `Numbered`, that entries carry their places, is the invariant behind `DamageNoticed`:
  what stands at the place of a damage does not belong there. `Replayable` is the one
  behind `ResumedAsReplayed`: there is a board for every prefix of the log, each made of
  the one before by an event it accepts, the checkpoint has one of them and `board` is
  the last. `BoardsReached` shows by induction that replaying walks through these boards.
- `ArtifactGeneration_proofs`: `CommittedWhatPassed` and `CallsBounded`, for any number of
  attempts and runs. The invariant says that a run awaits the last of its calls
  (`Awaiting`), that all others were answered or aborted before it was made
  (`OthersSettled`, `InOrder`), and that a document that may be run has an attempt left
  (`DocumentSound`). What answers late then finds nobody who waits for it.
- `Design_proofs`, about `DesignImport`: `BothOrNeither` and `NothingDestroyed`, for any number
  of imports and of the daemon's saves, and failures or deaths at any call. The invariant
  says where an import is in its sequence of calls (`Progress`) and what undoing it from
  there would leave in each file (`Outcome`): nothing that is due, in the files or in
  backups, is missing from it (`NothingDueLost`), and until an undoing failed or a process
  died it is just what was there (`Exact`). An undone step does not change the outcome.
  What a save destroyed since it read the file (`overwritten`) is not due any more.
- `Design_proofs`, about `DesignBoard`: `KeptOrTold`, `EveryRoundOnce` and `ContributionsKept`,
  for any tabs, pins, replies, rounds and crashes. A pin is nowhere before it is dropped
  (`KnownPins`); one that is not in the file yet is in the queue of its own author's tab,
  or its reviewer was told (`Accounted`); and a round that was carried out and is still in
  the pending file, in the agent's hands or in the daemon's, is one that they share
  (`RoundsInHand`).
- `DashboardSync_proofs`: types, `ServedIsBuilt` and `PageInStep`, for any files, pages, writes,
  failed watches, failed fetches and lost connections. The invariant (`ChainInv`) is that
  the patches on their way to a page are the differences between successive graphs, the last of which
  is the one served, and that a page that missed nothing shows, item by item, the graph
  the next patch starts from or the one it fetched. `InStep` shows by induction that
  merging them leads to the last.
- `ShipEngine_proofs`: types; `DoneAfterDependencies`; `ManifestTruthful`; that only a
  person's hand takes a task from done (`DoneIsFinal`), for any tasks, dependencies,
  Preserve lists, invocations and numbers of crashes. The
  invariant `InHand` says of every task in an agent's hands that its dependencies are
  done or were set back, that no row since it was set back itself claims it done, and
  that it is in progress unless its own result is being recorded and the status has been
  written: the window in which a crash leaves the status ahead of the manifest.
  On top of it, `Budgets` relates the failed passes of a task and those it may have to the
  counts in the file and in the result being recorded, and gives `AttemptsBounded`;
  `Watched` (no version is written twice; what an agent changed differs from its hash
  until somebody restores it) gives `PreserveKept`.

Two properties say what a sequence leaves when its elements are taken one by one:
replaying a log and merging patches. The induction theorems of the library cannot be
applied to them, as they take a predicate as a parameter. The proofs argue from the least
counterexample instead (`LeastNumber`, from the well-foundedness of `<` on the natural
numbers), and show in the same way that the recursive function exists
(`TakenUpToExists`, `MergedUpToExists`).

Out of the prover's reach and left to TLC: liveness under fairness and ENABLED
(`AcquisitionEnds`, `DeadOwnerReclaimed`, `WritesAnswered`, `StartsEnd`, `EmptyServersEnd`,
`RunEnds`, `PagesFollow`, `EditsArrive`, `ShipEnds`). No module declares a RECURSIVE operator.

## Where code and documents disagree

Four properties state what a comment or a document says, and the model of the code
does not have them. Each is defined in its module and refuted by TLC when it is added
to the run's cfg:

- `StartLock`, `OnlyDeadOwnersLockRemoved`: `server-util.mjs:253-255` says that only a dead
  owner's lock is removed. A waiter that gets EEXIST just before the owner releases
  finds no file, takes it for an old invalid lock, and removes the file of whoever is
  next.
- `ReviewStore`, `FreshReviewsAreCurrent`: `docs/artifact-review.md:112-113` says that stale
  input is rejected. The digest of a review is compared before its write is queued;
  after another session retargeted the ledger it is committed as current.
- `ReleaseOperation`, `CompensationOnlyBeforePublication`:
  `docs/protocol/operating-board.md:310-312` says that an operation is forward-fix-only
  once any package is published. The other participants may still be reported as
  compensated.
- `DesignBoard`, `SubmissionRead`: `feedback.mjs:296-297` says that the agent reads whichever
  file the board produced. A fold leaves an emptied pending file behind, which is read
  first and is not valid, so every later read throws.

Behaviours that the models have, or that reading the code for them showed:

- Two writers can be in the critical section of a ledger at once, since the lock of a live
  one can be removed (`server-util.mjs:283-291`), and no crash is needed: a waiter that
  finds the file just before its owner releases it takes it for an invalid one and
  removes the next owner's. The later write then takes back what the earlier one's
  reviewer was told is stored: hence `lost` in `AcknowledgedReviewsKept`, without which TLC
  refutes it.
- A server that ends reads the state file and then removes it
  (`review-server.mjs:788-793`); the name that a server of another process writes in
  between goes with it, and nobody finds that server or shares it: hence `raced` in
  `SessionsFound`.
- `feedback.mjs:303` ("consumed on read — never double-applied") and `daemon.mjs:306-307`
  ("can never be double-applied") hold unless the agent reads the pending round while the
  daemon folds it, or the daemon dies between the two writes of the fold: hence `shared`
  in `EveryRoundOnce`. An agent that deletes the file may delete a newer round unread, and
  a newer round may be written over an older one: hence `gone`.
- A tab that misses an update before its event stream is connected, or that gets two
  answers in the other order, shows old pins until somebody contributes again
  (`board-adapter.mjs:42-50, 361`); `docs/design-review.md:109-110` expects about a second.
- A reviewer's `changes_requested` lives in the tab only; the next fetch or reload turns
  it into `pending` (`feedback.mjs:452`, against `docs/design-review.md:12`).
- A save carries the whole review of its tab, so a tab that is behind sets statuses back
  and brings deleted pins back (`board-adapter.mjs:56`); `feedback resolve` overwrites a
  status that changed while it ran (accepted by the comment at `cli.mjs:467`).
- `docs/artifact-review.md:291` calls the merges of an import atomic. A process that dies
  between the renames leaves one file or none at its path; nothing looks for the
  backups, and the next import begins from an empty file (`import.mjs:313-323`): hence
  `crash` in `BothOrNeither`, and `NothingDestroyed` counts backups. A board save made
  during an import may be lost from the file, as the daemon does not take the import's
  lock. The other way round is worse: a save that reads the feedback before an import's
  renames and writes it after them takes the imported pins out of it, and one that finds
  no file between two renames writes a record of its own pins alone; the backups are
  removed and the import has returned. Hence `overwritten` in both properties.
- A dashboard page that connects after a patch was broadcast, or connects again, is not
  brought up to date: it fetches once (`main.js:297-323, 563-577`). This is `spoiled`;
  `PagesSync` states live sync without that exception and does not hold. A change that
  is undone between two polls, or made between the first build and the watch, is not
  noticed: `unwatched`.
- A review call that was given a server of another process, and finds it gone, fails with
  a connection error and is not tried again (`review-server.mjs:932-935`). A client that
  leaves in the middle of its registration may leave a session that nobody closes, or a
  server whose idle timer is never set: hence `gave up` in `EmptyServersEnd`.
- `docs/protocol/operating-board.md` says that quiet cycles may close without
  dispositions, and `assertCycleDisposable` asks for them whatever the cycle is
  (`reducer.mjs:330-362`). `outcome.registered` is called the immutable contract there;
  a second registration of the outcome replaces it (`reducer.mjs:543-584`).
- An event id used before a checkpoint is accepted again after it, and the replay of the
  whole log then throws (`reducer.mjs:126-153, 813-820`): hence `UniqueIds` in
  `ResumedAsReplayed`. The confidence ceiling of a finding binds its acceptance only;
  a later patch may raise the confidence above it (`reducer.mjs:464-506`).
- A generation run that exhausts its attempts throws, and the caller, which still holds the
  session as it was, may run it again with all attempts (`generator.mjs:526`).
- A crash before a failed pass is in the task's file buys one more pass, and so does an
  invocation that enqueues a blocked task (`engine.mjs:463-473`, against
  `docs/rules.md:105`): hence `allowed` in `AttemptsBounded`. `commands/ship.md:178` enqueues
  blocked tasks, `nextShipBatch` leaves them out. After a crash a done task may lack its
  manifest row (`unlogged`), and a blocked one its report.
- After a crash the Preserve paths are hashed anew, changed ones included
  (`engine.mjs:394`, against `docs/rules.md:86`): what was damaged before it goes
  unnoticed, and `PreserveKept` does not claim it.
- `verifyPreserve` refuses the result of a task for a change that the agent of a parallel
  task made and was allowed to make (`engine.mjs:447`), and its hint reverts the other's
  work. `ShipEnds` holds for all that, but under the fairness that somebody restores.
- A person who sets a done task back leaves its dependents done: hence `redone` in
  `DoneAfterDependencies`.
- A page of the dashboard whose one fetch of the graph fails never fetches again
  (`main.js:566-573`): such a page is exempt from `PagesFollow`.
- The correction count is not reset when a person sets a blocked task back to pending:
  one more failure blocks it (`engine.mjs:463`). `finalizeShip` does not ask whether all
  tasks are done.

## Not modelled

- Formats (envelope, codec, crypto, bundle, JSON canonicalisation, schemas), rendering,
  prompts, scripts, and validation of one document at a time (cadence, mandates,
  missions, research, citations, the adapter handoff, guided interaction): functions
  without state, or I/O, where a model would restate the code. The browser bundles
  `templates/design/design-board-adapter.js` and `templates/artifact-review-stage.js`
  are generated from the code of `lib/` that is modelled where it keeps state.
- Live rooms: the reducer of room events has no caller in the repository, and which events
  reach it, and in what order, is up to a service outside it.
- The start of the board daemon and the small stores of boards, tokens, sessions and taste
  memory: files that one command rewrites, without a lock; two commands at a time lose
  one of two changes, and no code relies on more.
- Presence lists, ratings, progress and exports of a board, PLAN, provenance rows: they
  append, or merge the way pins do. Two orchestrators on one feature at once, which
  `commands/ship.md` forbids.
- Signatures of checkpoints, summaries and warnings of the operating board; templates and
  content checks of generated artifacts; the readers that build the dashboard's graph;
  routes and limits of the review server beside the life of sessions.
- The error codes of a generator's own; a first build of the dashboard's graph that throws,
  with which the server does not start; which patches a page repaints.
- Of SHIP: dispatch of one task at a time, and task files changed by hand while the
  orchestrator records a result, or project files between invocations.
- Reading a file that another process is writing in place is modelled for the feedback
  file of a daemon that died (`CrashWriting`) and for the files of the dashboard (`half`).

## Plan

What is left, most important first:

1. Proofs: that the lock steps of `ReviewStore` are those of `StartLock`, as a refinement;
   that a step towards each liveness property brings its end nearer (a measure
   that decreases), which is the part of those properties the prover could state.
2. The start of the board daemon, in the manner of `ReviewServer`.
3. `LiveRoom`, when something in the repository applies room events.
