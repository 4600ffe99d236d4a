----------------------------- MODULE ShipEngine ------------------------------
(***************************************************************************)
(* The SHIP phase of lib/pipeline/engine.mjs.  The tasks of a feature are  *)
(* files with a status and dependencies.  An orchestrator (an agent's      *)
(* runtime; commands/ship.md says how it drives the engine) prepares the   *)
(* phase, lets agents work on every task that is ready, in parallel, and   *)
(* records their results.  Recording a result rewrites two files, may      *)
(* write a report and appends to the run manifest, in this order, and a    *)
(* crash can come between any two of these.  The phase may be invoked      *)
(* again and again, and a person may set a task back in between.  Within   *)
(* the orchestrator the engine's calls are synchronous; the agents work    *)
(* beside it.                                                              *)
(***************************************************************************)
EXTENDS Naturals, Sequences, FiniteSets

CONSTANTS Tasks,     \* the tasks of the feature
          Missing,   \* an id in dependsOn that is no task of the feature
          Plans,     \* the dependencies that PLAN may have given the tasks
          Paths,     \* files of the project that agents write
          Preserve,  \* the paths a task must leave alone
          Idle,      \* no result is being recorded
          MaxWrites, MaxCrashes, MaxFlips, MaxInvocations

ASSUME ShipEngineAssumption ==
    /\ Missing \notin Tasks
    /\ Plans \subseteq [Tasks -> SUBSET (Tasks \cup {Missing})]
    /\ Preserve \in [Tasks -> SUBSET Paths]
    /\ {MaxWrites, MaxCrashes, MaxFlips, MaxInvocations} \subseteq Nat

Statuses == {"pending", "in-progress", "done", "blocked"}
Results  == {"done", "blocked", "retry"}
Rows     == {"success", "failure", "skipped"}
Phases   == {"planned", "shipping", "shipped", "died"}
MaxCorrections == 3

Version == 0 .. MaxWrites
Hashes  == [Paths -> Version]

Recording == [task: Tasks, result: Results, count: Nat, status: Statuses,
              at: {"corrections", "status", "report", "manifest"}]

ASSUME IdleAssumption == Idle \notin Recording

VARIABLES
    dependsOn,    \* the dependencies of each task, fixed by PLAN
    status,       \* the status in each task file
    corrections,  \* .corrections.json: failed corrections of each task
    reports,      \* tasks that have an error report
    manifest,     \* .run-manifest.jsonl: the rows of each task
    content,      \* what is in each path
    phase,        \* how far the last invocation has come
    hashes,       \* what was in each path when it was prepared
    queue,        \* the tasks it has enqueued and not yet dispatched
    running,      \* the tasks an agent works on
    recording,    \* the result the orchestrator is recording
    failures,     \* history: failed passes of each task
    allowed,      \* history: failed passes it may have
    touched,      \* history: paths of its Preserve list that a task's agent has changed
                  \*   since they were hashed and nobody has restored
    redone,       \* history: tasks that were done when a person set them back
    since,        \* history: rows a task had when that happened last
    unlogged,     \* history: tasks done whose row a crash has prevented
    writes, crashes, flips, invocations

files   == <<status, corrections, reports, manifest>>
memory  == <<phase, hashes, queue>>
history == <<failures, allowed, touched, redone, since, unlogged>>
bounds  == <<writes, crashes, flips, invocations>>
vars    == <<dependsOn, files, content, memory, running, recording, history, bounds>>

TypeOK ==
    /\ dependsOn \in Plans
    /\ status \in [Tasks -> Statuses]
    /\ corrections \in [Tasks -> Nat]
    /\ reports \subseteq Tasks
    /\ manifest \in [Tasks -> Seq(Rows)]
    /\ content \in Hashes /\ hashes \in Hashes
    /\ phase \in Phases
    /\ queue \subseteq Tasks /\ running \subseteq Tasks
    /\ recording \in Recording \cup {Idle}
    /\ failures \in [Tasks -> Nat] /\ allowed \in [Tasks -> Nat]
    /\ touched \in [Tasks -> SUBSET Paths]
    /\ redone \subseteq Tasks /\ unlogged \subseteq Tasks
    /\ since \in [Tasks -> Nat]
    /\ writes \in 0 .. MaxWrites /\ crashes \in 0 .. MaxCrashes
    /\ flips \in 0 .. MaxFlips /\ invocations \in 0 .. MaxInvocations

\* PLAN has written the tasks, with whatever dependencies.
Init ==
    /\ dependsOn \in Plans
    /\ status = [t \in Tasks |-> "pending"]
    /\ corrections = [t \in Tasks |-> 0]
    /\ reports = {}
    /\ manifest = [t \in Tasks |-> <<>>]
    /\ content = [p \in Paths |-> 0] /\ hashes = content
    /\ phase = "planned"
    /\ queue = {} /\ running = {}
    /\ recording = Idle
    /\ failures = [t \in Tasks |-> 0] /\ allowed = [t \in Tasks |-> MaxCorrections]
    /\ touched = [t \in Tasks |-> {}]
    /\ redone = {} /\ unlogged = {}
    /\ since = [t \in Tasks |-> 0]
    /\ writes = 0 /\ crashes = 0 /\ flips = 0 /\ invocations = 0

-----------------------------------------------------------------------------
(* An invocation begins.                                                    *)

Done    == {t \in Tasks : status[t] = "done"}
Blocked == {t \in Tasks : status[t] = "blocked"}

\* prepareShip hashes the Preserve paths of all tasks at once; then the tasks are
\* enqueued, the blocked ones too if ship.md's queue is used and not if it is
\* nextShipBatch's, and each one that is done gets a row that says it is skipped.
Prepare ==
    /\ phase # "shipping"
    /\ invocations < MaxInvocations /\ invocations' = invocations + 1
    /\ phase' = "shipping"
    /\ hashes' = content
    /\ \E retried \in {{}, Blocked} : queue' = (Tasks \ (Done \cup Blocked)) \cup retried
    /\ manifest' = [t \in Tasks |-> IF t \in Done THEN Append(manifest[t], "skipped")
                                    ELSE manifest[t]]
    /\ UNCHANGED <<dependsOn, status, corrections, reports, content, running, recording,
                   history, writes, crashes, flips>>

-----------------------------------------------------------------------------
(* nextShipBatch, and the dispatch of what it finds.                        *)

\* Mutant: a dependency that is blocked or missing does not hold a task up.
DependenciesSettled(t) ==
    \A d \in dependsOn[t] : d \in Tasks => status[d] \in {"done", "blocked"}

DependenciesDone(t) == \A d \in dependsOn[t] : d \in Done

Ready == {t \in queue : DependenciesDone(t)}

\* Every task that is ready is stamped and given to an agent.
Dispatch ==
    /\ phase = "shipping" /\ recording = Idle
    /\ Ready # {}
    /\ queue' = queue \ Ready
    /\ running' = running \cup Ready
    /\ status' = [t \in Tasks |-> IF t \in Ready THEN "in-progress" ELSE status[t]]
    /\ allowed' = [t \in Tasks |-> IF t \in Ready \cap Blocked THEN allowed[t] + 1 ELSE allowed[t]]
    /\ UNCHANGED <<dependsOn, corrections, reports, manifest, content, phase, hashes, recording,
                   failures, touched, redone, since, unlogged, bounds>>

\* An agent works on the task: its result is not being recorded.
Working(t) == t \in running /\ (recording # Idle => recording.task # t)

\* The agent of a task writes something new into a file.
Write(t, p) ==
    /\ Working(t)
    /\ writes < MaxWrites /\ writes' = writes + 1
    /\ content' = [content EXCEPT ![p] = writes + 1]
    /\ touched' = [touched EXCEPT ![t] = @ \cup ({p} \cap Preserve[t])]
    /\ UNCHANGED <<dependsOn, files, memory, running, recording, failures, allowed, redone,
                   since, unlogged, crashes, flips, invocations>>

\* verifyPreserve: the paths are what they were when the phase was prepared.
Changed(t) == {p \in Preserve[t] : content[p] # hashes[p]}

\* "Restore these paths before recording the task result."
Restore(t) ==
    /\ Working(t) /\ Changed(t) # {}
    /\ content' = [p \in Paths |-> IF p \in Changed(t) THEN hashes[p] ELSE content[p]]
    /\ touched' = [u \in Tasks |-> touched[u] \ Changed(t)]
    /\ UNCHANGED <<dependsOn, files, memory, running, recording, failures, allowed, redone,
                   since, unlogged, bounds>>

-----------------------------------------------------------------------------
(* recordTaskResult.                                                        *)

CorrectionCount(t, result) ==
    IF result = "retry" THEN corrections[t] + 1
    ELSE IF result = "blocked" /\ corrections[t] < MaxCorrections THEN MaxCorrections
    ELSE corrections[t]

\* Mutant: a fourth correction is allowed.
EffectiveStatusLenient(t, result) ==
    IF result # "retry" THEN result
    ELSE IF CorrectionCount(t, result) > MaxCorrections THEN "blocked" ELSE "in-progress"

EffectiveStatus(t, result) ==
    IF result # "retry" THEN result
    ELSE IF CorrectionCount(t, result) >= MaxCorrections THEN "blocked" ELSE "in-progress"

\* Mutant: the Preserve paths are not compared.
TakeResultUnverified(t, result) ==
    /\ recording = Idle /\ t \in running
    /\ recording' = [task |-> t, result |-> result,
                     count |-> CorrectionCount(t, result),
                     status |-> EffectiveStatus(t, result), at |-> "corrections"]
    /\ failures' = [failures EXCEPT ![t] = IF result = "retry" THEN @ + 1 ELSE @]
    /\ UNCHANGED <<dependsOn, files, content, memory, running, allowed, touched, redone, since,
                   unlogged, bounds>>

\* An agent comes back; its result is refused while Preserve paths differ.
TakeResult(t, result) ==
    /\ recording = Idle /\ t \in running
    /\ Changed(t) = {}
    /\ recording' = [task |-> t, result |-> result,
                     count |-> CorrectionCount(t, result),
                     status |-> EffectiveStatus(t, result), at |-> "corrections"]
    /\ failures' = [failures EXCEPT ![t] = IF result = "retry" THEN @ + 1 ELSE @]
    /\ UNCHANGED <<dependsOn, files, content, memory, running, allowed, touched, redone, since,
                   unlogged, bounds>>

GoOn(at) == recording' = [recording EXCEPT !.at = at]

WriteCorrections ==
    /\ recording # Idle /\ recording.at = "corrections"
    /\ corrections' = [corrections EXCEPT ![recording.task] = recording.count]
    /\ GoOn("status")
    /\ UNCHANGED <<dependsOn, status, reports, manifest, content, memory, running, history,
                   bounds>>

WriteStatus ==
    /\ recording # Idle /\ recording.at = "status"
    /\ status' = [status EXCEPT ![recording.task] = recording.status]
    /\ GoOn(IF recording.status = "blocked" /\ recording.result = "retry"
            THEN "report" ELSE "manifest")
    /\ UNCHANGED <<dependsOn, corrections, reports, manifest, content, memory, running, history,
                   bounds>>

WriteReport ==
    /\ recording # Idle /\ recording.at = "report"
    /\ reports' = reports \cup {recording.task}
    /\ GoOn("manifest")
    /\ UNCHANGED <<dependsOn, status, corrections, manifest, content, memory, running, history,
                   bounds>>

\* Mutant: only a blocked task counts as a failure.
AppendManifestLenient ==
    /\ recording # Idle /\ recording.at = "manifest"
    /\ manifest' = [manifest EXCEPT ![recording.task] =
           Append(@, IF recording.status = "blocked" THEN "failure" ELSE "success")]
    /\ running' = IF recording.status = "in-progress" THEN running ELSE running \ {recording.task}
    /\ recording' = Idle
    /\ UNCHANGED <<dependsOn, status, corrections, reports, content, memory, history, bounds>>

\* The agent of a task in progress makes another pass; the others are done with.
AppendManifest ==
    /\ recording # Idle /\ recording.at = "manifest"
    /\ manifest' = [manifest EXCEPT ![recording.task] =
           Append(@, IF recording.status = "done" THEN "success" ELSE "failure")]
    /\ running' = IF recording.status = "in-progress" THEN running ELSE running \ {recording.task}
    /\ recording' = Idle
    /\ UNCHANGED <<dependsOn, status, corrections, reports, content, memory, history, bounds>>

-----------------------------------------------------------------------------
\* Mutant: the phase is finalized only if every task is done.
FinalizeComplete ==
    /\ phase = "shipping" /\ recording = Idle /\ running = {}
    /\ Done = Tasks
    /\ phase' = "shipped"
    /\ UNCHANGED <<dependsOn, files, content, hashes, queue, running, recording, history, bounds>>

\* finalizeShip, which the orchestrator calls when its queue has drained, writes
\* the marker .pipeline-shipped.
Finalize ==
    /\ phase = "shipping" /\ recording = Idle /\ running = {}
    /\ Ready = {}
    /\ phase' = "shipped"
    /\ UNCHANGED <<dependsOn, files, content, hashes, queue, running, recording, history, bounds>>

\* "manually flip it back to pending (or blocked ...)": a person has a task that is
\* done worked on again, or one that is blocked taken up as if it were new.
SetBack(t, to) ==
    /\ recording = Idle
    /\ status[t] \in {"done", "blocked"} /\ to # status[t]
    /\ flips < MaxFlips /\ flips' = flips + 1
    /\ status' = [status EXCEPT ![t] = to]
    /\ allowed' = [allowed EXCEPT ![t] = IF status[t] = "blocked" THEN @ + 1 ELSE @]
    /\ redone' = redone \cup ({t} \cap Done)
    /\ since' = [since EXCEPT ![t] = IF t \in Done THEN Len(manifest[t]) ELSE @]
    /\ unlogged' = unlogged \ ({t} \cap Done)
    /\ UNCHANGED <<dependsOn, corrections, reports, manifest, content, memory, running, recording,
                   failures, touched, writes, crashes, invocations>>

\* A failed pass of t that is not yet in its file.
FailureUnwritten(t) ==
    /\ recording # Idle /\ recording.task = t /\ recording.result = "retry"
    /\ recording.at \in {"corrections", "status"}

\* A result whose row is missing although the file already says that t is done.
SuccessUnlogged(t) ==
    /\ recording # Idle /\ recording.task = t /\ recording.status = "done"
    /\ recording.at = "manifest"

\* The orchestrator dies with its agents.
Crash ==
    /\ phase = "shipping" /\ phase' = "died"
    /\ crashes < MaxCrashes /\ crashes' = crashes + 1
    /\ queue' = {} /\ running' = {}
    /\ recording' = Idle
    /\ touched' = [t \in Tasks |-> {}]
    /\ allowed' = [t \in Tasks |-> IF FailureUnwritten(t) THEN allowed[t] + 1 ELSE allowed[t]]
    /\ unlogged' = unlogged \cup {t \in Tasks : SuccessUnlogged(t)}
    /\ UNCHANGED <<dependsOn, files, content, hashes, failures, redone, since, writes, flips,
                   invocations>>

Record == WriteCorrections \/ WriteStatus \/ WriteReport \/ AppendManifest

Next ==
    \/ Prepare
    \/ Dispatch
    \/ \E t \in Tasks, p \in Paths : Write(t, p)
    \/ \E t \in Tasks : Restore(t)
    \/ \E t \in Tasks, result \in Results : TakeResult(t, result)
    \/ Record
    \/ Finalize
    \/ \E t \in Tasks, to \in {"pending", "blocked"} : SetBack(t, to)
    \/ Crash

Spec == Init /\ [][Next]_vars

\* The orchestrator goes on, agents come back with some result, and what an
\* agent changed although it must not is restored.
Fairness ==
    /\ WF_vars(Dispatch) /\ WF_vars(Record) /\ WF_vars(Finalize)
    /\ \A t \in Tasks : /\ WF_vars(Restore(t))
                        /\ WF_vars(\E result \in Results : TakeResult(t, result))

FairSpec == Spec /\ Fairness

-----------------------------------------------------------------------------
(* Properties.                                                              *)

\* A task is done only after everything it depends on, whatever is recorded later
\* and also when the orchestrator dies while it records (nextShipBatch and
\* recordTaskResult).  A dependency that is not done any more is one that a person
\* has set back since.
DoneAfterDependencies ==
    \A t \in Done : \A d \in dependsOn[t] : d \in Done \cup redone

\* "A task whose frontmatter says done is canonically shipped. Step 2 never
\* re-dispatches it" (commands/ship.md): crashes, new invocations and what is
\* recorded of other tasks never take this status away, only a person's hand does.
DoneIsFinal ==
    [][\A t \in Done : status'[t] # "done" => \E to \in {"pending", "blocked"} : SetBack(t, to)]_vars

Claims == {"success", "skipped"}

\* The manifest tells the truth about a task, from when a person last set it back:
\* after a row that claims the task done come only rows that skip it, and its file
\* says done too; and a task that is done has a row of its success, unless it is
\* about to be appended or a crash came after the file was written and before that.
ManifestTruthful ==
    \A t \in Tasks :
        /\ \A i \in since[t] + 1 .. Len(manifest[t]) : manifest[t][i] \in Claims =>
               /\ t \in Done
               /\ \A j \in i + 1 .. Len(manifest[t]) : manifest[t][j] = "skipped"
        /\ t \in Done =>
               \/ \E i \in since[t] + 1 .. Len(manifest[t]) : manifest[t][i] = "success"
               \/ t \in unlogged
               \/ SuccessUnlogged(t)

\* R6, "After 3 failed passes: STOP" (docs/rules.md): the third failed pass, and not
\* the fourth, blocks a task, through all invocations and orchestrators.  It gets one
\* pass more each time it is taken up again when it was blocked, and each time the
\* orchestrator dies before a failed pass of it is in its file.
AttemptsBounded ==
    \A t \in Tasks :
        /\ failures[t] <= allowed[t]
        /\ failures[t] = allowed[t] /\ t \notin running => t \in Blocked

\* R5: when a task is done, the paths of its Preserve list that its agent changed
\* have been restored, by it or by the agent of a parallel task that preserves them
\* too, whatever other agents write (verifyPreserve, prepareShip).  What was changed
\* before a crash is in the next hashes and is not noticed.
PreserveKept == \A t \in Done : touched[t] = {}

\* Every invocation comes to an end, however the dependencies are: with its marker,
\* or because the orchestrator dies.
ShipEnds == phase = "shipping" ~> phase \in {"shipped", "died"}
=============================================================================
