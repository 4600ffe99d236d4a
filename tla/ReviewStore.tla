----------------------------- MODULE ReviewStore -----------------------------
(***************************************************************************)
(* The durable review ledger of one artifact and everything that writes it:*)
(* the sessions of a review server (lib/artifact/review-server.mjs) and    *)
(* `artifact import` commands in processes of their own                    *)
(* (lib/artifact/import.mjs), serialised by withArtifactReviewLock         *)
(* (lib/artifact/review.mjs).                                              *)
(*                                                                         *)
(* A locked read-modify-write is two steps here, one that takes the lock   *)
(* and reads and one that writes and lets go, so that another writer or a  *)
(* crash can fall between them.  The write itself is one step: a private   *)
(* file is renamed over the ledger (an import into a design folder writes  *)
(* two files, see DesignImport).                                           *)
(*                                                                         *)
(* The writers of one process take turns (reviewPathQueues); those of      *)
(* different processes share a lock file, the one of StartLock.  Here a    *)
(* waiter finds the file, judges it and removes whatever is at its path in *)
(* three steps, which is what makes the lock less than exclusive.          *)
(***************************************************************************)
EXTENDS ReviewMerge, Sequences

CONSTANTS Sessions,     \* review sessions of the server
          Imports,      \* import commands
          Submissions,  \* the reviews that reviewers submit or import
          MaxQueue,     \* bound: writes waiting in one session
          MaxSources,   \* bound: reviews named by one import
          MaxThefts,    \* bound: thefts of the lock, then no waiter looks
          Server,       \* the process of the sessions; an import is one itself
          NoDigest,     \* a session is not registered
          NoLedger,     \* there is no ledger file, or no copy of it
          Nobody,       \* there is no lock file
          Orphan        \* the lock file was left by a process that died

ASSUME ReviewStoreAssumption ==
    /\ Submissions \subseteq Review
    /\ MaxQueue \in Nat
    /\ MaxSources \in Nat
    /\ MaxThefts \in Nat
    /\ Sessions \cap Imports = {}
    /\ Server \notin Imports
    /\ NoDigest \notin Digests
    /\ NoLedger \notin Ledger
    /\ Nobody \notin Sessions \cup Imports \cup {Orphan}
    /\ Orphan \notin Sessions \cup Imports

Writers == Sessions \cup Imports

Processes == {Server} \cup Imports

ProcessOf(w) == IF w \in Sessions THEN Server ELSE w

VARIABLES
    durable,  \* the ledger file, or NoLedger before the first write
    lock,     \* the lock file: the writer that created it
    looking,  \* what the waiter of a process made of the lock file it found
    stage,    \* what each writer is doing
    copy,     \* the ledger a writer read under the lock and is changing
    todo,     \* reviews a writer has yet to merge into its copy
    batch,    \* reviews it has merged
    known,    \* the digest in a session's reviewState
    queue,    \* a session's writeQueue
    acked,    \* history: reviews whose writer was told they are stored
    thefts,   \* history: how often a live writer's lock file was removed
    mixed,    \* history: busy writers that were busy at once with another
    lost      \* history: reviews of acked that a mixed writer wrote away

lockVars == <<lock, looking, thefts>>
sessionVars == <<known, queue>>
told == <<acked, lost>>

vars == <<durable, lockVars, stage, copy, todo, batch, sessionVars, told, mixed>>

Stages == {"closed", "registering", "open", "committing", "idle", "importing"}

\* The stages of a writer between reading the ledger and writing it.
Busy == {"registering", "committing", "importing"}

TypeOK ==
    /\ durable \in Ledger \cup {NoLedger}
    /\ lock \in Writers \cup {Nobody, Orphan}
    /\ looking \in [Processes -> {"no", "found", "removing"}]
    /\ stage \in [Writers -> Stages]
    /\ copy \in [Writers -> Ledger \cup {NoLedger}]
    /\ todo \in [Writers -> Seq(Submissions)]
    /\ batch \in [Writers -> SUBSET Submissions]
    /\ known \in [Sessions -> Digests \cup {NoDigest}]
    /\ queue \in [Sessions -> Seq(Submissions)]
    /\ acked \subseteq Submissions
    /\ thefts \in Nat
    /\ mixed \subseteq Writers
    /\ lost \subseteq Submissions

Init ==
    /\ durable = NoLedger
    /\ lock = Nobody
    /\ looking = [p \in Processes |-> "no"]
    /\ stage = [w \in Writers |-> IF w \in Sessions THEN "closed" ELSE "idle"]
    /\ copy = [w \in Writers |-> NoLedger]
    /\ todo = [w \in Writers |-> <<>>]
    /\ batch = [w \in Writers |-> {}]
    /\ known = [s \in Sessions |-> NoDigest]
    /\ queue = [s \in Sessions |-> <<>>]
    /\ acked = {}
    /\ thefts = 0
    /\ mixed = {}
    /\ lost = {}

----------------------------------------------------------------------------
\* readArtifactReviewState(...) ?? createReviewLedger(...)
ReadOrCreate(digest) == IF durable = NoLedger THEN EmptyLedger(digest) ELSE durable

\* Mutant: a session for a new digest starts a new ledger.
RetargetFresh(ledger, digest) ==
    IF ledger.current = digest THEN ledger ELSE EmptyLedger(digest)

\* A session for another digest retargets the ledger: what was said about other
\* digests is kept and labelled stale.
Retarget(ledger, digest) ==
    IF ledger.current = digest THEN ledger
    ELSE [current |-> digest,
          entries |-> [i \in ReviewIds |->
              LET entry == ledger.entries[i]
              IN  IF entry = NoEntry THEN NoEntry
                  ELSE [entry EXCEPT !.stale = @ \/ entry.review.of # digest]]]

BusyWriters == {w \in Writers : stage[w] \in Busy}

\* The process has no writer inside and is not looking at a lock file.
Turn(process) ==
    /\ looking[process] = "no"
    /\ \A w \in BusyWriters : ProcessOf(w) # process

\* openSync: the lock file is created, unless it is there.
Take(w) == Turn(ProcessOf(w)) /\ lock = Nobody /\ lock' = w

Begin(w, newStage, ledger, reviews) ==
    /\ Take(w)
    /\ stage' = [stage EXCEPT ![w] = newStage]
    /\ copy' = [copy EXCEPT ![w] = ledger]
    /\ todo' = [todo EXCEPT ![w] = reviews]
    /\ mixed' = IF BusyWriters = {} THEN mixed ELSE BusyWriters \cup {w}
    /\ UNCHANGED <<batch, looking, thefts>>

\* The release function removes the lock file if it still is this writer's.
Leave(w, newStage) ==
    /\ lock' = IF lock = w THEN Nobody ELSE lock
    /\ stage' = [stage EXCEPT ![w] = newStage]
    /\ copy' = [copy EXCEPT ![w] = NoLedger]
    /\ todo' = [todo EXCEPT ![w] = <<>>]
    /\ batch' = [batch EXCEPT ![w] = {}]
    /\ mixed' = mixed \ {w}
    /\ UNCHANGED <<looking, thefts>>

\* Merge the next review into the writer's copy.
MergeNext(w, stale) ==
    LET review == Head(todo[w])
    IN  /\ todo[w] # <<>>
        /\ ~LedgerConflict(copy[w], review)
        /\ copy' = [copy EXCEPT ![w] = MergeLedger(@, review, stale)]
        /\ todo' = [todo EXCEPT ![w] = Tail(@)]
        /\ batch' = [batch EXCEPT ![w] = @ \cup {review}]
        /\ UNCHANGED <<durable, lockVars, stage, sessionVars, told, mixed>>

\* The next review conflicts; or all are merged, and the ledger is too large or
\* cannot be written.  The writer throws and the ledger stays as it is.
Throw(w, newStage) ==
    /\ todo[w] # <<>> => LedgerConflict(copy[w], Head(todo[w]))
    /\ Leave(w, newStage)
    /\ UNCHANGED <<durable, known, told>>

\* The copy takes the ledger's place.  A writer that was not alone may write away
\* what another one stored meanwhile.
Replace(w) ==
    LET atRisk == IF w \in mixed THEN acked ELSE lost
    IN  /\ durable' = copy[w]
        /\ lost' = {review \in atRisk : ~Holds(copy[w], review)}

\* Mutant: the caller is answered before the ledger is written.
WriteLater(w, newStage) ==
    /\ todo[w] = <<>>
    /\ Leave(w, newStage)
    /\ acked' = acked \cup batch[w]
    /\ UNCHANGED <<durable, lost>>

\* Everything is merged: replace the ledger, let go and answer the caller.
Write(w, newStage) ==
    /\ todo[w] = <<>>
    /\ Leave(w, newStage)
    /\ Replace(w)
    /\ acked' = acked \cup batch[w]

----------------------------------------------------------------------------
\* POST /internal/v1/sessions, initializeSessionReview: under the lock, read or
\* create the ledger, retarget it, merge the envelope's own review, write.  An
\* envelope is valid only if its review is about its own digest.
RegisterBegin(s) ==
    /\ stage[s] = "closed"
    /\ \E d \in Digests :
         \E reviews \in {<<>>} \cup {<<r>> : r \in {r \in Submissions : r.of = d}} :
            Begin(s, "registering", Retarget(ReadOrCreate(d), d), reviews)
    /\ UNCHANGED <<durable, sessionVars, told>>

RegisterMerge(s) == stage[s] = "registering" /\ MergeNext(s, FALSE)

RegisterEnd(s) ==
    /\ stage[s] = "registering"
    /\ \/ Throw(s, "closed")
       \/ Write(s, "open") /\ known' = [known EXCEPT ![s] = copy[s].current]
    /\ UNCHANGED queue

\* PUT api/review, queueSessionReviewWrite: the digest is compared with the one
\* in the session's memory, before the write is queued.
Submit(s, review) ==
    /\ stage[s] \in {"open", "committing"}
    /\ Len(queue[s]) < MaxQueue
    /\ review.of = known[s]
    /\ queue' = [queue EXCEPT ![s] = Append(@, review)]
    /\ UNCHANGED <<durable, lockVars, stage, copy, todo, batch, known, told, mixed>>

\* commit: take the lock and read the ledger.
CommitBegin(s) ==
    /\ stage[s] = "open"
    /\ queue[s] # <<>>
    /\ Begin(s, "committing", ReadOrCreate(known[s]), <<Head(queue[s])>>)
    /\ UNCHANGED <<durable, sessionVars, told>>

CommitMerge(s) == stage[s] = "committing" /\ MergeNext(s, FALSE)

\* Mutant: a write that failed is tried again and again.
CommitEndRetries(s) ==
    /\ stage[s] = "committing"
    /\ \/ Throw(s, "open") /\ UNCHANGED queue
       \/ /\ Write(s, "open")
          /\ known' = [known EXCEPT ![s] = copy[s].current]
          /\ queue' = [queue EXCEPT ![s] = Tail(@)]

\* commit: write and remember the ledger, or throw.  Either way the next write of
\* the queue goes on.
CommitEnd(s) ==
    /\ stage[s] = "committing"
    /\ queue[s] # <<>>
    /\ \/ Throw(s, "open")
       \/ Write(s, "open") /\ known' = [known EXCEPT ![s] = copy[s].current]
    /\ queue' = [queue EXCEPT ![s] = Tail(@)]

\* commit: the lock stayed busy until acquireStartLock timed out.
CommitTimeout(s) ==
    /\ stage[s] = "open"
    /\ queue[s] # <<>>
    /\ Turn(Server)
    /\ lock # Nobody
    /\ queue' = [queue EXCEPT ![s] = Tail(@)]
    /\ UNCHANGED <<durable, lockVars, stage, copy, todo, batch, known, told, mixed>>

\* GET, refreshSessionReview: a locked read into the session's memory.  It is
\* assigned before the next writer of the process has its turn.
Refresh(s) ==
    /\ stage[s] = "open"
    /\ Turn(Server)
    /\ lock = Nobody
    /\ durable # NoLedger
    /\ known' = [known EXCEPT ![s] = durable.current]
    /\ UNCHANGED <<durable, lockVars, stage, copy, todo, batch, queue, told, mixed>>

\* DELETE session, after the writes that were queued.  A PUT that found the
\* session before goes on writing after: here the session closes once it has.
Close(s) ==
    /\ stage[s] = "open"
    /\ queue[s] = <<>>
    /\ stage' = [stage EXCEPT ![s] = "closed"]
    /\ known' = [known EXCEPT ![s] = NoDigest]
    /\ UNCHANGED <<durable, lockVars, copy, todo, batch, queue, told, mixed>>

----------------------------------------------------------------------------
SourceLists == UNION {[1..n -> Submissions] : n \in 1..MaxSources}

\* importArtifactReview: under the lock, refuse reviews of other digests unless
\* told to allow them.
ImportBegin(i) ==
    /\ stage[i] = "idle"
    /\ \E reviews \in SourceLists, digest \in Digests, allowStale \in BOOLEAN :
         LET ledger == ReadOrCreate(digest)
         IN  /\ \A k \in 1..Len(reviews) :
                   reviews[k].of = ledger.current \/ allowStale
             /\ Begin(i, "importing", ledger, reviews)
    /\ UNCHANGED <<durable, sessionVars, told>>

\* One turn of the merge loop.  A review of another digest is stale, and so is
\* one that comes from a ledger that labelled it stale.
ImportMerge(i) ==
    /\ stage[i] = "importing"
    /\ \E labelled \in BOOLEAN :
          MergeNext(i, labelled \/ Head(todo[i]).of # copy[i].current)

ImportEnd(i) ==
    /\ stage[i] = "importing"
    /\ Throw(i, "idle") \/ (Write(i, "idle") /\ UNCHANGED known)
    /\ UNCHANGED queue

----------------------------------------------------------------------------
\* A process dies and takes its writers with it.  One that was writing may have
\* renamed the new ledger into place and not answered.
Vanish(process, newStage) ==
    LET dead == {w \in Writers : ProcessOf(w) = process}
    IN  /\ stage' = [w \in Writers |-> IF w \in dead THEN newStage ELSE stage[w]]
        /\ copy' = [w \in Writers |-> IF w \in dead THEN NoLedger ELSE copy[w]]
        /\ todo' = [w \in Writers |-> IF w \in dead THEN <<>> ELSE todo[w]]
        /\ batch' = [w \in Writers |-> IF w \in dead THEN {} ELSE batch[w]]
        /\ lock' = IF lock \in dead THEN Orphan ELSE lock
        /\ looking' = [looking EXCEPT ![process] = "no"]
        /\ mixed' = mixed \ dead
        /\ \/ UNCHANGED <<durable, lost>>
           \/ \E w \in dead : stage[w] \in Busy /\ todo[w] = <<>> /\ Replace(w)
        /\ UNCHANGED <<acked, thefts>>

\* The server dies: its sessions and their queued writes are gone.
CrashServer ==
    /\ \E s \in Sessions : stage[s] # "closed"
    /\ Vanish(Server, "closed")
    /\ queue' = [s \in Sessions |-> <<>>]
    /\ known' = [s \in Sessions |-> NoDigest]

\* An import command is killed.
CrashImport(i) ==
    /\ stage[i] = "importing" \/ looking[i] # "no"
    /\ Vanish(i, "idle")
    /\ UNCHANGED sessionVars

lookRest == <<durable, stage, copy, todo, batch, sessionVars, told, mixed>>

\* openSync throws EEXIST: a waiter of the process has found the lock file.
FindLock(p) ==
    /\ lock # Nobody
    /\ Turn(p)
    /\ thefts < MaxThefts
    /\ looking' = [looking EXCEPT ![p] = "found"]
    /\ UNCHANGED <<lookRest, lock, thefts>>

\* The waiter reads the file.  One whose owner is dead is to be removed, and so is
\* one that is gone by now, which reads as invalid and old.
JudgeLock(p) ==
    /\ looking[p] = "found"
    /\ looking' = [looking EXCEPT ![p] =
                      IF lock \in {Nobody, Orphan} THEN "removing" ELSE "no"]
    /\ UNCHANGED <<lookRest, lock, thefts>>

\* The waiter removes whatever file is at the path now.
RemoveLock(p) ==
    /\ looking[p] = "removing"
    /\ looking' = [looking EXCEPT ![p] = "no"]
    /\ lock' = Nobody
    /\ thefts' = IF lock \in Writers THEN thefts + 1 ELSE thefts
    /\ UNCHANGED lookRest

CommitStep(s) == CommitBegin(s) \/ CommitMerge(s) \/ CommitEnd(s) \/ CommitTimeout(s)

SessionStep(s) ==
    \/ RegisterBegin(s) \/ RegisterMerge(s) \/ RegisterEnd(s)
    \/ \E review \in Submissions : Submit(s, review)
    \/ CommitStep(s) \/ Refresh(s) \/ Close(s)

ImportStep(i) == ImportBegin(i) \/ ImportMerge(i) \/ ImportEnd(i) \/ CrashImport(i)

Next ==
    \/ \E s \in Sessions : SessionStep(s)
    \/ \E i \in Imports : ImportStep(i)
    \/ \E p \in Processes : FindLock(p) \/ JudgeLock(p) \/ RemoveLock(p)
    \/ CrashServer

Spec == Init /\ [][Next]_vars

\* What runs by itself: the critical sections, which never wait; a look at the
\* lock file, once begun; and the commits of a session.  They wait for the lock,
\* but give up after a time limit, and for the other writers of the process, in
\* the order in which they came: hence strong fairness.
SessionRuns(s) == RegisterMerge(s) \/ RegisterEnd(s) \/ CommitStep(s)

Looks(p) == JudgeLock(p) \/ RemoveLock(p)

Fairness ==
    /\ \A s \in Sessions : SF_vars(SessionRuns(s))
    /\ \A i \in Imports : WF_vars(ImportMerge(i) \/ ImportEnd(i) \/ Looks(i))
    /\ WF_vars(Looks(Server))

FairSpec == Spec /\ Fairness

----------------------------------------------------------------------------
\* Whoever was told that a review is stored finds it in the ledger: no other
\* session, import, crash or change of digest takes it away.  Only a writer that
\* was busy at once with another may, and that takes a waiter which removed the
\* lock file of a live one.
AcknowledgedReviewsKept ==
    /\ \A review \in acked \ lost : durable # NoLedger /\ Holds(durable, review)
    /\ lost # {} => thefts > 0

Promise == INSTANCE KeptReviews
              WITH ledger <- durable, told <- acked \ lost, broken <- thefts > 0,
                   Extends <- LedgerExtends

\* The store keeps its promise: a ledger file, once there, is replaced only by one
\* that keeps its entries, replies, pins and stale labels and whose verdicts are
\* the same or later, and it holds every review that was acknowledged, until a
\* waiter removes the lock file of a live writer.
StoreKeepsReviews == Promise!Spec

\* A writer that throws, whatever it had merged before, leaves the ledger alone.
ThrowLeavesLedger ==
    [][\A w \in Writers :
          todo[w] # <<>> /\ stage'[w] # stage[w] => durable' = durable]_vars

\* A writer is in its critical section only while it holds the lock, and alone,
\* unless the lock file of a live one was removed.
OneWriter ==
    thefts = 0 => /\ \A w \in Writers : stage[w] \in Busy <=> lock = w
                  /\ mixed = {}

\* docs/artifact-review.md: "All public operations reject malformed, stale,
\* oversized, unsafe, or unsupported input": a review that is not labelled stale
\* is about the ledger's current digest.
FreshReviewsAreCurrent ==
    durable # NoLedger =>
        \A i \in ReviewIds :
            LET entry == durable.entries[i]
            IN  entry # NoEntry /\ ~entry.stale
                    => entry.review.of = durable.current

\* A session with waiting writes keeps answering them.
WritesAnswered ==
    \A s \in Sessions :
        \/ []<>(queue[s] = <<>>)
        \/ []<><<queue[s] # <<>> /\ queue'[s] = Tail(queue[s])>>_<<queue[s]>>
=============================================================================
