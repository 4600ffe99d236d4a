-------------------------- MODULE ShipEngine_proofs --------------------------
(***************************************************************************)
(* Proofs about ShipEngine, for any tasks, dependencies and Preserve lists,*)
(* and any number of invocations, crashes and interventions.               *)
(***************************************************************************)
EXTENDS ShipEngine, TLAPS

\* A task in an agent's hands has its dependencies done, or a person has set them
\* back since; no row claims that it is done; and it is in progress, except when its
\* own result has been written into its file.  What is enqueued is not done.
StatusWritten(t) ==
    /\ recording # Idle /\ recording.task = t
    /\ recording.at \in {"report", "manifest"}

Unclaimed(t) == \A i \in since[t] + 1 .. Len(manifest[t]) : manifest[t][i] \notin Claims

InHand ==
    /\ phase # "shipping" => running = {}
    /\ recording # Idle =>
         /\ recording.task \in running
         /\ StatusWritten(recording.task) => status[recording.task] = recording.status
    /\ \A t \in running :
         /\ \A d \in dependsOn[t] : d \in Done \cup redone
         /\ Unclaimed(t)
         /\ ~StatusWritten(t) => status[t] = "in-progress"
    /\ \A t \in queue : t \notin Done /\ t \notin running

\* The rows that a task had when a person last set it back are still there.
RowsSince == \A t \in Tasks : since[t] <= Len(manifest[t])

Inv == TypeOK /\ InHand /\ RowsSince /\ DoneAfterDependencies /\ ManifestTruthful

-----------------------------------------------------------------------------
LEMMA CountTyped ==
    ASSUME TypeOK, NEW t \in Tasks, NEW result \in Results
    PROVE  /\ CorrectionCount(t, result) \in Nat
           /\ EffectiveStatus(t, result) \in Statuses
<1>1. corrections[t] \in Nat
  BY DEF TypeOK
<1>2. result = "retry" \/ result = "blocked" \/ result = "done"
  BY DEF Results
<1>3. CorrectionCount(t, result) \in Nat
  BY <1>1, <1>2 DEF CorrectionCount, MaxCorrections
<1> QED
  BY <1>2, <1>3 DEF EffectiveStatus, Statuses

LEMMA RecordingTyped ==
    ASSUME TypeOK, recording # Idle
    PROVE  recording \in Recording
  BY DEF TypeOK

\* The two halves of what the manifest says of one task.
ClaimsHold(t) ==
    \A i \in since[t] + 1 .. Len(manifest[t]) : manifest[t][i] \in Claims =>
        /\ t \in Done
        /\ \A j \in i + 1 .. Len(manifest[t]) : manifest[t][j] = "skipped"

SuccessClaimed(t) ==
    \/ \E i \in since[t] + 1 .. Len(manifest[t]) : manifest[t][i] = "success"
    \/ t \in unlogged
    \/ SuccessUnlogged(t)

TruthOfAll == \A t \in Tasks : ClaimsHold(t) /\ (t \in Done => SuccessClaimed(t))

LEMMA TruthInParts == ManifestTruthful <=> TruthOfAll
  BY DEF TruthOfAll, ManifestTruthful, ClaimsHold, SuccessClaimed

LEMMA NotDoneUnclaimed ==
    ASSUME ManifestTruthful, NEW t \in Tasks, t \notin Done
    PROVE  Unclaimed(t)
  BY DEF ManifestTruthful, Unclaimed

\* Nothing is claimed of a task of which nothing changes but that it becomes done
\* or not, if nothing was claimed before.
LEMMA UnclaimedHolds ==
    ASSUME NEW t \in Tasks, Unclaimed(t)
    PROVE  ClaimsHold(t)
  BY DEF Unclaimed, ClaimsHold

\* A row more for one task.
LEMMA Appended ==
    ASSUME NEW s \in Seq(Rows), NEW row \in Rows
    PROVE  /\ Append(s, row) \in Seq(Rows)
           /\ Len(s) \in Nat /\ Len(Append(s, row)) = Len(s) + 1
           /\ \A i \in 1 .. Len(s) : Append(s, row)[i] = s[i]
           /\ Append(s, row)[Len(s) + 1] = row
  OBVIOUS

-----------------------------------------------------------------------------
(* Each action keeps the invariant.                                         *)

LEMMA PrepareKeeps == Inv /\ Prepare => Inv'
<1> SUFFICES ASSUME Inv, Prepare PROVE Inv'
  OBVIOUS
<1>1. /\ phase # "shipping" /\ phase' = "shipping" /\ hashes' = content
      /\ invocations < MaxInvocations /\ invocations' = invocations + 1
      /\ UNCHANGED <<dependsOn, status, corrections, reports, content, running, recording,
                     history, writes, crashes, flips>>
  BY DEF Prepare
<1>2. running = {} /\ recording = Idle
  BY <1>1 DEF Inv, InHand
<1>3. manifest' = [t \in Tasks |-> IF t \in Done THEN Append(manifest[t], "skipped")
                                   ELSE manifest[t]]
  BY DEF Prepare
<1>4. queue' \subseteq Tasks /\ \A t \in queue' : t \notin Done
  <2>1. PICK retried \in {{}, Blocked} : queue' = (Tasks \ (Done \cup Blocked)) \cup retried
    BY DEF Prepare
  <2> QED
    BY <2>1 DEF Blocked, Done
<1>5. Done' = Done
  BY <1>1 DEF Done
<1>6. ASSUME NEW t \in Tasks
      PROVE  /\ manifest'[t] \in Seq(Rows)
             /\ since'[t] <= Len(manifest'[t])
             /\ ClaimsHold(t)' /\ (t \in Done => SuccessClaimed(t)')
  <2>1. manifest[t] \in Seq(Rows) /\ since[t] \in Nat /\ since[t] <= Len(manifest[t])
        /\ since' = since /\ unlogged' = unlogged
    BY <1>1 DEF Inv, TypeOK, RowsSince, history
  <2>2. ClaimsHold(t) /\ (t \in Done => SuccessClaimed(t)) /\ ~SuccessUnlogged(t)
    BY <1>2, TruthInParts DEF Inv, TruthOfAll, SuccessUnlogged
  <2>3. CASE t \notin Done
    BY <2>1, <2>2, <2>3, <1>3, <1>5 DEF ClaimsHold
  <2>4. CASE t \in Done
    <3>1. manifest'[t] = Append(manifest[t], "skipped") /\ "skipped" \in Rows
      BY <2>4, <1>3 DEF Rows
    <3>2. /\ manifest'[t] \in Seq(Rows)
          /\ Len(manifest[t]) \in Nat /\ Len(manifest'[t]) = Len(manifest[t]) + 1
          /\ \A i \in 1 .. Len(manifest[t]) : manifest'[t][i] = manifest[t][i]
          /\ manifest'[t][Len(manifest[t]) + 1] = "skipped"
      BY <3>1, <2>1, Appended
    <3>3. ClaimsHold(t)'
      <4> SUFFICES ASSUME NEW i \in since[t] + 1 .. Len(manifest'[t]), manifest'[t][i] \in Claims
                   PROVE  \A j \in i + 1 .. Len(manifest'[t]) : manifest'[t][j] = "skipped"
        BY <2>1, <2>4, <1>5 DEF ClaimsHold
      <4>1. i \in Nat /\ i >= 1 /\ i <= Len(manifest[t]) + 1
        BY <3>2, <2>1
      <4>2. CASE i = Len(manifest[t]) + 1
        BY <4>1, <4>2, <3>2
      <4>3. CASE i <= Len(manifest[t])
        <5>1. i \in since[t] + 1 .. Len(manifest[t]) /\ manifest'[t][i] = manifest[t][i]
          BY <4>1, <4>3, <3>2, <2>1
        <5>2. \A j \in i + 1 .. Len(manifest[t]) : manifest[t][j] = "skipped"
          BY <5>1, <2>2 DEF ClaimsHold
        <5> QED
          BY <5>2, <4>1, <3>2
      <4> QED
        BY <4>1, <4>2, <4>3, <3>2
    <3>4. SuccessClaimed(t)'
      BY <3>2, <2>1, <2>2, <2>4 DEF SuccessClaimed
    <3>5. since'[t] <= Len(manifest'[t])
      BY <3>2, <2>1
    <3> QED
      BY <3>2, <3>3, <3>4, <3>5
  <2> QED
    BY <2>3, <2>4
<1>7. TypeOK'
  <2>1. manifest' \in [Tasks -> Seq(Rows)]
    BY <1>3, <1>6
  <2>2. invocations' \in 0 .. MaxInvocations
    BY <1>1, ShipEngineAssumption DEF Inv, TypeOK
  <2> QED
    BY <1>1, <1>4, <2>1, <2>2 DEF Inv, TypeOK, Phases, history
<1>8. InHand'
  BY <1>1, <1>2, <1>4, <1>5 DEF InHand
<1>9. DoneAfterDependencies'
  BY <1>1, <1>5 DEF Inv, DoneAfterDependencies, history
<1>10. ManifestTruthful'
  <2>1. TruthOfAll'
    BY <1>5, <1>6 DEF TruthOfAll
  <2> QED
    BY <2>1, TruthInParts, PTL
<1>11. RowsSince'
  BY <1>6 DEF RowsSince
<1> QED
  BY <1>7, <1>8, <1>9, <1>10, <1>11 DEF Inv

\* What is ready is enqueued, and neither done nor in another agent's hands.
LEMMA ReadyIs ==
    ASSUME Inv, NEW t \in Ready
    PROVE  /\ t \in Tasks /\ t \in queue /\ t \notin Done /\ t \notin running
           /\ \A d \in dependsOn[t] : d \in Done
           /\ Unclaimed(t)
<1>1. t \in queue /\ DependenciesDone(t)
  BY DEF Ready
<1>2. t \in Tasks /\ t \notin Done /\ t \notin running
  BY <1>1 DEF Inv, InHand, TypeOK
<1> QED
  BY <1>1, <1>2, NotDoneUnclaimed DEF Inv, DependenciesDone

LEMMA DispatchKeeps == Inv /\ Dispatch => Inv'
<1> SUFFICES ASSUME Inv, Dispatch PROVE Inv'
  OBVIOUS
<1>1. /\ phase = "shipping" /\ recording = Idle
      /\ queue' = queue \ Ready /\ running' = running \cup Ready
      /\ UNCHANGED <<dependsOn, corrections, reports, manifest, content, phase, hashes, recording,
                     failures, touched, redone, since, unlogged, bounds>>
  BY DEF Dispatch
<1>2. \A t \in Ready : /\ t \in Tasks /\ t \notin Done /\ t \notin running
                       /\ \A d \in dependsOn[t] : d \in Done
                       /\ Unclaimed(t)
  BY ReadyIs
<1>3. /\ status' \in [Tasks -> Statuses]
      /\ \A t \in Ready : status'[t] = "in-progress"
      /\ \A t \in Tasks \ Ready : status'[t] = status[t]
  BY <1>2 DEF Dispatch, Inv, TypeOK, Statuses
<1>4. Done' = Done
  BY <1>2, <1>3 DEF Done
<1>5. allowed' \in [Tasks -> Nat]
  <2>1. allowed' = [t \in Tasks |-> IF t \in Ready \cap Blocked THEN allowed[t] + 1 ELSE allowed[t]]
    BY DEF Dispatch
  <2> QED
    BY <2>1 DEF Inv, TypeOK
<1>6. TypeOK'
  BY <1>1, <1>2, <1>3, <1>5 DEF Inv, TypeOK, bounds
<1>7. \A t : Unclaimed(t)' <=> Unclaimed(t)
  BY <1>1 DEF Unclaimed
<1>8. InHand'
  <2>1. ASSUME NEW t \in running'
        PROVE  /\ \A d \in dependsOn'[t] : d \in Done' \cup redone'
               /\ Unclaimed(t)'
               /\ status'[t] = "in-progress"
    <3>1. CASE t \in Ready
      BY <3>1, <1>1, <1>2, <1>3, <1>4, <1>7
    <3>2. CASE t \in running /\ t \notin Ready
      BY <3>2, <1>1, <1>3, <1>4, <1>7 DEF Inv, InHand, StatusWritten, TypeOK
    <3> QED
      BY <3>1, <3>2, <1>1
  <2>2. \A t \in queue' : t \notin Done' /\ t \notin running'
    BY <1>1, <1>4 DEF Inv, InHand
  <2> QED
    BY <2>1, <2>2, <1>1 DEF InHand
<1>9. RowsSince' /\ DoneAfterDependencies' /\ ManifestTruthful'
  BY <1>1, <1>4 DEF Inv, RowsSince, DoneAfterDependencies, ManifestTruthful, SuccessUnlogged
<1> QED
  BY <1>6, <1>8, <1>9 DEF Inv

\* What changes neither the files nor what the orchestrator has in hand.
LEMMA ContentChangeKeeps ==
    ASSUME Inv,
           UNCHANGED <<dependsOn, status, corrections, reports, manifest, phase, hashes, queue,
                       running, recording, failures, allowed, redone, since, unlogged, crashes,
                       flips, invocations>>,
           content' \in Hashes, touched' \in [Tasks -> SUBSET Paths],
           writes' \in 0 .. MaxWrites
    PROVE  Inv'
<1>1. TypeOK'
  BY DEF Inv, TypeOK
<1>2. InHand'
  BY DEF Inv, InHand, StatusWritten, Unclaimed, Done
<1>3. RowsSince' /\ DoneAfterDependencies' /\ ManifestTruthful'
  BY DEF Inv, RowsSince, DoneAfterDependencies, ManifestTruthful, Done, SuccessUnlogged
<1> QED
  BY <1>1, <1>2, <1>3 DEF Inv

LEMMA WriteKeeps ==
    ASSUME Inv, NEW t \in Tasks, NEW p \in Paths, Write(t, p)
    PROVE  Inv'
<1>1. writes' = writes + 1 /\ writes < MaxWrites /\ writes \in 0 .. MaxWrites
  BY DEF Write, Inv, TypeOK
<1>2. MaxWrites \in Nat
  BY ShipEngineAssumption
<1>3. writes' \in Version /\ writes' \in 0 .. MaxWrites /\ writes' = writes + 1
  BY <1>1, <1>2 DEF Version
<1>4. content' = [content EXCEPT ![p] = writes + 1] /\ content \in [Paths -> Version]
  BY DEF Write, Inv, TypeOK, Hashes
<1>5. content' \in Hashes
  BY <1>3, <1>4 DEF Hashes
<1>6. touched' \in [Tasks -> SUBSET Paths]
  <2>1. touched' = [touched EXCEPT ![t] = @ \cup ({p} \cap Preserve[t])]
    BY DEF Write
  <2>2. touched \in [Tasks -> SUBSET Paths]
    BY DEF Inv, TypeOK
  <2> QED
    BY <2>1, <2>2
<1> QED
  BY <1>3, <1>5, <1>6, ContentChangeKeeps DEF Write, files, memory

LEMMA RestoreKeeps ==
    ASSUME Inv, NEW t \in Tasks, Restore(t)
    PROVE  Inv'
<1>1. content \in Hashes /\ hashes \in Hashes /\ touched \in [Tasks -> SUBSET Paths]
  BY DEF Inv, TypeOK
<1>2. /\ content' = [p \in Paths |-> IF p \in Changed(t) THEN hashes[p] ELSE content[p]]
      /\ touched' = [u \in Tasks |-> touched[u] \ Changed(t)]
  BY DEF Restore
<1>3. content' \in Hashes
  BY <1>1, <1>2 DEF Hashes
<1>4. touched' \in [Tasks -> SUBSET Paths]
  BY <1>1, <1>2
<1>5. writes' \in 0 .. MaxWrites
  BY DEF Restore, bounds, Inv, TypeOK
<1> QED
  BY <1>3, <1>4, <1>5, ContentChangeKeeps DEF Restore, files, memory, bounds

LEMMA FinalizeKeeps == Inv /\ Finalize => Inv'
<1> SUFFICES ASSUME Inv, Finalize PROVE Inv'
  OBVIOUS
<1>1. /\ running = {} /\ recording = Idle /\ phase' = "shipped"
      /\ UNCHANGED <<dependsOn, files, content, hashes, queue, running, recording, history, bounds>>
  BY DEF Finalize
<1>2. TypeOK'
  BY <1>1 DEF Inv, TypeOK, Phases, files, history, bounds
<1>3. InHand'
  BY <1>1 DEF Inv, InHand, Done, files, history
<1>4. RowsSince' /\ DoneAfterDependencies' /\ ManifestTruthful'
  BY <1>1 DEF Inv, RowsSince, DoneAfterDependencies, ManifestTruthful, Done, SuccessUnlogged, files, history
<1> QED
  BY <1>2, <1>3, <1>4 DEF Inv

LEMMA TakeResultKeeps ==
    ASSUME Inv, NEW t \in Tasks, NEW result \in Results, TakeResult(t, result)
    PROVE  Inv'
<1> DEFINE count == CorrectionCount(t, result)
           new == EffectiveStatus(t, result)
<1>1. /\ t \in running /\ recording = Idle
      /\ recording' = [task |-> t, result |-> result, count |-> count,
                       status |-> new, at |-> "corrections"]
      /\ UNCHANGED <<dependsOn, files, content, memory, running, allowed, touched, redone, since,
                     unlogged, bounds>>
  BY DEF TakeResult
<1>2. count \in Nat /\ new \in Statuses
  BY CountTyped DEF Inv
<1>3. failures' \in [Tasks -> Nat]
  <2>1. /\ failures' = [failures EXCEPT ![t] = IF result = "retry" THEN @ + 1 ELSE @]
        /\ failures \in [Tasks -> Nat]
    BY DEF TakeResult, Inv, TypeOK
  <2> QED
    BY <2>1
<1> HIDE DEF count, new
<1>4. recording' \in Recording /\ recording'.task = t /\ recording'.at = "corrections"
  BY <1>1, <1>2 DEF Recording
<1>5. TypeOK'
  BY <1>1, <1>3, <1>4 DEF Inv, TypeOK, files, memory, bounds
<1>6. Done' = Done /\ (\A u : Unclaimed(u)' <=> Unclaimed(u)) /\ (\A u : ~StatusWritten(u))
  BY <1>1 DEF Done, Unclaimed, StatusWritten, files
<1>7. InHand'
  BY <1>1, <1>4, <1>6 DEF Inv, InHand, StatusWritten, files, memory
<1>8. RowsSince' /\ DoneAfterDependencies' /\ ManifestTruthful'
  BY <1>1, <1>6 DEF Inv, RowsSince, DoneAfterDependencies, ManifestTruthful, SuccessUnlogged, files
<1> QED
  BY <1>5, <1>7, <1>8 DEF Inv

LEMMA Advanced ==
    ASSUME Inv, recording # Idle, NEW at \in {"corrections", "status", "report", "manifest"},
           GoOn(at)
    PROVE  /\ recording' \in Recording /\ recording' # Idle
           /\ recording'.task = recording.task /\ recording'.status = recording.status
           /\ recording'.result = recording.result /\ recording'.count = recording.count
           /\ recording'.at = at
  BY RecordingTyped, IdleAssumption DEF Inv, GoOn, Recording

LEMMA WriteCorrectionsKeeps == Inv /\ WriteCorrections => Inv'
<1> SUFFICES ASSUME Inv, WriteCorrections PROVE Inv'
  OBVIOUS
<1>1. recording # Idle /\ recording.at = "corrections" /\ recording \in Recording
  BY RecordingTyped DEF Inv, WriteCorrections
<1>2. /\ recording' \in Recording /\ recording'.task = recording.task
      /\ recording'.at = "status" /\ recording' # Idle
  BY <1>1, Advanced DEF WriteCorrections
<1>3. corrections' \in [Tasks -> Nat]
  BY <1>1 DEF WriteCorrections, Inv, TypeOK, Recording
<1>4. UNCHANGED <<dependsOn, status, reports, manifest, content, memory, running, history, bounds>>
  BY DEF WriteCorrections
<1>5. TypeOK'
  BY <1>2, <1>3, <1>4 DEF Inv, TypeOK, memory, history, bounds
<1>6. Done' = Done /\ (\A u : Unclaimed(u)' <=> Unclaimed(u))
  BY <1>4 DEF Done, Unclaimed, history
<1>7. InHand'
  BY <1>1, <1>2, <1>4, <1>6 DEF Inv, InHand, StatusWritten, memory, history
<1>8. RowsSince' /\ DoneAfterDependencies' /\ ManifestTruthful'
  BY <1>1, <1>4, <1>6 DEF Inv, RowsSince, DoneAfterDependencies, ManifestTruthful, SuccessUnlogged, history
<1> QED
  BY <1>5, <1>7, <1>8 DEF Inv

\* The status that is written is that of a task that was in progress.
LEMMA WriteStatusStep ==
    ASSUME Inv, WriteStatus
    PROVE  /\ recording # Idle /\ recording \in Recording /\ recording.at = "status"
           /\ recording.task \in running /\ status[recording.task] = "in-progress"
           /\ status' = [status EXCEPT ![recording.task] = recording.status]
           /\ recording' \in Recording /\ recording' # Idle
           /\ recording'.task = recording.task /\ recording'.status = recording.status
           /\ recording'.at \in {"report", "manifest"}
           /\ recording.status = "done" => recording'.at = "manifest"
<1>1. recording # Idle /\ recording.at = "status" /\ recording \in Recording
  BY RecordingTyped DEF Inv, WriteStatus
<1>2. recording.task \in running /\ ~StatusWritten(recording.task)
  BY <1>1 DEF Inv, InHand, StatusWritten
<1>3. status[recording.task] = "in-progress"
  BY <1>2 DEF Inv, InHand
<1>4. CASE recording.status = "blocked" /\ recording.result = "retry"
  <2>1. GoOn("report")
    BY <1>4 DEF WriteStatus
  <2> QED
    BY <1>1, <1>2, <1>3, <1>4, <2>1, Advanced DEF WriteStatus
<1>5. CASE ~(recording.status = "blocked" /\ recording.result = "retry")
  <2>1. GoOn("manifest")
    BY <1>5 DEF WriteStatus
  <2> QED
    BY <1>1, <1>2, <1>3, <2>1, Advanced DEF WriteStatus
<1> QED
  BY <1>4, <1>5

LEMMA WriteStatusKeeps == Inv /\ WriteStatus => Inv'
<1> SUFFICES ASSUME Inv, WriteStatus PROVE Inv'
  OBVIOUS
<1>0. PICK t \in Tasks : t = recording.task
  BY WriteStatusStep DEF Recording
<1>1. /\ recording # Idle /\ recording.status \in Statuses /\ recording.at = "status"
      /\ t \in Tasks /\ t \in running /\ status[t] = "in-progress"
      /\ recording' \in Recording /\ recording' # Idle /\ recording'.task = t
      /\ recording'.status = recording.status
      /\ recording'.at \in {"report", "manifest"}
      /\ recording.status = "done" => recording'.at = "manifest"
  BY <1>0, WriteStatusStep DEF Recording
<1>2. UNCHANGED <<dependsOn, corrections, reports, manifest, content, memory, running, history,
                  bounds>>
  BY DEF WriteStatus
<1>3. /\ status \in [Tasks -> Statuses] /\ status' \in [Tasks -> Statuses]
      /\ status'[t] = recording.status
      /\ \A u \in Tasks \ {t} : status'[u] = status[u]
  BY WriteStatusStep, <1>0, <1>1 DEF Inv, TypeOK
<1>4. (\A u : ~StatusWritten(u)) /\ (\A u : ~SuccessUnlogged(u))
  BY <1>1 DEF StatusWritten, SuccessUnlogged
<1>5. StatusWritten(t)' /\ (recording.status = "done" => SuccessUnlogged(t)')
  BY <1>1 DEF StatusWritten, SuccessUnlogged
<1>6. TypeOK'
  BY <1>1, <1>2, <1>3 DEF Inv, TypeOK, memory, history, bounds
<1>7. /\ Done \subseteq Done' /\ Done' \subseteq Done \cup {t}
      /\ t \in Done' => recording.status = "done"
  BY <1>1, <1>3 DEF Done
<1>8. Unclaimed(t) /\ (\A u : Unclaimed(u)' <=> Unclaimed(u))
  <2>1. Unclaimed(t)
    BY <1>1 DEF Inv, InHand
  <2> QED
    BY <2>1, <1>2 DEF Unclaimed, history
<1>9. InHand'
  <2>1. ASSUME NEW u \in running
        PROVE  /\ \A d \in dependsOn[u] : d \in Done' \cup redone
               /\ Unclaimed(u)'
               /\ ~StatusWritten(u)' => status'[u] = "in-progress"
    <3>1. u \in Tasks /\ status[u] = "in-progress"
      BY <1>4 DEF Inv, InHand, TypeOK
    <3>2. ~StatusWritten(u)' => status'[u] = "in-progress"
      BY <3>1, <1>3, <1>5
    <3> QED
      BY <3>2, <1>7, <1>8 DEF Inv, InHand
  <2>2. \A u \in queue : u \notin Done' /\ u \notin running
    BY <1>1, <1>7 DEF Inv, InHand
  <2> QED
    BY <2>1, <2>2, <1>1, <1>2, <1>3 DEF Inv, InHand, memory, history
<1>10. DoneAfterDependencies'
  <2> SUFFICES ASSUME NEW u \in Done'
               PROVE  \A d \in dependsOn[u] : d \in Done' \cup redone
    BY <1>2 DEF DoneAfterDependencies, history
  <2>1. \A d \in dependsOn[u] : d \in Done \cup redone
    BY <1>1, <1>7 DEF Inv, InHand, DoneAfterDependencies
  <2> QED
    BY <2>1, <1>7
<1>11. ManifestTruthful'
  <2>1. ASSUME NEW u \in Tasks
        PROVE  ClaimsHold(u)' /\ (u \in Done' => SuccessClaimed(u)')
    <3>1. CASE u = t
      <4>1. ClaimsHold(t)'
        BY <1>8, <1>2 DEF Unclaimed, ClaimsHold, history
      <4>2. t \in Done' => SuccessClaimed(t)'
        BY <1>5, <1>7 DEF SuccessClaimed
      <4> QED
        BY <3>1, <4>1, <4>2
    <3>2. CASE u # t
      <4>1. ClaimsHold(u) /\ (u \in Done => SuccessClaimed(u)) /\ (u \in Done <=> u \in Done')
        BY <3>2, <1>7, TruthInParts DEF Inv, TruthOfAll
      <4> QED
        BY <4>1, <1>2, <1>4 DEF ClaimsHold, SuccessClaimed, history
    <3> QED
      BY <3>1, <3>2
  <2>2. TruthOfAll'
    BY <2>1 DEF TruthOfAll
  <2> QED
    BY <2>2, TruthInParts, PTL
<1>12. RowsSince'
  BY <1>2 DEF Inv, RowsSince, history
<1> QED
  BY <1>6, <1>9, <1>10, <1>11, <1>12 DEF Inv

LEMMA WriteReportKeeps == Inv /\ WriteReport => Inv'
<1> SUFFICES ASSUME Inv, WriteReport PROVE Inv'
  OBVIOUS
<1>1. recording # Idle /\ recording.at = "report" /\ recording \in Recording
  BY RecordingTyped DEF Inv, WriteReport
<1>2. /\ recording' \in Recording /\ recording' # Idle /\ recording'.task = recording.task
      /\ recording'.status = recording.status /\ recording'.at = "manifest"
  BY <1>1, Advanced DEF WriteReport
<1>3. reports' \subseteq Tasks
  BY <1>1 DEF WriteReport, Inv, TypeOK, Recording
<1>4. UNCHANGED <<dependsOn, status, corrections, manifest, content, memory, running, history,
                  bounds>>
  BY DEF WriteReport
<1>5. TypeOK'
  BY <1>2, <1>3, <1>4 DEF Inv, TypeOK, memory, history, bounds
<1>6. Done' = Done /\ (\A u : Unclaimed(u)' <=> Unclaimed(u))
  BY <1>4 DEF Done, Unclaimed, history
<1>7. InHand'
  BY <1>1, <1>2, <1>4, <1>6 DEF Inv, InHand, StatusWritten, memory, history
<1>8. RowsSince' /\ DoneAfterDependencies' /\ ManifestTruthful'
  BY <1>1, <1>4, <1>6 DEF Inv, RowsSince, DoneAfterDependencies, ManifestTruthful, SuccessUnlogged, history
<1> QED
  BY <1>5, <1>7, <1>8 DEF Inv

LEMMA AppendManifestKeeps == Inv /\ AppendManifest => Inv'
<1> SUFFICES ASSUME Inv, AppendManifest PROVE Inv'
  OBVIOUS
<1>0. PICK t \in Tasks : t = recording.task
  BY RecordingTyped DEF AppendManifest, Inv, Recording
<1> DEFINE row == IF recording.status = "done" THEN "success" ELSE "failure"
<1>1. /\ recording # Idle /\ recording.at = "manifest"
      /\ t \in Tasks /\ t \in running /\ status[t] = recording.status
      /\ Unclaimed(t)
  BY <1>0, RecordingTyped DEF AppendManifest, Inv, InHand, StatusWritten, Recording
<1>2. /\ manifest' = [manifest EXCEPT ![t] = Append(@, row)]
      /\ recording' = Idle
      /\ UNCHANGED <<dependsOn, status, corrections, reports, content, memory, history, bounds>>
  BY <1>0 DEF AppendManifest
<1>3. /\ running' \subseteq running
      /\ t \in running' => status[t] = "in-progress"
  BY <1>0, <1>1 DEF AppendManifest
<1>4. /\ manifest \in [Tasks -> Seq(Rows)] /\ since \in [Tasks -> Nat]
      /\ row \in Rows /\ row # "skipped" /\ (row = "success" <=> t \in Done)
  BY <1>1 DEF Inv, TypeOK, Rows, Done
<1>5. \A u \in Tasks \ {t} : ~SuccessUnlogged(u)
  BY <1>0 DEF SuccessUnlogged
<1>6. Done' = Done /\ since' = since /\ unlogged' = unlogged /\ redone' = redone
  BY <1>2 DEF Done, history
<1>7. \A u \in running : u \in Tasks /\ (u # t => ~StatusWritten(u))
  BY <1>0 DEF Inv, TypeOK, StatusWritten
<1> HIDE DEF row
<1>8. /\ manifest' \in [Tasks -> Seq(Rows)]
      /\ manifest'[t] = Append(manifest[t], row)
      /\ \A u \in Tasks \ {t} : manifest'[u] = manifest[u]
  <2>1. Append(manifest[t], row) \in Seq(Rows)
    BY <1>1, <1>4, Appended
  <2> QED
    BY <2>1, <1>1, <1>2, <1>4
<1>9. /\ Len(manifest[t]) \in Nat /\ Len(manifest'[t]) = Len(manifest[t]) + 1
      /\ \A i \in 1 .. Len(manifest[t]) : manifest'[t][i] = manifest[t][i]
      /\ manifest'[t][Len(manifest[t]) + 1] = row
  BY <1>1, <1>4, <1>8, Appended
<1>10. \A i \in since[t] + 1 .. Len(manifest[t]) : manifest'[t][i] \notin Claims
  BY <1>1, <1>4, <1>9 DEF Unclaimed
<1>11. ASSUME NEW i \in since[t] + 1 .. Len(manifest'[t]), manifest'[t][i] \in Claims
       PROVE  i = Len(manifest'[t]) /\ row = "success" /\ t \in Done
  <2>1. i \notin since[t] + 1 .. Len(manifest[t])
    BY <1>10, <1>11
  <2>2. i = Len(manifest[t]) + 1
    BY <2>1, <1>1, <1>4, <1>9
  <2> QED
    BY <2>2, <1>4, <1>9, <1>11 DEF Claims
<1>12. TypeOK'
  <2>1. running' \subseteq Tasks
    BY <1>3, <1>7
  <2> QED
    BY <1>2, <1>8, <2>1 DEF Inv, TypeOK, memory, history, bounds
<1>13. InHand'
  <2>1. ASSUME NEW u \in running'
        PROVE  /\ \A d \in dependsOn[u] : d \in Done \cup redone
               /\ Unclaimed(u)'
               /\ status[u] = "in-progress"
    <3>1. u \in running /\ u \in Tasks /\ (u # t => ~StatusWritten(u))
      BY <1>3, <1>7
    <3>2. /\ \A d \in dependsOn[u] : d \in Done \cup redone
          /\ Unclaimed(u) /\ (~StatusWritten(u) => status[u] = "in-progress")
      BY <3>1 DEF Inv, InHand
    <3>3. CASE u # t
      BY <3>1, <3>2, <3>3, <1>6, <1>8 DEF Unclaimed
    <3>4. CASE u = t
      <4>1. status[t] = "in-progress" /\ t \notin Done
        BY <3>4, <1>3 DEF Done
      <4>2. Unclaimed(t)'
        BY <4>1, <1>6, <1>11 DEF Unclaimed
      <4> QED
        BY <3>2, <3>4, <4>1, <4>2
    <3> QED
      BY <3>3, <3>4
  <2>2. \A u \in queue : u \notin Done /\ u \notin running'
    BY <1>3 DEF Inv, InHand
  <2>3. phase # "shipping" => running' = {}
    BY <1>3 DEF Inv, InHand
  <2> QED
    BY <2>1, <2>2, <2>3, <1>2, <1>6 DEF InHand, memory
<1>14. DoneAfterDependencies'
  BY <1>2, <1>6 DEF Inv, DoneAfterDependencies
<1>15. ManifestTruthful'
  <2>1. ASSUME NEW u \in Tasks
        PROVE  ClaimsHold(u)' /\ (u \in Done' => SuccessClaimed(u)')
    <3>1. CASE u = t
      <4>1. ClaimsHold(t)'
        <5> SUFFICES ASSUME NEW i \in since[t] + 1 .. Len(manifest'[t]), manifest'[t][i] \in Claims
                     PROVE  /\ t \in Done
                            /\ \A j \in i + 1 .. Len(manifest'[t]) : manifest'[t][j] = "skipped"
          BY <1>6 DEF ClaimsHold
        <5>1. i = Len(manifest'[t]) /\ t \in Done
          BY <1>11
        <5> QED
          BY <5>1, <1>9
      <4>2. ASSUME t \in Done PROVE SuccessClaimed(t)'
        <5>1. manifest'[t][Len(manifest'[t])] = "success"
          BY <4>2, <1>4, <1>9
        <5>2. CASE since[t] < Len(manifest'[t])
          <6>1. Len(manifest'[t]) \in since[t] + 1 .. Len(manifest'[t])
            BY <5>2, <1>1, <1>4, <1>9
          <6> QED
            BY <5>1, <6>1, <1>6 DEF SuccessClaimed
        <5> QED
          BY <5>2, <1>1, <1>4, <1>9 DEF Inv, RowsSince
      <4> QED
        BY <3>1, <4>1, <4>2, <1>6
    <3>2. CASE u # t
      <4>1. ClaimsHold(u) /\ (u \in Done => SuccessClaimed(u)) /\ ~SuccessUnlogged(u)
        BY <3>2, <1>5, TruthInParts DEF Inv, TruthOfAll
      <4>2. manifest'[u] = manifest[u]
        BY <3>2, <1>8
      <4> QED
        BY <4>1, <4>2, <1>6 DEF ClaimsHold, SuccessClaimed
    <3> QED
      BY <3>1, <3>2
  <2>2. TruthOfAll'
    BY <2>1 DEF TruthOfAll
  <2> QED
    BY <2>2, TruthInParts, PTL
<1>16. RowsSince'
  <2>1. \A u \in Tasks : since[u] \in Nat /\ since[u] <= Len(manifest[u])
    BY <1>4 DEF Inv, RowsSince
  <2>2. since[t] <= Len(manifest'[t])
    BY <2>1, <1>1, <1>9
  <2> QED
    BY <2>1, <2>2, <1>1, <1>6, <1>8 DEF RowsSince
<1> QED
  BY <1>12, <1>13, <1>14, <1>15, <1>16 DEF Inv

LEMMA SetBackKeeps ==
    ASSUME Inv, NEW t \in Tasks, NEW to \in {"pending", "blocked"}, SetBack(t, to)
    PROVE  Inv'
<1>1. /\ recording = Idle /\ status[t] \in {"done", "blocked"}
      /\ UNCHANGED <<dependsOn, corrections, reports, manifest, content, memory, running, recording,
                     failures, touched, writes, crashes, invocations>>
  BY DEF SetBack
<1>2. /\ status \in [Tasks -> Statuses] /\ status' \in [Tasks -> Statuses]
      /\ status'[t] = to
      /\ \A u \in Tasks \ {t} : status'[u] = status[u]
  BY DEF SetBack, Inv, TypeOK, Statuses
<1>3. allowed' \in [Tasks -> Nat] /\ flips' \in 0 .. MaxFlips
  <2>1. /\ allowed' = [allowed EXCEPT ![t] = IF status[t] = "blocked" THEN @ + 1 ELSE @]
        /\ allowed \in [Tasks -> Nat]
    BY DEF SetBack, Inv, TypeOK
  <2>2. allowed' \in [Tasks -> Nat]
    BY <2>1
  <2>3. flips < MaxFlips /\ flips' = flips + 1 /\ flips \in 0 .. MaxFlips
    BY DEF SetBack, Inv, TypeOK
  <2> QED
    BY <2>2, <2>3, ShipEngineAssumption
<1>4. /\ manifest[t] \in Seq(Rows) /\ Len(manifest[t]) \in Nat
      /\ since' \in [Tasks -> Nat]
      /\ since'[t] = IF t \in Done THEN Len(manifest[t]) ELSE since[t]
      /\ \A u \in Tasks \ {t} : since'[u] = since[u]
  BY DEF SetBack, Inv, TypeOK
<1>5. /\ redone' = redone \cup ({t} \cap Done) /\ redone' \subseteq Tasks
      /\ unlogged' = unlogged \ ({t} \cap Done) /\ unlogged' \subseteq Tasks
  BY DEF SetBack, Inv, TypeOK
<1>6. TypeOK'
  BY <1>1, <1>2, <1>3, <1>4, <1>5 DEF Inv, TypeOK, memory
<1>7. /\ t \notin Done' /\ Done' = Done \ {t}
      /\ Done' \cup redone' = Done \cup redone
  BY <1>1, <1>2, <1>5 DEF Done
<1>8. ASSUME NEW u \in running
      PROVE  u # t /\ u \in Tasks /\ ~StatusWritten(u) /\ status[u] = "in-progress"
  <2>1. ~StatusWritten(u)
    BY <1>1 DEF StatusWritten
  <2>2. status[u] = "in-progress" /\ u \in Tasks
    BY <2>1 DEF Inv, InHand, TypeOK
  <2> QED
    BY <2>1, <2>2, <1>1
<1>9. InHand'
  <2>1. ASSUME NEW u \in running
        PROVE  /\ \A d \in dependsOn[u] : d \in Done' \cup redone'
               /\ Unclaimed(u)'
               /\ status'[u] = "in-progress"
    BY <1>1, <1>2, <1>4, <1>7, <1>8 DEF Inv, InHand, Unclaimed
  <2>2. \A u \in queue : u \notin Done' /\ u \notin running
    BY <1>7 DEF Inv, InHand
  <2>3. phase # "shipping" => running = {}
    BY DEF Inv, InHand
  <2> QED
    BY <2>1, <2>2, <2>3, <1>1 DEF InHand, memory
<1>10. DoneAfterDependencies'
  BY <1>1, <1>7 DEF Inv, DoneAfterDependencies
<1>11. RowsSince'
  <2>1. \A u \in Tasks : since[u] <= Len(manifest[u])
    BY DEF Inv, RowsSince
  <2> QED
    BY <2>1, <1>1, <1>4 DEF RowsSince
<1>12. ManifestTruthful'
  <2>1. ASSUME NEW u \in Tasks
        PROVE  ClaimsHold(u)' /\ (u \in Done' => SuccessClaimed(u)')
    <3>1. ClaimsHold(u) /\ (u \in Done => SuccessClaimed(u)) /\ ~SuccessUnlogged(u)
      BY <1>1, TruthInParts DEF Inv, TruthOfAll, SuccessUnlogged
    <3>2. CASE u = t
      <4>1. CASE t \in Done
        BY <3>2, <4>1, <1>1, <1>4, <1>7 DEF ClaimsHold
      <4>2. CASE t \notin Done
        <5>1. since'[t] = since[t] /\ Unclaimed(t)
          BY <4>2, <1>4, NotDoneUnclaimed DEF Inv
        <5> QED
          BY <3>2, <5>1, <1>1, <1>7 DEF ClaimsHold, Unclaimed
      <4> QED
        BY <4>1, <4>2
    <3>3. CASE u # t
      BY <3>1, <3>3, <1>1, <1>4, <1>5, <1>7 DEF ClaimsHold, SuccessClaimed
    <3> QED
      BY <3>2, <3>3
  <2>2. TruthOfAll'
    BY <2>1 DEF TruthOfAll
  <2> QED
    BY <2>2, TruthInParts, PTL
<1> QED
  BY <1>6, <1>9, <1>10, <1>11, <1>12 DEF Inv

LEMMA CrashKeeps == Inv /\ Crash => Inv'
<1> SUFFICES ASSUME Inv, Crash PROVE Inv'
  OBVIOUS
<1>1. /\ queue' = {} /\ running' = {} /\ recording' = Idle /\ phase' = "died"
      /\ touched' = [t \in Tasks |-> {}]
      /\ allowed' = [t \in Tasks |-> IF FailureUnwritten(t) THEN allowed[t] + 1 ELSE allowed[t]]
      /\ unlogged' = unlogged \cup {t \in Tasks : SuccessUnlogged(t)}
      /\ UNCHANGED <<dependsOn, files, content, hashes, failures, redone, since, writes, flips,
                     invocations>>
  BY DEF Crash
<1>2. crashes' \in 0 .. MaxCrashes
  BY ShipEngineAssumption DEF Crash, Inv, TypeOK
<1>3. TypeOK'
  BY <1>1, <1>2 DEF Inv, TypeOK, Phases, files
<1>4. Done' = Done
  BY <1>1 DEF Done, files
<1>5. InHand'
  BY <1>1 DEF InHand
<1>6. RowsSince' /\ DoneAfterDependencies'
  BY <1>1, <1>4 DEF Inv, RowsSince, DoneAfterDependencies, files
<1>7. ManifestTruthful'
  <2>1. ASSUME NEW u \in Tasks
        PROVE  ClaimsHold(u)' /\ (u \in Done' => SuccessClaimed(u)')
    <3>1. ClaimsHold(u) /\ (u \in Done => SuccessClaimed(u))
      BY TruthInParts DEF Inv, TruthOfAll
    <3>2. ClaimsHold(u)'
      BY <3>1, <1>1, <1>4 DEF ClaimsHold, files
    <3>3. SuccessClaimed(u) => SuccessClaimed(u)'
      BY <1>1 DEF SuccessClaimed, files
    <3> QED
      BY <3>1, <3>2, <3>3, <1>4
  <2>2. TruthOfAll'
    BY <2>1 DEF TruthOfAll
  <2> QED
    BY <2>2, TruthInParts, PTL
<1> QED
  BY <1>3, <1>5, <1>6, <1>7 DEF Inv

-----------------------------------------------------------------------------
LEMMA InitInv == Init => Inv
<1> SUFFICES ASSUME Init PROVE Inv
  OBVIOUS
<1>1. TypeOK
  <2>1. /\ 0 \in Version /\ 0 \in 0 .. MaxWrites /\ 0 \in 0 .. MaxCrashes /\ 0 \in 0 .. MaxFlips
        /\ 0 \in 0 .. MaxInvocations
    BY ShipEngineAssumption DEF Version
  <2>2. manifest \in [Tasks -> Seq(Rows)]
    BY DEF Init
  <2>3. allowed \in [Tasks -> Nat]
    BY DEF Init, MaxCorrections
  <2> QED
    BY <2>1, <2>2, <2>3 DEF Init, TypeOK, Statuses, Hashes, Phases
<1>2. \A t \in Tasks : manifest[t] = <<>> /\ since[t] = 0 /\ Len(manifest[t]) = 0 /\ t \notin Done
  BY DEF Init, Done
<1>3. InHand /\ DoneAfterDependencies
  BY DEF Init, InHand, DoneAfterDependencies, Done
<1>4. RowsSince
  BY <1>2 DEF RowsSince
<1>5. ManifestTruthful
  BY <1>2 DEF ManifestTruthful
<1> QED
  BY <1>1, <1>3, <1>4, <1>5 DEF Inv

LEMMA StepInv == Inv /\ [Next]_vars => Inv'
<1> SUFFICES ASSUME Inv, [Next]_vars PROVE Inv'
  OBVIOUS
<1>1. CASE \E t \in Tasks, p \in Paths : Write(t, p)
  BY <1>1, WriteKeeps
<1>2. CASE \E t \in Tasks : Restore(t)
  BY <1>2, RestoreKeeps
<1>3. CASE \E t \in Tasks, result \in Results : TakeResult(t, result)
  BY <1>3, TakeResultKeeps
<1>4. CASE Record
  BY <1>4, WriteCorrectionsKeeps, WriteStatusKeeps, WriteReportKeeps, AppendManifestKeeps
     DEF Record
<1>5. CASE Prepare \/ Dispatch \/ Finalize \/ Crash
  BY <1>5, PrepareKeeps, DispatchKeeps, FinalizeKeeps, CrashKeeps
<1>6. CASE \E t \in Tasks, to \in {"pending", "blocked"} : SetBack(t, to)
  BY <1>6, SetBackKeeps
<1>7. CASE UNCHANGED vars
  BY <1>7 DEF vars, files, memory, history, bounds, Inv, TypeOK, InHand, StatusWritten, Unclaimed,
     RowsSince, DoneAfterDependencies, ManifestTruthful, Done, SuccessUnlogged
<1> QED
  BY <1>1, <1>2, <1>3, <1>4, <1>5, <1>6, <1>7 DEF Next

\* The invariant holds in every reachable state of the SHIP phase.
THEOREM Invariance == Spec => []Inv
  BY InitInv, StepInv, PTL DEF Spec

\* The variables keep their types.
THEOREM TypeCorrect == Spec => []TypeOK
<1>1. Inv => TypeOK
  BY DEF Inv
<1> QED
  BY <1>1, Invariance, PTL

\* A task is done only when all it depends on is done, but for what a person has set
\* back, through any crashes and invocations.
THEOREM DependenciesFirst == Spec => []DoneAfterDependencies
<1>1. Inv => DoneAfterDependencies
  BY DEF Inv
<1> QED
  BY <1>1, Invariance, PTL

\* From when a person last set a task back, the manifest claims it done just when its
\* file says so, and only skips it afterwards.
THEOREM ManifestIsTruthful == Spec => []ManifestTruthful
<1>1. Inv => ManifestTruthful
  BY DEF Inv
<1> QED
  BY <1>1, Invariance, PTL

\* No step but a person's takes a task out of the status done.
LEMMA DoneStays ==
    Inv /\ [Next]_vars =>
        \A t \in Done : status'[t] # "done" => \E to \in {"pending", "blocked"} : SetBack(t, to)
<1> SUFFICES ASSUME Inv, [Next]_vars, NEW t \in Done, status'[t] # "done"
             PROVE  \E to \in {"pending", "blocked"} : SetBack(t, to)
  OBVIOUS
<1>1. t \in Tasks /\ status[t] = "done"
  BY DEF Done
<1>2. CASE WriteStatus
  <2>1. /\ recording.task \in Tasks /\ status[recording.task] = "in-progress"
        /\ status' = [status EXCEPT ![recording.task] = recording.status]
    BY <1>2, WriteStatusStep DEF Recording
  <2> QED
    BY <1>1, <2>1 DEF Inv, TypeOK
<1>3. CASE \E u \in Tasks, to \in {"pending", "blocked"} : SetBack(u, to)
  <2>1. PICK u \in Tasks, to \in {"pending", "blocked"} : SetBack(u, to)
    BY <1>3
  <2>2. status' = [status EXCEPT ![u] = to]
    BY <2>1 DEF SetBack
  <2>3. u = t
    BY <1>1, <2>2 DEF Inv, TypeOK
  <2> QED
    BY <2>1, <2>3
<1>4. CASE Dispatch
  <2>1. t \notin Ready
    BY ReadyIs
  <2> QED
    BY <1>1, <1>4, <2>1 DEF Dispatch
<1>5. CASE \/ Prepare \/ WriteCorrections \/ WriteReport \/ AppendManifest \/ Finalize \/ Crash
           \/ \E u \in Tasks, p \in Paths : Write(u, p)
           \/ \E u \in Tasks : Restore(u)
           \/ \E u \in Tasks, result \in Results : TakeResult(u, result)
           \/ UNCHANGED vars
  <2>1. status' = status
    BY <1>5 DEF vars, files, Prepare, Write, Restore, TakeResult, WriteCorrections, WriteReport,
       AppendManifest, Finalize, Crash
  <2> QED
    BY <1>1, <2>1
<1> QED
  BY <1>2, <1>3, <1>4, <1>5 DEF Next, Record

\* A task that is done stays done until a person sets it back.
THEOREM DoneForGood == Spec => DoneIsFinal
<1>1. Inv /\ [Next]_vars =>
        [\A t \in Done : status'[t] # "done" =>
             \E to \in {"pending", "blocked"} : SetBack(t, to)]_vars
  BY DoneStays
<1> QED
  BY <1>1, Invariance, PTL DEF Spec, DoneIsFinal

-----------------------------------------------------------------------------
(* The bound on the attempts.  A failed pass is counted in the file, or is  *)
(* about to be, or the crash that lost it has allowed one more; until a     *)
(* task is blocked, or a result that blocks it is being recorded, it has    *)
(* failed less than it may.                                                 *)

Recorded(t) == recording # Idle /\ recording.task = t

Uncounted(t) == Recorded(t) /\ recording.at = "corrections" /\ recording.result = "retry"

Budget(t) ==
    /\ failures[t] <= allowed[t]
    /\ failures[t] + MaxCorrections
         <= allowed[t] + corrections[t] + (IF Uncounted(t) THEN 1 ELSE 0)
    /\ Recorded(t) =>
         /\ failures[t] + MaxCorrections <= allowed[t] + recording.count
         /\ recording.status # "blocked" \/ recording.result # "retry" => failures[t] < allowed[t]
    /\ ~Recorded(t) /\ status[t] # "blocked" => failures[t] < allowed[t]

Budgets == \A t \in Tasks : Budget(t)

LEMMA NumbersTyped ==
    ASSUME TypeOK, NEW t \in Tasks
    PROVE  /\ failures[t] \in Nat /\ corrections[t] \in Nat /\ allowed[t] \in Nat
           /\ status[t] \in Statuses
           /\ Recorded(t) => recording.count \in Nat
<1>1. Recorded(t) => recording.count \in Nat
  BY RecordingTyped DEF Recorded, Recording
<1> QED
  BY <1>1 DEF TypeOK

LEMMA SameBudget ==
    ASSUME NEW t \in Tasks, Budget(t),
           UNCHANGED <<status, corrections, failures, allowed, recording>>
    PROVE  Budget(t)'
  BY DEF Budget, Recorded, Uncounted

\* What a result makes of the count and of the status, from the file's count.
LEMMA CountOfResult ==
    ASSUME TypeOK, NEW t \in Tasks, NEW result \in Results
    PROVE  /\ CorrectionCount(t, result) >= corrections[t]
           /\ result = "retry" => CorrectionCount(t, result) = corrections[t] + 1
           /\ result = "retry" /\ EffectiveStatus(t, result) # "blocked"
                => corrections[t] + 1 < MaxCorrections
<1>1. corrections[t] \in Nat
  BY DEF TypeOK
<1> QED
  BY <1>1 DEF CorrectionCount, EffectiveStatus, MaxCorrections

\* A task that is taken up again when it was blocked may fail once more.
LEMMA DispatchBudget == Inv /\ Budgets /\ Dispatch => Budgets'
<1> SUFFICES ASSUME Inv, Budgets, Dispatch, NEW t \in Tasks
             PROVE  Budget(t)'
  BY DEF Budgets
<1>1. /\ recording = Idle /\ UNCHANGED <<recording, corrections, failures>>
      /\ status'[t] = IF t \in Ready THEN "in-progress" ELSE status[t]
      /\ allowed'[t] = IF t \in Ready \cap Blocked THEN allowed[t] + 1 ELSE allowed[t]
  BY DEF Dispatch
<1>2. ~Recorded(t) /\ ~Recorded(t)' /\ ~Uncounted(t) /\ ~Uncounted(t)'
  BY <1>1 DEF Recorded, Uncounted
<1>3. failures[t] \in Nat /\ corrections[t] \in Nat /\ allowed[t] \in Nat
  BY NumbersTyped DEF Inv
<1>4. /\ failures[t] <= allowed[t] /\ failures[t] + MaxCorrections <= allowed[t] + corrections[t] + 0
      /\ t \notin Blocked => failures[t] < allowed[t]
  BY <1>2 DEF Budgets, Budget, Blocked
<1>5. /\ failures[t] <= allowed'[t] /\ failures[t] + MaxCorrections <= allowed'[t] + corrections[t] + 0
      /\ t \in Ready \/ t \notin Blocked => failures[t] < allowed'[t]
  BY <1>1, <1>3, <1>4 DEF MaxCorrections
<1>6. ~Recorded(t)' /\ status'[t] # "blocked" => failures'[t] < allowed'[t]
  BY <1>1, <1>5 DEF Blocked
<1> QED
  BY <1>1, <1>2, <1>5, <1>6 DEF Budget

LEMMA TakeResultBudget ==
    ASSUME Inv, Budgets, NEW t \in Tasks, NEW result \in Results, TakeResult(t, result)
    PROVE  Budgets'
<1> DEFINE count == CorrectionCount(t, result)
           new == EffectiveStatus(t, result)
<1>1. /\ t \in running /\ recording = Idle
      /\ recording' = [task |-> t, result |-> result, count |-> count,
                       status |-> new, at |-> "corrections"]
      /\ UNCHANGED <<dependsOn, files, content, memory, running, allowed, touched, redone, since,
                     unlogged, bounds>>
  BY DEF TakeResult
<1>2. /\ count \in Nat /\ new \in Statuses /\ count >= corrections[t]
      /\ result = "retry" => count = corrections[t] + 1
      /\ result = "retry" /\ new # "blocked" => corrections[t] + 1 < MaxCorrections
  BY CountTyped, CountOfResult DEF Inv
<1>3. /\ failures'[t] = IF result = "retry" THEN failures[t] + 1 ELSE failures[t]
      /\ \A u \in Tasks \ {t} : failures'[u] = failures[u]
  BY DEF TakeResult, Inv, TypeOK
<1>4. status[t] # "blocked"
  BY <1>1 DEF Inv, InHand, StatusWritten
<1> HIDE DEF count, new
<1>5. /\ recording' # Idle /\ recording'.task = t /\ recording'.at = "corrections"
      /\ recording'.count = count /\ recording'.status = new /\ recording'.result = result
  <2>1. recording' \in Recording
    BY <1>1, <1>2 DEF Recording
  <2> QED
    BY <2>1, <1>1, IdleAssumption
<1>6. Budget(t)'
  <2>1. failures[t] \in Nat /\ corrections[t] \in Nat /\ allowed[t] \in Nat
    BY NumbersTyped DEF Inv
  <2>2. /\ failures[t] < allowed[t]
        /\ failures[t] + MaxCorrections <= allowed[t] + corrections[t]
    <3>1. Budget(t) /\ ~Recorded(t) /\ ~Uncounted(t)
      BY <1>1 DEF Budgets, Recorded, Uncounted
    <3> QED
      BY <3>1, <1>4, <2>1 DEF Budget
  <2>3. Recorded(t)' /\ (Uncounted(t)' <=> result = "retry")
    BY <1>5 DEF Recorded, Uncounted
  <2>4. corrections' = corrections /\ allowed' = allowed
    BY <1>1 DEF files
  <2>5. CASE result = "retry"
    <3>1. /\ failures'[t] = failures[t] + 1 /\ count = corrections[t] + 1
          /\ new # "blocked" => corrections[t] + 1 < MaxCorrections
      BY <2>5, <1>2, <1>3
    <3>2. /\ failures'[t] <= allowed[t]
          /\ failures'[t] + MaxCorrections <= allowed[t] + corrections[t] + 1
          /\ failures'[t] + MaxCorrections <= allowed[t] + count
          /\ new # "blocked" => failures'[t] < allowed[t]
      BY <3>1, <2>1, <2>2 DEF MaxCorrections
    <3> QED
      BY <3>2, <2>3, <2>4, <2>5, <1>5 DEF Budget
  <2>6. CASE result # "retry"
    <3>1. /\ failures'[t] < allowed[t] /\ failures'[t] <= allowed[t]
          /\ failures'[t] + MaxCorrections <= allowed[t] + corrections[t] + 0
          /\ failures'[t] + MaxCorrections <= allowed[t] + count
      BY <2>6, <1>2, <1>3, <2>1, <2>2 DEF MaxCorrections
    <3> QED
      BY <3>1, <2>3, <2>4, <2>6, <1>5 DEF Budget
  <2> QED
    BY <2>5, <2>6
<1>7. ASSUME NEW u \in Tasks \ {t} PROVE Budget(u)'
  <2>1. ~Recorded(u) /\ ~Recorded(u)' /\ ~Uncounted(u) /\ ~Uncounted(u)'
    BY <1>1, <1>5 DEF Recorded, Uncounted
  <2> QED
    BY <2>1, <1>1, <1>3 DEF Budgets, Budget, files
<1> QED
  BY <1>6, <1>7 DEF Budgets

LEMMA RecordBudget ==
    ASSUME Inv, Budgets, WriteCorrections \/ WriteStatus \/ WriteReport
    PROVE  Budgets'
<1> SUFFICES ASSUME NEW t \in Tasks PROVE Budget(t)'
  BY DEF Budgets
<1>1. recording # Idle /\ recording \in Recording
  BY RecordingTyped DEF Inv, WriteCorrections, WriteStatus, WriteReport
<1>2. /\ recording' # Idle /\ recording'.task = recording.task
      /\ recording'.status = recording.status /\ recording'.count = recording.count
      /\ recording'.result = recording.result
      /\ recording'.at # "corrections"
  <2>1. PICK at \in {"status", "report", "manifest"} : GoOn(at)
    BY DEF WriteCorrections, WriteStatus, WriteReport
  <2> QED
    BY <1>1, <2>1, Advanced
<1>3. Recorded(t)' <=> Recorded(t)
  BY <1>1, <1>2 DEF Recorded
<1>4. ~Uncounted(t)'
  BY <1>2 DEF Uncounted
<1>5. UNCHANGED <<failures, allowed>>
  BY DEF WriteCorrections, WriteStatus, WriteReport, history
<1>6. ~Recorded(t) => status'[t] = status[t]
  BY <1>1 DEF Recorded, WriteCorrections, WriteStatus, WriteReport, Inv, TypeOK
<1>7. failures[t] + MaxCorrections <= allowed[t] + corrections'[t]
  <2>1. Budget(t) /\ failures[t] \in Nat /\ corrections[t] \in Nat /\ allowed[t] \in Nat
    BY NumbersTyped DEF Inv, Budgets
  <2>2. CASE WriteCorrections /\ Recorded(t)
    <3>1. corrections'[t] = recording.count
      BY <2>2 DEF WriteCorrections, Recorded, Inv, TypeOK
    <3> QED
      BY <3>1, <2>1, <2>2 DEF Budget
  <2>3. CASE WriteCorrections /\ ~Recorded(t)
    <3>1. corrections'[t] = corrections[t] /\ ~Uncounted(t)
      BY <2>3, <1>1 DEF WriteCorrections, Recorded, Uncounted, Inv, TypeOK
    <3> QED
      BY <3>1, <2>1 DEF Budget
  <2>4. CASE WriteStatus \/ WriteReport
    <3>1. corrections'[t] = corrections[t] /\ ~Uncounted(t)
      BY <2>4 DEF WriteStatus, WriteReport, Uncounted
    <3> QED
      BY <3>1, <2>1 DEF Budget
  <2> QED
    BY <2>2, <2>3, <2>4
<1>8. allowed[t] + corrections'[t] + 0 = allowed[t] + corrections'[t]
  <2>1. corrections'[t] \in Nat /\ allowed[t] \in Nat
    <3>1. corrections' \in [Tasks -> Nat]
      BY WriteCorrectionsKeeps, WriteStatusKeeps, WriteReportKeeps DEF Inv, TypeOK
    <3> QED
      BY <3>1, NumbersTyped DEF Inv
  <2> QED
    BY <2>1
<1> QED
  BY <1>2, <1>3, <1>4, <1>5, <1>6, <1>7, <1>8 DEF Budgets, Budget

LEMMA AppendManifestBudget == Inv /\ Budgets /\ AppendManifest => Budgets'
<1> SUFFICES ASSUME Inv, Budgets, AppendManifest, NEW t \in Tasks
             PROVE  Budget(t)'
  BY DEF Budgets
<1>1. /\ recording # Idle /\ recording.at = "manifest"
      /\ status[recording.task] = recording.status
  BY DEF AppendManifest, Inv, InHand, StatusWritten
<1>2. /\ ~Recorded(t)' /\ ~Uncounted(t)' /\ ~Uncounted(t)
      /\ UNCHANGED <<status, corrections, failures, allowed>>
  BY <1>1 DEF AppendManifest, Recorded, Uncounted, history
<1>3. Recorded(t) => status[t] = recording.status
  BY <1>1 DEF Recorded
<1> QED
  BY <1>2, <1>3 DEF Budgets, Budget

LEMMA SetBackBudget ==
    ASSUME Inv, Budgets, NEW t \in Tasks, NEW to \in {"pending", "blocked"}, SetBack(t, to)
    PROVE  Budgets'
<1> SUFFICES ASSUME NEW u \in Tasks PROVE Budget(u)'
  BY DEF Budgets
<1>1. /\ recording = Idle /\ UNCHANGED <<recording, corrections, failures>>
      /\ allowed'[u] = IF u = t /\ status[t] = "blocked" THEN allowed[u] + 1 ELSE allowed[u]
      /\ u # t => status'[u] = status[u]
  BY DEF SetBack, Inv, TypeOK
<1>2. ~Recorded(u)' /\ ~Uncounted(u)' /\ ~Recorded(u) /\ ~Uncounted(u)
  BY <1>1 DEF Recorded, Uncounted
<1>3. failures[u] \in Nat /\ corrections[u] \in Nat /\ allowed[u] \in Nat
  BY NumbersTyped DEF Inv
<1>4. /\ failures[u] <= allowed[u] /\ failures[u] + MaxCorrections <= allowed[u] + corrections[u] + 0
      /\ status[u] # "blocked" => failures[u] < allowed[u]
  BY <1>2 DEF Budgets, Budget
<1>5. /\ failures[u] <= allowed'[u] /\ failures[u] + MaxCorrections <= allowed'[u] + corrections[u] + 0
      /\ u = t \/ status[u] # "blocked" => failures[u] < allowed'[u]
  BY <1>1, <1>3, <1>4 DEF MaxCorrections
<1>6. status'[u] # "blocked" => failures[u] < allowed'[u]
  BY <1>1, <1>5
<1> QED
  BY <1>1, <1>2, <1>5, <1>6 DEF Budget

\* A crash may lose a failed pass, and then allows one more.
LEMMA CrashBudget == Inv /\ Budgets /\ Crash => Budgets'
<1> SUFFICES ASSUME Inv, Budgets, Crash, NEW t \in Tasks
             PROVE  Budget(t)'
  BY DEF Budgets
<1>1. /\ recording' = Idle
      /\ allowed'[t] = IF FailureUnwritten(t) THEN allowed[t] + 1 ELSE allowed[t]
      /\ UNCHANGED <<status, corrections, failures>>
  BY DEF Crash, files
<1>2. ~Recorded(t)' /\ ~Uncounted(t)'
  BY <1>1 DEF Recorded, Uncounted
<1>3. failures[t] \in Nat /\ corrections[t] \in Nat /\ allowed[t] \in Nat
  BY NumbersTyped DEF Inv
<1>4. Budget(t)
  BY DEF Budgets
<1>5. CASE FailureUnwritten(t)
  <2>1. /\ failures[t] <= allowed[t]
        /\ failures[t] + MaxCorrections <= allowed[t] + corrections[t] + 1
    BY <1>3, <1>4 DEF Budget, MaxCorrections
  <2>2. /\ failures[t] <= allowed'[t] /\ failures[t] < allowed'[t]
        /\ failures[t] + MaxCorrections <= allowed'[t] + corrections[t] + 0
    BY <2>1, <1>1, <1>3, <1>5 DEF MaxCorrections
  <2> QED
    BY <2>2, <1>1, <1>2 DEF Budget
<1>6. CASE ~FailureUnwritten(t)
  <2>1. ~Uncounted(t) /\ allowed'[t] = allowed[t]
    BY <1>1, <1>6 DEF Uncounted, Recorded, FailureUnwritten
  <2>2. Recorded(t) /\ status[t] # "blocked" => failures[t] < allowed[t]
    <3>1. SUFFICES ASSUME Recorded(t), status[t] # "blocked"
                   PROVE  recording.status # "blocked" \/ recording.result # "retry"
      BY <1>4 DEF Budget
    <3>2. CASE recording.result = "retry"
      <4>1. recording.at \in {"report", "manifest"}
        BY <3>1, <3>2, <1>6, RecordingTyped DEF Inv, Recorded, FailureUnwritten, Recording
      <4>2. status[t] = recording.status
        BY <3>1, <4>1 DEF Inv, InHand, StatusWritten, Recorded
      <4> QED
        BY <3>1, <4>2
    <3> QED
      BY <3>2
  <2> QED
    BY <2>1, <2>2, <1>1, <1>2, <1>4 DEF Budget
<1> QED
  BY <1>5, <1>6

LEMMA BudgetsKept == Inv /\ Budgets /\ [Next]_vars => Budgets'
<1> SUFFICES ASSUME Inv, Budgets, [Next]_vars PROVE Budgets'
  OBVIOUS
<1>1. CASE \E t \in Tasks, result \in Results : TakeResult(t, result)
  BY <1>1, TakeResultBudget
<1>2. CASE Record
  BY <1>2, RecordBudget, AppendManifestBudget DEF Record
<1>3. CASE \E t \in Tasks, to \in {"pending", "blocked"} : SetBack(t, to)
  BY <1>3, SetBackBudget
<1>4. CASE Crash \/ Dispatch
  BY <1>4, CrashBudget, DispatchBudget
<1>5. CASE \/ Prepare \/ Finalize \/ UNCHANGED vars
           \/ \E t \in Tasks : Restore(t)
           \/ \E t \in Tasks, p \in Paths : Write(t, p)
  <2>1. UNCHANGED <<status, corrections, failures, allowed, recording>>
    BY <1>5 DEF Prepare, Finalize, vars, files, history, Restore, Write
  <2> QED
    BY <2>1, SameBudget DEF Budgets
<1> QED
  BY <1>1, <1>2, <1>3, <1>4, <1>5 DEF Next

LEMMA BudgetsFirst == Init => Budgets
<1> SUFFICES ASSUME Init, NEW t \in Tasks PROVE Budget(t)
  BY DEF Budgets
<1> QED
  BY DEF Init, Budget, MaxCorrections, Recorded, Uncounted

\* A task fails at most three times, and once more each time it is taken up again or
\* a crash comes before a failure is in its file; and one that has, and whose result
\* is recorded, is blocked.
THEOREM AttemptsAreBounded == Spec => []AttemptsBounded
<1>1. Inv /\ Budgets => AttemptsBounded
  <2> SUFFICES ASSUME Inv, Budgets, NEW t \in Tasks
               PROVE  /\ failures[t] <= allowed[t]
                      /\ failures[t] = allowed[t] /\ t \notin running => t \in Blocked
    BY DEF AttemptsBounded
  <2>1. failures[t] \in Nat /\ allowed[t] \in Nat
    BY NumbersTyped DEF Inv
  <2>2. t \notin running => ~Recorded(t)
    BY DEF Inv, InHand, Recorded
  <2> QED
    BY <2>1, <2>2 DEF Budgets, Budget, Blocked
<1> QED
  BY <1>1, Invariance, BudgetsFirst, BudgetsKept, PTL DEF Spec

-----------------------------------------------------------------------------
(* The Preserve lists.  A path that the agent of a task changed differs from *)
(* its hash, since nothing is written twice, until it is restored; so a      *)
(* result that is taken finds nothing changed by the agent.                  *)

VersionsUsed == \A p \in Paths : content[p] <= writes /\ hashes[p] <= writes

Unharmed ==
    \A t \in Tasks :
        /\ t \notin running \/ Recorded(t) => touched[t] = {}
        /\ \A p \in touched[t] : p \in Preserve[t] /\ content[p] # hashes[p]

Watched == VersionsUsed /\ Unharmed

LEMMA VersionsTyped ==
    ASSUME TypeOK, NEW p \in Paths
    PROVE  writes \in Nat /\ content[p] \in Nat /\ hashes[p] \in Nat
  BY ShipEngineAssumption DEF TypeOK, Hashes, Version

\* New hashes are taken when nobody works, and so when nothing is changed.
LEMMA PrepareWatched == Inv /\ Watched /\ Prepare => Watched'
<1> SUFFICES ASSUME Inv, Watched, Prepare PROVE Watched'
  OBVIOUS
<1>1. /\ running = {} /\ recording = Idle /\ hashes' = content
      /\ UNCHANGED <<content, running, recording, touched, writes>>
  BY DEF Prepare, Inv, InHand, history
<1>2. \A t \in Tasks : touched[t] = {}
  BY <1>1 DEF Watched, Unharmed
<1> QED
  BY <1>1, <1>2 DEF Watched, VersionsUsed, Unharmed

LEMMA WriteWatched ==
    ASSUME Inv, Watched, NEW t \in Tasks, NEW p \in Paths, Write(t, p)
    PROVE  Watched'
<1>1. /\ t \in running /\ ~Recorded(t)
      /\ writes' = writes + 1 /\ UNCHANGED <<hashes, running, recording>>
  BY DEF Write, Working, Recorded, memory
<1>2. /\ content'[p] = writes + 1
      /\ \A q \in Paths \ {p} : content'[q] = content[q]
  BY DEF Write, Inv, TypeOK, Hashes
<1>3. /\ touched'[t] = touched[t] \cup ({p} \cap Preserve[t])
      /\ \A u \in Tasks \ {t} : touched'[u] = touched[u]
      /\ \A u \in Tasks : touched[u] \subseteq Paths
  BY DEF Write, Inv, TypeOK
<1>4. VersionsUsed'
  <2> SUFFICES ASSUME NEW q \in Paths
               PROVE  content'[q] <= writes + 1 /\ hashes[q] <= writes + 1
    BY <1>1 DEF VersionsUsed
  <2>1. writes \in Nat /\ content[q] \in Nat /\ hashes[q] \in Nat
    BY VersionsTyped DEF Inv
  <2>2. content[q] <= writes /\ hashes[q] <= writes
    BY DEF Watched, VersionsUsed
  <2>3. content'[q] = writes + 1 \/ content'[q] = content[q]
    BY <1>2
  <2> QED
    BY <2>1, <2>2, <2>3
<1>5. content'[p] # hashes[p]
  <2>1. hashes[p] <= writes /\ hashes[p] \in Nat /\ writes \in Nat
    BY VersionsTyped DEF Inv, Watched, VersionsUsed
  <2> QED
    BY <2>1, <1>2
<1>6. Unharmed'
  <2> SUFFICES ASSUME NEW u \in Tasks
               PROVE  /\ u \notin running \/ Recorded(u) => touched'[u] = {}
                      /\ \A q \in touched'[u] : q \in Preserve[u] /\ content'[q] # hashes[q]
    BY <1>1 DEF Unharmed, Recorded
  <2>1. /\ u \notin running \/ Recorded(u) => touched[u] = {}
        /\ \A q \in touched[u] : q \in Preserve[u] /\ content[q] # hashes[q]
    BY DEF Watched, Unharmed
  <2>2. u \notin running \/ Recorded(u) => touched'[u] = {}
    BY <2>1, <1>1, <1>3
  <2>3. ASSUME NEW q \in touched'[u]
        PROVE  q \in Preserve[u] /\ content'[q] # hashes[q]
    <3>1. CASE q = p
      BY <3>1, <2>1, <2>3, <1>3, <1>5
    <3>2. CASE q # p
      BY <3>2, <2>1, <2>3, <1>2, <1>3
    <3> QED
      BY <3>1, <3>2
  <2> QED
    BY <2>2, <2>3
<1> QED
  BY <1>4, <1>6 DEF Watched

LEMMA RestoreWatched ==
    ASSUME Inv, Watched, NEW t \in Tasks, Restore(t)
    PROVE  Watched'
<1>1. UNCHANGED <<hashes, running, recording, writes>>
  BY DEF Restore, memory, bounds
<1>2. \A p \in Paths : content'[p] = IF p \in Changed(t) THEN hashes[p] ELSE content[p]
  BY DEF Restore
<1>3. \A u \in Tasks : touched'[u] = touched[u] \ Changed(t) /\ touched[u] \subseteq Paths
  BY DEF Restore, Inv, TypeOK
<1>4. VersionsUsed'
  BY <1>1, <1>2 DEF Watched, VersionsUsed
<1>5. Unharmed'
  BY <1>1, <1>2, <1>3 DEF Watched, Unharmed, Recorded
<1> QED
  BY <1>4, <1>5 DEF Watched

\* A result is taken when no Preserve path differs: the agent left none changed.
LEMMA TakeResultWatched ==
    ASSUME Inv, Watched, NEW t \in Tasks, NEW result \in Results, TakeResult(t, result)
    PROVE  Watched'
<1>1. /\ t \in running /\ recording = Idle /\ Changed(t) = {}
      /\ UNCHANGED <<content, hashes, running, touched, writes>>
  BY DEF TakeResult, memory, bounds
<1>2. \A u \in Tasks \ {t} : ~Recorded(u)'
  <2>1. recording'.task = t
    BY DEF TakeResult
  <2> QED
    BY <2>1 DEF Recorded
<1>3. touched[t] = {}
  BY <1>1 DEF Watched, Unharmed, Changed
<1> QED
  BY <1>1, <1>2, <1>3 DEF Watched, VersionsUsed, Unharmed

LEMMA RecordWatched ==
    ASSUME Inv, Watched, Record
    PROVE  Watched'
<1>1. UNCHANGED <<content, hashes, touched, writes>>
  BY DEF Record, WriteCorrections, WriteStatus, WriteReport, AppendManifest, memory, history, bounds
<1>2. CASE WriteCorrections \/ WriteStatus \/ WriteReport
  <2>1. running' = running
    BY <1>2 DEF WriteCorrections, WriteStatus, WriteReport
  <2>2. recording # Idle /\ recording'.task = recording.task
    <3>1. recording # Idle /\ \E at \in {"status", "report", "manifest"} : GoOn(at)
      BY <1>2 DEF WriteCorrections, WriteStatus, WriteReport
    <3> QED
      BY <3>1, Advanced
  <2>3. \A t \in Tasks : Recorded(t)' => Recorded(t)
    BY <2>2 DEF Recorded
  <2> QED
    BY <1>1, <2>1, <2>3 DEF Watched, VersionsUsed, Unharmed
<1>3. CASE AppendManifest
  <2>1. \A t \in Tasks : t \notin running' => t \notin running \/ Recorded(t)
    BY <1>3 DEF AppendManifest, Recorded
  <2>2. \A t \in Tasks : ~Recorded(t)'
    BY <1>3 DEF AppendManifest, Recorded
  <2> QED
    BY <1>1, <2>1, <2>2 DEF Watched, VersionsUsed, Unharmed
<1> QED
  BY <1>2, <1>3 DEF Record

LEMMA WatchedKept == Inv /\ Watched /\ [Next]_vars => Watched'
<1> SUFFICES ASSUME Inv, Watched, [Next]_vars PROVE Watched'
  OBVIOUS
<1>1. CASE Prepare \/ Record
  BY <1>1, PrepareWatched, RecordWatched
<1>2. CASE \E t \in Tasks, p \in Paths : Write(t, p)
  BY <1>2, WriteWatched
<1>3. CASE \E t \in Tasks : Restore(t)
  BY <1>3, RestoreWatched
<1>4. CASE \E t \in Tasks, result \in Results : TakeResult(t, result)
  BY <1>4, TakeResultWatched
<1>5. CASE Crash
  <2>1. touched' = [t \in Tasks |-> {}] /\ UNCHANGED <<content, hashes, writes>>
    BY <1>5 DEF Crash
  <2> QED
    BY <2>1 DEF Watched, VersionsUsed, Unharmed
<1>6. CASE Dispatch
  <2>1. running \subseteq running' /\ UNCHANGED <<content, hashes, recording, touched, writes>>
    BY <1>6 DEF Dispatch, bounds
  <2> QED
    BY <2>1 DEF Watched, VersionsUsed, Unharmed, Recorded
<1>7. CASE Finalize \/ UNCHANGED vars \/ \E t \in Tasks, to \in {"pending", "blocked"} : SetBack(t, to)
  <2>1. UNCHANGED <<content, hashes, running, recording, touched, writes>>
    BY <1>7 DEF Finalize, SetBack, vars, memory, history, bounds
  <2> QED
    BY <2>1 DEF Watched, VersionsUsed, Unharmed, Recorded
<1> QED
  BY <1>1, <1>2, <1>3, <1>4, <1>5, <1>6, <1>7 DEF Next

LEMMA WatchedFirst == Init => Watched
<1> SUFFICES ASSUME Init PROVE Watched
  OBVIOUS
<1> QED
  BY DEF Init, Watched, VersionsUsed, Unharmed, Recorded

\* A done task's agent leaves no path of its Preserve list as it changed it.
THEOREM PreserveIsKept == Spec => []PreserveKept
<1>1. Inv /\ Watched => PreserveKept
  <2> SUFFICES ASSUME Inv, Watched, NEW t \in Done
               PROVE  touched[t] = {}
    BY DEF PreserveKept
  <2>1. t \notin running \/ Recorded(t)
    BY DEF Inv, InHand, StatusWritten, Recorded, Done
  <2> QED
    BY <2>1 DEF Watched, Unharmed, Done
<1> QED
  BY <1>1, Invariance, WatchedFirst, WatchedKept, PTL DEF Spec
=============================================================================
