----------------------------- MODULE Saga_proofs -----------------------------
(***************************************************************************)
(* Proofs about the two sagas of lib/operate/saga.mjs.                     *)
(*                                                                         *)
(* EcosystemSaga, for any plan of any number of steps.  The inductive      *)
(* invariant is that the saga is reconciled: ready and pending say of      *)
(* every step whether its prerequisites succeeded, and the state is that   *)
(* of the statuses.  Reconciling keeps it because it never makes a step    *)
(* successful or unsuccessful.                                             *)
(*                                                                         *)
(* ReleaseOperation, for any participants and any sequence of              *)
(* observations, old and repeated ones included.                           *)
(***************************************************************************)
EXTENDS EcosystemSaga, ReleaseOperation, TLAPS

SagaInv == /\ TypeOK
       /\ Acyclic(dependsOn)
       /\ WorkRevealedExactly
       /\ state = StateOf(status)

\* Reconciling turns ready into pending and back, and nothing else.
LEMMA ReconciledKeeps ==
    ASSUME NEW st \in [Steps -> Statuses]
    PROVE  /\ Reconciled(st) \in [Steps -> Statuses]
           /\ \A s \in Steps :
                /\ st[s] \notin {"pending", "ready"} => Reconciled(st)[s] = st[s]
                /\ st[s] \in {"pending", "ready"} =>
                      Reconciled(st)[s] = IF DependenciesSucceeded(st, s)
                                          THEN "ready" ELSE "pending"
                /\ Reconciled(st)[s] \in Successful <=> st[s] \in Successful
  BY DEF Reconciled, Statuses, Successful

LEMMA StateOfTyped ==
    ASSUME NEW st
    PROVE  StateOf(st) \in SagaStates
  BY DEF StateOf, SagaStates

\* Whatever the statuses were, a reconciled saga reveals the right work.
LEMMA BecomeReveals ==
    ASSUME dependsOn \in [Steps -> SUBSET Steps], dependsOn' = dependsOn,
           NEW st \in [Steps -> Statuses], Become(st)
    PROVE  /\ status' \in [Steps -> Statuses]
           /\ WorkRevealedExactly'
           /\ state' = StateOf(status') /\ state' \in SagaStates
<1>1. status' = Reconciled(st) /\ state' = StateOf(status')
  BY DEF Become
<1>2. \A s \in Steps : dependsOn[s] \subseteq Steps
  OBVIOUS
<1>3. ASSUME NEW s \in Steps
      PROVE  /\ status'[s] = "ready" => \A d \in dependsOn[s] : status'[d] \in Successful
             /\ status'[s] = "pending" => \E d \in dependsOn[s] : status'[d] \notin Successful
  <2>1. \A d \in dependsOn[s] : status'[d] \in Successful <=> st[d] \in Successful
    BY <1>1, <1>2, ReconciledKeeps
  <2>2. CASE st[s] \in {"pending", "ready"}
    <3>1. status'[s] = IF DependenciesSucceeded(st, s) THEN "ready" ELSE "pending"
      BY <1>1, <2>2, ReconciledKeeps
    <3> QED
      BY <2>1, <3>1 DEF DependenciesSucceeded
  <2>3. CASE st[s] \notin {"pending", "ready"}
    BY <1>1, <2>3, ReconciledKeeps
  <2> QED
    BY <2>2, <2>3
<1>4. WorkRevealedExactly'
  BY <1>3 DEF WorkRevealedExactly
<1> QED
  BY <1>1, <1>4, ReconciledKeeps, StateOfTyped

LEMMA SagaStepKeepsInv == SagaInv /\ [Next]_vars => SagaInv'
<1> USE SagaAssumption
<1> SUFFICES ASSUME SagaInv, [Next]_vars PROVE SagaInv'
  OBVIOUS
<1> USE DEF SagaInv, TypeOK
<1>1. ASSUME NEW s \in Steps, NEW ev \in SUBSET Evidence,
             NEW err \in Errors \cup {None}, NEW at \in Times \cup {None},
             Replay(s, ev, err, at)
      PROVE  SagaInv'
  <2>1. dependsOn' = dependsOn /\ Become(status)
    BY <1>1 DEF Replay
  <2>2. /\ attempts' \in [Steps -> 0..MaxAttempts]
        /\ evidence' \in [Steps -> SUBSET Evidence]
        /\ error' \in [Steps -> Errors \cup {None}]
        /\ completedAt' \in [Steps -> Times \cup {None}]
    BY <1>1 DEF Replay
  <2> QED
    BY <2>1, <2>2, BecomeReveals
<1>2. ASSUME NEW s \in Steps, NEW ev \in SUBSET Evidence,
             NEW err \in Errors \cup {None}, NEW at \in Times \cup {None},
             NEW new \in Statuses, Advance(s, new, ev, err, at)
      PROVE  SagaInv'
  <2>1. dependsOn' = dependsOn /\ Become([status EXCEPT ![s] = new])
    BY <1>2 DEF Advance
  <2>2. /\ evidence' \in [Steps -> SUBSET Evidence]
        /\ error' \in [Steps -> Errors \cup {None}]
        /\ completedAt' \in [Steps -> Times \cup {None}]
    BY <1>2 DEF Advance
  <2>3. attempts' \in [Steps -> 0..MaxAttempts]
    <3>1. CASE new = "in-progress"
      BY <1>2, <3>1 DEF Advance
    <3>2. CASE new # "in-progress"
      BY <1>2, <3>2 DEF Advance
    <3> QED
      BY <3>1, <3>2
  <2>4. [status EXCEPT ![s] = new] \in [Steps -> Statuses]
    OBVIOUS
  <2> QED
    BY <2>1, <2>2, <2>3, <2>4, BecomeReveals
<1>3. CASE UNCHANGED vars
  BY <1>3 DEF vars, WorkRevealedExactly
<1> QED
  BY <1>1, <1>2, <1>3 DEF Next

\* A saga is well formed and reconciled in every reachable state.
THEOREM SagaInvariance == Spec => []SagaInv
<1>1. Init => SagaInv
  <2> SUFFICES ASSUME Init PROVE SagaInv
    OBVIOUS
  <2>1. dependsOn \in [Steps -> SUBSET Steps] /\ Acyclic(dependsOn)
    BY DEF Init
  <2>2. PICK st \in [Steps -> Statuses] :
          status = Reconciled(st) /\ state = StateOf(Reconciled(st))
    BY DEF Init
  <2>3. status \in [Steps -> Statuses] /\ state \in SagaStates
    BY <2>2, ReconciledKeeps, StateOfTyped
  <2>4. ASSUME NEW s \in Steps
        PROVE  /\ status[s] = "ready" => \A d \in dependsOn[s] : status[d] \in Successful
               /\ status[s] = "pending" => \E d \in dependsOn[s] : status[d] \notin Successful
    <3>1. \A d \in dependsOn[s] : status[d] \in Successful <=> st[d] \in Successful
      BY <2>1, <2>2, ReconciledKeeps
    <3>2. CASE st[s] \in {"pending", "ready"}
      <4>1. status[s] = IF DependenciesSucceeded(st, s) THEN "ready" ELSE "pending"
        BY <2>2, <3>2, ReconciledKeeps
      <4> QED
        BY <3>1, <4>1 DEF DependenciesSucceeded
    <3>3. CASE st[s] \notin {"pending", "ready"}
      BY <2>2, <3>3, ReconciledKeeps
    <3> QED
      BY <3>2, <3>3
  <2>5. /\ attempts \in [Steps -> 0..MaxAttempts]
        /\ evidence \in [Steps -> SUBSET Evidence]
        /\ error \in [Steps -> Errors \cup {None}]
        /\ completedAt \in [Steps -> Times \cup {None}]
    BY SagaAssumption DEF Init
  <2> QED
    BY <2>1, <2>2, <2>3, <2>4, <2>5 DEF SagaInv, TypeOK, WorkRevealedExactly
<1> QED
  BY <1>1, SagaStepKeepsInv, PTL DEF Spec

\* The variables have their types.
THEOREM SagaTypeCorrect == Spec => []TypeOK
<1>1. SagaInv => TypeOK
  BY DEF SagaInv
<1> QED
  BY <1>1, SagaInvariance, PTL

\* The work revealed as ready is exactly what may be done.
THEOREM RevealsExactly == Spec => []WorkRevealedExactly
<1>1. SagaInv => WorkRevealedExactly
  BY DEF SagaInv
<1> QED
  BY <1>1, SagaInvariance, PTL

----------------------------------------------------------------------------
\* In a blocked saga, a pending step that waits for no pending step waits for one
\* that was compensated; there is such a step because the plan has no circle.
THEOREM BlockedMeansCompensated == Spec => []BlockedByCompensation
<1>1. SagaInv => BlockedByCompensation
  <2> SUFFICES ASSUME SagaInv, state = "blocked"
               PROVE  \E s \in Steps : status[s] = "compensated"
    BY DEF BlockedByCompensation
  <2> DEFINE waiting == {s \in Steps : status[s] = "pending"}
  <2>1. \A s \in Steps : status[s] \in Ended \cup {"pending"}
    BY DEF SagaInv, TypeOK, StateOf, Statuses, Ended
  <2>2. waiting # {}
    BY <2>1 DEF SagaInv, StateOf
  <2>3. PICK s \in waiting : dependsOn[s] \cap waiting = {}
    BY <2>2 DEF SagaInv, Acyclic
  <2>4. PICK d \in dependsOn[s] : status[d] \notin Successful
    BY <2>3 DEF SagaInv, WorkRevealedExactly
  <2>5. d \in Steps /\ status[d] # "pending"
    BY <2>3, <2>4 DEF SagaInv, TypeOK
  <2> QED
    BY <2>1, <2>4, <2>5 DEF Ended, Successful
<1> QED
  BY <1>1, SagaInvariance, PTL

\* No step starts before its prerequisites have succeeded.
THEOREM PrerequisitesComeFirst == Spec => PrerequisitesFirst
<1>1. SagaInv /\ [Next]_vars =>
        \A s \in Steps :
          status[s] \in {"pending", "ready"} /\ status'[s] \notin {"pending", "ready"}
              => \A d \in dependsOn[s] : status[d] \in Successful
  <2> SUFFICES ASSUME SagaInv, [Next]_vars, NEW s \in Steps,
                      status[s] \in {"pending", "ready"},
                      status'[s] \notin {"pending", "ready"}
               PROVE  \A d \in dependsOn[s] : status[d] \in Successful
    OBVIOUS
  <2>1. ~Become(status)
    BY ReconciledKeeps DEF Become, SagaInv, TypeOK
  <2>2. status' # status
    OBVIOUS
  <2>3. PICK t \in Steps, new \in Statuses :
          /\ <<status[t], new>> \in Transitions
          /\ Become([status EXCEPT ![t] = new])
    <3>1. PICK t \in Steps, ev \in SUBSET Evidence,
               err \in Errors \cup {None}, at \in Times \cup {None} :
            Replay(t, ev, err, at) \/ \E new \in Statuses : Advance(t, new, ev, err, at)
      BY <2>2 DEF Next, vars
    <3>2. PICK new \in Statuses : Advance(t, new, ev, err, at)
      BY <2>1, <3>1 DEF Replay
    <3> QED
      BY <3>2 DEF Advance
  <2>4. [status EXCEPT ![t] = new] \in [Steps -> Statuses]
    BY DEF SagaInv, TypeOK
  <2>5. t = s
    BY <2>3, <2>4, ReconciledKeeps DEF Become, SagaInv, TypeOK
  <2>6. status[s] = "ready"
    BY <2>3, <2>5 DEF Transitions
  <2> QED
    BY <2>6 DEF SagaInv, WorkRevealedExactly
<1> QED
  BY <1>1, SagaInvariance, PTL DEF Spec, PrerequisitesFirst

\* Completed, compensated and blocked sagas never change: no step is left that a
\* report could move, and reconciling a reconciled saga changes nothing.
THEOREM DeadEnds == Spec => DeadEndsAreFinal
<1>1. SagaInv /\ [Next]_vars =>
        (state \in {"completed", "compensated", "blocked"}
            => UNCHANGED <<status, state>>)
  <2> SUFFICES ASSUME SagaInv, [Next]_vars, state \in {"completed", "compensated", "blocked"}
               PROVE  UNCHANGED <<status, state>>
    OBVIOUS
  <2>1. \A s \in Steps : status[s] \in Ended \cup {"pending"}
    BY DEF SagaInv, TypeOK, StateOf, Statuses, Ended
  <2>2. ASSUME NEW s \in Steps, NEW new \in Statuses
        PROVE  <<status[s], new>> \notin Transitions
    BY <2>1 DEF Transitions, Ended
  <2>3. CASE Become(status)
    <3>1. \A s \in Steps : Reconciled(status)[s] = status[s]
      BY <2>1, ReconciledKeeps
         DEF SagaInv, TypeOK, WorkRevealedExactly, DependenciesSucceeded, Ended
    <3>2. Reconciled(status) = status
      BY <3>1, ReconciledKeeps DEF SagaInv, TypeOK
    <3> QED
      BY <2>3, <3>2 DEF Become, SagaInv
  <2>4. ASSUME NEW s \in Steps, NEW ev \in SUBSET Evidence,
               NEW err \in Errors \cup {None}, NEW at \in Times \cup {None},
               \/ Replay(s, ev, err, at)
               \/ \E new \in Statuses : Advance(s, new, ev, err, at)
        PROVE  Become(status)
    <3>1. ASSUME NEW new \in Statuses PROVE ~Advance(s, new, ev, err, at)
      BY <2>2 DEF Advance
    <3> QED
      BY <2>4, <3>1 DEF Replay
  <2>5. CASE UNCHANGED vars
    BY <2>5 DEF vars
  <2>6. CASE Next
    <3>1. Become(status)
      BY <2>4, <2>6 DEF Next
    <3> QED
      BY <2>3, <3>1
  <2> QED
    BY <2>5, <2>6
<1> QED
  BY <1>1, SagaInvariance, PTL DEF Spec, DeadEndsAreFinal

\* A repeated or late report takes nothing from the record of a step that ended:
\* a replay only fills gaps, and no transition leaves an ended status.
THEOREM EndedStepsKeep == Spec => EndedStepsKeepTheirRecord
<1> DEFINE Keeps(s) == /\ status'[s] = status[s]
                       /\ completedAt[s] # None => completedAt'[s] = completedAt[s]
                       /\ error[s] # None => error'[s] = error[s]
                       /\ evidence[s] \subseteq evidence'[s]
<1>1. SagaInv /\ [Next]_vars => \A s \in Steps : status[s] \in Ended => Keeps(s)
  <2> SUFFICES ASSUME SagaInv, [Next]_vars, NEW s \in Steps, status[s] \in Ended
               PROVE  Keeps(s)
    OBVIOUS
  <2> USE DEF SagaInv, TypeOK
  <2>1. ASSUME NEW t \in Steps, NEW ev \in SUBSET Evidence,
               NEW err \in Errors \cup {None}, NEW at \in Times \cup {None},
               Replay(t, ev, err, at)
        PROVE  Keeps(s)
    <3>1. status'[s] = status[s]
      BY <2>1, ReconciledKeeps DEF Replay, Become, Ended
    <3>2. /\ completedAt[s] # None => completedAt'[s] = completedAt[s]
          /\ error[s] # None => error'[s] = error[s]
          /\ evidence[s] \subseteq evidence'[s]
      BY <2>1 DEF Replay
    <3> QED
      BY <3>1, <3>2
  <2>2. ASSUME NEW t \in Steps, NEW ev \in SUBSET Evidence,
               NEW err \in Errors \cup {None}, NEW at \in Times \cup {None},
               NEW new \in Statuses, Advance(t, new, ev, err, at)
        PROVE  Keeps(s)
    <3>1. t # s
      BY <2>2 DEF Advance, Transitions, Ended
    <3>2. [status EXCEPT ![t] = new] \in [Steps -> Statuses]
      OBVIOUS
    <3>3. Become([status EXCEPT ![t] = new])
      BY <2>2 DEF Advance
    <3>4. status'[s] = status[s]
      BY <3>1, <3>2, <3>3, ReconciledKeeps DEF Become, Ended
    <3>5. /\ completedAt'[s] = completedAt[s]
          /\ error'[s] = error[s]
          /\ evidence'[s] = evidence[s]
      BY <2>2, <3>1 DEF Advance
    <3> QED
      BY <3>4, <3>5
  <2>3. CASE UNCHANGED vars
    BY <2>3 DEF vars
  <2> QED
    BY <2>1, <2>2, <2>3 DEF Next
<1> QED
  BY <1>1, SagaInvariance, PTL DEF Spec, EndedStepsKeepTheirRecord

----------------------------------------------------------------------------
(* The release operation. *)

\* The phase is that of the participants, unless nothing was observed yet.
PhaseDerived ==
    phase = PhaseOf(part) \/ (phase = "drafted" /\ Among(part) = {"pending"})

ReleaseInv == ReleaseTypeOK /\ PublishedIsBinding /\ PhaseDerived

LEMMA PhaseOfTyped ==
    ASSUME NEW ps
    PROVE  PhaseOf(ps) \in Phases
  BY DEF PhaseOf, Phases

LEMMA MergedTyped ==
    ASSUME NEW p \in Participant, NEW obs \in Observation
    PROVE  Merged(p, obs) \in Participant
  BY DEF Merged, Seen, Participant, Observation

LEMMA MergedFields ==
    ASSUME NEW p, NEW obs
    PROVE  /\ Merged(p, obs).state = Seen(p, obs)
           /\ Merged(p, obs).published = (p.published \/ obs.published)
           /\ Merged(p, obs).digest = IF obs.digest = Unknown THEN p.digest ELSE obs.digest
  BY DEF Merged

\* What a participant becomes in a step.
LEMMA StepOfParticipant ==
    ASSUME ReleaseTypeOK, NEW S \in SUBSET Participants,
           NEW observed \in [S -> Observation], Reconcile(observed)
    PROVE  /\ part' \in [Participants -> Participant]
           /\ Coherent(part')
           /\ phase' = PhaseOf(part')
           /\ recovery' = EffectiveRecovery(recovery, part')
           /\ \A i \in Participants :
                \/ part'[i] = part[i]
                \/ \E obs \in Observation :
                      Mergeable(part[i], obs) /\ part'[i] = Merged(part[i], obs)
<1> DEFINE merged == [i \in Participants |->
                        IF i \in DOMAIN observed THEN Merged(part[i], observed[i])
                        ELSE part[i]]
<1>1. /\ \A i \in DOMAIN observed : Mergeable(part[i], observed[i])
      /\ Coherent(merged) /\ part' = merged
      /\ phase' = PhaseOf(merged) /\ recovery' = EffectiveRecovery(recovery, merged)
  BY DEF Reconcile
<1>2. ASSUME NEW i \in Participants
      PROVE  \/ merged[i] = part[i]
             \/ \E obs \in Observation :
                   Mergeable(part[i], obs) /\ merged[i] = Merged(part[i], obs)
  <2>1. CASE i \in S
    <3>1. observed[i] \in Observation /\ DOMAIN observed = S
      BY <2>1
    <3> QED
      BY <1>1, <2>1, <3>1
  <2>2. CASE i \notin S
    BY <2>2
  <2> QED
    BY <2>1, <2>2
<1>3. ASSUME NEW i \in Participants PROVE merged[i] \in Participant
  BY <1>2, MergedTyped DEF ReleaseTypeOK
<1>4. merged \in [Participants -> Participant]
  BY <1>3
<1> HIDE DEF merged
<1> QED
  BY <1>1, <1>2, <1>4

LEMMA ReleaseStepKeepsInv == ReleaseInv /\ [ReleaseNext]_releaseVars => ReleaseInv'
<1> SUFFICES ASSUME ReleaseInv, [ReleaseNext]_releaseVars PROVE ReleaseInv'
  OBVIOUS
<1>1. CASE UNCHANGED releaseVars
  BY <1>1 DEF releaseVars, ReleaseInv, ReleaseTypeOK, PublishedIsBinding, PhaseDerived, Among, PhaseOf
<1>2. ASSUME NEW S \in SUBSET Participants, NEW observed \in [S -> Observation],
             Reconcile(observed)
      PROVE  ReleaseInv'
  <2>1. /\ part' \in [Participants -> Participant]
        /\ Coherent(part')
        /\ phase' = PhaseOf(part')
        /\ recovery' = EffectiveRecovery(recovery, part')
    BY <1>2, StepOfParticipant DEF ReleaseInv
  <2>2. ReleaseTypeOK'
    BY <2>1, PhaseOfTyped DEF ReleaseTypeOK, EffectiveRecovery, RecoveryModes
  <2>3. PublishedIsBinding'
    BY <2>1 DEF PublishedIsBinding, Coherent, EffectiveRecovery
  <2> QED
    BY <2>1, <2>2, <2>3 DEF ReleaseInv, PhaseDerived
<1> QED
  BY <1>1, <1>2 DEF ReleaseNext

THEOREM ReleaseInvariance == ReleaseSpec => []ReleaseInv
<1>1. ReleaseInit => ReleaseInv
  BY PhaseOfTyped
     DEF ReleaseInit, ReleaseInv, ReleaseTypeOK, PublishedIsBinding, PhaseDerived, Coherent,
         EffectiveRecovery, Phases
<1> QED
  BY <1>1, ReleaseStepKeepsInv, PTL DEF ReleaseSpec

\* The variables have their types.
THEOREM ReleaseTypeCorrect == ReleaseSpec => []ReleaseTypeOK
<1>1. ReleaseInv => ReleaseTypeOK
  BY DEF ReleaseInv
<1> QED
  BY <1>1, ReleaseInvariance, PTL

\* A published package keeps its digest, is never compensated, and forbids
\* compensation for the operation.
THEOREM PublishedBinds == ReleaseSpec => []PublishedIsBinding
<1>1. ReleaseInv => PublishedIsBinding
  BY DEF ReleaseInv
<1> QED
  BY <1>1, ReleaseInvariance, PTL

\* No observation takes a publication, a compensation or the recovery mode back.
THEOREM ThereIsNoWayBack == ReleaseSpec => NoWayBack
<1>1. ReleaseInv /\ [ReleaseNext]_releaseVars =>
        /\ \A i \in Participants :
             /\ part[i].published => part'[i].published
             /\ part[i].digest # Unknown => part'[i].digest = part[i].digest
             /\ part[i].state = "compensated" => part'[i].state = "compensated"
        /\ recovery = "forward-fix-only" => recovery' = "forward-fix-only"
  <2> SUFFICES ASSUME ReleaseInv, [ReleaseNext]_releaseVars
               PROVE  /\ \A i \in Participants :
                           /\ part[i].published => part'[i].published
                           /\ part[i].digest # Unknown => part'[i].digest = part[i].digest
                           /\ part[i].state = "compensated" =>
                                 part'[i].state = "compensated"
                      /\ recovery = "forward-fix-only" =>
                            recovery' = "forward-fix-only"
    OBVIOUS
  <2>1. CASE UNCHANGED releaseVars
    BY <2>1 DEF releaseVars
  <2>2. ASSUME NEW S \in SUBSET Participants, NEW observed \in [S -> Observation],
               Reconcile(observed)
        PROVE  /\ \A i \in Participants :
                    /\ part[i].published => part'[i].published
                    /\ part[i].digest # Unknown => part'[i].digest = part[i].digest
                    /\ part[i].state = "compensated" => part'[i].state = "compensated"
               /\ recovery = "forward-fix-only" => recovery' = "forward-fix-only"
    <3>1. recovery = "forward-fix-only" => recovery' = "forward-fix-only"
      BY <2>2, StepOfParticipant DEF ReleaseInv, EffectiveRecovery
    <3>2. ASSUME NEW i \in Participants, NEW obs \in Observation,
                 Mergeable(part[i], obs), part'[i] = Merged(part[i], obs)
          PROVE  /\ part[i].published => part'[i].published
                 /\ part[i].digest # Unknown => part'[i].digest = part[i].digest
                 /\ part[i].state = "compensated" => part'[i].state = "compensated"
      <4>1. part[i].published => part'[i].published
        <5>1. part'[i].published = (part[i].published \/ obs.published)
          BY <3>2, MergedFields
        <5>2. part[i].published \in BOOLEAN /\ obs.published \in BOOLEAN
          BY DEF ReleaseInv, ReleaseTypeOK, Participant, Observation
        <5> QED
          BY <5>1, <5>2
      <4>2. part[i].digest # Unknown => part'[i].digest = part[i].digest
        BY <3>2, MergedFields DEF Mergeable
      <4>3. part[i].state = "compensated" => part'[i].state = "compensated"
        BY <3>2, MergedFields DEF Mergeable, MayBecome, Onwards
      <4> QED
        BY <4>1, <4>2, <4>3
    <3> QED
      BY <2>2, <3>1, <3>2, StepOfParticipant DEF ReleaseInv
  <2> QED
    BY <2>1, <2>2 DEF ReleaseNext
<1> QED
  BY <1>1, ReleaseInvariance, PTL DEF ReleaseSpec, NoWayBack

\* Reconciling never throws for want of a next safe action.
THEOREM NextActionExists == ReleaseSpec => []NextActionDerivable
<1>1. ReleaseInv => NextActionDerivable
  <2> SUFFICES ASSUME ReleaseInv, phase \notin {"drafted", "completed"}
               PROVE  \E i \in Participants : i \in Candidates(part, phase)
    BY DEF NextActionDerivable
  <2>1. phase = PhaseOf(part)
    BY DEF ReleaseInv, PhaseDerived
  <2>2. \A i \in Participants : part[i].state \in ParticipantStates
    BY DEF ReleaseInv, ReleaseTypeOK, Participant
  <2> QED
    BY <2>1, <2>2
       DEF PhaseOf, Among, Candidates, Onwards, ParticipantStates
<1> QED
  BY <1>1, ReleaseInvariance, PTL

\* Merging an observation again changes nothing.
THEOREM ReplaysAreIdempotent == ReleaseSpec => []ReplayIsIdempotent
<1>1. ReleaseTypeOK => ReplayIsIdempotent
  <2> SUFFICES ASSUME ReleaseTypeOK, NEW i \in Participants, NEW obs \in Observation,
                      Mergeable(part[i], obs)
               PROVE  LET once == Merged(part[i], obs)
                      IN  Mergeable(once, obs) /\ Merged(once, obs) = once
    BY DEF ReplayIsIdempotent
  <2> DEFINE once == Merged(part[i], obs)
  <2>1. /\ once.state = Seen(part[i], obs)
        /\ once.published = (part[i].published \/ obs.published)
        /\ once.digest = IF obs.digest = Unknown THEN part[i].digest ELSE obs.digest
    BY MergedFields
  <2>2. once \in Participant
    BY MergedTyped DEF ReleaseTypeOK
  <2> HIDE DEF once
  <2>3. Seen(once, obs) = once.state
    BY <2>1 DEF Seen
  <2>4. Mergeable(once, obs)
    BY <2>1, <2>3 DEF Mergeable, MayBecome
  <2>5. (once.published \/ obs.published) = once.published
    BY <2>1, <2>2 DEF Participant, Observation
  <2>6. (IF obs.digest = Unknown THEN once.digest ELSE obs.digest) = once.digest
    BY <2>1
  <2>7. once = [state |-> once.state, published |-> once.published, digest |-> once.digest]
    BY <2>2 DEF Participant
  <2>8. Merged(once, obs) = once
    BY <2>3, <2>5, <2>6, <2>7 DEF Merged
  <2> QED
    BY <2>4, <2>8 DEF once
<1> QED
  BY <1>1, ReleaseTypeCorrect, PTL
=============================================================================
