---------------------------- MODULE EcosystemSaga ----------------------------
(***************************************************************************)
(* The multi-repository release saga of lib/operate/saga.mjs: steps with   *)
(* dependencies, of which the ready ones may be worked on, and reports of  *)
(* what became of them.  A saga is a document; every operation takes one   *)
(* and returns the next or throws.  Callers report when they like, again   *)
(* and out of order, so every report is tried in every state.              *)
(*                                                                         *)
(* Participants, subjects and the time of the last update play no part.    *)
(***************************************************************************)
EXTENDS Naturals

CONSTANTS Steps,
          Evidence,     \* what may be recorded as evidence
          Errors,       \* error messages
          Times,        \* completion times
          None,         \* no error, no completion time
          MaxAttempts   \* the schema's limit of a step's attempts, 20

ASSUME SagaAssumption ==
    /\ None \notin Errors
    /\ None \notin Times
    /\ MaxAttempts \in Nat

VARIABLES
    dependsOn,   \* the steps that a step depends on, fixed when it is planned
    status,
    attempts,
    evidence,
    error,
    completedAt,
    state        \* the state of the saga as a whole

vars == <<dependsOn, status, attempts, evidence, error, completedAt, state>>

Statuses == {"pending", "ready", "in-progress", "completed", "failed",
             "compensated", "skipped"}

SagaStates == {"in-progress", "blocked", "failed", "completed", "compensated"}

Successful == {"completed", "skipped"}

Ended == {"completed", "skipped", "compensated"}

TypeOK ==
    /\ dependsOn \in [Steps -> SUBSET Steps]
    /\ status \in [Steps -> Statuses]
    /\ attempts \in [Steps -> 0..MaxAttempts]
    /\ evidence \in [Steps -> SUBSET Evidence]
    /\ error \in [Steps -> Errors \cup {None}]
    /\ completedAt \in [Steps -> Times \cup {None}]
    /\ state \in SagaStates

----------------------------------------------------------------------------
\* Mutant: only a step that depends on itself is noticed.
NoSelfDependency(d) == \A s \in Steps : s \notin d[s]

\* assertSagaTopology: no steps wait for each other in a circle.
Acyclic(d) ==
    \A S \in SUBSET Steps : S # {} => \E s \in S : d[s] \cap S = {}

DependenciesSucceeded(st, s) == \A d \in dependsOn[s] : st[d] \in Successful

\* Mutant: steps become ready and stay so.
ReconciledPromoting(st) ==
    [s \in Steps |->
        IF st[s] = "pending" /\ DependenciesSucceeded(st, s) THEN "ready" ELSE st[s]]

\* reconcileEcosystemSaga: of the steps nobody has started, those whose
\* dependencies succeeded are ready and the others pending.
Reconciled(st) ==
    [s \in Steps |->
        IF st[s] \notin {"pending", "ready"} THEN st[s]
        ELSE IF DependenciesSucceeded(st, s) THEN "ready" ELSE "pending"]

\* Mutant: only work that was started counts as progress.
StateOfStarted(st) ==
    LET among == {st[s] : s \in Steps}
    IN  IF "failed" \in among THEN "failed"
        ELSE IF "in-progress" \in among THEN "in-progress"
        ELSE IF among \subseteq Ended
             THEN IF "compensated" \in among THEN "compensated" ELSE "completed"
        ELSE "blocked"

StateOf(st) ==
    LET among == {st[s] : s \in Steps}
    IN  IF "failed" \in among THEN "failed"
        ELSE IF "in-progress" \in among THEN "in-progress"
        ELSE IF among \subseteq Ended
             THEN IF "compensated" \in among THEN "compensated" ELSE "completed"
        ELSE IF "ready" \in among THEN "in-progress" ELSE "blocked"

\* Every operation returns a reconciled saga.
Become(st) == status' = Reconciled(st) /\ state' = StateOf(Reconciled(st))

----------------------------------------------------------------------------
\* createEcosystemSaga, from a plan or from a document with steps under way.
Init ==
    /\ dependsOn \in {d \in [Steps -> SUBSET Steps] : Acyclic(d)}
    /\ \E st \in [Steps -> Statuses] :
          status = Reconciled(st) /\ state = StateOf(Reconciled(st))
    /\ attempts = [s \in Steps |-> 0]
    /\ evidence = [s \in Steps |-> {}]
    /\ error = [s \in Steps |-> None]
    /\ completedAt = [s \in Steps |-> None]

Transitions ==
    {<<"ready", "in-progress">>, <<"ready", "completed">>, <<"ready", "failed">>,
     <<"ready", "skipped">>, <<"in-progress", "completed">>,
     <<"in-progress", "failed">>, <<"failed", "ready">>, <<"failed", "compensated">>}

\* Only these keep the time of a report.
Timed == {"completed", "compensated"}

\* A report that contradicts what is recorded.
Contradicts(recorded, reported) ==
    recorded # None /\ reported # None /\ recorded # reported

\* recordEcosystemSagaStep, a status that the step has already: add what is new.
Replay(s, ev, err, at) ==
    /\ ~Contradicts(error[s], err)
    /\ ~Contradicts(completedAt[s], at)
    /\ evidence' = [evidence EXCEPT ![s] = @ \cup ev]
    /\ error' = [error EXCEPT ![s] = IF @ = None THEN err ELSE @]
    /\ completedAt' = [completedAt EXCEPT ![s] =
                          IF @ = None /\ status[s] \in Timed THEN at ELSE @]
    /\ Become(status)
    /\ UNCHANGED <<dependsOn, attempts>>

\* recordEcosystemSagaStep, another status.
Advance(s, new, ev, err, at) ==
    /\ <<status[s], new>> \in Transitions
    /\ new = "in-progress" => attempts[s] < MaxAttempts
    /\ attempts' = [attempts EXCEPT ![s] = IF new = "in-progress" THEN @ + 1 ELSE @]
    /\ evidence' = [evidence EXCEPT ![s] = @ \cup ev]
    /\ error' = [error EXCEPT ![s] = IF new = "ready" THEN None
                                     ELSE IF err # None THEN err ELSE @]
    /\ completedAt' = [completedAt EXCEPT ![s] =
                          IF new = "ready" THEN None
                          ELSE IF at # None /\ new \in Timed THEN at ELSE @]
    /\ Become([status EXCEPT ![s] = new])
    /\ UNCHANGED dependsOn

Next ==
    \E s \in Steps, ev \in SUBSET Evidence,
       err \in Errors \cup {None}, at \in Times \cup {None} :
        \/ Replay(s, ev, err, at)
        \/ \E new \in Statuses : Advance(s, new, ev, err, at)

Spec == Init /\ [][Next]_vars

----------------------------------------------------------------------------
\* The work revealed as ready is all of what may be done, and nothing else, also
\* when the saga was loaded from a document whose statuses say otherwise.
WorkRevealedExactly ==
    \A s \in Steps :
        /\ status[s] = "ready" => \A d \in dependsOn[s] : status[d] \in Successful
        /\ status[s] = "pending" => \E d \in dependsOn[s] : status[d] \notin Successful

\* "failed or compensated prerequisites never unblock dependent saga steps"
\* (tests/orchestration/ecosystem-saga.test.mjs): a step that nobody has started
\* is started only after all its prerequisites succeeded.
PrerequisitesFirst ==
    [][\A s \in Steps :
          status[s] \in {"pending", "ready"} /\ status'[s] \notin {"pending", "ready"}
              => \A d \in dependsOn[s] : status[d] \in Successful]_vars

\* A saga is blocked for one reason only: a step was compensated.  Steps that wait
\* for each other in a circle cannot be planned.
BlockedByCompensation ==
    state = "blocked" => \E s \in Steps : status[s] = "compensated"

\* Whoever waits for a saga may stop when it is completed, compensated or blocked:
\* no report, late or repeated, changes a step or the saga then.
DeadEndsAreFinal ==
    [][(state \in {"completed", "compensated", "blocked"})
          => UNCHANGED <<status, state>>]_vars

\* Reports that come again, or late, take nothing from the record of a step that
\* has ended: its status, completion time, error and evidence stay.
EndedStepsKeepTheirRecord ==
    [][\A s \in Steps : status[s] \in Ended =>
          /\ status'[s] = status[s]
          /\ completedAt[s] # None => completedAt'[s] = completedAt[s]
          /\ error[s] # None => error'[s] = error[s]
          /\ evidence[s] \subseteq evidence'[s]]_vars
=============================================================================
