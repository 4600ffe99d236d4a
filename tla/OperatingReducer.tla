-------------------------- MODULE OperatingReducer --------------------------
(***************************************************************************)
(* The reducer of lib/operate/reducer.mjs: which events the projection of  *)
(* the operating board accepts, and what it becomes.  A projection maps    *)
(* the names it knows to their records; an event the code throws on is one *)
(* that Accepts does not hold of.                                          *)
(*                                                                         *)
(* An event has passed its schema.  Of a finding's score the confidence    *)
(* stands for all three components; titles, owners, warnings, times and    *)
(* the summary derived for display are left out.                           *)
(***************************************************************************)
EXTENDS Naturals

CONSTANT None   \* a field that is not there

----------------------------------------------------------------------------
CycleMoves ==
    [preparing     |-> {"collecting", "blocked", "failed", "cancelled"},
     collecting    |-> {"advising", "blocked", "failed", "cancelled"},
     advising      |-> {"consolidating", "blocked", "failed", "cancelled"},
     consolidating |-> {"reviewable", "blocked", "failed", "cancelled"},
     reviewable    |-> {"closed", "blocked", "failed", "cancelled"},
     blocked       |-> {"collecting", "advising", "consolidating", "reviewable",
                        "cancelled"},
     failed        |-> {"preparing", "collecting", "cancelled"},
     closed        |-> {},
     cancelled     |-> {}]

\* Mutant: a proposal may be queued unaccepted.
FindingMovesUnaccepted == [s \in {"proposed", "accepted", "queued", "in-progress",
                                  "done", "rejected", "superseded"} |->
    CASE s = "proposed"    -> {"accepted", "queued", "rejected", "superseded"}
      [] s = "accepted"    -> {"queued", "rejected", "superseded"}
      [] s = "queued"      -> {"in-progress", "rejected", "superseded"}
      [] s = "in-progress" -> {"done", "superseded"}
      [] OTHER             -> {}]

FindingMoves == [s \in {"proposed", "accepted", "queued", "in-progress",
                        "done", "rejected", "superseded"} |->
    CASE s = "proposed"    -> {"accepted", "rejected", "superseded"}
      [] s = "accepted"    -> {"queued", "rejected", "superseded"}
      [] s = "queued"      -> {"in-progress", "rejected", "superseded"}
      [] s = "in-progress" -> {"done", "superseded"}
      [] OTHER             -> {}]

DecisionMoves == [s \in {"open", "answered", "default-due", "closed", "superseded"} |->
    CASE s = "open"        -> {"answered", "default-due", "superseded"}
      [] s = "answered"    -> {"closed", "superseded"}
      [] s = "default-due" -> {"answered", "superseded"}
      [] OTHER             -> {}]

GapMoves ==
    [open       |-> {"answered", "superseded"},
     answered   |-> {"verified", "superseded"},
     verified   |-> {"closed", "superseded"},
     closed     |-> {},
     superseded |-> {}]

RouteMoves ==
    [proposed    |-> {"accepted"},
     accepted    |-> {"prepared"},
     prepared    |-> {"applied", "failed"},
     failed      |-> {"rolled_back"},
     applied     |-> {"rolled_back"},
     rolled_back |-> {}]

----------------------------------------------------------------------------
\* emptyState: nothing is known.
EmptyBoard ==
    [cycles |-> <<>>, findings |-> <<>>, decisions |-> <<>>, gaps |-> <<>>,
     routes |-> <<>>, specLinks |-> <<>>, outcomes |-> <<>>, learnings |-> <<>>,
     sources |-> <<>>]

\* Map.set
Put(records, id, record) ==
    [i \in DOMAIN records \cup {id} |-> IF i = id THEN record ELSE records[i]]

\* A record with some fields replaced; a patch names none but fields it has.
Patched(record, patch) ==
    [f \in DOMAIN record |-> IF f \in DOMAIN patch THEN patch[f] ELSE record[f]]

----------------------------------------------------------------------------
Terminal == {"done", "rejected", "superseded"}

Applied(b, cycle) ==
    UNION {b.routes[r].findings :
              r \in {r \in DOMAIN b.routes : /\ b.routes[r].cycle = cycle
                                             /\ b.routes[r].state = "applied"}}

\* assertCycleDisposable
Disposable(b, cycle) ==
    /\ \A f \in DOMAIN b.findings :
          \/ b.findings[f].cycle # cycle
          \/ b.findings[f].parked
          \/ b.findings[f].status \in Terminal
          \/ f \in Applied(b, cycle)
    /\ \A d \in DOMAIN b.decisions :
          \/ b.decisions[d].cycle # cycle
          \/ b.decisions[d].status \in {"closed", "superseded"}

AcceptsCycle(b, e) ==
    /\ e.entity = e.cycle
    /\ e.to = "closed" => Disposable(b, e.cycle)
    /\ IF e.entity \notin DOMAIN b.cycles
       THEN e.to = "preparing" /\ e.record
       ELSE \/ e.to \in CycleMoves[b.cycles[e.entity]]
            \* a cancellation is repeated without effect
            \/ e.to = "cancelled" /\ b.cycles[e.entity] = "cancelled" /\ e.empty

ApplyCycle(b, e) == [b EXCEPT !.cycles = Put(@, e.entity, e.to)]

----------------------------------------------------------------------------
\* Mutant: sensitivity is a field like any other.
SensitivityAny(current, patch) == TRUE

\* assertFindingPatchSensitivity
SensitivityKept(current, patch) ==
    "sensitivity" \in DOMAIN patch => patch.sensitivity >= current.sensitivity

\* What finding.accepted asks of its score amendment: made by the human who
\* accepts, from the present score, within the ceiling of the evidence.
AmendmentStands(current, e) ==
    /\ e.actor = "human"
    /\ e.amendment.by = e.actor
    /\ e.amendment.prior = current.confidence
    /\ current.ceiling # None => e.amendment.next <= current.ceiling

AcceptsFinding(b, e) ==
    IF e.entity \notin DOMAIN b.findings
    THEN e.to = "proposed" /\ e.record.cycle = e.cycle
    ELSE LET current == b.findings[e.entity]
         IN  /\ e.to \in FindingMoves[current.status]
             /\ SensitivityKept(current, e.patch)
             /\ e.to = "accepted" => AmendmentStands(current, e)

\* projectEntity: what is kept of a finding.
NewFinding(record) ==
    [status |-> "proposed", cycle |-> record.cycle, parked |-> record.parked,
     sensitivity |-> record.sensitivity, confidence |-> record.confidence,
     ceiling |-> record.ceiling, linkedSpec |-> None]

MovedFinding(current, e) ==
    LET patched == Patched(current, e.patch)
    IN  IF e.to = "accepted"
        THEN [patched EXCEPT !.status = e.to, !.confidence = e.amendment.next]
        ELSE [patched EXCEPT !.status = e.to]

ApplyFinding(b, e) ==
    [b EXCEPT !.findings =
        Put(@, e.entity, IF e.entity \in DOMAIN @ THEN MovedFinding(@[e.entity], e)
                         ELSE NewFinding(e.record))]

----------------------------------------------------------------------------
\* Owner decisions and data gaps move alike.
AcceptsItem(items, moves, e) ==
    IF e.entity \notin DOMAIN items
    THEN e.to = "open" /\ e.record.cycle = e.cycle
    ELSE e.to \in moves[items[e.entity].status]

MovedItem(items, e) ==
    Put(items, e.entity,
        [status |-> e.to,
         cycle  |-> IF e.entity \in DOMAIN items THEN items[e.entity].cycle
                    ELSE e.record.cycle])

----------------------------------------------------------------------------
\* assertRouteFindingIds
FindingsOfCycle(b, findings, cycle) ==
    \A f \in findings : f \in DOMAIN b.findings /\ b.findings[f].cycle = cycle

\* Mutant: the digest that authorised the route is not compared.
DigestsUnconfirmed(current, e) ==
    /\ e.routeDigest = current.routeDigest
    /\ e.to = "prepared" => e.previewDigest = current.previewDigest

\* Every move is of the route proposed, of its preview, as it was confirmed.
DigestsMatch(current, e) ==
    /\ e.routeDigest = current.routeDigest
    /\ e.to = "prepared" => e.previewDigest = current.previewDigest
    /\ e.to = "applied" => e.confirmationDigest = current.confirmationDigest

AcceptsRoute(b, e) ==
    IF e.entity \notin DOMAIN b.routes
    THEN /\ e.to = "proposed"
         /\ FindingsOfCycle(b, e.record.findings, e.cycle)
         /\ e.record.cycle = e.cycle
    ELSE /\ e.to \in RouteMoves[b.routes[e.entity].state]
         /\ DigestsMatch(b.routes[e.entity], e)

NewRoute(record) ==
    [state |-> "proposed", cycle |-> record.cycle, findings |-> record.findings,
     routeDigest |-> record.routeDigest, previewDigest |-> record.previewDigest,
     confirmationDigest |-> None, transaction |-> None]

MovedRoute(current, e) ==
    [current EXCEPT
        !.state = e.to,
        !.confirmationDigest = IF e.to = "accepted" THEN e.confirmationDigest ELSE @,
        !.transaction = IF e.to = "applied" THEN e.transaction ELSE @]

ApplyRoute(b, e) ==
    [b EXCEPT !.routes =
        Put(@, e.entity, IF e.entity \in DOMAIN @ THEN MovedRoute(@[e.entity], e)
                         ELSE NewRoute(e.record))]

----------------------------------------------------------------------------
\* updateSpecLink: a specification is linked to the finding it came from, also
\* on the finding when that is known.  The schema of a link has no state of its
\* own, so that it starts as planned.
ApplySpecLink(b, e) ==
    [b EXCEPT
        !.specLinks = Put(@, e.entity, [cycle |-> e.cycle, finding |-> e.finding,
                                        state |-> "planned"]),
        !.findings = IF e.finding \in DOMAIN @
                     THEN [@ EXCEPT ![e.finding].linkedSpec = e.entity] ELSE @]

ApplyShip(b, e) == [b EXCEPT !.specLinks[e.entity].state = "shipped"]

\* updateOutcome
ApplyOutcome(b, e) ==
    [b EXCEPT !.outcomes = Put(@, e.entity,
        CASE e.to = "registered" -> [spec |-> e.spec, metric |-> e.metric,
                                     status |-> e.status]
          [] e.to = "observed"   -> [@[e.entity] EXCEPT !.status = "observing"]
          [] e.to = "evaluated"  -> [@[e.entity] EXCEPT
                !.status = e.evaluation,
                !.metric = IF e.metric = None THEN @ ELSE e.metric])]

----------------------------------------------------------------------------
\* applyEvent: what is accepted ...
Accepts(b, e) ==
    CASE e.family = "cycle"    -> AcceptsCycle(b, e)
      [] e.family = "finding"  -> AcceptsFinding(b, e)
      [] e.family = "decision" -> AcceptsItem(b.decisions, DecisionMoves, e)
      [] e.family = "gap"      -> AcceptsItem(b.gaps, GapMoves, e)
      [] e.family = "route"    -> AcceptsRoute(b, e)
      [] e.family = "ship"     -> e.entity \in DOMAIN b.specLinks
      [] e.family = "outcome"  -> e.to # "registered" => e.entity \in DOMAIN b.outcomes
      [] e.family = "discontinuity" -> e.authority = e.actor
      [] OTHER -> TRUE

\* ... and what becomes of the projection.  A discontinuity and the events that
\* only leave an audit trail change nothing.
Apply(b, e) ==
    CASE e.family = "cycle"    -> ApplyCycle(b, e)
      [] e.family = "finding"  -> ApplyFinding(b, e)
      [] e.family = "decision" -> [b EXCEPT !.decisions = MovedItem(@, e)]
      [] e.family = "gap"      -> [b EXCEPT !.gaps = MovedItem(@, e)]
      [] e.family = "route"    -> ApplyRoute(b, e)
      [] e.family = "spec"     -> ApplySpecLink(b, e)
      [] e.family = "ship"     -> ApplyShip(b, e)
      [] e.family = "outcome"  -> ApplyOutcome(b, e)
      [] e.family = "learning" -> [b EXCEPT !.learnings = Put(@, e.entity, e.evaluation)]
      [] e.family = "evidence" -> [b EXCEPT !.sources = Put(@, e.entity, e.freshness)]
      [] OTHER -> b
=============================================================================
