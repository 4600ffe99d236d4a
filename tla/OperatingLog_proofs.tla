------------------------- MODULE OperatingLog_proofs -------------------------
(***************************************************************************)
(* Proofs about OperatingLog, for any events and any length of the log,    *)
(* checkpoints in between or not.                                          *)
(***************************************************************************)
EXTENDS OperatingLog, WellFoundedInduction, TLAPS

Entries == [id : EventIds, sequence : Nat, previous : Nat, intact : BOOLEAN, event : Events]

BoardFields == {"cycles", "findings", "decisions", "gaps", "routes", "specLinks",
                "outcomes", "learnings", "sources"}

FindingFields == {"status", "cycle", "parked", "sensitivity", "confidence", "ceiling",
                  "linkedSpec"}

RouteFields == {"state", "cycle", "findings", "routeDigest", "previewDigest",
                "confirmationDigest", "transaction"}

BoardTyped ==
    /\ log \in Seq(Entries)
    /\ DOMAIN board = BoardFields
    /\ \A f \in DOMAIN board.findings :
          /\ DOMAIN board.findings[f] = FindingFields
          /\ board.findings[f].status \in DOMAIN FindingMoves
          /\ board.findings[f].sensitivity \in Nat
    /\ \A r \in DOMAIN board.routes :
          /\ DOMAIN board.routes[r] = RouteFields
          /\ board.routes[r].state \in DOMAIN RouteMoves

\* The h-th entry proposed route r as the board has it.
ProposedAsHeld(h, r) ==
    /\ Moved(h, "route", r, "proposed")
    /\ log[h].event.record.routeDigest = board.routes[r].routeDigest
    /\ log[h].event.record.previewDigest = board.routes[r].previewDigest

\* The i-th entry accepted route r as the board has it.
AcceptedAsHeld(i, r) ==
    /\ Moved(i, "route", r, "accepted")
    /\ log[i].event.routeDigest = board.routes[r].routeDigest
    /\ log[i].event.confirmationDigest = board.routes[r].confirmationDigest

\* The k-th entry prepared route r as the board has it.
PreparedAsHeld(k, r) ==
    /\ Moved(k, "route", r, "prepared")
    /\ log[k].event.routeDigest = board.routes[r].routeDigest
    /\ log[k].event.previewDigest = board.routes[r].previewDigest

\* What the log says of a route that is proposed, accepted or prepared.
RoutesProposed ==
    \A r \in DOMAIN board.routes : board.routes[r].state = "proposed" =>
        \E h \in DOMAIN log : ProposedAsHeld(h, r)

RoutesAccepted ==
    \A r \in DOMAIN board.routes : board.routes[r].state = "accepted" =>
        \E h, i \in DOMAIN log : h < i /\ ProposedAsHeld(h, r) /\ AcceptedAsHeld(i, r)

RoutesPrepared ==
    \A r \in DOMAIN board.routes : board.routes[r].state = "prepared" =>
        \E h, i, k \in DOMAIN log :
            /\ h < i /\ i < k
            /\ ProposedAsHeld(h, r) /\ AcceptedAsHeld(i, r) /\ PreparedAsHeld(k, r)

RoutesTraced == RoutesProposed /\ RoutesAccepted /\ RoutesPrepared

Inv == BoardTyped /\ WorkIsAccepted /\ RoutesTraced /\ AppliedAsApproved

-----------------------------------------------------------------------------
(* The projection: what an event leaves alone.                              *)

LEMMA OnlyThese ==
    ASSUME NEW b, DOMAIN b = BoardFields, NEW e
    PROVE  /\ DOMAIN Apply(b, e) = BoardFields
           /\ e.family = "finding" => Apply(b, e).findings = ApplyFinding(b, e).findings
           /\ e.family = "spec" => Apply(b, e).findings = ApplySpecLink(b, e).findings
           /\ e.family \notin {"finding", "spec"} => Apply(b, e).findings = b.findings
           /\ e.family = "route" => Apply(b, e).routes = ApplyRoute(b, e).routes
           /\ e.family # "route" => Apply(b, e).routes = b.routes
<1>1. CASE e.family \in {"cycle", "finding", "decision"}
  BY <1>1 DEF Apply, ApplyCycle, ApplyFinding, BoardFields
<1>2. CASE e.family \in {"gap", "route", "spec"}
  BY <1>2 DEF Apply, ApplyRoute, ApplySpecLink, BoardFields
<1>3. CASE e.family = "ship"
  BY <1>3 DEF Apply, ApplyShip, BoardFields
<1>4. CASE e.family = "outcome"
  BY <1>4 DEF Apply, ApplyOutcome, BoardFields
<1>5. CASE e.family \in {"learning", "evidence"}
  BY <1>5 DEF Apply, BoardFields
<1>6. CASE e.family \notin {"cycle", "finding", "decision", "gap", "route", "spec", "ship",
                            "outcome", "learning", "evidence"}
  BY <1>6 DEF Apply
<1> QED
  BY <1>1, <1>2, <1>3, <1>4, <1>5, <1>6

\* Of the findings, a link changes the one it names, and there only the link.
LEMMA LinkNoted ==
    ASSUME NEW b, DOMAIN b = BoardFields, NEW e
    PROVE  ApplySpecLink(b, e).findings =
              IF e.finding \in DOMAIN b.findings
              THEN [b.findings EXCEPT ![e.finding].linkedSpec = e.entity] ELSE b.findings
<1> DEFINE links == Put(b.specLinks, e.entity,
                        [cycle |-> e.cycle, finding |-> e.finding, state |-> "planned"])
           linked == IF e.finding \in DOMAIN b.findings
                     THEN [b.findings EXCEPT ![e.finding].linkedSpec = e.entity] ELSE b.findings
<1>1. ApplySpecLink(b, e) = [b EXCEPT !.specLinks = links, !.findings = linked]
  BY DEF ApplySpecLink
<1> HIDE DEF links, linked
<1>2. [b EXCEPT !.specLinks = links, !.findings = linked].findings = linked
  BY DEF BoardFields
<1> QED
  BY <1>1, <1>2 DEF linked

\* What was written stays where it is.
LEMMA Written ==
    ASSUME BoardTyped, NEW id \in EventIds, NEW e \in Events, Record(id, e)
    PROVE  /\ log' \in Seq(Entries)
           /\ Len(log') = Len(log) + 1
           /\ DOMAIN log = 1..Len(log) /\ DOMAIN log' = 1..Len(log')
           /\ \A i \in DOMAIN log : log'[i] = log[i]
           /\ log'[Len(log')].event = e
<1>1. Entry(id, Len(log), e) \in Entries
  BY DEF Entry, Entries, BoardTyped
<1>2. log \in Seq(Entries) /\ log' = Append(log, Entry(id, Len(log), e))
  BY DEF BoardTyped, Record
<1>3. Entry(id, Len(log), e).event = e
  BY DEF Entry
<1> QED
  BY <1>1, <1>2, <1>3

-----------------------------------------------------------------------------
(* One event.                                                               *)

\* A finding is recorded or moved as its life allows, and accepted by a human.
LEMMA FindingMoved ==
    ASSUME BoardTyped, NEW id \in EventIds, NEW e \in Events, Record(id, e),
           NEW f \in DOMAIN board'.findings
    PROVE  /\ DOMAIN board'.findings[f] = FindingFields
           /\ board'.findings[f].status \in DOMAIN FindingMoves
           /\ board'.findings[f].sensitivity \in Nat
           /\ f \in DOMAIN board.findings =>
                 /\ board'.findings[f].sensitivity >= board.findings[f].sensitivity
                 /\ board'.findings[f].cycle = board.findings[f].cycle
           /\ \/ f \in DOMAIN board.findings
                 /\ board'.findings[f].status = board.findings[f].status
              \/ board'.findings[f].status = "proposed"
              \/ /\ f \in DOMAIN board.findings
                 /\ board'.findings[f].status \in FindingMoves[board.findings[f].status]
                 /\ board'.findings[f].status = "accepted" =>
                       /\ e.family = "finding" /\ e.entity = f
                       /\ e.to = "accepted" /\ e.actor = "human"
<1> board' = Apply(board, e) /\ Accepts(board, e) /\ DOMAIN board = BoardFields
  BY DEF Record, BoardTyped
<1>1. CASE e.family = "finding"
  <2>1. board'.findings = ApplyFinding(board, e).findings
    BY <1>1, OnlyThese
  <2>2. board'.findings =
           Put(board.findings, e.entity,
               IF e.entity \in DOMAIN board.findings
               THEN MovedFinding(board.findings[e.entity], e) ELSE NewFinding(e.record))
    BY <2>1 DEF ApplyFinding, BoardFields
  <2>3. CASE f # e.entity
    BY <2>2, <2>3 DEF Put, BoardTyped
  <2>4. CASE f = e.entity /\ f \notin DOMAIN board.findings
    <3>1. board'.findings[f] = NewFinding(e.record)
      BY <2>2, <2>4 DEF Put
    <3> QED
      BY <1>1, <2>4, <3>1, EventsAssumption DEF NewFinding, FindingFields, FindingMoves
  <2>5. CASE f = e.entity /\ f \in DOMAIN board.findings
    <3> DEFINE current == board.findings[f]
    <3>1. board'.findings[f] = MovedFinding(current, e)
      BY <2>2, <2>5 DEF Put
    <3>2. /\ e.to \in FindingMoves[current.status]
          /\ SensitivityKept(current, e.patch)
          /\ e.to = "accepted" => AmendmentStands(current, e)
      BY <1>1, <2>5 DEF Accepts, AcceptsFinding
    <3>3. DOMAIN current = FindingFields /\ current.status \in DOMAIN FindingMoves
          /\ current.sensitivity \in Nat
      BY <2>5 DEF BoardTyped
    <3>4. DOMAIN Patched(current, e.patch) = FindingFields
      BY <3>3 DEF Patched
    <3>5. DOMAIN MovedFinding(current, e) = FindingFields /\ MovedFinding(current, e).status = e.to
      BY <3>4 DEF MovedFinding, FindingFields
    <3>6. MovedFinding(current, e).sensitivity =
             IF "sensitivity" \in DOMAIN e.patch THEN e.patch.sensitivity ELSE current.sensitivity
      BY <3>3, <3>4 DEF MovedFinding, Patched, FindingFields
    <3>7. /\ MovedFinding(current, e).sensitivity \in Nat
          /\ MovedFinding(current, e).sensitivity >= current.sensitivity
      BY <1>1, <3>2, <3>3, <3>6, EventsAssumption DEF SensitivityKept
    <3>9. MovedFinding(current, e).cycle = current.cycle
      BY <1>1, <3>3, <3>4, EventsAssumption DEF MovedFinding, Patched, FindingFields
    <3>8. e.to \in DOMAIN FindingMoves
      BY <3>2, <3>3 DEF FindingMoves
    <3> HIDE DEF current
    <3> QED
      BY <1>1, <2>5, <3>1, <3>2, <3>5, <3>7, <3>8, <3>9 DEF AmendmentStands, current
  <2> QED
    BY <2>3, <2>4, <2>5
<1>2. CASE e.family = "spec"
  <2>0. Apply(board, e).findings = ApplySpecLink(board, e).findings
    BY <1>2, OnlyThese
  <2>1. board'.findings = IF e.finding \in DOMAIN board.findings
                          THEN [board.findings EXCEPT ![e.finding].linkedSpec = e.entity]
                          ELSE board.findings
    BY <2>0, LinkNoted
  <2>2. /\ f \in DOMAIN board.findings
        /\ board'.findings[f].status = board.findings[f].status
        /\ board'.findings[f].sensitivity = board.findings[f].sensitivity
        /\ board'.findings[f].cycle = board.findings[f].cycle
        /\ DOMAIN board'.findings[f] = DOMAIN board.findings[f]
    BY <2>1 DEF BoardTyped, FindingFields
  <2> QED
    BY <2>2 DEF BoardTyped
<1>3. CASE e.family \notin {"finding", "spec"}
  <2>1. board'.findings = board.findings
    BY <1>3, OnlyThese
  <2> QED
    BY <2>1 DEF BoardTyped
<1> QED
  BY <1>1, <1>2, <1>3

\* What was known stays known.
LEMMA FindingsStay ==
    ASSUME BoardTyped, NEW id \in EventIds, NEW e \in Events, Record(id, e)
    PROVE  DOMAIN board.findings \subseteq DOMAIN board'.findings
<1> board' = Apply(board, e) /\ DOMAIN board = BoardFields
  BY DEF Record, BoardTyped
<1>1. CASE e.family = "finding"
  <2>1. ApplyFinding(board, e).findings =
           Put(board.findings, e.entity,
               IF e.entity \in DOMAIN board.findings
               THEN MovedFinding(board.findings[e.entity], e) ELSE NewFinding(e.record))
    BY DEF ApplyFinding, BoardFields
  <2> QED
    BY <1>1, <2>1, OnlyThese DEF Put
<1>2. CASE e.family = "spec"
  <2>1. Apply(board, e).findings = ApplySpecLink(board, e).findings
    BY <1>2, OnlyThese
  <2>2. DOMAIN ApplySpecLink(board, e).findings = DOMAIN board.findings
    BY LinkNoted
  <2> QED
    BY <2>1, <2>2
<1>3. CASE e.family \notin {"finding", "spec"}
  BY <1>3, OnlyThese
<1> QED
  BY <1>1, <1>2, <1>3

\* A route stays as it is, is proposed, or moves as planned and confirmed.
LEMMA RouteMoved ==
    ASSUME BoardTyped, NEW id \in EventIds, NEW e \in Events, Record(id, e),
           NEW r \in DOMAIN board'.routes
    PROVE  /\ DOMAIN board'.routes[r] = RouteFields
           /\ board'.routes[r].state \in DOMAIN RouteMoves
           /\ \/ r \in DOMAIN board.routes /\ board'.routes[r] = board.routes[r]
              \/ /\ e.family = "route" /\ e.entity = r /\ e.to = "proposed"
                 /\ board'.routes[r].state = "proposed"
                 /\ board'.routes[r].routeDigest = e.record.routeDigest
                 /\ board'.routes[r].previewDigest = e.record.previewDigest
              \/ /\ r \in DOMAIN board.routes
                 /\ e.family = "route" /\ e.entity = r
                 /\ e.to \in RouteMoves[board.routes[r].state]
                 /\ board'.routes[r].state = e.to
                 /\ board'.routes[r].routeDigest = board.routes[r].routeDigest
                 /\ board'.routes[r].previewDigest = board.routes[r].previewDigest
                 /\ e.routeDigest = board.routes[r].routeDigest
                 /\ e.to = "prepared" => e.previewDigest = board.routes[r].previewDigest
                 /\ board'.routes[r].confirmationDigest =
                       IF e.to = "accepted" THEN e.confirmationDigest
                       ELSE board.routes[r].confirmationDigest
<1> board' = Apply(board, e) /\ Accepts(board, e) /\ DOMAIN board = BoardFields
  BY DEF Record, BoardTyped
<1>1. CASE e.family # "route"
  BY <1>1, OnlyThese DEF BoardTyped
<1>2. CASE e.family = "route"
  <2>1. board'.routes =
           Put(board.routes, e.entity,
               IF e.entity \in DOMAIN board.routes
               THEN MovedRoute(board.routes[e.entity], e) ELSE NewRoute(e.record))
    BY <1>2, OnlyThese DEF ApplyRoute, BoardFields
  <2>2. CASE r # e.entity
    BY <2>1, <2>2 DEF Put, BoardTyped
  <2>3. CASE r = e.entity /\ r \notin DOMAIN board.routes
    <3>1. board'.routes[r] = NewRoute(e.record)
      BY <2>1, <2>3 DEF Put
    <3>2. e.to = "proposed"
      BY <1>2, <2>3 DEF Accepts, AcceptsRoute
    <3> QED
      BY <1>2, <2>3, <3>1, <3>2 DEF NewRoute, RouteFields, RouteMoves
  <2>4. CASE r = e.entity /\ r \in DOMAIN board.routes
    <3> DEFINE current == board.routes[r]
    <3>1. board'.routes[r] = MovedRoute(current, e)
      BY <2>1, <2>4 DEF Put
    <3>2. /\ e.to \in RouteMoves[current.state]
          /\ e.routeDigest = current.routeDigest
          /\ e.to = "prepared" => e.previewDigest = current.previewDigest
      BY <1>2, <2>4 DEF Accepts, AcceptsRoute, DigestsMatch
    <3>3. DOMAIN current = RouteFields /\ current.state \in DOMAIN RouteMoves
      BY <2>4 DEF BoardTyped
    <3>4. e.to \in DOMAIN RouteMoves
      BY <3>2, <3>3 DEF RouteMoves
    <3> HIDE DEF current
    <3>5. /\ DOMAIN MovedRoute(current, e) = RouteFields
          /\ MovedRoute(current, e).state = e.to
          /\ MovedRoute(current, e).routeDigest = current.routeDigest
          /\ MovedRoute(current, e).previewDigest = current.previewDigest
          /\ MovedRoute(current, e).confirmationDigest =
                IF e.to = "accepted" THEN e.confirmationDigest ELSE current.confirmationDigest
      BY <3>3 DEF MovedRoute, RouteFields
    <3> QED
      BY <1>2, <2>4, <3>1, <3>2, <3>4, <3>5 DEF current
  <2> QED
    BY <2>2, <2>3, <2>4
<1> QED
  BY <1>1, <1>2

-----------------------------------------------------------------------------
(* The invariant.                                                           *)

LEMMA TypesKept ==
    ASSUME BoardTyped, NEW id \in EventIds, NEW e \in Events, Record(id, e)
    PROVE  BoardTyped'
<1>1. DOMAIN board' = BoardFields
  BY OnlyThese DEF Record, BoardTyped
<1> QED
  BY <1>1, Written, FindingMoved, RouteMoved DEF BoardTyped

LEMMA WorkKept ==
    ASSUME BoardTyped, WorkIsAccepted, NEW id \in EventIds, NEW e \in Events, Record(id, e)
    PROVE  WorkIsAccepted'
<1> DEFINE Working == {"accepted", "queued", "in-progress", "done"}
<1> SUFFICES ASSUME NEW f \in DOMAIN board'.findings, board'.findings[f].status \in Working
             PROVE  \E i \in DOMAIN log' : /\ Moved(i, "finding", f, "accepted")'
                                          /\ log'[i].event.actor = "human"
  BY DEF WorkIsAccepted
<1>1. CASE f \in DOMAIN board.findings /\ board.findings[f].status \in Working
  BY <1>1, Written DEF WorkIsAccepted, Moved
<1>2. CASE ~(f \in DOMAIN board.findings /\ board.findings[f].status \in Working)
  <2>1. /\ f \in DOMAIN board.findings
        /\ board'.findings[f].status \in FindingMoves[board.findings[f].status]
        /\ board'.findings[f].status = "accepted" =>
              /\ e.family = "finding" /\ e.entity = f
              /\ e.to = "accepted" /\ e.actor = "human"
    BY <1>2, FindingMoved
  <2>2. board.findings[f].status \in DOMAIN FindingMoves
    BY <2>1 DEF BoardTyped
  <2>3. board'.findings[f].status = "accepted"
    BY <1>2, <2>1, <2>2 DEF FindingMoves
  <2>4. Len(log') \in DOMAIN log'
    BY Written DEF BoardTyped
  <2> QED
    BY <2>1, <2>3, <2>4, Written DEF Moved
<1> QED
  BY <1>1, <1>2

\* What an entry did to a route as held it did still while the route keeps its plan.
LEMMA HeldStill ==
    ASSUME BoardTyped, NEW id \in EventIds, NEW e \in Events, Record(id, e),
           NEW r \in DOMAIN board.routes,
           board'.routes[r].routeDigest = board.routes[r].routeDigest,
           board'.routes[r].previewDigest = board.routes[r].previewDigest,
           NEW i \in DOMAIN log
    PROVE  /\ i \in DOMAIN log'
           /\ ProposedAsHeld(i, r) => ProposedAsHeld(i, r)'
           /\ /\ AcceptedAsHeld(i, r)
              /\ board'.routes[r].confirmationDigest = board.routes[r].confirmationDigest
              => AcceptedAsHeld(i, r)'
           /\ PreparedAsHeld(i, r) => PreparedAsHeld(i, r)'
  BY Written DEF ProposedAsHeld, AcceptedAsHeld, PreparedAsHeld, Moved

\* The entry that is written does to the route what its event says.
LEMMA HeldNow ==
    ASSUME BoardTyped, NEW id \in EventIds, NEW e \in Events, Record(id, e),
           NEW r \in DOMAIN board'.routes, NEW last, last = Len(log'),
           ~(r \in DOMAIN board.routes /\ board'.routes[r] = board.routes[r])
    PROVE  /\ board'.routes[r].state = "proposed" => ProposedAsHeld(last, r)'
           /\ board'.routes[r].state = "accepted" => AcceptedAsHeld(last, r)'
           /\ board'.routes[r].state = "prepared" => PreparedAsHeld(last, r)'
           /\ board'.routes[r].state \in {"accepted", "prepared"} =>
                 /\ r \in DOMAIN board.routes
                 /\ board'.routes[r].state \in RouteMoves[board.routes[r].state]
                 /\ board'.routes[r].routeDigest = board.routes[r].routeDigest
                 /\ board'.routes[r].previewDigest = board.routes[r].previewDigest
           /\ board'.routes[r].state = "prepared" =>
                 board'.routes[r].confirmationDigest = board.routes[r].confirmationDigest
<1>1. log'[last].event = e
  BY Written
<1>2. CASE /\ e.family = "route" /\ e.entity = r /\ e.to = "proposed"
           /\ board'.routes[r].state = "proposed"
           /\ board'.routes[r].routeDigest = e.record.routeDigest
           /\ board'.routes[r].previewDigest = e.record.previewDigest
  BY <1>1, <1>2 DEF ProposedAsHeld, Moved
<1>3. CASE /\ r \in DOMAIN board.routes
           /\ e.family = "route" /\ e.entity = r
           /\ e.to \in RouteMoves[board.routes[r].state]
           /\ board'.routes[r].state = e.to
           /\ board'.routes[r].routeDigest = board.routes[r].routeDigest
           /\ board'.routes[r].previewDigest = board.routes[r].previewDigest
           /\ e.routeDigest = board.routes[r].routeDigest
           /\ e.to = "prepared" => e.previewDigest = board.routes[r].previewDigest
           /\ board'.routes[r].confirmationDigest =
                 IF e.to = "accepted" THEN e.confirmationDigest
                 ELSE board.routes[r].confirmationDigest
  <2>1. board.routes[r].state \in DOMAIN RouteMoves
    BY <1>3 DEF BoardTyped
  <2>2. e.to # "proposed"
    BY <1>3, <2>1 DEF RouteMoves
  <2> QED
    BY <1>1, <1>3, <2>2 DEF AcceptedAsHeld, PreparedAsHeld, Moved
<1> QED
  BY <1>2, <1>3, RouteMoved

LEMMA RoutesKept ==
    ASSUME Inv, NEW id \in EventIds, NEW e \in Events, Record(id, e)
    PROVE  RoutesTraced'
<1> USE DEF Inv, RoutesTraced
<1>0. PICK last \in DOMAIN log' : /\ last = Len(log') /\ last \in Nat
                                 /\ \A i \in DOMAIN log : i < last
  BY Written DEF BoardTyped
<1>1. RoutesProposed'
  <2> SUFFICES ASSUME NEW r \in DOMAIN board'.routes, board'.routes[r].state = "proposed"
               PROVE  \E h \in DOMAIN log' : ProposedAsHeld(h, r)'
    BY DEF RoutesProposed
  <2>1. CASE r \in DOMAIN board.routes /\ board'.routes[r] = board.routes[r]
    BY <2>1, HeldStill DEF RoutesProposed
  <2>2. CASE ~(r \in DOMAIN board.routes /\ board'.routes[r] = board.routes[r])
    BY <1>0, <2>2, HeldNow
  <2> QED
    BY <2>1, <2>2
<1>2. RoutesAccepted'
  <2> SUFFICES ASSUME NEW r \in DOMAIN board'.routes, board'.routes[r].state = "accepted"
               PROVE  \E h, i \in DOMAIN log' :
                         h < i /\ ProposedAsHeld(h, r)' /\ AcceptedAsHeld(i, r)'
    BY DEF RoutesAccepted
  <2>1. CASE r \in DOMAIN board.routes /\ board'.routes[r] = board.routes[r]
    <3>1. PICK h, i \in DOMAIN log : h < i /\ ProposedAsHeld(h, r) /\ AcceptedAsHeld(i, r)
      BY <2>1 DEF RoutesAccepted
    <3> QED
      BY <2>1, <3>1, HeldStill
  <2>2. CASE ~(r \in DOMAIN board.routes /\ board'.routes[r] = board.routes[r])
    <3>1. /\ r \in DOMAIN board.routes
          /\ "accepted" \in RouteMoves[board.routes[r].state]
          /\ AcceptedAsHeld(last, r)'
          /\ board'.routes[r].routeDigest = board.routes[r].routeDigest
          /\ board'.routes[r].previewDigest = board.routes[r].previewDigest
      BY <1>0, <2>2, HeldNow
    <3>2. board.routes[r].state = "proposed"
      BY <3>1 DEF BoardTyped, RouteMoves
    <3>3. PICK h \in DOMAIN log : ProposedAsHeld(h, r)
      BY <3>1, <3>2 DEF RoutesProposed
    <3> QED
      BY <1>0, <3>1, <3>3, HeldStill
  <2> QED
    BY <2>1, <2>2
<1>3. RoutesPrepared'
  <2> SUFFICES ASSUME NEW r \in DOMAIN board'.routes, board'.routes[r].state = "prepared"
               PROVE  \E h, i, k \in DOMAIN log' :
                         /\ h < i /\ i < k
                         /\ ProposedAsHeld(h, r)' /\ AcceptedAsHeld(i, r)'
                         /\ PreparedAsHeld(k, r)'
    BY DEF RoutesPrepared
  <2>1. CASE r \in DOMAIN board.routes /\ board'.routes[r] = board.routes[r]
    <3>1. PICK h, i, k \in DOMAIN log :
             /\ h < i /\ i < k
             /\ ProposedAsHeld(h, r) /\ AcceptedAsHeld(i, r) /\ PreparedAsHeld(k, r)
      BY <2>1 DEF RoutesPrepared
    <3> QED
      BY <2>1, <3>1, HeldStill
  <2>2. CASE ~(r \in DOMAIN board.routes /\ board'.routes[r] = board.routes[r])
    <3>1. /\ r \in DOMAIN board.routes
          /\ "prepared" \in RouteMoves[board.routes[r].state]
          /\ PreparedAsHeld(last, r)'
          /\ board'.routes[r].routeDigest = board.routes[r].routeDigest
          /\ board'.routes[r].previewDigest = board.routes[r].previewDigest
          /\ board'.routes[r].confirmationDigest = board.routes[r].confirmationDigest
      BY <1>0, <2>2, HeldNow
    <3>2. board.routes[r].state = "accepted"
      BY <3>1 DEF BoardTyped, RouteMoves
    <3>3. PICK h, i \in DOMAIN log : h < i /\ ProposedAsHeld(h, r) /\ AcceptedAsHeld(i, r)
      BY <3>1, <3>2 DEF RoutesAccepted
    <3> QED
      BY <1>0, <3>1, <3>3, HeldStill
  <2> QED
    BY <2>1, <2>2
<1> QED
  BY <1>1, <1>2, <1>3

LEMMA AppliedKept ==
    ASSUME Inv, NEW id \in EventIds, NEW e \in Events, Record(id, e)
    PROVE  AppliedAsApproved'
<1> USE DEF Inv
<1> DEFINE Approved(h, i, k, j) ==
        /\ h < i /\ i < k
        /\ Moved(h, "route", log[j].event.entity, "proposed")
        /\ log[h].event.record.routeDigest = log[j].event.routeDigest
        /\ Moved(i, "route", log[j].event.entity, "accepted")
        /\ log[i].event.routeDigest = log[j].event.routeDigest
        /\ log[i].event.confirmationDigest = log[j].event.confirmationDigest
        /\ Moved(k, "route", log[j].event.entity, "prepared")
        /\ log[k].event.routeDigest = log[j].event.routeDigest
        /\ log[k].event.previewDigest = log[h].event.record.previewDigest
<1> SUFFICES ASSUME NEW j \in DOMAIN log',
                    log'[j].event.family = "route", log'[j].event.to = "applied"
             PROVE  \E h, i, k \in 1..(j - 1) : Approved(h, i, k, j)'
  BY DEF AppliedAsApproved
<1>0. Len(log) \in Nat
  BY DEF BoardTyped
<1>1. CASE j \in DOMAIN log
  <2>1. log'[j] = log[j] /\ j \in Nat /\ 1..(j - 1) \subseteq DOMAIN log
    BY <1>0, <1>1, Written
  <2>2. PICK h, i, k \in 1..(j - 1) : Approved(h, i, k, j)
    BY <1>1, <2>1 DEF AppliedAsApproved
  <2>3. log'[h] = log[h] /\ log'[i] = log[i] /\ log'[k] = log[k]
    BY <2>1, <2>2, Written
  <2> QED
    BY <2>1, <2>2, <2>3 DEF Moved
<1>2. CASE j \notin DOMAIN log
  <2>1. j = Len(log') /\ log'[j].event = e /\ 1..(j - 1) = DOMAIN log
    BY <1>0, <1>2, Written
  <2>2. e.family = "route" /\ e.to = "applied"
    BY <2>1
  <2> DEFINE r == e.entity
  <2>3. /\ r \in DOMAIN board.routes
        /\ e.to \in RouteMoves[board.routes[r].state]
        /\ e.routeDigest = board.routes[r].routeDigest
        /\ e.confirmationDigest = board.routes[r].confirmationDigest
    BY <2>2 DEF Record, Accepts, AcceptsRoute, DigestsMatch
  <2>4. board.routes[r].state = "prepared"
    BY <2>2, <2>3 DEF BoardTyped, RouteMoves
  <2>5. PICK h, i, k \in DOMAIN log :
           /\ h < i /\ i < k
           /\ ProposedAsHeld(h, r) /\ AcceptedAsHeld(i, r) /\ PreparedAsHeld(k, r)
    BY <2>3, <2>4 DEF RoutesTraced, RoutesPrepared
  <2>6. log'[h] = log[h] /\ log'[i] = log[i] /\ log'[k] = log[k]
    BY Written
  <2>7. Approved(h, i, k, j)'
    BY <2>1, <2>3, <2>5, <2>6 DEF ProposedAsHeld, AcceptedAsHeld, PreparedAsHeld, Moved
  <2> QED
    BY <2>1, <2>7
<1> QED
  BY <1>1, <1>2

LEMMA InitInv == Init => Inv
<1> SUFFICES ASSUME Init PROVE Inv
  OBVIOUS
<1>1. log = <<>> /\ board = EmptyBoard
  BY DEF Init
<1>2. DOMAIN board = BoardFields /\ DOMAIN board.findings = {} /\ DOMAIN board.routes = {}
  BY <1>1 DEF EmptyBoard, BoardFields
<1>3. BoardTyped
  BY <1>1, <1>2 DEF BoardTyped
<1> QED
  BY <1>1, <1>2, <1>3 DEF Inv, WorkIsAccepted, RoutesTraced, RoutesProposed, RoutesAccepted,
                           RoutesPrepared, AppliedAsApproved

LEMMA NextInv == Inv /\ [Next]_vars => Inv'
<1> SUFFICES ASSUME Inv, [Next]_vars PROVE Inv'
  OBVIOUS
<1>1. ASSUME NEW id \in EventIds, NEW e \in Events, Record(id, e) PROVE Inv'
  BY <1>1, TypesKept, WorkKept, RoutesKept, AppliedKept DEF Inv
<1>2. CASE UNCHANGED <<log, board>>
  BY <1>2 DEF Inv, BoardTyped, WorkIsAccepted, RoutesTraced, RoutesProposed, RoutesAccepted,
              RoutesPrepared, AppliedAsApproved, ProposedAsHeld, AcceptedAsHeld,
              PreparedAsHeld, Moved
<1> QED
  BY <1>1, <1>2 DEF Next, Checkpoint, vars

THEOREM OperatingLogInvariant == Spec => []Inv
  BY InitInv, NextInv, PTL DEF Spec

\* Work on a finding goes on only because a human accepted it (WorkIsAccepted).
THEOREM WorkNeedsAcceptance == Spec => []WorkIsAccepted
<1>1. Inv => WorkIsAccepted
  BY DEF Inv
<1> QED
  BY OperatingLogInvariant, <1>1, PTL

\* A route is applied as the plan that was proposed and accepted, prepared with the
\* preview that was proposed, and under the confirmation given (AppliedAsApproved).
THEOREM RoutesApplyAsApproved == Spec => []AppliedAsApproved
<1>1. Inv => AppliedAsApproved
  BY DEF Inv
<1> QED
  BY OperatingLogInvariant, <1>1, PTL

\* No event forgets a finding or lowers its sensitivity (SensitivityNeverLowered).
THEOREM SensitivityStands == Spec => SensitivityNeverLowered
<1>1. Inv /\ [Next]_vars =>
        [\A f \in DOMAIN board.findings :
            /\ f \in DOMAIN board'.findings
            /\ board'.findings[f].sensitivity >= board.findings[f].sensitivity]_vars
  <2>1. ASSUME Inv, NEW id \in EventIds, NEW e \in Events, Record(id, e),
               NEW f \in DOMAIN board.findings
        PROVE  /\ f \in DOMAIN board'.findings
               /\ board'.findings[f].sensitivity >= board.findings[f].sensitivity
    BY <2>1, FindingsStay, FindingMoved DEF Inv
  <2>2. ASSUME Inv, Checkpoint, NEW f \in DOMAIN board.findings
        PROVE  /\ f \in DOMAIN board'.findings
               /\ board'.findings[f].sensitivity >= board.findings[f].sensitivity
    BY <2>2 DEF Checkpoint, Inv, BoardTyped
  <2> QED
    BY <2>1, <2>2 DEF Next
<1> QED
  BY OperatingLogInvariant, <1>1, PTL DEF Spec, SensitivityNeverLowered

-----------------------------------------------------------------------------
(* The chain of the entries.                                              *)

\* The entries are numbered and intact, and the checkpoint stands for a prefix.
Numbered == log \in Seq(Entries) /\ TypeOK

LEMMA NumberedFirst == Init => Numbered
  BY DEF Init, Numbered, TypeOK, Genesis

LEMMA NumberedKept == Numbered /\ [Next]_vars => Numbered'
<1> SUFFICES ASSUME Numbered, [Next]_vars PROVE Numbered'
  OBVIOUS
<1>1. ASSUME NEW id \in EventIds, NEW e \in Events, Record(id, e)
      PROVE  Numbered'
  <2>1. log \in Seq(Entries) /\ Len(log) \in Nat
    BY DEF Numbered
  <2>2. Entry(id, Len(log), e) \in Entries
    BY <2>1 DEF Entry, Entries
  <2>3. log' = Append(log, Entry(id, Len(log), e)) /\ checkpoint' = checkpoint
    BY <1>1 DEF Record
  <2> DEFINE new == Entry(id, Len(log), e)
  <2>4. /\ new.id = id /\ new.event = e /\ new.sequence = Len(log) + 1
        /\ new.previous = Len(log) /\ new.intact
    BY DEF Entry
  <2> HIDE DEF new
  <2>5. /\ log' \in Seq(Entries) /\ Len(log') = Len(log) + 1
        /\ log'[Len(log) + 1] = new
        /\ \A i \in 1..Len(log) : log'[i] = log[i]
    BY <2>1, <2>2, <2>3 DEF new
  <2>6. ASSUME NEW i \in DOMAIN log'
        PROVE  /\ log'[i].id \in EventIds /\ log'[i].event \in Events
               /\ log'[i].sequence = i /\ log'[i].previous = i - 1 /\ log'[i].intact
    <3>1. CASE i = Len(log) + 1
      BY <3>1, <2>1, <2>4, <2>5
    <3>2. CASE i \in DOMAIN log
      BY <3>2, <2>1, <2>5 DEF Numbered, TypeOK
    <3> QED
      BY <3>1, <3>2, <2>1, <2>5
  <2>7. checkpoint'.head \in 0..Len(log')
    BY <2>1, <2>3, <2>5 DEF Numbered, TypeOK
  <2> QED
    BY <2>5, <2>6, <2>7 DEF Numbered, TypeOK
<1>2. CASE Checkpoint
  <2>1. log \in Seq(Entries) /\ log' = log /\ checkpoint'.head = Len(log)
    BY <1>2 DEF Checkpoint, Numbered
  <2> QED
    BY <2>1 DEF Numbered, TypeOK
<1>3. CASE UNCHANGED vars
  BY <1>3 DEF vars, Numbered, TypeOK
<1> QED
  BY <1>1, <1>2, <1>3 DEF Next

LEMMA RecentEntries ==
    ASSUME Numbered
    PROVE  /\ Recent \in Seq(Entries) /\ checkpoint.head \in Nat
           /\ Len(Recent) = Len(log) - checkpoint.head
           /\ DOMAIN Recent = 1 .. (Len(log) - checkpoint.head)
           /\ \A i \in DOMAIN Recent : /\ Recent[i] = log[checkpoint.head + i]
                                       /\ Recent[i].sequence = checkpoint.head + i
<1>1. log \in Seq(Entries) /\ checkpoint.head \in 0..Len(log) /\ Len(log) \in Nat
  BY DEF Numbered, TypeOK
<1>2. /\ Recent \in Seq(Entries)
      /\ Len(Recent) = Len(log) - checkpoint.head
      /\ DOMAIN Recent = 1 .. (Len(log) - checkpoint.head)
      /\ \A i \in DOMAIN Recent : Recent[i] = log[checkpoint.head + i]
  BY <1>1 DEF Recent, After
<1>3. ASSUME NEW i \in DOMAIN Recent
      PROVE  Recent[i].sequence = checkpoint.head + i
  <2>1. checkpoint.head + i \in DOMAIN log
    BY <1>1, <1>2
  <2> QED
    BY <2>1, <1>2 DEF Numbered, TypeOK
<1> QED
  BY <1>1, <1>2, <1>3

\* What stands at the place of a damage is not the entry that belongs there.
LEMMA DamagedChain ==
    ASSUME Numbered, NEW entries \in Damaged
    PROVE  ~Chain(entries, checkpoint.head)
<1> DEFINE R == Recent
           h == checkpoint.head
<1>1. /\ R \in Seq(Entries) /\ h \in Nat
      /\ \A i \in DOMAIN R : R[i].sequence = h + i
  BY RecentEntries
<1> HIDE DEF R, h
<1>2. ASSUME NEW i \in DOMAIN R \ {Len(R)}, entries = RemoveAt(R, i)
      PROVE  ~Chain(entries, h)
  <2> DEFINE before == SubSeq(R, 1, i - 1)
             after == SubSeq(R, i + 1, Len(R))
  <2>1. /\ i \in Nat /\ i >= 1 /\ i + 1 \in DOMAIN R
        /\ before \in Seq(Entries) /\ Len(before) = i - 1
    BY <1>1
  <2>2. after \in Seq(Entries) /\ Len(after) >= 1 /\ after[1] = R[i + 1]
    BY <2>1, <1>1
  <2>3. entries = before \o after
    BY <1>2 DEF RemoveAt
  <2> HIDE DEF before, after
  <2>4. i \in DOMAIN entries /\ entries[i] = R[i + 1]
    BY <2>1, <2>2, <2>3
  <2>5. entries[i].sequence = h + (i + 1)
    BY <2>1, <2>4, <1>1
  <2> QED
    BY <2>1, <2>4, <2>5, <1>1 DEF Chain
<1>3. ASSUME NEW i \in DOMAIN R, entries = InsertAt(R, i, R[i])
      PROVE  ~Chain(entries, h)
  <2> DEFINE before == SubSeq(R, 1, i - 1)
             after == SubSeq(R, i, Len(R))
  <2>1. /\ i \in Nat /\ i >= 1 /\ R[i] \in Entries
        /\ before \in Seq(Entries) /\ Len(before) = i - 1
        /\ after \in Seq(Entries) /\ Len(after) >= 1 /\ after[1] = R[i]
    BY <1>1
  <2>2. entries = before \o <<R[i]>> \o after
    BY <1>3 DEF InsertAt
  <2> HIDE DEF before, after
  <2>3. before \o <<R[i]>> \in Seq(Entries) /\ Len(before \o <<R[i]>>) = i
    BY <2>1
  <2>4. i + 1 \in DOMAIN entries /\ entries[i + 1] = R[i]
    BY <2>1, <2>2, <2>3
  <2>5. entries[i + 1].sequence = h + i
    BY <2>4, <1>1
  <2> QED
    BY <2>1, <2>4, <2>5, <1>1 DEF Chain
<1>4. ASSUME NEW i \in DOMAIN R \ {Len(R)},
             entries = [R EXCEPT ![i] = R[i + 1], ![i + 1] = R[i]]
      PROVE  ~Chain(entries, h)
  <2>1. i \in DOMAIN entries /\ entries[i] = R[i + 1] /\ i + 1 \in DOMAIN R /\ i \in Nat
    BY <1>1, <1>4
  <2> QED
    BY <2>1, <1>1 DEF Chain
<1>5. ASSUME NEW i \in DOMAIN R, entries = [R EXCEPT ![i].intact = FALSE]
      PROVE  ~Chain(entries, h)
  <2> DEFINE altered == [R[i] EXCEPT !.intact = FALSE]
  <2>1. R[i] \in Entries
    BY <1>1
  <2>2. altered.intact = FALSE
    BY <2>1 DEF Entries
  <2>3. entries = [R EXCEPT ![i] = altered]
    BY <1>5
  <2> HIDE DEF altered
  <2>4. i \in DOMAIN entries /\ entries[i] = altered
    BY <2>3, <1>1
  <2> QED
    BY <2>2, <2>4 DEF Chain
<1> QED
  BY <1>2, <1>3, <1>4, <1>5 DEF Damaged, R, h

LEMMA NumberedThroughout == Spec => []Numbered
  BY NumberedFirst, NumberedKept, PTL DEF Spec

\* Every entry is numbered by its place, refers to the one before and is intact; the
\* checkpoint stands for a prefix of the log.
THEOREM TypeCorrect == Spec => []TypeOK
<1>1. Numbered => TypeOK
  BY DEF Numbered
<1> QED
  BY NumberedThroughout, <1>1, PTL

\* A copy of the recent entries that lost, repeats, swaps or altered one is refused,
\* and yields no projection (verifyOperatingEventChain, reduceOperatingEvents).
THEOREM DamageIsNoticed == Spec => []DamageNoticed
<1>1. Numbered => DamageNoticed
  <2> SUFFICES ASSUME Numbered, NEW entries \in Damaged
               PROVE  Reduced(checkpoint, entries).thrown
    BY DEF DamageNoticed
  <2>1. Reduced(checkpoint, entries) = [thrown |-> TRUE, board |-> checkpoint.board]
    BY DamagedChain DEF Reduced
  <2> QED
    BY <2>1
<1> QED
  BY NumberedThroughout, <1>1, PTL

-----------------------------------------------------------------------------
(* Resuming and replaying.                                                  *)

\* The findings of a route are known, and of its cycle.
LEMMA RoutesStayKnown ==
    ASSUME BoardTyped, RoutesKnown(board), NEW id \in EventIds, NEW e \in Events,
           Record(id, e)
    PROVE  RoutesKnown(board')
<1> board' = Apply(board, e) /\ Accepts(board, e) /\ DOMAIN board = BoardFields
  BY DEF Record, BoardTyped
<1>1. ASSUME NEW fs, NEW c, FindingsOfCycle(board, fs, c)
      PROVE  FindingsOfCycle(board', fs, c)
  <2>1. ASSUME NEW f \in fs
        PROVE  f \in DOMAIN board'.findings /\ board'.findings[f].cycle = c
    <3>1. f \in DOMAIN board.findings /\ board.findings[f].cycle = c
      BY <1>1, <2>1 DEF FindingsOfCycle
    <3>2. f \in DOMAIN board'.findings
      BY <3>1, FindingsStay
    <3> QED
      BY <3>1, <3>2, FindingMoved
  <2> QED
    BY <2>1 DEF FindingsOfCycle
<1>2. ASSUME NEW r \in DOMAIN board'.routes
      PROVE  FindingsOfCycle(board, board'.routes[r].findings, board'.routes[r].cycle)
  <2>1. CASE e.family # "route"
    BY <2>1, OnlyThese DEF RoutesKnown
  <2>2. CASE e.family = "route"
    <3>1. board'.routes =
             Put(board.routes, e.entity,
                 IF e.entity \in DOMAIN board.routes
                 THEN MovedRoute(board.routes[e.entity], e) ELSE NewRoute(e.record))
      BY <2>2, OnlyThese DEF ApplyRoute, BoardFields
    <3>2. CASE r # e.entity
      BY <3>1, <3>2 DEF Put, RoutesKnown
    <3>3. CASE r = e.entity /\ r \notin DOMAIN board.routes
      BY <2>2, <3>1, <3>3 DEF Put, NewRoute, Accepts, AcceptsRoute
    <3>4. CASE r = e.entity /\ r \in DOMAIN board.routes
      <4> DEFINE current == board.routes[r]
      <4>1. board'.routes[r] = MovedRoute(current, e)
        BY <3>1, <3>4 DEF Put
      <4>2. DOMAIN current = RouteFields
        BY <3>4 DEF BoardTyped
      <4>3. FindingsOfCycle(board, current.findings, current.cycle)
        BY <3>4 DEF RoutesKnown
      <4> HIDE DEF current
      <4>4. MovedRoute(current, e).findings = current.findings
            /\ MovedRoute(current, e).cycle = current.cycle
        BY <4>2 DEF MovedRoute, RouteFields
      <4> QED
        BY <4>1, <4>3, <4>4
    <3> QED
      BY <3>2, <3>3, <3>4
  <2> QED
    BY <2>1, <2>2
<1> QED
  BY <1>1, <1>2 DEF RoutesKnown

\* These boards, one for every prefix of the log, are what its events made, and the
\* checkpoint has one of them.
Boards(h) ==
    /\ h[0] = EmptyBoard
    /\ \A n \in 1 .. Len(log) : /\ Accepts(h[n - 1], log[n].event)
                               /\ h[n] = Apply(h[n - 1], log[n].event)
    /\ h[Len(log)] = board
    /\ h[checkpoint.head] = checkpoint.board

\* No id twice since the checkpoint.
RecentUnique == \A i, j \in (checkpoint.head + 1) .. Len(log) : log[i].id = log[j].id => i = j

Replayable ==
    /\ \E h : Boards(h)
    /\ RoutesKnown(board) /\ RoutesKnown(checkpoint.board)
    /\ RecentUnique

LEMMA ReplayableFirst == Init => Replayable
<1> SUFFICES ASSUME Init
             PROVE  Replayable
  OBVIOUS
<1>1. log = <<>> /\ board = EmptyBoard /\ checkpoint.head = 0 /\ checkpoint.board = EmptyBoard
      /\ Len(log) = 0
  BY DEF Init, Genesis
<1>2. Boards([n \in {0} |-> EmptyBoard])
  BY <1>1 DEF Boards
<1>3. RoutesKnown(EmptyBoard)
  BY DEF RoutesKnown, EmptyBoard
<1>4. RecentUnique
  BY <1>1 DEF RecentUnique
<1> QED
  BY <1>1, <1>2, <1>3, <1>4 DEF Replayable

LEMMA ReplayableKept ==
    ASSUME BoardTyped, Numbered, Replayable, NEW id \in EventIds, NEW e \in Events,
           Record(id, e)
    PROVE  Replayable'
<1>1. /\ Len(log) \in Nat /\ checkpoint.head \in 0 .. Len(log) /\ checkpoint' = checkpoint
      /\ Len(log') = Len(log) + 1
      /\ \A i \in 1 .. Len(log) : log'[i] = log[i]
      /\ log'[Len(log')].event = e
      /\ board' = Apply(board, e) /\ Accepts(board, e)
  BY Written DEF Numbered, TypeOK, Record
<1>2. PICK h : Boards(h)
  BY DEF Replayable
<1>3. \E k : Boards(k)'
  <2> DEFINE longer == [n \in 0 .. Len(log) + 1 |-> IF n = Len(log) + 1 THEN Apply(board, e)
                                                   ELSE h[n]]
  <2>1. PICK k : k[Len(log) + 1] = board' /\ \A n \in 0 .. Len(log) : k[n] = h[n]
    <3>1. longer[Len(log) + 1] = board' /\ \A n \in 0 .. Len(log) : longer[n] = h[n]
      BY <1>1
    <3> QED
      BY <3>1
  <2>2. k[0] = EmptyBoard /\ k[checkpoint.head] = checkpoint.board /\ k[Len(log)] = board
    <3>1. 0 \in 0 .. Len(log) /\ Len(log) \in 0 .. Len(log)
      BY <1>1
    <3> QED
      BY <1>1, <1>2, <2>1, <3>1 DEF Boards
  <2>3. ASSUME NEW n \in 1 .. Len(log')
        PROVE  Accepts(k[n - 1], log'[n].event) /\ k[n] = Apply(k[n - 1], log'[n].event)
    <3>1. CASE n = Len(log')
      <4>1. n - 1 = Len(log) /\ n = Len(log) + 1
        BY <1>1, <3>1
      <4> QED
        BY <1>1, <2>1, <2>2, <3>1, <4>1
    <3>2. CASE n # Len(log')
      <4>1. n \in 1 .. Len(log) /\ n - 1 \in 0 .. Len(log) /\ n \in 0 .. Len(log)
        BY <1>1, <3>2
      <4> QED
        BY <1>1, <1>2, <2>1, <4>1 DEF Boards
    <3> QED
      BY <3>1, <3>2
  <2>4. Boards(k)'
    BY <1>1, <2>1, <2>2, <2>3 DEF Boards
  <2> QED
    BY <2>4
<1>4. RoutesKnown(board') /\ RoutesKnown(checkpoint.board)'
  BY <1>1, RoutesStayKnown DEF Replayable
<1>5. RecentUnique'
  <2>1. /\ log'[Len(log')].id = id
        /\ \A i \in (checkpoint.head + 1) .. Len(log) : log[i].id # id
    <3>1. log'[Len(log')].id = id
      <4>1. log' = Append(log, Entry(id, Len(log), e)) /\ log \in Seq(Entries)
        BY DEF Record, Numbered
      <4>2. Entry(id, Len(log), e).id = id /\ Entry(id, Len(log), e) \in Entries
        BY <1>1 DEF Entry, Entries
      <4> QED
        BY <4>1, <4>2
    <3>2. ASSUME NEW i \in (checkpoint.head + 1) .. Len(log)
          PROVE  log[i].id # id
      <4>1. i - checkpoint.head \in 1 .. (Len(log) - checkpoint.head)
            /\ checkpoint.head + (i - checkpoint.head) = i
        BY <1>1
      <4>2. i - checkpoint.head \in DOMAIN Recent /\ Recent[i - checkpoint.head] = log[i]
        BY <4>1, RecentEntries
      <4> QED
        BY <4>2 DEF Record
    <3> QED
      BY <3>1, <3>2
  <2>2. \A i, j \in (checkpoint.head + 1) .. Len(log) : log[i].id = log[j].id => i = j
    BY DEF Replayable, RecentUnique
  <2>3. ASSUME NEW i \in (checkpoint.head + 1) .. Len(log'),
               NEW j \in (checkpoint.head + 1) .. Len(log'), log'[i].id = log'[j].id
        PROVE  i = j
    <3>1. /\ i = Len(log') \/ i \in (checkpoint.head + 1) .. Len(log)
          /\ j = Len(log') \/ j \in (checkpoint.head + 1) .. Len(log)
      BY <1>1
    <3>2. \A n \in (checkpoint.head + 1) .. Len(log) : log'[n] = log[n]
      BY <1>1
    <3> QED
      BY <2>1, <2>2, <2>3, <3>1, <3>2
  <2> QED
    BY <1>1, <2>3 DEF RecentUnique
<1> QED
  BY <1>3, <1>4, <1>5 DEF Replayable

LEMMA ReplayableThroughout == Spec => []Replayable
<1>1. Inv /\ Numbered /\ Replayable /\ [Next]_vars => Replayable'
  <2> SUFFICES ASSUME Inv, Numbered, Replayable, [Next]_vars
               PROVE  Replayable'
    OBVIOUS
  <2>1. ASSUME NEW id \in EventIds, NEW e \in Events, Record(id, e)
        PROVE  Replayable'
    BY <2>1, ReplayableKept DEF Inv
  <2>2. CASE Checkpoint
    <3>1. PICK h : Boards(h)
      BY DEF Replayable
    <3>2. /\ log' = log /\ board' = board /\ checkpoint'.head = Len(log)
          /\ checkpoint'.board = board /\ Len(log) \in Nat
      BY <2>2 DEF Checkpoint, Numbered
    <3>3. Boards(h)'
      BY <3>1, <3>2 DEF Boards
    <3>4. RecentUnique'
      BY <3>2 DEF RecentUnique
    <3> QED
      BY <3>2, <3>3, <3>4 DEF Replayable
  <2>3. CASE UNCHANGED vars
    <3>1. PICK h : Boards(h)
      BY DEF Replayable
    <3>2. Boards(h)' /\ RecentUnique'
      BY <2>3, <3>1 DEF Boards, Replayable, RecentUnique, vars
    <3> QED
      BY <2>3, <3>2 DEF Replayable, vars
  <2> QED
    BY <2>1, <2>2, <2>3 DEF Next
<1> QED
  BY <1>1, ReplayableFirst, OperatingLogInvariant, NumberedThroughout, PTL DEF Spec

\* A set of numbers that is not empty has a least element.
LEMMA LeastNumber ==
    ASSUME NEW T \in SUBSET Nat, T # {}
    PROVE  \E m \in T : \A k \in T : m <= k
<1> DEFINE R == {ss \in Nat \X Nat : ss[1] < ss[2]}
<1>1. IsWellFoundedOn(R, Nat)
  BY NatLessThanWellFounded DEF OpToRel
<1>2. PICK m \in T : \A k \in T : ~(<<k, m>> \in R)
  <2> HIDE DEF R
  <2> QED
    BY <1>1, WFMin
<1>3. ASSUME NEW k \in T
      PROVE  m <= k
  <2>1. ~(<<k, m>> \in R) /\ k \in Nat /\ m \in Nat
    BY <1>2
  <2> QED
    BY <2>1
<1> QED
  BY <1>2, <1>3

\* r[k] is what the first k entries leave, for the first n.
TakenUpTo(r, b, entries, n) ==
    r = [k \in 0 .. n |-> IF k = 0 THEN [thrown |-> FALSE, board |-> b]
                          ELSE Taken(r[k - 1], entries[k].event)]

LEMMA TakenUpToExists ==
    ASSUME NEW b, NEW entries \in Seq(Entries)
    PROVE  \E r : TakenUpTo(r, b, entries, Len(entries))
<1> DEFINE T == {n \in 0 .. Len(entries) : ~\E r : TakenUpTo(r, b, entries, n)}
           start == [thrown |-> FALSE, board |-> b]
<1>1. ASSUME T # {}
      PROVE  FALSE
  <2>1. PICK m \in T : \A k \in T : m <= k
    <3>1. T \in SUBSET Nat
      OBVIOUS
    <3> HIDE DEF T
    <3> QED
      BY <1>1, <3>1, LeastNumber
  <2>2. m # 0
    <3>1. TakenUpTo([k \in 0 .. 0 |-> start], b, entries, 0)
      BY DEF TakenUpTo
    <3>2. 0 \notin T
      BY <3>1
    <3> QED
      BY <2>1, <3>2
  <2>3. m - 1 \in 0 .. Len(entries) /\ m \in Nat
    BY <2>1, <2>2
  <2>4. PICK r : TakenUpTo(r, b, entries, m - 1)
    BY <2>1, <2>3
  <2> DEFINE q == [k \in 0 .. m |-> IF k = m THEN Taken(r[m - 1], entries[m].event) ELSE r[k]]
  <2>5. TakenUpTo(q, b, entries, m)
    <3>1. ASSUME NEW k \in 0 .. m
          PROVE  q[k] = IF k = 0 THEN start ELSE Taken(q[k - 1], entries[k].event)
      <4>1. CASE k = m
        BY <2>2, <2>3, <4>1
      <4>2. CASE k # m
        <5>1. k \in 0 .. m - 1 /\ q[k] = r[k]
          BY <2>3, <4>2
        <5>2. r[k] = IF k = 0 THEN start ELSE Taken(r[k - 1], entries[k].event)
          BY <2>4, <5>1 DEF TakenUpTo
        <5> QED
          BY <2>3, <5>1, <5>2
      <4> QED
        BY <4>1, <4>2
    <3> QED
      BY <3>1 DEF TakenUpTo
  <2> QED
    BY <2>1, <2>5
<1>2. Len(entries) \in 0 .. Len(entries)
  OBVIOUS
<1> QED
  BY <1>1, <1>2

\* What taking entry after entry leaves.
LEMMA EventByEventIs ==
    ASSUME NEW b, NEW entries \in Seq(Entries)
    PROVE  \E r : /\ r[0] = [thrown |-> FALSE, board |-> b]
                  /\ \A k \in 1 .. Len(entries) : r[k] = Taken(r[k - 1], entries[k].event)
                  /\ EventByEvent(b, entries) = r[Len(entries)]
<1> DEFINE R(r) == r = [n \in 0 .. Len(entries) |->
                           IF n = 0 THEN [thrown |-> FALSE, board |-> b]
                           ELSE Taken(r[n - 1], entries[n].event)]
           after == CHOOSE r : R(r)
<1>1. \E r : R(r)
  <2>1. PICK r : TakenUpTo(r, b, entries, Len(entries))
    BY TakenUpToExists
  <2>2. R(r)
    BY <2>1 DEF TakenUpTo
  <2> QED
    BY <2>2
<1>2. R(after)
  BY <1>1
<1>3. EventByEvent(b, entries) = after[Len(entries)]
  BY DEF EventByEvent
<1>4. Len(entries) \in Nat
  OBVIOUS
<1> HIDE DEF after
<1>5. /\ after[0] = [thrown |-> FALSE, board |-> b]
      /\ \A k \in 1 .. Len(entries) : after[k] = Taken(after[k - 1], entries[k].event)
  <2>1. \A n \in 0 .. Len(entries) :
           after[n] = IF n = 0 THEN [thrown |-> FALSE, board |-> b]
                      ELSE Taken(after[n - 1], entries[n].event)
    BY <1>2
  <2>2. 0 \in 0 .. Len(entries)
        /\ \A k \in 1 .. Len(entries) : k \in 0 .. Len(entries) /\ k # 0
    BY <1>4
  <2> QED
    BY <2>1, <2>2
<1> QED
  BY <1>3, <1>5

\* Entries each accepted by what the ones before made leave what they made.
LEMMA BoardsReached ==
    ASSUME NEW entries \in Seq(Entries), NEW h,
           \A n \in 1 .. Len(entries) : /\ Accepts(h[n - 1], entries[n].event)
                                       /\ h[n] = Apply(h[n - 1], entries[n].event)
    PROVE  EventByEvent(h[0], entries) = [thrown |-> FALSE, board |-> h[Len(entries)]]
<1> DEFINE len == Len(entries)
<1>1. len \in Nat
  OBVIOUS
<1>2. PICK r : /\ r[0] = [thrown |-> FALSE, board |-> h[0]]
               /\ \A k \in 1 .. len : r[k] = Taken(r[k - 1], entries[k].event)
               /\ EventByEvent(h[0], entries) = r[len]
  BY EventByEventIs
<1> DEFINE At(n) == r[n] = [thrown |-> FALSE, board |-> h[n]]
           T == {n \in 0 .. len : ~At(n)}
<1> HIDE DEF len
<1>3. ASSUME NEW n \in 1 .. len, At(n - 1)
      PROVE  At(n)
  <2>1. Accepts(h[n - 1], entries[n].event) /\ h[n] = Apply(h[n - 1], entries[n].event)
    BY DEF len
  <2>2. r[n] = Taken(r[n - 1], entries[n].event)
    BY <1>2
  <2>3. r[n - 1].thrown = FALSE /\ r[n - 1].board = h[n - 1]
    BY <1>3
  <2> QED
    BY <2>1, <2>2, <2>3 DEF Taken
<1>4. T = {}
  <2> SUFFICES ASSUME T # {}
               PROVE  FALSE
    OBVIOUS
  <2>1. T \in SUBSET Nat
    OBVIOUS
  <2>2. PICK m \in T : \A k \in T : m <= k
    <3> HIDE DEF T
    <3> QED
      BY <2>1, LeastNumber
  <2>3. At(0)
    BY <1>2
  <2> HIDE DEF At
  <2>4. m \in 0 .. len /\ ~At(m) /\ m # 0
    BY <2>2, <2>3
  <2>5. m - 1 \in 0 .. len /\ m \in 1 .. len /\ ~(m <= m - 1)
    BY <1>1, <2>4
  <2>6. At(m - 1)
    BY <2>2, <2>5
  <2> QED
    BY <1>3, <2>4, <2>5, <2>6
<1>5. At(len)
  <2> HIDE DEF At
  <2>1. len \in 0 .. len
    BY <1>1
  <2> QED
    BY <1>4, <2>1
<1> QED
  BY <1>2, <1>5 DEF len

LEMMA ReplayedFrom ==
    ASSUME Numbered, Replayable
    PROVE  ResumedAsReplayed
<1>1. /\ log \in Seq(Entries) /\ Len(log) \in Nat /\ DOMAIN log = 1 .. Len(log)
      /\ checkpoint.head \in 0 .. Len(log)
      /\ \A i \in DOMAIN log : log[i].sequence = i /\ log[i].previous = i - 1 /\ log[i].intact
  BY DEF Numbered, TypeOK
<1>2. PICK h : Boards(h)
  BY DEF Replayable
<1> DEFINE c == checkpoint.head
<1>3. /\ Recent \in Seq(Entries) /\ Len(Recent) = Len(log) - c
      /\ DOMAIN Recent = 1 .. (Len(log) - c)
      /\ \A i \in DOMAIN Recent : Recent[i] = log[c + i]
  BY RecentEntries
<1> HIDE DEF c
<1>4. Reduced(checkpoint, Recent) = [thrown |-> FALSE, board |-> board]
  <2>1. Chain(Recent, c)
    <3>1. ASSUME NEW i \in DOMAIN Recent
          PROVE  /\ Recent[i].sequence = c + i /\ Recent[i].previous = c + i - 1
                 /\ Recent[i].intact /\ c + i \in (c + 1) .. Len(log)
      <4>1. c + i \in DOMAIN log /\ c + i \in (c + 1) .. Len(log)
        BY <1>1, <1>3 DEF c
      <4>2. Recent[i] = log[c + i]
        BY <1>3
      <4>3. /\ log[c + i].sequence = c + i /\ log[c + i].intact
            /\ log[c + i].previous = (c + i) - 1
        BY <1>1, <4>1
      <4>4. c + i - 1 = (c + i) - 1
        BY <1>1, <1>3 DEF c
      <4> QED
        BY <4>1, <4>2, <4>3, <4>4
    <3>2. ASSUME NEW i \in DOMAIN Recent, NEW j \in DOMAIN Recent, Recent[i].id = Recent[j].id
          PROVE  i = j
      <4>1. log[c + i].id = log[c + j].id
        BY <1>3, <3>2
      <4>2. c + i = c + j
        BY <3>1, <4>1 DEF Replayable, RecentUnique, c
      <4> QED
        BY <1>1, <1>3, <4>2 DEF c
    <3> QED
      BY <3>1, <3>2 DEF Chain
  <2> DEFINE k == [n \in 0 .. Len(Recent) |-> h[c + n]]
  <2>2. \A n \in 1 .. Len(Recent) : /\ Accepts(k[n - 1], Recent[n].event)
                                   /\ k[n] = Apply(k[n - 1], Recent[n].event)
    <3> SUFFICES ASSUME NEW n \in 1 .. Len(Recent)
                 PROVE  /\ Accepts(k[n - 1], Recent[n].event)
                        /\ k[n] = Apply(k[n - 1], Recent[n].event)
      OBVIOUS
    <3>1. /\ c + n \in 1 .. Len(log) /\ n \in DOMAIN Recent
          /\ n \in 0 .. Len(Recent) /\ n - 1 \in 0 .. Len(Recent)
          /\ (c + n) - 1 = c + (n - 1)
      BY <1>1, <1>3 DEF c
    <3>2. k[n] = h[c + n] /\ k[n - 1] = h[(c + n) - 1]
      BY <3>1
    <3> HIDE DEF k
    <3> QED
      BY <1>2, <1>3, <3>1, <3>2 DEF Boards
  <2>3. k[0] = checkpoint.board /\ k[Len(Recent)] = board
    <3>1. 0 \in 0 .. Len(Recent) /\ Len(Recent) \in 0 .. Len(Recent)
          /\ c + 0 = c /\ c + Len(Recent) = Len(log)
      BY <1>1, <1>3 DEF c
    <3> QED
      BY <1>2, <3>1 DEF Boards, c
  <2> HIDE DEF k
  <2>4. EventByEvent(checkpoint.board, Recent) = [thrown |-> FALSE, board |-> board]
    BY <1>3, <2>2, <2>3, BoardsReached
  <2> QED
    BY <2>1, <2>4 DEF Reduced, Replayable, c
<1>5. Chain(log, 0) <=> UniqueIds
  BY <1>1 DEF Chain, UniqueIds
<1>6. RoutesKnown(EmptyBoard)
  BY DEF RoutesKnown, EmptyBoard
<1>7. EventByEvent(EmptyBoard, log) = [thrown |-> FALSE, board |-> board]
  <2>1. /\ \A n \in 1 .. Len(log) : /\ Accepts(h[n - 1], log[n].event)
                                   /\ h[n] = Apply(h[n - 1], log[n].event)
        /\ h[0] = EmptyBoard /\ h[Len(log)] = board
    BY <1>2 DEF Boards
  <2> QED
    BY <1>1, <2>1, BoardsReached
<1>8. Genesis.head = 0 /\ Genesis.board = EmptyBoard
  BY DEF Genesis
<1>9. Reduced(Genesis, log) = IF UniqueIds THEN [thrown |-> FALSE, board |-> board]
                              ELSE [thrown |-> TRUE, board |-> EmptyBoard]
  BY <1>5, <1>6, <1>7, <1>8 DEF Reduced
<1> QED
  BY <1>4, <1>9 DEF ResumedAsReplayed

\* The projection resumed from a checkpoint is the one replayed from the start, and
\* replaying fails only over an id used before and after a checkpoint
\* (tests/orchestration/operating-reducer.test.mjs:593).
THEOREM ResumingReplays == Spec => []ResumedAsReplayed
<1>1. Numbered /\ Replayable => ResumedAsReplayed
  BY ReplayedFrom
<1> QED
  BY NumberedThroughout, ReplayableThroughout, <1>1, PTL
=============================================================================
