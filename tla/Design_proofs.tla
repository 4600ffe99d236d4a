---------------------------- MODULE Design_proofs ----------------------------
(***************************************************************************)
(* Proofs about the design review board: DesignImport, the commit of an    *)
(* import, and DesignBoard, the daemon with its tabs and the agent.        *)
(***************************************************************************)
EXTENDS DesignBoard, DesignImport, SequenceTheorems, FiniteSetTheorems, TLAPS

-----------------------------------------------------------------------------
(* DesignBoard, for any tabs, pins, replies and bounds.                     *)

LEMMA PinMapIs ==
    ASSUME NEW m
    PROVE  m \in PinMap <=> DOMAIN m \subseteq Pins /\ m \in [DOMAIN m -> Item]
  BY DEF PinMap

LEMMA NoPinsTyped == NoPins \in PinMap /\ DOMAIN NoPins = {}
  BY PinMapIs DEF NoPins

LEMMA FreshTyped == Fresh \in Review /\ Fresh.pins = NoPins
  BY NoPinsTyped DEF Fresh, Review, Decisions

\* The merge has the pins of both sides, with the replies of both.
LEMMA Merging ==
    ASSUME NEW base \in PinMap, NEW sent \in PinMap
    PROVE  /\ MergePins(base, sent) \in PinMap
           /\ DOMAIN MergePins(base, sent) = DOMAIN base \cup DOMAIN sent
           /\ \A p \in Pins : RepliesOf(base, p) \cup RepliesOf(sent, p)
                                \subseteq RepliesOf(MergePins(base, sent), p)
<1> DEFINE m == MergePins(base, sent)
<1>1. /\ DOMAIN base \subseteq Pins /\ base \in [DOMAIN base -> Item]
      /\ DOMAIN sent \subseteq Pins /\ sent \in [DOMAIN sent -> Item]
  BY PinMapIs
<1>2. DOMAIN m = DOMAIN base \cup DOMAIN sent
  BY DEF MergePins
<1>3. ASSUME NEW p \in Pins
      PROVE  RepliesOf(base, p) \in SUBSET Replies
  BY <1>1 DEF RepliesOf, Item
<1>4. ASSUME NEW p \in DOMAIN sent
      PROVE  /\ m[p] = [status |-> sent[p].status, replies |-> RepliesOf(base, p) \cup sent[p].replies]
             /\ m[p] \in Item
  <2>1. sent[p] \in Item /\ p \in Pins
    BY <1>1
  <2>2. m[p] = [sent[p] EXCEPT !.replies = RepliesOf(base, p) \cup @]
    BY DEF MergePins
  <2>3. m[p] = [status |-> sent[p].status, replies |-> RepliesOf(base, p) \cup sent[p].replies]
    BY <2>1, <2>2 DEF Item
  <2> QED
    BY <1>3, <2>1, <2>3 DEF Item
<1>5. ASSUME NEW p \in DOMAIN base \ DOMAIN sent
      PROVE  m[p] = base[p] /\ m[p] \in Item
  BY <1>1 DEF MergePins
<1>6. m \in [DOMAIN m -> Item]
  <2>1. m = [p \in DOMAIN m |-> m[p]]
    BY DEF MergePins
  <2> QED
    BY <1>2, <1>4, <1>5, <2>1
<1>7. m \in PinMap
  BY <1>1, <1>2, <1>6, PinMapIs
<1>8. ASSUME NEW p \in Pins
      PROVE  RepliesOf(base, p) \cup RepliesOf(sent, p) \subseteq RepliesOf(m, p)
  BY <1>2, <1>4, <1>5 DEF RepliesOf
<1> QED
  BY <1>2, <1>7, <1>8

LEMMA WithoutTyped ==
    ASSUME NEW m \in PinMap, NEW p
    PROVE  /\ Without(m, p) \in PinMap
           /\ DOMAIN Without(m, p) = DOMAIN m \ {p}
           /\ \A q \in DOMAIN m \ {p} : Without(m, p)[q] = m[q]
  BY PinMapIs DEF Without

\* What readers and the merge find in the file.
LEMMA ReadStoredTyped ==
    ASSUME stored \in Feedback \cup {Absent, Torn}
    PROVE  /\ ReadStored \in Feedback
           /\ stored \in Feedback => ReadStored = stored
           /\ ShownReview \in Review /\ ShownReview.pins = ReadStored.pins
<1>1. {Absent, Torn} \cap Feedback = {}
  BY DesignBoardAssumption
<1>2. ReadStored \in Feedback
  BY NoPinsTyped DEF ReadStored, Feedback
<1> QED
  BY <1>1, <1>2 DEF ReadStored, ShownReview, Review, Feedback, Decisions

LEMMA MergedWithTyped ==
    ASSUME stored \in Feedback \cup {Absent, Torn}, NEW sent \in PinMap
    PROVE  /\ MergedWith(sent) \in Feedback
           /\ MergedWith(sent).pins = MergePins(ReadStored.pins, sent)
           /\ MergedWith(sent).preferred = ReadStored.preferred
<1>1. ReadStored \in Feedback /\ ReadStored.pins \in PinMap
  BY ReadStoredTyped DEF Feedback
<1> QED
  BY <1>1, Merging DEF MergedWith, Feedback

\* A fold merges the pins of the round and may set the preferred variant.
LEMMA FoldedWithTyped ==
    ASSUME stored \in Feedback \cup {Absent, Torn}, NEW round \in Posted
    PROVE  /\ round.pins \in PinMap
           /\ FoldedWith(round) \in Feedback
           /\ FoldedWith(round).pins = MergePins(ReadStored.pins, round.pins)
<1>1. round.pins \in PinMap /\ round.preferred \in BOOLEAN
  BY DEF Posted
<1>2. /\ MergedWith(round.pins) \in Feedback
      /\ MergedWith(round.pins).pins = MergePins(ReadStored.pins, round.pins)
  BY <1>1, MergedWithTyped
<1>3. (MergedWith(round.pins).preferred \/ round.preferred) \in BOOLEAN
  OBVIOUS
<1> HIDE DEF MergedWith
<1> QED
  BY <1>1, <1>2, <1>3 DEF FoldedWith, Feedback

\* Taking an answer out of those that wait leaves the others.
LEMMA RemovedFrom ==
    ASSUME NEW S, NEW s \in Seq(S), NEW i \in DOMAIN s
    PROVE  /\ RemoveAt(s, i) \in Seq(S)
           /\ \A j \in DOMAIN RemoveAt(s, i) : \E k \in DOMAIN s : RemoveAt(s, i)[j] = s[k]
<1>1. Len(s) \in Nat /\ DOMAIN s = 1 .. Len(s) /\ i \in 1 .. Len(s)
  OBVIOUS
<1> DEFINE front == SubSeq(s, 1, i - 1)
           rest == SubSeq(s, i + 1, Len(s))
<1>2. front \in Seq(S) /\ rest \in Seq(S)
  BY <1>1
<1>3. Len(front) = i - 1 /\ \A j \in 1 .. i - 1 : front[j] = s[j]
  BY <1>1
<1>4. Len(rest) = Len(s) - i /\ \A j \in 1 .. Len(s) - i : rest[j] = s[i + j]
  BY <1>1
<1>5. RemoveAt(s, i) = front \o rest
  BY DEF RemoveAt
<1> HIDE DEF front, rest
<1>6. front \o rest \in Seq(S)
  BY <1>2
<1>7. ASSUME NEW j \in DOMAIN (front \o rest)
      PROVE  \E k \in DOMAIN s : (front \o rest)[j] = s[k]
  <2>1. /\ Len(front \o rest) = Len(front) + Len(rest)
        /\ \A k \in 1 .. Len(front) + Len(rest) :
              (front \o rest)[k] = IF k <= Len(front) THEN front[k] ELSE rest[k - Len(front)]
    BY <1>2, ConcatProperties
  <2>2. j \in 1 .. Len(front) + Len(rest)
    BY <1>6, <2>1
  <2> DEFINE k == IF j <= i - 1 THEN j ELSE j + 1
  <2>3. k \in 1 .. Len(s)
    BY <1>1, <1>3, <1>4, <2>2
  <2>4. CASE j <= i - 1
    BY <1>1, <1>3, <2>1, <2>2, <2>3, <2>4
  <2>5. CASE ~(j <= i - 1)
    <3>1. j - (i - 1) \in 1 .. Len(s) - i /\ i + (j - (i - 1)) = j + 1
      BY <1>1, <1>3, <1>4, <2>2, <2>5
    <3>2. (front \o rest)[j] = rest[j - (i - 1)]
      BY <1>3, <2>1, <2>2, <2>5
    <3> QED
      BY <1>1, <1>4, <2>3, <2>5, <3>1, <3>2
  <2> QED
    BY <2>4, <2>5
<1> QED
  BY <1>5, <1>6, <1>7

-----------------------------------------------------------------------------
(* The invariant.                                                           *)

\* Every pin that is anywhere was dropped by its reviewer.
KnownPins ==
    /\ DOMAIN ReadStored.pins \subseteq dropped
    /\ \A t \in Tabs :
          /\ DOMAIN review[t].pins \subseteq dropped
          /\ \A i \in DOMAIN queue[t] : DOMAIN queue[t][i] \subseteq dropped
          /\ \A i \in DOMAIN answers[t] : DOMAIN answers[t][i].pins \subseteq dropped
    /\ resolving # Nothing => DOMAIN resolving \subseteq dropped
    /\ pending \in Posted => DOMAIN pending.pins \subseteq dropped
    /\ folding # Nothing => DOMAIN folding.round.pins \subseteq dropped

\* The rounds that the daemon and the agent have in hand.
Folded == IF folding # Nothing THEN {folding.round.number} ELSE {}
InHand == IF reading # Nothing THEN {reading.number} ELSE {}

\* A round that was carried out already, and that is still in the pending file or
\* about to be carried out, is one that daemon and agent share.
RoundsInHand ==
    /\ rounds.applied \cup Waiting \cup Folded \cup InHand \subseteq 1 .. rounds.posted
    /\ folding # Nothing => Waiting \subseteq Folded
    /\ folding # Nothing /\ folding.at = "empty" => Folded \subseteq rounds.applied
    /\ folding # Nothing /\ folding.at = "merge" => Folded \cap rounds.applied \subseteq rounds.shared
    /\ Waiting \cap rounds.applied \subseteq rounds.shared \cup Folded
    /\ InHand \cap (rounds.applied \cup Folded) \subseteq rounds.shared

\* Sharper than KeptOrTold: what is still to be sent is in the author's own queue.
Queued(p) == \E i \in DOMAIN queue[Author[p]] : p \in DOMAIN queue[Author[p]][i]

Accounted ==
    \A p \in dropped \ deleted : Kept(p) \/ Queued(p) \/ Author[p] \in told \/ Lost

Inv == TypeOK /\ KnownPins /\ RoundsInHand /\ EveryRoundOnce /\ Accounted

-----------------------------------------------------------------------------
LEMMA Budgets ==
    /\ DOMAIN Budget = {"edits", "deletes", "crashes", "tears", "reloads"}
    /\ \A what \in DOMAIN Budget : Budget[what] \in Nat
  BY DesignBoardAssumption DEF Budget

LEMMA Spending ==
    ASSUME TypeOK, NEW what \in DOMAIN Budget, Spend(what)
    PROVE  /\ used' \in [DOMAIN Budget -> Nat]
           /\ \A w \in DOMAIN Budget : used'[w] <= Budget[w] /\ used[w] <= used'[w]
           /\ used'[what] > 0
<1>1. used \in [DOMAIN Budget -> Nat] /\ \A w \in DOMAIN Budget : used[w] <= Budget[w]
  BY DEF TypeOK
<1>2. used[what] < Budget[what] /\ used' = [used EXCEPT ![what] = used[what] + 1]
  BY DEF Spend
<1>3. Budget[what] \in Nat
  BY Budgets
<1>4. ASSUME NEW w \in DOMAIN Budget
      PROVE  used'[w] = (IF w = what THEN used[w] + 1 ELSE used[w])
  BY <1>1, <1>2
<1>5. used' \in [DOMAIN Budget -> Nat]
  BY <1>1, <1>2
<1> QED
  BY <1>1, <1>2, <1>3, <1>4, <1>5

\* The types of what a tab keeps.
LEMMA TabTyped ==
    ASSUME TypeOK, NEW t \in Tabs
    PROVE  /\ review[t] \in Review /\ review[t].pins \in PinMap
           /\ \A p \in DOMAIN review[t].pins : p \in Pins /\ review[t].pins[p] \in Item
           /\ queue[t] \in Seq(PinMap) /\ answers[t] \in Seq(Review)
           /\ queue[t] # <<>> => Head(queue[t]) \in PinMap /\ Tail(queue[t]) \in Seq(PinMap)
<1>1. review[t] \in Review /\ review[t].pins \in PinMap
  BY DEF TypeOK, Review
<1>2. \A p \in DOMAIN review[t].pins : p \in Pins /\ review[t].pins[p] \in Item
  BY <1>1, PinMapIs
<1>3. queue[t] \in Seq(PinMap) /\ answers[t] \in Seq(Review)
  BY DEF TypeOK
<1> QED
  BY <1>1, <1>2, <1>3

LEMMA EditTyped ==
    ASSUME TypeOK, NEW t \in Tabs, NEW newReview \in Review, Edit(t, newReview),
           approving' \subseteq Tabs, dropped \subseteq dropped', dropped' \subseteq Pins,
           seen' = seen, rounds' = rounds, deleted' = deleted, told' = told
    PROVE  TypeOK'
<1>1. "edits" \in DOMAIN Budget
  BY Budgets
<1>2. /\ used' \in [DOMAIN Budget -> Nat]
      /\ \A w \in DOMAIN Budget : used'[w] <= Budget[w]
  BY <1>1, Spending DEF Edit
<1>3. review' \in [Tabs -> Review]
  BY DEF Edit, TypeOK
<1>4. newReview.pins \in PinMap
  BY DEF Review
<1>5. queue' \in [Tabs -> Seq(PinMap)]
  <2>1. Append(queue[t], newReview.pins) \in Seq(PinMap)
    BY <1>4, TabTyped
  <2> QED
    BY <2>1 DEF Edit, TypeOK
<1> QED
  BY <1>2, <1>3, <1>5 DEF Edit, TypeOK, files, agent

\* What a reviewer makes of the review that the tab shows.
LEMMA NewReviewTyped ==
    ASSUME TypeOK, NEW t \in Tabs
    PROVE  /\ \A p \in Pins :
                LET pin == [q \in {p} |-> [status |-> "open", replies |-> {}]]
                    new == [review[t] EXCEPT !.pins = MergePins(@, pin)]
                IN  /\ pin \in PinMap /\ DOMAIN pin = {p}
                    /\ new \in Review /\ new.pins = MergePins(review[t].pins, pin)
           /\ \A p \in DOMAIN review[t].pins, r \in Replies :
                LET new == [review[t] EXCEPT !.pins[p].replies = @ \cup {r}]
                IN  new \in Review /\ DOMAIN new.pins = DOMAIN review[t].pins
           /\ \A p \in DOMAIN review[t].pins, status \in Statuses :
                LET new == [review[t] EXCEPT !.pins[p].status = status]
                IN  new \in Review /\ DOMAIN new.pins = DOMAIN review[t].pins
           /\ \A verdict \in Verdicts :
                LET new == [review[t] EXCEPT !.decision = verdict]
                IN  new \in Review /\ new.pins = review[t].pins
<1>1. review[t] \in Review /\ review[t].pins \in PinMap
  BY TabTyped
<1>2. ASSUME NEW p \in Pins
      PROVE  LET pin == [q \in {p} |-> [status |-> "open", replies |-> {}]]
                 new == [review[t] EXCEPT !.pins = MergePins(@, pin)]
             IN  /\ pin \in PinMap /\ DOMAIN pin = {p}
                 /\ new \in Review /\ new.pins = MergePins(review[t].pins, pin)
  <2> DEFINE pin == [q \in {p} |-> [status |-> "open", replies |-> {}]]
  <2>1. DOMAIN pin = {p} /\ pin \in [{p} -> Item]
    BY DesignBoardAssumption DEF Item
  <2>2. pin \in PinMap
    BY <2>1, PinMapIs
  <2>3. MergePins(review[t].pins, pin) \in PinMap
    BY <1>1, <2>2, Merging
  <2> QED
    BY <1>1, <2>1, <2>2, <2>3 DEF Review
<1>3. ASSUME NEW p \in DOMAIN review[t].pins, NEW item \in Item
      PROVE  LET new == [review[t] EXCEPT !.pins = [@ EXCEPT ![p] = item]]
             IN  new \in Review /\ DOMAIN new.pins = DOMAIN review[t].pins
  <2>1. [review[t].pins EXCEPT ![p] = item] \in PinMap
    BY <1>1, PinMapIs
  <2> QED
    BY <1>1, <2>1 DEF Review
<1>4. ASSUME NEW p \in DOMAIN review[t].pins, NEW r \in Replies
      PROVE  LET new == [review[t] EXCEPT !.pins[p].replies = @ \cup {r}]
             IN  new \in Review /\ DOMAIN new.pins = DOMAIN review[t].pins
  <2> DEFINE item == [review[t].pins[p] EXCEPT !.replies = @ \cup {r}]
  <2>1. item \in Item
    BY TabTyped DEF Item
  <2>2. [review[t] EXCEPT !.pins[p].replies = @ \cup {r}]
          = [review[t] EXCEPT !.pins = [@ EXCEPT ![p] = item]]
    OBVIOUS
  <2> QED
    BY <1>3, <2>1, <2>2
<1>5. ASSUME NEW p \in DOMAIN review[t].pins, NEW status \in Statuses
      PROVE  LET new == [review[t] EXCEPT !.pins[p].status = status]
             IN  new \in Review /\ DOMAIN new.pins = DOMAIN review[t].pins
  <2> DEFINE item == [review[t].pins[p] EXCEPT !.status = status]
  <2>1. item \in Item
    BY TabTyped DEF Item
  <2>2. [review[t] EXCEPT !.pins[p].status = status]
          = [review[t] EXCEPT !.pins = [@ EXCEPT ![p] = item]]
    OBVIOUS
  <2> QED
    BY <1>3, <2>1, <2>2
<1>6. ASSUME NEW verdict \in Verdicts
      PROVE  LET new == [review[t] EXCEPT !.decision = verdict]
             IN  new \in Review /\ new.pins = review[t].pins
  BY <1>1, DesignBoardAssumption DEF Review
<1> QED
  BY <1>2, <1>4, <1>5, <1>6

LEMMA InitTyped == Init => TypeOK
<1> SUFFICES ASSUME Init
             PROVE  TypeOK
  OBVIOUS
<1>1. used \in [DOMAIN Budget -> Nat] /\ \A w \in DOMAIN Budget : used[w] <= Budget[w]
  BY Budgets DEF Init
<1>2. asked \in [Tabs -> 0 .. MaxFetches]
  BY DesignBoardAssumption DEF Init
<1> QED
  BY <1>1, <1>2, FreshTyped, DesignBoardAssumption DEF Init, TypeOK

LEMMA BroadcastTyped ==
    ASSUME TypeOK, NEW pins \in PinMap, Broadcast(pins)
    PROVE  asked' \in [Tabs -> 0 .. MaxFetches]
<1>1. DOMAIN pins \subseteq Pins /\ IsFiniteSet(Pins)
  BY PinMapIs, DesignBoardAssumption
<1>2. Cardinality(DOMAIN pins) \in Nat
  BY <1>1, FS_Subset, FS_CardinalityType
<1>3. \A n \in Nat : SmallerOf(MaxFetches, n) \in 0 .. MaxFetches
  BY DesignBoardAssumption DEF SmallerOf
<1>4. asked \in [Tabs -> 0 .. MaxFetches] /\ listening \subseteq Tabs
  BY DEF TypeOK
<1>5. ASSUME NEW t \in Tabs
      PROVE  (IF t \in listening THEN SmallerOf(MaxFetches, asked[t] + Cardinality(DOMAIN pins))
                                 ELSE asked[t]) \in 0 .. MaxFetches
  BY <1>2, <1>3, <1>4, DesignBoardAssumption
<1> HIDE DEF Broadcast
<1> QED
  BY <1>5 DEF Broadcast

RoundsType == [posted: 0 .. MaxRounds, applied: SUBSET Round, again: SUBSET Round,
               shared: SUBSET Round, gone: SUBSET Round]

LEMMA WaitingTyped == TypeOK => Waiting \subseteq Round
  BY DEF Waiting, TypeOK, Posted

LEMMA AppliedTyped ==
    ASSUME TypeOK, NEW number \in Round, Applied(number)
    PROVE  /\ rounds' \in RoundsType
           /\ rounds'.applied = rounds.applied \cup {number}
           /\ rounds'.again = rounds.again \cup (rounds.applied \cap {number})
           /\ rounds'.posted = rounds.posted /\ rounds'.shared = rounds.shared
           /\ rounds'.gone = rounds.gone
<1>1. rounds \in RoundsType
  BY DEF TypeOK, RoundsType
<1>2. rounds' = [[rounds EXCEPT !.applied = @ \cup {number}]
                    EXCEPT !.again = @ \cup (rounds.applied \cap {number})]
  BY <1>1 DEF Applied, RoundsType
<1> QED
  BY <1>1, <1>2 DEF RoundsType

LEMMA TypeStep ==
    ASSUME TypeOK, KnownPins, [Next]_vars
    PROVE  TypeOK'
<1>1. /\ ReadStored \in Feedback /\ ReadStored.pins \in PinMap
      /\ ReadStored.preferred \in BOOLEAN
      /\ ShownReview \in Review
  BY ReadStoredTyped DEF TypeOK, Feedback
<1>2. ASSUME NEW t \in Tabs, NEW p \in Pins, AddPin(t, p)
      PROVE  TypeOK'
  BY <1>2, NewReviewTyped, EditTyped DEF AddPin, TypeOK
<1>3. ASSUME NEW t \in Tabs, NEW p \in Pins, NEW r \in Replies, AddReply(t, p, r)
      PROVE  TypeOK'
  BY <1>3, NewReviewTyped, EditTyped DEF AddReply, TypeOK, past
<1>4. ASSUME NEW t \in Tabs, NEW p \in Pins, NEW status \in Statuses, SetStatus(t, p, status)
      PROVE  TypeOK'
  BY <1>4, NewReviewTyped, EditTyped DEF SetStatus, TypeOK, past
<1>5. ASSUME NEW t \in Tabs, NEW verdict \in Verdicts, SetDecision(t, verdict)
      PROVE  TypeOK'
  BY <1>5, NewReviewTyped, EditTyped DEF SetDecision, TypeOK, past
<1>6. ASSUME NEW t \in Tabs, Put(t)
      PROVE  TypeOK'
  <2>1. stored' \in Feedback
    BY <1>6, TabTyped, MergedWithTyped DEF Put, TypeOK
  <2>2. queue' \in [Tabs -> Seq(PinMap)]
    BY <1>6, TabTyped DEF Put, TypeOK
  <2>3. asked' \in [Tabs -> 0 .. MaxFetches]
    BY <1>6, TabTyped, BroadcastTyped DEF Put
  <2> QED
    BY <1>6, <2>1, <2>2, <2>3 DEF Put, TypeOK, past, agent
<1>7. ASSUME NEW t \in Tabs, PutFails(t)
      PROVE  TypeOK'
  <2>1. queue' \in [Tabs -> Seq(PinMap)]
    BY <1>7, TabTyped DEF PutFails, TypeOK
  <2> QED
    BY <1>7, <2>1 DEF PutFails, TypeOK, files, agent
<1>8. ASSUME NEW t \in Tabs, PostApproval(t)
      PROVE  TypeOK'
  <2>1. stored' \in Feedback \cup {Absent, Torn}
    BY <1>1, <1>8 DEF PostApproval, TypeOK, Feedback
  <2> QED
    BY <1>8, <2>1 DEF PostApproval, TypeOK, agent
<1>9. ASSUME NEW t \in Tabs, Connect(t)
      PROVE  TypeOK'
  BY <1>9 DEF Connect, TypeOK, files, past, agent
<1>10. ASSUME NEW t \in Tabs, Answer(t)
       PROVE  TypeOK'
  <2>1. asked' \in [Tabs -> 0 .. MaxFetches]
    BY <1>10, DesignBoardAssumption DEF Answer, TypeOK
  <2>2. answers' \in [Tabs -> Seq(Review)]
    BY <1>1, <1>10, TabTyped DEF Answer, TypeOK
  <2> QED
    BY <1>10, <2>1, <2>2 DEF Answer, TypeOK, files, past, agent
<1>11. ASSUME NEW t \in Tabs, FetchFails(t)
       PROVE  TypeOK'
  <2>1. asked' \in [Tabs -> 0 .. MaxFetches]
    BY <1>11, DesignBoardAssumption DEF FetchFails, TypeOK
  <2> QED
    BY <1>11, <2>1 DEF FetchFails, TypeOK, files, past, agent
<1>12. ASSUME NEW t \in Tabs, Hydrate(t)
       PROVE  TypeOK'
  <2>1. PICK i \in DOMAIN answers[t] :
           /\ review' = [review EXCEPT ![t] = answers[t][i]]
           /\ answers' = [answers EXCEPT ![t] = RemoveAt(@, i)]
    BY <1>12 DEF Hydrate
  <2>2. answers[t][i] \in Review /\ RemoveAt(answers[t], i) \in Seq(Review)
    BY TabTyped, RemovedFrom
  <2> QED
    BY <1>12, <2>1, <2>2 DEF Hydrate, TypeOK, files, past, agent
<1>13. ASSUME NEW t \in Tabs, Reload(t)
       PROVE  TypeOK'
  <2>1. /\ used' \in [DOMAIN Budget -> Nat]
        /\ \A w \in DOMAIN Budget : used'[w] <= Budget[w]
    BY <1>13, Budgets, Spending DEF Reload
  <2>2. /\ review' \in [Tabs -> Review]
        /\ queue' \in [Tabs -> Seq(PinMap)] /\ answers' \in [Tabs -> Seq(Review)]
    BY <1>13, FreshTyped DEF Reload, TypeOK
  <2>3. asked' \in [Tabs -> 0 .. MaxFetches]
    BY <1>13, DesignBoardAssumption DEF Reload, TypeOK
  <2> QED
    BY <1>13, <2>1, <2>2, <2>3 DEF Reload, TypeOK, files, past, agent
<1>14. ASSUME NEW p \in Pins, Delete(p)
       PROVE  TypeOK'
  <2>1. /\ used' \in [DOMAIN Budget -> Nat]
        /\ \A w \in DOMAIN Budget : used'[w] <= Budget[w]
    BY <1>14, Budgets, Spending DEF Delete
  <2>2. stored' \in Feedback
    BY <1>1, <1>14, WithoutTyped DEF Delete, Feedback
  <2>3. deleted' \subseteq dropped
    BY <1>14 DEF Delete, TypeOK, KnownPins
  <2> QED
    BY <1>14, <2>1, <2>2, <2>3 DEF Delete, TypeOK, tabs, agent
<1>15. ASSUME NEW pins \in PinMap, NEW preferred \in BOOLEAN, PostRound(pins, preferred)
       PROVE  TypeOK'
  <2>1. /\ rounds.posted \in 0 .. MaxRounds /\ rounds.posted < MaxRounds /\ MaxRounds \in Nat
        /\ rounds \in RoundsType
    BY <1>15, DesignBoardAssumption DEF PostRound, TypeOK, RoundsType
  <2>2. rounds.posted + 1 \in 0 .. MaxRounds /\ rounds.posted + 1 \in Round
    BY <2>1 DEF Round
  <2>3. pending' \in Posted
    BY <1>15, <2>2 DEF PostRound, Posted
  <2>4. rounds' \in RoundsType
    <3>1. rounds' = [[rounds EXCEPT !.posted = rounds.posted + 1] EXCEPT !.gone = @ \cup Waiting]
      BY <1>15, <2>1 DEF PostRound, RoundsType
    <3> QED
      BY <2>1, <2>2, <3>1, WaitingTyped DEF RoundsType
  <2> QED
    BY <1>15, <2>3, <2>4 DEF PostRound, TypeOK, RoundsType, tabs, agent
<1>16. CASE Register
  <2>1. rounds' \in RoundsType
    BY <1>16, WaitingTyped DEF Register, TypeOK, RoundsType, Waiting
  <2> QED
    BY <1>16, <2>1 DEF Register, TypeOK, RoundsType, files, tabs, agent
<1>17. CASE FoldMerges
  <2>1. folding \in [round: Posted, at: {"merge", "empty"}] /\ folding.round \in Posted
    BY <1>17 DEF FoldMerges, TypeOK
  <2>2. folding' \in [round: Posted, at: {"merge", "empty"}] /\ stored' \in Feedback
    BY <1>17, <2>1, FoldedWithTyped DEF FoldMerges, TypeOK
  <2>3. rounds' \in RoundsType
    BY <1>17, <2>1, AppliedTyped DEF FoldMerges, Posted
  <2> QED
    BY <1>17, <2>2, <2>3 DEF FoldMerges, TypeOK, RoundsType, tabs, agent
<1>18. CASE FoldEmpties \/ AgentDies
  BY <1>18 DEF FoldEmpties, AgentDies, TypeOK, files, tabs, agent, past
<1>24. CASE AgentReads
  <2>1. seen' \subseteq dropped
    BY <1>24, ReadStoredTyped DEF AgentReads, TypeOK, KnownPins
  <2>2. rounds' \in RoundsType
    <3>1. rounds \in RoundsType
      BY DEF TypeOK, RoundsType
    <3>2. CASE pending \in Posted /\ rounds' = [rounds EXCEPT !.shared = @ \cup {pending.number}]
      BY <3>1, <3>2 DEF RoundsType, Posted
    <3> QED
      BY <1>24, <3>1, <3>2 DEF AgentReads
  <2>3. reading' \in Posted \cup {Nothing}
    BY <1>24 DEF AgentReads, TypeOK
  <2> QED
    BY <1>24, <2>1, <2>2, <2>3 DEF AgentReads, TypeOK, RoundsType, files, tabs, agent
<1>25. CASE AgentConsumes
  <2>1. reading.number \in Round
    BY <1>25 DEF AgentConsumes, TypeOK, Posted
  <2>2. rounds' \in RoundsType
    <3>1. rounds \in RoundsType
      BY DEF TypeOK, RoundsType
    <3>2. rounds' = [[[rounds EXCEPT !.applied = @ \cup {reading.number}]
                        EXCEPT !.again = @ \cup (rounds.applied \cap {reading.number})]
                        EXCEPT !.gone = @ \cup (Waiting \ {reading.number})]
      BY <1>25, <3>1 DEF AgentConsumes, RoundsType
    <3> QED
      BY <2>1, <3>1, <3>2, WaitingTyped DEF RoundsType
  <2> QED
    BY <1>25, <2>2 DEF AgentConsumes, TypeOK, RoundsType, tabs
<1>19. CASE AgentFetches
  <2>1. resolving' \in PinMap
    <3> DEFINE open == {p \in DOMAIN ReadStored.pins : ReadStored.pins[p].status # "resolved"}
    <3>1. resolving' = [p \in open |-> [ReadStored.pins[p] EXCEPT !.status = "resolved"]]
      BY <1>19 DEF AgentFetches
    <3>2. open \subseteq Pins /\ \A p \in open : ReadStored.pins[p] \in Item
      BY <1>1, PinMapIs
    <3>3. \A p \in open : [ReadStored.pins[p] EXCEPT !.status = "resolved"] \in Item
      BY <3>2, DesignBoardAssumption DEF Item
    <3> QED
      BY <3>1, <3>2, <3>3, PinMapIs
  <2> QED
    BY <1>19, <2>1 DEF AgentFetches, TypeOK, files, tabs, past
<1>20. CASE AgentResolves
  <2>1. resolving \in PinMap
    BY <1>20 DEF AgentResolves, TypeOK
  <2>2. stored' \in Feedback /\ asked' \in [Tabs -> 0 .. MaxFetches]
    BY <1>20, <2>1, MergedWithTyped, BroadcastTyped DEF AgentResolves, TypeOK
  <2> QED
    BY <1>20, <2>2 DEF AgentResolves, TypeOK, past
<1>21. CASE Crash \/ CrashWriting
  <2>1. /\ used' \in [DOMAIN Budget -> Nat]
        /\ \A w \in DOMAIN Budget : used'[w] <= Budget[w]
    BY <1>21, Budgets, Spending DEF Crash, CrashWriting
  <2>2. rounds' \in RoundsType
    <3>1. CASE Crash
      BY <3>1 DEF Crash, TypeOK, RoundsType, Posted
    <3>2. CASE CrashWriting
      BY <3>2, WaitingTyped DEF CrashWriting, TypeOK, RoundsType
    <3> QED
      BY <1>21, <3>1, <3>2
  <2> QED
    BY <1>21, <2>1, <2>2 DEF Crash, CrashWriting, Dies, TypeOK, RoundsType, files
<1>22. CASE Restart
  BY <1>22 DEF Restart, TypeOK, files, tabs, past, agent
<1>23. CASE UNCHANGED vars
  BY <1>23 DEF vars, files, tabs, agent, past, TypeOK
<1>26. ASSUME NEW t \in Tabs, NEW preferred \in BOOLEAN,
              PostRound(NoPins, preferred) \/ PostRound(review[t].pins, preferred)
       PROVE  TypeOK'
  BY <1>15, <1>26, TabTyped, NoPinsTyped
<1> QED
  BY <1>2, <1>3, <1>4, <1>5, <1>6, <1>7, <1>8, <1>9, <1>10, <1>11, <1>12, <1>13, <1>14,
     <1>16, <1>17, <1>18, <1>19, <1>20, <1>21, <1>22, <1>23, <1>24, <1>25, <1>26 DEF Next, TabStep

-----------------------------------------------------------------------------
(* Where pins can come from.                                                *)

LEMMA FileAfter ==
    /\ stored' = stored => ReadStored' = ReadStored
    /\ stored' \in Feedback => ReadStored' = stored'
    /\ stored' = Torn => DOMAIN ReadStored'.pins = {}
  BY DesignBoardAssumption, NoPinsTyped DEF ReadStored

\* A step that puts nothing in any place but pins that were there or are dropped.
LEMMA KnownFrom ==
    ASSUME KnownPins, dropped \subseteq dropped',
           DOMAIN ReadStored'.pins \subseteq dropped',
           resolving' = resolving \/ resolving' = Nothing \/ DOMAIN resolving' \subseteq dropped',
           pending' = pending \/ pending' \notin Posted \/ DOMAIN pending'.pins \subseteq dropped',
           \/ folding' = folding \/ folding' = Nothing
           \/ DOMAIN folding'.round.pins \subseteq dropped',
           \A t \in Tabs :
              /\ review'[t] = review[t] \/ DOMAIN review'[t].pins \subseteq dropped'
              /\ \A i \in DOMAIN queue'[t] :
                    \/ \E j \in DOMAIN queue[t] : queue'[t][i] = queue[t][j]
                    \/ DOMAIN queue'[t][i] \subseteq dropped'
              /\ \A i \in DOMAIN answers'[t] :
                    \/ \E j \in DOMAIN answers[t] : answers'[t][i] = answers[t][j]
                    \/ DOMAIN answers'[t][i].pins \subseteq dropped'
    PROVE  KnownPins'
<1>1. /\ resolving' # Nothing => DOMAIN resolving' \subseteq dropped'
      /\ pending' \in Posted => DOMAIN pending'.pins \subseteq dropped'
      /\ folding' # Nothing => DOMAIN folding'.round.pins \subseteq dropped'
  BY DEF KnownPins
<1>2. ASSUME NEW t \in Tabs
      PROVE  /\ DOMAIN review'[t].pins \subseteq dropped'
             /\ \A i \in DOMAIN queue'[t] : DOMAIN queue'[t][i] \subseteq dropped'
             /\ \A i \in DOMAIN answers'[t] : DOMAIN answers'[t][i].pins \subseteq dropped'
  <2>1. DOMAIN review'[t].pins \subseteq dropped'
    BY DEF KnownPins
  <2>2. ASSUME NEW i \in DOMAIN queue'[t]
        PROVE  DOMAIN queue'[t][i] \subseteq dropped'
    BY DEF KnownPins
  <2>3. ASSUME NEW i \in DOMAIN answers'[t]
        PROVE  DOMAIN answers'[t][i].pins \subseteq dropped'
    BY DEF KnownPins
  <2> QED
    BY <2>1, <2>2, <2>3
<1> QED
  BY <1>1, <1>2 DEF KnownPins

LEMMA EditKnown ==
    ASSUME TypeOK, KnownPins, NEW t \in Tabs, NEW newReview \in Review, Edit(t, newReview),
           dropped \subseteq dropped', DOMAIN newReview.pins \subseteq dropped'
    PROVE  KnownPins'
<1>1. /\ stored' = stored /\ resolving' = resolving /\ answers' = answers
      /\ pending' = pending /\ folding' = folding
      /\ review' = [review EXCEPT ![t] = newReview]
      /\ queue' = [queue EXCEPT ![t] = Append(queue[t], newReview.pins)]
  BY DEF Edit, files, agent
<1>2. DOMAIN ReadStored'.pins \subseteq dropped'
  BY <1>1, FileAfter DEF KnownPins
<1>3. ASSUME NEW u \in Tabs
      PROVE  review'[u] = review[u] \/ DOMAIN review'[u].pins \subseteq dropped'
  BY <1>1 DEF TypeOK
<1>4. ASSUME NEW u \in Tabs, NEW i \in DOMAIN queue'[u]
      PROVE  \/ \E j \in DOMAIN queue[u] : queue'[u][i] = queue[u][j]
             \/ DOMAIN queue'[u][i] \subseteq dropped'
  <2>1. CASE u # t
    BY <1>1, <2>1 DEF TypeOK
  <2>2. CASE u = t
    <3>1. queue'[t] = Append(queue[t], newReview.pins) /\ queue[t] \in Seq(PinMap)
      BY <1>1 DEF TypeOK
    <3>2. CASE i \in DOMAIN queue[t]
      BY <2>2, <3>1, <3>2
    <3>3. CASE i \notin DOMAIN queue[t]
      BY <2>2, <3>1, <3>3
    <3> QED
      BY <3>2, <3>3
  <2> QED
    BY <2>1, <2>2
<1> QED
  BY <1>1, <1>2, <1>3, <1>4, KnownFrom

\* A queue without its first snapshot.
LEMMA TailKnown ==
    ASSUME TypeOK, KnownPins, NEW t \in Tabs, queue[t] # <<>>, queue' = [queue EXCEPT ![t] = Tail(@)]
    PROVE  \A u \in Tabs : \A i \in DOMAIN queue'[u] :
              \E j \in DOMAIN queue[u] : queue'[u][i] = queue[u][j]
<1> SUFFICES ASSUME NEW u \in Tabs, NEW i \in DOMAIN queue'[u]
             PROVE  \E j \in DOMAIN queue[u] : queue'[u][i] = queue[u][j]
  OBVIOUS
<1>1. CASE u # t
  BY <1>1 DEF TypeOK
<1>2. CASE u = t
  <2>1. queue'[t] = Tail(queue[t]) /\ queue[t] \in Seq(PinMap)
    BY DEF TypeOK
  <2>2. /\ Len(queue[t]) \in Nat /\ DOMAIN queue[t] = 1 .. Len(queue[t])
        /\ Len(Tail(queue[t])) = Len(queue[t]) - 1
        /\ DOMAIN Tail(queue[t]) = 1 .. Len(queue[t]) - 1
        /\ \A k \in 1 .. Len(queue[t]) - 1 : Tail(queue[t])[k] = queue[t][k + 1]
    BY <2>1, HeadTailProperties
  <2>3. i \in DOMAIN Tail(queue[t])
    BY <1>2, <2>1
  <2>4. i \in 1 .. Len(queue[t]) - 1 /\ i + 1 \in DOMAIN queue[t]
    BY <2>2, <2>3
  <2> QED
    BY <1>2, <2>1, <2>2, <2>4
<1> QED
  BY <1>1, <1>2

\* Merging known pins into the file.
LEMMA MergeKnown ==
    ASSUME TypeOK, KnownPins, NEW sent \in PinMap, DOMAIN sent \subseteq dropped,
           stored' = MergedWith(sent), dropped' = dropped
    PROVE  /\ DOMAIN ReadStored'.pins \subseteq dropped'
           /\ ReadStored'.pins = MergePins(ReadStored.pins, sent)
<1>1. ReadStored.pins \in PinMap
  BY ReadStoredTyped DEF TypeOK, Feedback
<1>2. stored' \in Feedback /\ stored'.pins = MergePins(ReadStored.pins, sent)
  BY MergedWithTyped DEF TypeOK
<1>3. ReadStored' = stored'
  BY <1>2, FileAfter
<1> QED
  BY <1>1, <1>2, <1>3, Merging DEF KnownPins

LEMMA HeadKnown ==
    ASSUME TypeOK, KnownPins, NEW t \in Tabs, queue[t] # <<>>
    PROVE  /\ Head(queue[t]) \in PinMap /\ DOMAIN Head(queue[t]) \subseteq dropped
           /\ 1 \in DOMAIN queue[t] /\ Head(queue[t]) = queue[t][1]
<1>1. 1 \in DOMAIN queue[t] /\ Head(queue[t]) = queue[t][1]
  BY TabTyped
<1> QED
  BY <1>1, TabTyped DEF KnownPins

LEMMA KnownStep ==
    ASSUME TypeOK, KnownPins, [Next]_vars
    PROVE  KnownPins'
<1>1. ReadStored.pins \in PinMap /\ DOMAIN ReadStored.pins \subseteq dropped
  BY ReadStoredTyped DEF TypeOK, Feedback, KnownPins
<1>2. ASSUME NEW t \in Tabs, NEW p \in Pins, AddPin(t, p)
      PROVE  KnownPins'
  <2> DEFINE pin == [q \in {p} |-> [status |-> "open", replies |-> {}]]
             new == [review[t] EXCEPT !.pins = MergePins(@, pin)]
  <2>1. /\ new \in Review /\ new.pins = MergePins(review[t].pins, pin)
        /\ pin \in PinMap /\ DOMAIN pin = {p}
    BY NewReviewTyped
  <2>2. Edit(t, new) /\ dropped' = dropped \cup {p}
    BY <1>2 DEF AddPin
  <2> HIDE DEF new, pin
  <2>3. DOMAIN new.pins \subseteq dropped'
    BY <2>1, <2>2, TabTyped, Merging DEF KnownPins
  <2> QED
    BY <2>1, <2>2, <2>3, EditKnown
<1>3. ASSUME NEW t \in Tabs, NEW p \in Pins, NEW r \in Replies, AddReply(t, p, r)
      PROVE  KnownPins'
  <2> DEFINE new == [review[t] EXCEPT !.pins[p].replies = @ \cup {r}]
  <2>1. Edit(t, new) /\ p \in DOMAIN review[t].pins /\ dropped' = dropped
    BY <1>3 DEF AddReply, past
  <2>2. new \in Review /\ DOMAIN new.pins = DOMAIN review[t].pins
    BY <2>1, NewReviewTyped
  <2> HIDE DEF new
  <2> QED
    BY <2>1, <2>2, EditKnown DEF KnownPins
<1>4. ASSUME NEW t \in Tabs, NEW p \in Pins, NEW status \in Statuses, SetStatus(t, p, status)
      PROVE  KnownPins'
  <2> DEFINE new == [review[t] EXCEPT !.pins[p].status = status]
  <2>1. Edit(t, new) /\ p \in DOMAIN review[t].pins /\ dropped' = dropped
    BY <1>4 DEF SetStatus, past
  <2>2. new \in Review /\ DOMAIN new.pins = DOMAIN review[t].pins
    BY <2>1, NewReviewTyped
  <2> HIDE DEF new
  <2> QED
    BY <2>1, <2>2, EditKnown DEF KnownPins
<1>5. ASSUME NEW t \in Tabs, NEW verdict \in Verdicts, SetDecision(t, verdict)
      PROVE  KnownPins'
  BY <1>5, NewReviewTyped, EditKnown DEF SetDecision, KnownPins, past
<1>6. ASSUME NEW t \in Tabs, Put(t)
      PROVE  KnownPins'
  <2>1. DOMAIN ReadStored'.pins \subseteq dropped'
    BY <1>6, HeadKnown, MergeKnown DEF Put, past
  <2> QED
    BY <1>6, <2>1, TailKnown, KnownFrom DEF Put, past, agent
<1>7. ASSUME NEW t \in Tabs, PutFails(t)
      PROVE  KnownPins'
  BY <1>1, <1>7, FileAfter, TailKnown, KnownFrom DEF PutFails, files, agent
<1>8. ASSUME NEW t \in Tabs, PostApproval(t)
      PROVE  KnownPins'
  <2>1. ReadStored' = ReadStored \/ ReadStored' = [ReadStored EXCEPT !.preferred = TRUE]
    <3>1. [ReadStored EXCEPT !.preferred = TRUE] \in Feedback
      BY ReadStoredTyped DEF TypeOK, Feedback
    <3> QED
      BY <1>8, <3>1, FileAfter DEF PostApproval
  <2>2. ReadStored'.pins = ReadStored.pins
    BY <2>1, ReadStoredTyped DEF TypeOK, Feedback
  <2> QED
    BY <1>1, <1>8, <2>2, KnownFrom DEF PostApproval, agent
<1>9. ASSUME NEW t \in Tabs, Connect(t) \/ FetchFails(t)
      PROVE  KnownPins'
  BY <1>1, <1>9, FileAfter, KnownFrom DEF Connect, FetchFails, files, past, agent
<1>10. ASSUME NEW t \in Tabs, Answer(t)
       PROVE  KnownPins'
  <2>1. ASSUME NEW u \in Tabs, NEW i \in DOMAIN answers'[u]
        PROVE  \/ \E j \in DOMAIN answers[u] : answers'[u][i] = answers[u][j]
               \/ DOMAIN answers'[u][i].pins \subseteq dropped'
    <3>1. CASE u # t
      BY <1>10, <2>1, <3>1 DEF Answer, TypeOK
    <3>2. CASE u = t
      <4>1. answers'[t] = Append(answers[t], ShownReview) /\ answers[t] \in Seq(Review)
        BY <1>10 DEF Answer, TypeOK
      <4>2. CASE i \in DOMAIN answers[t]
        BY <3>2, <4>1, <4>2
      <4>3. CASE i \notin DOMAIN answers[t]
        <5>1. answers'[t][i] = ShownReview
          BY <2>1, <3>2, <4>1, <4>3
        <5> QED
          BY <1>1, <1>10, <3>2, <5>1, ReadStoredTyped DEF TypeOK, Answer, past
      <4> QED
        BY <4>2, <4>3
    <3> QED
      BY <3>1, <3>2
  <2> QED
    BY <1>1, <1>10, <2>1, FileAfter, KnownFrom DEF Answer, files, past, agent
<1>11. ASSUME NEW t \in Tabs, Hydrate(t)
       PROVE  KnownPins'
  <2>1. PICK i \in DOMAIN answers[t] :
           /\ review' = [review EXCEPT ![t] = answers[t][i]]
           /\ answers' = [answers EXCEPT ![t] = RemoveAt(@, i)]
    BY <1>11 DEF Hydrate
  <2>2. ASSUME NEW u \in Tabs
        PROVE  /\ review'[u] = review[u] \/ DOMAIN review'[u].pins \subseteq dropped
               /\ \A k \in DOMAIN answers'[u] : \E j \in DOMAIN answers[u] : answers'[u][k] = answers[u][j]
    <3>1. CASE u = t
      <4>1. review'[t] = answers[t][i] /\ answers'[t] = RemoveAt(answers[t], i)
        BY <2>1 DEF TypeOK
      <4> QED
        BY <3>1, <4>1, TabTyped, RemovedFrom DEF KnownPins
    <3>2. CASE u # t
      BY <2>1, <3>2 DEF TypeOK
    <3> QED
      BY <3>1, <3>2
  <2> QED
    BY <1>1, <1>11, <2>2, FileAfter, KnownFrom DEF Hydrate, files, past, agent
<1>12. ASSUME NEW t \in Tabs, Reload(t)
       PROVE  KnownPins'
  <2>1. ASSUME NEW u \in Tabs
        PROVE  /\ review'[u] = review[u] \/ DOMAIN review'[u].pins \subseteq dropped
               /\ queue'[u] = queue[u] \/ queue'[u] = <<>>
               /\ answers'[u] = answers[u] \/ answers'[u] = <<>>
    BY <1>12, FreshTyped, NoPinsTyped DEF Reload, TypeOK
  <2> QED
    BY <1>1, <1>12, <2>1, FileAfter, KnownFrom DEF Reload, files, past, agent
<1>13. ASSUME NEW p \in Pins, Delete(p)
       PROVE  KnownPins'
  <2>1. stored' \in Feedback /\ stored'.pins = Without(ReadStored.pins, p)
    BY <1>13, ReadStoredTyped, WithoutTyped DEF Delete, TypeOK, Feedback
  <2>2. DOMAIN ReadStored'.pins \subseteq dropped
    <3>1. ReadStored' = stored'
      BY <2>1, FileAfter
    <3>2. DOMAIN Without(ReadStored.pins, p) = DOMAIN ReadStored.pins \ {p}
      BY <1>1, WithoutTyped
    <3> QED
      BY <1>1, <2>1, <3>1, <3>2
  <2> QED
    BY <1>13, <2>2, KnownFrom DEF Delete, tabs, agent
<1>14. CASE Register \/ FoldEmpties \/ AgentReads \/ AgentConsumes \/ AgentDies \/ Restart
  <2>1. /\ pending' = pending \/ pending' \in {Absent, Emptied}
        /\ folding' = folding \/ folding' = Nothing \/ (folding'.round = pending /\ pending \in Posted)
        /\ stored' = stored /\ UNCHANGED tabs /\ resolving' = resolving /\ dropped' = dropped
    BY <1>14 DEF Register, FoldEmpties, AgentReads, AgentConsumes, AgentDies, Restart,
                 files, agent, past
  <2>2. {Absent, Emptied} \cap Posted = {}
    BY DesignBoardAssumption
  <2>3. folding' = folding \/ folding' = Nothing \/ DOMAIN folding'.round.pins \subseteq dropped'
    BY <2>1 DEF KnownPins
  <2> QED
    BY <1>1, <2>1, <2>2, <2>3, FileAfter, KnownFrom DEF tabs
<1>20. ASSUME NEW t \in Tabs, NEW preferred \in BOOLEAN,
              PostRound(NoPins, preferred) \/ PostRound(review[t].pins, preferred)
       PROVE  KnownPins'
  <2>1. DOMAIN pending'.pins \subseteq dropped
    BY <1>20, NoPinsTyped DEF PostRound, KnownPins
  <2> QED
    BY <1>1, <1>20, <2>1, FileAfter, KnownFrom DEF PostRound, tabs, agent
<1>15. CASE FoldMerges
  <2>1. folding.round \in Posted /\ DOMAIN folding.round.pins \subseteq dropped
    BY <1>15 DEF FoldMerges, TypeOK, KnownPins
  <2>2. /\ stored' \in Feedback /\ stored'.pins = MergePins(ReadStored.pins, folding.round.pins)
        /\ folding.round.pins \in PinMap
    BY <1>15, <2>1, FoldedWithTyped DEF FoldMerges, TypeOK
  <2>3. DOMAIN ReadStored'.pins \subseteq dropped
    <3>1. ReadStored' = stored'
      BY <2>2, FileAfter
    <3> QED
      BY <1>1, <2>1, <2>2, <3>1, Merging
  <2>4. folding'.round = folding.round
    BY <1>15 DEF FoldMerges, TypeOK
  <2> QED
    BY <1>15, <2>1, <2>3, <2>4, KnownFrom DEF FoldMerges, tabs, agent
<1>16. CASE AgentFetches
  <2>1. DOMAIN resolving' \subseteq DOMAIN ReadStored.pins
    BY <1>16 DEF AgentFetches
  <2> QED
    BY <1>1, <1>16, <2>1, FileAfter, KnownFrom DEF AgentFetches, files, tabs, past
<1>17. CASE AgentResolves
  <2>1. resolving \in PinMap /\ DOMAIN resolving \subseteq dropped
    BY <1>17 DEF AgentResolves, TypeOK, KnownPins
  <2>2. DOMAIN ReadStored'.pins \subseteq dropped'
    BY <1>17, <2>1, MergeKnown DEF AgentResolves, past
  <2> QED
    BY <1>17, <2>2, KnownFrom DEF AgentResolves, past
<1>18. CASE Crash \/ CrashWriting
  <2>1. DOMAIN ReadStored'.pins \subseteq dropped
    <3>1. stored' = stored \/ stored' = Torn
      BY <1>18 DEF Crash, CrashWriting, files
    <3>2. ReadStored' = ReadStored \/ DOMAIN ReadStored'.pins = {}
      BY <3>1, FileAfter
    <3> QED
      BY <1>1, <3>2
  <2>2. pending' = pending \/ pending' \notin Posted
    BY <1>18, DesignBoardAssumption DEF Crash, CrashWriting, files
  <2> QED
    BY <1>18, <2>1, <2>2, KnownFrom DEF Crash, CrashWriting, Dies
<1>19. CASE UNCHANGED vars
  BY <1>1, <1>19, FileAfter, KnownFrom DEF vars, files, tabs, past, agent
<1> QED
  BY <1>2, <1>3, <1>4, <1>5, <1>6, <1>7, <1>8, <1>9, <1>10, <1>11, <1>12, <1>13, <1>14,
     <1>15, <1>16, <1>17, <1>18, <1>19, <1>20 DEF Next, TabStep

-----------------------------------------------------------------------------
(* Rounds, and pins that were dropped.                                      *)

LEMMA RoundsStep ==
    ASSUME TypeOK, RoundsInHand, EveryRoundOnce, [Next]_vars
    PROVE  RoundsInHand' /\ EveryRoundOnce'
<1>1. /\ rounds \in RoundsType /\ rounds.posted \in Nat
      /\ {Absent, Torn, Emptied, Nothing} \cap Posted = {}
      /\ \A round \in Posted : round.number \in Round
  BY DesignBoardAssumption DEF TypeOK, RoundsType, Posted
<1>2. CASE rounds' = rounds /\ pending' = pending /\ folding' = folding /\ reading' = reading
  <2>1. Waiting' = Waiting /\ Folded' = Folded /\ InHand' = InHand
    BY <1>2 DEF Waiting, Folded, InHand
  <2> QED
    BY <1>2, <2>1 DEF RoundsInHand, EveryRoundOnce
<1>3. ASSUME NEW pins, NEW preferred, PostRound(pins, preferred), pending' \in Posted
      PROVE  RoundsInHand' /\ EveryRoundOnce'
  <2>1. /\ rounds'.posted = rounds.posted + 1 /\ rounds'.gone = rounds.gone \cup Waiting
        /\ rounds'.applied = rounds.applied /\ rounds'.again = rounds.again
        /\ rounds'.shared = rounds.shared
    BY <1>1, <1>3 DEF PostRound, RoundsType
  <2>2. /\ Waiting' = {rounds.posted + 1} /\ Folded' = {} /\ Folded = {} /\ InHand' = InHand
        /\ folding' = Nothing
    BY <1>3 DEF PostRound, Serving, Waiting, Folded, InHand, agent
  <2>3. 1 .. rounds.posted + 1 = 1 .. rounds.posted \cup {rounds.posted + 1}
    BY <1>1
  <2>4. rounds.posted + 1 \notin rounds.applied \cup InHand
    BY <1>1 DEF RoundsInHand
  <2> QED
    BY <2>1, <2>2, <2>3, <2>4 DEF RoundsInHand, EveryRoundOnce
<1>4. CASE Register
  <2>1. /\ rounds'.posted = rounds.posted /\ rounds'.gone = rounds.gone
        /\ rounds'.applied = rounds.applied /\ rounds'.again = rounds.again
        /\ rounds'.shared = rounds.shared \cup (InHand \cap Waiting)
    BY <1>1, <1>4 DEF Register, RoundsType, InHand, Waiting
  <2>2. /\ Waiting' = Waiting /\ Folded' = Waiting /\ Folded = {} /\ InHand' = InHand
        /\ folding' # Nothing /\ folding'.at = "merge"
    <3>1. folding' = [round |-> pending, at |-> "merge"] /\ pending \in Posted /\ folding = Nothing
      BY <1>4 DEF Register, Serving
    <3>2. folding' # Nothing
      BY <3>1, DesignBoardAssumption
    <3> QED
      BY <1>4, <3>1, <3>2 DEF Register, Waiting, Folded, InHand, files, agent
  <2> QED
    BY <2>1, <2>2 DEF RoundsInHand, EveryRoundOnce
<1>5. CASE FoldMerges
  <2>1. /\ folding \in [round: Posted, at: {"merge", "empty"}] /\ folding # Nothing
        /\ folding.round.number \in Round /\ Folded = {folding.round.number}
    BY <1>1, <1>5 DEF FoldMerges, TypeOK, Folded
  <2>2. /\ rounds'.applied = rounds.applied \cup Folded
        /\ rounds'.again = rounds.again \cup (rounds.applied \cap Folded)
        /\ rounds'.posted = rounds.posted /\ rounds'.shared = rounds.shared
        /\ rounds'.gone = rounds.gone
    BY <1>5, <2>1, AppliedTyped DEF FoldMerges
  <2>3. /\ folding'.at = "empty" /\ folding' # Nothing /\ folding.at = "merge"
        /\ Folded' = Folded /\ Waiting' = Waiting /\ InHand' = InHand
    <3>1. folding' = [round |-> folding.round, at |-> "empty"]
      BY <1>5, <2>1 DEF FoldMerges
    <3>2. folding' # Nothing
      BY <2>1, <3>1, DesignBoardAssumption
    <3> QED
      BY <1>5, <2>1, <3>1, <3>2 DEF FoldMerges, Waiting, Folded, InHand, agent
  <2> QED
    BY <2>1, <2>2, <2>3 DEF RoundsInHand, EveryRoundOnce
<1>6. CASE FoldEmpties
  <2>1. /\ Waiting' = {} /\ Folded' = {} /\ InHand' = InHand /\ rounds' = rounds
        /\ folding' = Nothing /\ folding # Nothing /\ folding.at = "empty"
    BY <1>1, <1>6 DEF FoldEmpties, Waiting, Folded, InHand, agent, past
  <2> QED
    BY <2>1 DEF RoundsInHand, EveryRoundOnce
<1>7. CASE AgentReads /\ reading' = pending /\ pending \in Posted
  <2>1. /\ rounds'.posted = rounds.posted /\ rounds'.gone = rounds.gone
        /\ rounds'.applied = rounds.applied /\ rounds'.again = rounds.again
        /\ rounds'.shared = rounds.shared \cup (Folded \cap Waiting)
    BY <1>1, <1>7 DEF AgentReads, RoundsType, Folded, Waiting
  <2>2. /\ Waiting' = Waiting /\ Folded' = Folded /\ InHand' = Waiting
        /\ folding' = folding
    BY <1>1, <1>7 DEF AgentReads, Waiting, Folded, InHand, files
  <2> QED
    BY <2>1, <2>2 DEF RoundsInHand, EveryRoundOnce
<1>8. CASE AgentReads /\ rounds' = rounds /\ reading' = reading
  BY <1>2, <1>8 DEF AgentReads, files
<1>9. CASE AgentConsumes
  <2>1. /\ rounds'.posted = rounds.posted /\ rounds'.shared = rounds.shared
        /\ rounds'.applied = rounds.applied \cup InHand
        /\ rounds'.again = rounds.again \cup (rounds.applied \cap InHand)
        /\ rounds'.gone = rounds.gone \cup (Waiting \ InHand)
    <3>1. InHand = {reading.number}
      BY <1>9 DEF AgentConsumes, InHand
    <3>2. rounds' = [[[rounds EXCEPT !.applied = @ \cup {reading.number}]
                        EXCEPT !.again = @ \cup (rounds.applied \cap {reading.number})]
                        EXCEPT !.gone = @ \cup (Waiting \ {reading.number})]
      BY <1>1, <1>9 DEF AgentConsumes, RoundsType
    <3> QED
      BY <1>1, <3>1, <3>2 DEF RoundsType
  <2>2. Waiting' = {} /\ Folded' = Folded /\ InHand' = {} /\ folding' = folding
    BY <1>1, <1>9 DEF AgentConsumes, Waiting, Folded, InHand
  <2> QED
    BY <2>1, <2>2 DEF RoundsInHand, EveryRoundOnce
<1>10. CASE AgentDies
  <2>1. Waiting' = Waiting /\ Folded' = Folded /\ InHand' = {} /\ folding' = folding /\ rounds' = rounds
    BY <1>10 DEF AgentDies, Waiting, Folded, InHand, files, past
  <2> QED
    BY <2>1 DEF RoundsInHand, EveryRoundOnce
<1>11. CASE Crash
  <2>1. /\ rounds'.posted = rounds.posted /\ rounds'.gone = rounds.gone
        /\ rounds'.applied = rounds.applied /\ rounds'.again = rounds.again
        /\ rounds.shared \subseteq rounds'.shared
        /\ folding # Nothing /\ folding.at = "empty" => Folded \subseteq rounds'.shared
    BY <1>1, <1>11 DEF Crash, RoundsType, Folded
  <2>2. /\ Waiting' = Waiting /\ Folded' = {} /\ InHand' = InHand
        /\ folding' = Nothing
    BY <1>11 DEF Crash, Dies, Waiting, Folded, InHand, files
  <2>3. folding # Nothing => folding.at \in {"merge", "empty"}
    BY DEF TypeOK
  <2>4. Waiting \cap rounds.applied \subseteq rounds'.shared
    BY <2>1, <2>3 DEF RoundsInHand, Folded
  <2> QED
    BY <2>1, <2>2, <2>4 DEF RoundsInHand, EveryRoundOnce
<1>12. CASE CrashWriting
  <2>1. /\ Folded' = {} /\ InHand' = InHand /\ folding' = Nothing
    BY <1>12 DEF CrashWriting, Dies, Folded, InHand
  <2>2. CASE pending' = Torn /\ rounds' = [rounds EXCEPT !.gone = @ \cup Waiting]
    <3>1. /\ rounds'.posted = rounds.posted /\ rounds'.gone = rounds.gone \cup Waiting
          /\ rounds'.applied = rounds.applied /\ rounds'.again = rounds.again
          /\ rounds'.shared = rounds.shared
      BY <1>1, <2>2 DEF RoundsType
    <3>2. Waiting' = {}
      BY <1>1, <2>2 DEF Waiting
    <3> QED
      BY <2>1, <3>1, <3>2 DEF RoundsInHand, EveryRoundOnce
  <2>3. CASE /\ pending' = pending /\ rounds' = rounds
             /\ folding # Nothing => folding.at = "merge"
    <3>1. Waiting' = Waiting
      BY <2>3 DEF Waiting
    <3>2. Waiting \cap rounds.applied \subseteq rounds.shared
      BY <2>3 DEF RoundsInHand, Folded
    <3> QED
      BY <2>1, <2>3, <3>1, <3>2 DEF RoundsInHand, EveryRoundOnce
  <2> QED
    BY <1>12, <2>2, <2>3 DEF CrashWriting
<1>13. ASSUME NEW t \in Tabs, TabStep(t)
       PROVE  rounds' = rounds /\ pending' = pending /\ folding' = folding /\ reading' = reading
  BY <1>13 DEF TabStep, AddPin, AddReply, SetStatus, SetDecision, Edit, Put, PutFails, PostApproval,
               Connect, Answer, FetchFails, Hydrate, Reload, files, agent, past
<1>14. CASE \/ \E p \in Pins : Delete(p)
            \/ AgentFetches \/ AgentResolves \/ Restart \/ UNCHANGED vars
  <2>1. rounds' = rounds /\ pending' = pending /\ folding' = folding /\ reading' = reading
    BY <1>14 DEF Delete, AgentFetches, AgentResolves, Restart, vars, files, agent, past
  <2> QED
    BY <1>2, <2>1
<1>15. ASSUME NEW t \in Tabs, NEW preferred \in BOOLEAN,
              PostRound(NoPins, preferred) \/ PostRound(review[t].pins, preferred)
       PROVE  RoundsInHand' /\ EveryRoundOnce'
  <2>1. pending' \in Posted
    <3>1. rounds.posted + 1 \in Round
      BY <1>1, <1>15, DesignBoardAssumption DEF PostRound, Round
    <3> QED
      BY <1>15, <3>1, TabTyped, NoPinsTyped DEF PostRound, Posted
  <2> QED
    BY <1>3, <1>15, <2>1
<1> QED
  <2>1. CASE AgentReads
    <3>1. \/ reading' = pending /\ pending \in Posted
          \/ rounds' = rounds /\ reading' = reading
      BY <2>1 DEF AgentReads
    <3> QED
      BY <1>7, <1>8, <2>1, <3>1
  <2> QED
    BY <1>2, <1>4, <1>5, <1>6, <1>9, <1>10, <1>11, <1>12, <1>13, <1>14, <1>15, <2>1 DEF Next

\* What is kept, still queued, told or lost stays accounted for when nothing gets
\* worse; the snapshot that is sent goes into the file.
LEMMA AccountedFrom ==
    ASSUME Accounted, dropped' = dropped, deleted \subseteq deleted', told \subseteq told',
           \A p \in Pins \ deleted' : Kept(p) => Kept(p)',
           \A p \in dropped \ deleted' : Queued(p) => (Queued(p) \/ Kept(p) \/ Author[p] \in told)',
           Lost => Lost', dropped \subseteq Pins
    PROVE  Accounted'
<1> SUFFICES ASSUME NEW p \in dropped \ deleted'
             PROVE  Kept(p)' \/ Queued(p)' \/ Author[p] \in told' \/ Lost'
  BY DEF Accounted
<1> QED
  BY DEF Accounted

\* An edit adds a snapshot of all pins of the tab to its queue.
LEMMA EditAccounted ==
    ASSUME TypeOK, Accounted, NEW t \in Tabs, NEW newReview \in Review, Edit(t, newReview),
           deleted' = deleted, told' = told, dropped \subseteq dropped', dropped \subseteq Pins,
           \A p \in dropped' \ dropped : Author[p] = t /\ p \in DOMAIN newReview.pins
    PROVE  Accounted'
<1>1. /\ stored' = stored /\ queue' = [queue EXCEPT ![t] = Append(queue[t], newReview.pins)]
      /\ \A w \in {"tears", "reloads"} : used'[w] = used[w]
  <2>1. used' = [used EXCEPT !["edits"] = @ + 1] /\ used \in [DOMAIN Budget -> Nat]
    BY DEF Edit, Spend, TypeOK
  <2> QED
    BY <2>1, Budgets DEF Edit, files
<1>2. ReadStored' = ReadStored
  BY <1>1, FileAfter
<1>3. ASSUME NEW u \in Tabs, NEW i \in DOMAIN queue[u]
      PROVE  i \in DOMAIN queue'[u] /\ queue'[u][i] = queue[u][i]
  BY <1>1, TabTyped DEF TypeOK
<1>4. \E i \in DOMAIN queue'[t] : queue'[t][i] = newReview.pins
  <2>1. queue'[t] = Append(queue[t], newReview.pins) /\ queue[t] \in Seq(PinMap)
    BY <1>1 DEF TypeOK
  <2>2. /\ Len(queue[t]) + 1 \in DOMAIN queue'[t]
        /\ queue'[t][Len(queue[t]) + 1] = newReview.pins
    BY <2>1
  <2> QED
    BY <2>2
<1>5. ASSUME NEW p \in dropped' \ deleted'
      PROVE  Kept(p)' \/ Queued(p)' \/ Author[p] \in told' \/ Lost'
  <2>1. CASE p \in dropped
    <3>1. Kept(p) \/ Queued(p) \/ Author[p] \in told \/ Lost
      BY <1>5, <2>1 DEF Accounted
    <3>2. Queued(p) => Queued(p)'
      <4>1. Author[p] \in Tabs
        BY <2>1, DesignBoardAssumption
      <4> QED
        BY <1>3, <4>1 DEF Queued
    <3>3. (Kept(p) => Kept(p)') /\ (Lost => Lost')
      BY <1>1, <1>2 DEF Kept, Lost
    <3> QED
      BY <3>1, <3>2, <3>3
  <2>2. CASE p \notin dropped
    <3>1. Queued(p)'
      BY <1>4, <1>5, <2>2 DEF Queued
    <3> QED
      BY <3>1
  <2> QED
    BY <2>1, <2>2
<1> QED
  BY <1>5 DEF Accounted

LEMMA LostStays ==
    ASSUME TypeOK, NEW what \in DOMAIN Budget,
           used' = used \/ Spend(what)
    PROVE  Lost => Lost'
<1>1. \A w \in {"tears", "reloads"} : used[w] \in Nat /\ used'[w] \in Nat /\ used[w] <= used'[w]
  <2>1. \A w \in {"tears", "reloads"} : w \in DOMAIN Budget /\ used[w] \in Nat
    BY Budgets DEF TypeOK
  <2>2. CASE used' = used
    BY <2>1, <2>2
  <2>3. CASE Spend(what)
    <3>1. /\ used' \in [DOMAIN Budget -> Nat]
          /\ \A w \in DOMAIN Budget : used[w] <= used'[w]
      BY <2>3, Spending
    <3> QED
      BY <2>1, <3>1
  <2> QED
    BY <2>2, <2>3
<1> QED
  BY <1>1 DEF Lost

\* A merge keeps every pin and adds those that were sent.
LEMMA MergeKeeps ==
    ASSUME TypeOK, NEW sent \in PinMap, stored' = MergedWith(sent)
    PROVE  /\ \A p : Kept(p) \/ p \in DOMAIN sent => Kept(p)'
           /\ \A p \in Pins : RepliesOf(ReadStored.pins, p) \subseteq RepliesOf(ReadStored'.pins, p)
<1>1. ReadStored.pins \in PinMap
  BY ReadStoredTyped DEF TypeOK, Feedback
<1>2. stored' \in Feedback /\ stored'.pins = MergePins(ReadStored.pins, sent)
  BY MergedWithTyped DEF TypeOK
<1>3. ReadStored' = stored'
  BY <1>2, FileAfter
<1> QED
  BY <1>1, <1>2, <1>3, Merging DEF Kept

\* So does a fold.
LEMMA FoldKeeps ==
    ASSUME TypeOK, NEW round \in Posted, stored' = FoldedWith(round)
    PROVE  /\ \A p : Kept(p) => Kept(p)'
           /\ \A p \in Pins : RepliesOf(ReadStored.pins, p) \subseteq RepliesOf(ReadStored'.pins, p)
<1>1. ReadStored.pins \in PinMap
  BY ReadStoredTyped DEF TypeOK, Feedback
<1>2. /\ stored' \in Feedback /\ stored'.pins = MergePins(ReadStored.pins, round.pins)
      /\ round.pins \in PinMap
  BY FoldedWithTyped DEF TypeOK
<1>3. ReadStored' = stored'
  BY <1>2, FileAfter
<1> QED
  BY <1>1, <1>2, <1>3, Merging DEF Kept

\* What approval and the rest leave of the file: all its pins.
LEMMA PinsStay ==
    ASSUME TypeOK,
           \/ stored' = stored \/ stored' = ReadStored
           \/ stored' = [ReadStored EXCEPT !.preferred = TRUE]
    PROVE  ReadStored'.pins = ReadStored.pins
<1>1. ReadStored \in Feedback
  BY ReadStoredTyped DEF TypeOK
<1>2. [ReadStored EXCEPT !.preferred = TRUE] \in Feedback
  BY <1>1 DEF Feedback
<1>3. [ReadStored EXCEPT !.preferred = TRUE].pins = ReadStored.pins
  BY <1>1 DEF Feedback
<1> QED
  BY <1>1, <1>2, <1>3, FileAfter

\* A delete marker takes out its own pin only.
LEMMA DeleteKeeps ==
    ASSUME TypeOK, NEW p \in Pins, Delete(p)
    PROVE  /\ stored' \in Feedback /\ ReadStored'.pins = Without(ReadStored.pins, p)
           /\ \A q \in DOMAIN ReadStored.pins \ {p} :
                 /\ q \in DOMAIN ReadStored'.pins
                 /\ RepliesOf(ReadStored'.pins, q) = RepliesOf(ReadStored.pins, q)
<1>1. ReadStored \in Feedback /\ ReadStored.pins \in PinMap
  BY ReadStoredTyped DEF TypeOK, Feedback
<1>2. /\ Without(ReadStored.pins, p) \in PinMap
      /\ DOMAIN Without(ReadStored.pins, p) = DOMAIN ReadStored.pins \ {p}
      /\ \A q \in DOMAIN ReadStored.pins \ {p} : Without(ReadStored.pins, p)[q] = ReadStored.pins[q]
  BY <1>1, WithoutTyped
<1>3. stored' \in Feedback /\ stored'.pins = Without(ReadStored.pins, p)
  BY <1>1, <1>2 DEF Delete, Feedback
<1>4. ReadStored' = stored'
  BY <1>3, FileAfter
<1> QED
  BY <1>2, <1>3, <1>4 DEF RepliesOf

LEMMA AccountedStep ==
    ASSUME TypeOK, KnownPins, Accounted, [Next]_vars
    PROVE  Accounted'
<1>1. dropped \subseteq Pins
  BY DEF TypeOK
<1>2. ASSUME NEW t \in Tabs, NEW p \in Pins, AddPin(t, p)
      PROVE  Accounted'
  <2> DEFINE pin == [q \in {p} |-> [status |-> "open", replies |-> {}]]
             new == [review[t] EXCEPT !.pins = MergePins(@, pin)]
  <2>1. /\ new \in Review /\ new.pins = MergePins(review[t].pins, pin)
        /\ pin \in PinMap /\ DOMAIN pin = {p}
    BY NewReviewTyped
  <2>2. Edit(t, new) /\ dropped' = dropped \cup {p} /\ deleted' = deleted /\ told' = told
        /\ Author[p] = t
    BY <1>2 DEF AddPin
  <2> HIDE DEF new, pin
  <2>3. p \in DOMAIN new.pins
    <3>1. review[t].pins \in PinMap
      BY TabTyped
    <3>2. DOMAIN MergePins(review[t].pins, pin) = DOMAIN review[t].pins \cup DOMAIN pin
      BY <2>1, <3>1, Merging
    <3> QED
      BY <2>1, <3>2
  <2> QED
    BY <1>1, <2>1, <2>2, <2>3, EditAccounted
<1>3. ASSUME NEW t \in Tabs, NEW newReview \in Review, Edit(t, newReview), UNCHANGED past
      PROVE  Accounted'
  BY <1>1, <1>3, EditAccounted DEF past
<1>4. ASSUME NEW t \in Tabs, NEW p \in Pins, NEW r \in Replies, AddReply(t, p, r)
      PROVE  Accounted'
  BY <1>3, <1>4, NewReviewTyped DEF AddReply
<1>5. ASSUME NEW t \in Tabs, NEW p \in Pins, NEW status \in Statuses, SetStatus(t, p, status)
      PROVE  Accounted'
  BY <1>3, <1>5, NewReviewTyped DEF SetStatus
<1>6. ASSUME NEW t \in Tabs, NEW verdict \in Verdicts, SetDecision(t, verdict)
      PROVE  Accounted'
  BY <1>3, <1>6, NewReviewTyped DEF SetDecision
<1>7. ASSUME queue' = queue
      PROVE  \A p : Queued(p)' <=> Queued(p)
  BY <1>7 DEF Queued
<1>8. ASSUME NEW t \in Tabs, queue[t] # <<>>, queue' = [queue EXCEPT ![t] = Tail(@)],
             NEW p \in Pins, Queued(p)
      PROVE  Queued(p)' \/ (Author[p] = t /\ p \in DOMAIN Head(queue[t]))
  <2>1. PICK i \in DOMAIN queue[Author[p]] : p \in DOMAIN queue[Author[p]][i]
    BY <1>8 DEF Queued
  <2>2. Author[p] \in Tabs
    BY DesignBoardAssumption
  <2>3. CASE Author[p] # t
    <3>1. queue'[Author[p]] = queue[Author[p]]
      BY <1>8, <2>2, <2>3 DEF TypeOK
    <3> QED
      BY <2>1, <3>1 DEF Queued
  <2>4. CASE Author[p] = t
    <3>1. /\ queue'[t] = Tail(queue[t]) /\ queue[t] \in Seq(PinMap)
          /\ Head(queue[t]) = queue[t][1]
      BY <1>8, HeadKnown DEF TypeOK
    <3>2. /\ Len(queue[t]) \in Nat /\ DOMAIN queue[t] = 1 .. Len(queue[t])
          /\ DOMAIN Tail(queue[t]) = 1 .. Len(queue[t]) - 1
          /\ \A k \in 1 .. Len(queue[t]) - 1 : Tail(queue[t])[k] = queue[t][k + 1]
      BY <1>8, <3>1, HeadTailProperties
    <3>3. CASE i = 1
      BY <2>1, <2>4, <3>1, <3>3
    <3>4. CASE i # 1
      <4>1. i - 1 \in 1 .. Len(queue[t]) - 1 /\ (i - 1) + 1 = i
        BY <2>1, <2>4, <3>2, <3>4
      <4>2. i - 1 \in DOMAIN queue'[t] /\ queue'[t][i - 1] = queue[t][i]
        BY <3>1, <3>2, <4>1
      <4> QED
        BY <2>1, <2>4, <4>2 DEF Queued
    <3> QED
      BY <3>3, <3>4
  <2> QED
    BY <2>3, <2>4
<1>9. ASSUME NEW t \in Tabs, Put(t)
      PROVE  Accounted'
  <2>1. /\ queue[t] # <<>> /\ queue' = [queue EXCEPT ![t] = Tail(@)]
        /\ stored' = MergedWith(Head(queue[t])) /\ used' = used
        /\ dropped' = dropped /\ deleted' = deleted /\ told' = told
    BY <1>9 DEF Put, past
  <2>2. \A p : Kept(p) \/ p \in DOMAIN Head(queue[t]) => Kept(p)'
    BY <2>1, HeadKnown, MergeKeeps
  <2>3. \A p \in dropped : Queued(p) => Queued(p)' \/ Kept(p)'
    BY <1>1, <1>8, <2>1, <2>2
  <2>4. Lost => Lost'
    BY <2>1 DEF Lost
  <2> QED
    BY <1>1, <2>1, <2>2, <2>3, <2>4, AccountedFrom
<1>10. ASSUME NEW t \in Tabs, PutFails(t)
       PROVE  Accounted'
  <2>1. /\ queue[t] # <<>> /\ queue' = [queue EXCEPT ![t] = Tail(@)]
        /\ stored' = stored /\ used' = used
        /\ dropped' = dropped /\ deleted' = deleted /\ told' = told \cup {t}
    BY <1>10 DEF PutFails, files
  <2>2. \A p : Kept(p) => Kept(p)'
    BY <2>1, FileAfter DEF Kept
  <2>3. \A p \in dropped : Queued(p) => Queued(p)' \/ Author[p] \in told'
    BY <1>1, <1>8, <2>1
  <2>4. Lost => Lost'
    BY <2>1 DEF Lost
  <2> QED
    BY <1>1, <2>1, <2>2, <2>3, <2>4, AccountedFrom
<1>11. ASSUME queue' = queue, dropped' = dropped, deleted \subseteq deleted', told \subseteq told',
              \A p \in Pins \ deleted' : Kept(p) => Kept(p)', Lost => Lost'
       PROVE  Accounted'
  BY <1>1, <1>7, <1>11, AccountedFrom
<1>12. ASSUME queue' = queue, dropped' = dropped, deleted' = deleted, told \subseteq told', used' = used,
              \/ stored' = stored \/ stored' = ReadStored
              \/ stored' = [ReadStored EXCEPT !.preferred = TRUE]
       PROVE  Accounted'
  <2>1. \A p \in Pins : Kept(p) => Kept(p)'
    BY <1>12, PinsStay DEF Kept
  <2>2. Lost => Lost'
    BY <1>12 DEF Lost
  <2> QED
    BY <1>11, <1>12, <2>1, <2>2
<1>13. ASSUME NEW t \in Tabs,
              PostApproval(t) \/ Connect(t) \/ Answer(t) \/ FetchFails(t) \/ Hydrate(t)
       PROVE  Accounted'
  BY <1>12, <1>13 DEF PostApproval, Connect, Answer, FetchFails, Hydrate, files, past
<1>14. CASE \/ Register \/ FoldEmpties \/ AgentReads \/ AgentConsumes \/ AgentDies
            \/ AgentFetches \/ Restart
            \/ \E pins, preferred : PostRound(pins, preferred)
  BY <1>12, <1>14 DEF PostRound, Register, FoldEmpties, AgentReads, AgentConsumes, AgentDies,
                      AgentFetches, Restart, files, tabs, past
<1>21. CASE FoldMerges
  <2>1. folding.round \in Posted
    BY <1>21 DEF FoldMerges, TypeOK
  <2>2. \A p : Kept(p) => Kept(p)'
    BY <1>21, <2>1, FoldKeeps DEF FoldMerges
  <2>3. Lost => Lost'
    BY <1>21 DEF FoldMerges, Lost
  <2> QED
    BY <1>11, <1>21, <2>2, <2>3 DEF FoldMerges, tabs
<1>15. ASSUME NEW t \in Tabs, Reload(t)
       PROVE  Accounted'
  <2>1. used'["reloads"] > 0
    BY <1>15, Budgets, Spending DEF Reload
  <2> QED
    BY <2>1 DEF Accounted, Lost
<1>16. ASSUME NEW p \in Pins, Delete(p)
       PROVE  Accounted'
  <2>1. \A q \in Pins \ deleted' : Kept(q) => Kept(q)'
    BY <1>16, DeleteKeeps DEF Delete, Kept
  <2>2. Lost => Lost'
    BY <1>16, Budgets, LostStays DEF Delete
  <2> QED
    BY <1>11, <1>16, <2>1, <2>2 DEF Delete, tabs
<1>17. CASE AgentResolves
  <2>1. resolving \in PinMap
    BY <1>17 DEF AgentResolves, TypeOK
  <2>2. \A p : Kept(p) => Kept(p)'
    BY <1>17, <2>1, MergeKeeps DEF AgentResolves
  <2>3. Lost => Lost'
    BY <1>17 DEF AgentResolves, Lost
  <2> QED
    BY <1>11, <1>17, <2>2, <2>3 DEF AgentResolves, past
<1>18. CASE Crash
  <2>1. Lost => Lost'
    BY <1>18, Budgets, LostStays DEF Crash
  <2>2. \A p : Kept(p) => Kept(p)'
    BY <1>18, FileAfter DEF Crash, Kept, files
  <2> QED
    BY <1>11, <1>18, <2>1, <2>2 DEF Crash, Dies
<1>19. CASE CrashWriting
  <2>1. used'["tears"] > 0
    BY <1>19, Budgets, Spending DEF CrashWriting
  <2> QED
    BY <2>1 DEF Accounted, Lost
<1>20. CASE UNCHANGED vars
  BY <1>12, <1>20 DEF vars, files, tabs, past
<1> QED
  BY <1>2, <1>4, <1>5, <1>6, <1>9, <1>10, <1>13, <1>14, <1>15, <1>16, <1>17, <1>18, <1>19, <1>20, <1>21
     DEF Next, TabStep

-----------------------------------------------------------------------------
(* The theorems.                                                            *)

LEMMA BoardInvariance == Spec => []Inv
<1>1. Init => Inv
  <2> SUFFICES ASSUME Init
               PROVE  Inv
    OBVIOUS
  <2>1. TypeOK
    BY InitTyped
  <2>2. DOMAIN ReadStored.pins = {}
    BY NoPinsTyped DEF Init, ReadStored
  <2>3. KnownPins
    <3>1. pending \notin Posted /\ folding = Nothing /\ resolving = Nothing
      BY DesignBoardAssumption DEF Init
    <3> QED
      BY <2>2, <3>1, FreshTyped, NoPinsTyped DEF Init, KnownPins
  <2>4. RoundsInHand /\ EveryRoundOnce
    <3>1. Waiting = {} /\ Folded = {} /\ InHand = {} /\ folding = Nothing
      BY DesignBoardAssumption DEF Init, Waiting, Folded, InHand
    <3>2. /\ rounds.posted = 0 /\ rounds.applied = {} /\ rounds.again = {}
          /\ 1 .. rounds.posted = {}
      BY DEF Init
    <3> QED
      BY <3>1, <3>2 DEF RoundsInHand, EveryRoundOnce
  <2>5. Accounted
    BY DEF Init, Accounted
  <2> QED
    BY <2>1, <2>3, <2>4, <2>5 DEF Inv
<1>2. Inv /\ [Next]_vars => Inv'
  BY TypeStep, KnownStep, RoundsStep, AccountedStep DEF Inv
<1> QED
  BY <1>1, <1>2, PTL DEF Spec

\* The board, its tabs and its agent keep their types, for any reviewers and pins.
THEOREM BoardTypeCorrect == Spec => []TypeOK
<1>1. Inv => TypeOK
  BY DEF Inv
<1> QED
  BY <1>1, BoardInvariance, PTL

\* No pin is anywhere, in the file, a tab, a queue, an answer or the agent's hands,
\* that no reviewer dropped (feedback.mjs, daemon.mjs and board-adapter.mjs).
THEOREM NoPinFromNowhere == Spec => []KnownPins
<1>1. Inv => KnownPins
  BY DEF Inv
<1> QED
  BY <1>1, BoardInvariance, PTL

\* Every pin dropped is in the file or still to be sent, or deleted, or its reviewer
\* was told, or a page or the daemon went away in the middle.
THEOREM DroppedPinsAccounted == Spec => []KeptOrTold
<1>1. Inv => KeptOrTold
  <2> SUFFICES ASSUME Inv, NEW p \in dropped \ deleted
               PROVE  Kept(p) \/ Underway(p) \/ Author[p] \in told \/ Lost
    BY DEF KeptOrTold
  <2>1. Author[p] \in Tabs
    BY DesignBoardAssumption DEF Inv, TypeOK
  <2> QED
    BY <2>1 DEF Inv, Accounted, Queued, Underway
<1> QED
  BY <1>1, BoardInvariance, PTL

\* Every round is carried out, and only once, by the agent or the record, unless it was
\* written over, deleted for another one, in the hands of both, or half folded in when
\* the daemon died: for any number of rounds, folds, readings and deaths.
THEOREM RoundsCarriedOut == Spec => []EveryRoundOnce
<1>1. Inv => EveryRoundOnce
  BY DEF Inv
<1> QED
  BY <1>1, BoardInvariance, PTL

\* As long as the file parses, no write takes a pin or a reply out of it, except the
\* delete marker of the pin's own reviewer.
THEOREM NothingOverwritten == Spec => ContributionsKept
<1> DEFINE Keeps ==
      stored' # Torn =>
         \A p \in DOMAIN ReadStored.pins \ deleted' :
            Kept(p)' /\ RepliesOf(ReadStored.pins, p) \subseteq RepliesOf(ReadStored.pins, p)'
<1>1. Inv /\ [Next]_vars => Keeps
  <2> SUFFICES ASSUME Inv, [Next]_vars, stored' # Torn,
                      NEW p \in DOMAIN ReadStored.pins \ deleted'
               PROVE  /\ p \in DOMAIN ReadStored'.pins
                      /\ RepliesOf(ReadStored.pins, p) \subseteq RepliesOf(ReadStored'.pins, p)
    BY DEF Kept, RepliesOf
  <2>1. p \in Pins
    BY ReadStoredTyped, PinMapIs DEF Inv, TypeOK, Feedback
  <2>2. CASE \/ stored' = stored \/ stored' = ReadStored
             \/ stored' = [ReadStored EXCEPT !.preferred = TRUE]
    BY <2>2, PinsStay DEF Inv
  <2>3. ASSUME NEW sent \in PinMap, stored' = MergedWith(sent)
        PROVE  /\ p \in DOMAIN ReadStored'.pins
               /\ RepliesOf(ReadStored.pins, p) \subseteq RepliesOf(ReadStored'.pins, p)
    BY <2>1, <2>3, MergeKeeps DEF Inv, Kept
  <2>4. ASSUME NEW q \in Pins, Delete(q)
        PROVE  /\ p \in DOMAIN ReadStored'.pins
               /\ RepliesOf(ReadStored.pins, p) \subseteq RepliesOf(ReadStored'.pins, p)
    <3>1. p # q
      BY <2>4 DEF Delete
    <3> QED
      BY <2>4, <3>1, DeleteKeeps DEF Inv
  <2>5. ASSUME NEW t \in Tabs, TabStep(t)
        PROVE  \/ stored' = stored \/ stored' = [ReadStored EXCEPT !.preferred = TRUE]
               \/ \E sent \in PinMap : stored' = MergedWith(sent)
    <3>1. CASE Put(t)
      BY <3>1, TabTyped DEF Inv, Put
    <3>2. CASE ~Put(t)
      BY <2>5, <3>2 DEF TabStep, AddPin, AddReply, SetStatus, SetDecision, Edit, PutFails, PostApproval,
                        Connect, Answer, FetchFails, Hydrate, Reload, files, agent
    <3> QED
      BY <3>1, <3>2
  <2>6. CASE AgentResolves
    <3>1. resolving \in PinMap /\ stored' = MergedWith(resolving)
      BY <2>6 DEF AgentResolves, Inv, TypeOK
    <3> QED
      BY <2>3, <3>1
  <2>7. CASE \/ Register \/ FoldEmpties \/ AgentReads \/ AgentConsumes \/ AgentDies
             \/ AgentFetches \/ Crash \/ CrashWriting \/ Restart \/ UNCHANGED vars
             \/ \E pins, preferred : PostRound(pins, preferred)
    BY <2>2, <2>7 DEF PostRound, Register, FoldEmpties, AgentReads, AgentConsumes, AgentDies,
                      AgentFetches, Crash, CrashWriting, Restart, vars, files
  <2>8. CASE FoldMerges
    <3>1. folding.round \in Posted /\ stored' = FoldedWith(folding.round)
      BY <2>8 DEF FoldMerges, Inv, TypeOK
    <3> QED
      BY <2>1, <3>1, FoldKeeps DEF Inv, Kept
  <2> QED
    BY <2>2, <2>3, <2>4, <2>5, <2>6, <2>7, <2>8 DEF Next
<1>2. Inv /\ [Next]_vars => [Keeps]_vars
  BY <1>1
<1> QED
  BY <1>2, BoardInvariance, PTL DEF Spec, ContributionsKept

-----------------------------------------------------------------------------
(* DesignImport, for any number of imports and saves.  At every moment of   *)
(* an import until both files are in place, what undoing it would leave in  *)
(* a file (Outcome) is what the file had to hold before.  The steps of      *)
(* undoing do not change that outcome; an undone step that fails leaves it  *)
(* in a backup.  A save of the daemon between may take out of it only what  *)
(* is no longer due.                                                        *)

\* The undoing of f is past removing what was installed.
Removed(f) ==
    \/ step.call = "restore" /\ step.file = f
    \/ step.call \in {"remove", "restore"} /\ step.file = "ledger" /\ f = "feedback"

\* What undoing the import that holds the lock would leave in f.
Outcome(f) ==
    IF backup[current][f] # None THEN Held(backup[current][f])
    ELSE IF f \in installed /\ ~Removed(f) THEN {}
    ELSE Held(file[f])

\* What the other imports left in their backups.
Others(f) == UNION {Held(backup[i][f]) : i \in Imports \ {current}}

ImportCalm == {"undo", "crash"} \cap faults = {}

\* Where the import is in its sequence of calls.
Progress ==
    /\ current = None <=> step.call = "none"
    /\ current # None =>
          /\ current \notin returned
          /\ \A f \in Files : current \in Held(plan[f])
    /\ step.call = "backup" =>
          /\ installed = {}
          /\ backup[current]["feedback"] = None
          /\ IF step.file = "ledger" THEN backup[current]["ledger"] = None
                                     ELSE file["ledger"] = None
    /\ step.call = "install" =>
          /\ installed = IF step.file = "ledger" THEN {} ELSE {"ledger"}
          /\ file["ledger"] = IF step.file = "ledger" THEN None ELSE plan["ledger"]
    /\ step.call = "clean" =>
          /\ file["ledger"] = plan["ledger"]
          /\ Held(plan["feedback"]) \subseteq Held(file["feedback"]) \cup overwritten
    /\ ImportCalm /\ step.call \in {"remove", "restore"} /\ step.file = "ledger" =>
          backup[current]["feedback"] = None

\* Nothing due is lost if the import goes through, nor if it is undone.
NothingDueLost ==
    current # None =>
        \A f \in Files :
            /\ Due(f) \subseteq Held(plan[f]) \cup Others(f)
            /\ step.call # "clean" => Due(f) \subseteq Outcome(f) \cup Others(f)

\* While no undoing failed and nobody died: the plan holds what the file had to
\* hold, undoing gives just that, and neither holds an import that threw.
Exact ==
    ImportCalm /\ current # None =>
        \A f \in Files :
            /\ Due(f) \subseteq Held(plan[f])
            /\ Held(plan[f]) \cap Imports \subseteq returned \cup {current}
            /\ step.call # "clean" =>
                  /\ Due(f) \subseteq Outcome(f)
                  /\ Outcome(f) \cap Imports \subseteq returned

\* The import whose contribution is in the feedback although it has not returned.
Arriving == IF step.call = "clean" THEN {current} ELSE {}

\* Nor does the feedback, or what the daemon read of it, hold any other.
FeedbackKnown ==
    ImportCalm => /\ Held(file["feedback"]) \cap Imports \subseteq returned \cup Arriving
                  /\ Held(basis) \cap Imports \subseteq returned \cup Arriving

ImportInv ==
    /\ ImportTypeOK /\ Progress /\ NothingDueLost /\ Exact /\ FeedbackKnown
    /\ BothOrNeither /\ NothingDestroyed

----------------------------------------------------------------------------
\* A file is missing or holds contributions.
LEMMA HeldTyped ==
    ASSUME NEW c \in Contents \cup {None}
    PROVE  /\ Held(c) \in Contents
           /\ c \in Contents => Held(c) = c /\ c # None
  BY DesignImportAssumption DEF Held, Contents

\* What the steps use of the types.
LEMMA ImportTyped ==
    ASSUME ImportTypeOK, NEW f \in Files
    PROVE  /\ file[f] \in Contents \cup {None}
           /\ plan[f] \in Contents \cup {None}
           /\ \A i \in Imports : backup[i][f] \in Contents \cup {None}
           /\ current # None => current \in Imports
           /\ step.call \in Calls /\ step.file \in Files
  BY DEF ImportTypeOK

\* While an import is under way nothing that is due is out of reach.
LEMMA UnderWay ==
    ImportTypeOK /\ Progress /\ NothingDueLost /\ current # None => NothingDestroyed /\ BothOrNeither
<1> SUFFICES ASSUME ImportTypeOK, Progress, NothingDueLost, current # None
             PROVE  NothingDestroyed
  BY DEF BothOrNeither
<1> SUFFICES ASSUME NEW f \in Files, NEW x \in Due(f), x \notin Held(file[f])
             PROVE  \E i \in Imports : x \in Held(backup[i][f])
  BY DEF NothingDestroyed
<1>1. current \in Imports
  BY DEF ImportTypeOK
<1>2. CASE x \in Others(f)
  BY <1>2 DEF Others
<1>3. CASE x \notin Others(f) /\ step.call # "clean"
  <2>1. x \in Outcome(f)
    BY <1>3 DEF NothingDueLost
  <2> QED
    BY <1>1, <2>1 DEF Outcome
<1>4. CASE x \notin Others(f) /\ step.call = "clean"
  <2>1. x \in Held(plan[f])
    BY <1>4 DEF NothingDueLost
  <2>2. CASE f = "ledger"
    BY <1>4, <2>1, <2>2 DEF Progress
  <2>3. CASE f = "feedback"
    BY <1>4, <2>1, <2>3 DEF Progress, Due
  <2> QED
    BY <2>2, <2>3 DEF Files
<1> QED
  BY <1>2, <1>3, <1>4

LEMMA UnderWayNext ==
    (ImportTypeOK /\ Progress /\ NothingDueLost /\ current # None)'
        => (NothingDestroyed /\ BothOrNeither)'
  BY UnderWay, PTL

\* The backups of the other imports stay as they are during an import.
LEMMA OthersStay ==
    ASSUME ImportTypeOK, current # None, current' = current,
           NEW b \in [Files -> Contents \cup {None}],
           backup' = [backup EXCEPT ![current] = b]
    PROVE  /\ backup' \in [Imports -> [Files -> Contents \cup {None}]]
           /\ backup'[current] = b
           /\ \A f \in Files : Others(f)' = Others(f)
  BY DEF ImportTypeOK, Others

\* A step that keeps the outcome of undoing it, for what is due and for the imports
\* in the files, keeps what the invariant says of the outcome.
LEMMA OutcomeKept ==
    ASSUME ImportInv, current # None, step.call = "clean" => step'.call = "clean",
           current' = current, plan' = plan, returned' = returned,
           ImportCalm' => ImportCalm,
           \A f \in Files : Others(f)' = Others(f) /\ Due(f)' \subseteq Due(f),
           \A f \in Files : step'.call # "clean" =>
               /\ Outcome(f) \cap Due(f)' \subseteq Outcome(f)'
               /\ ImportCalm' => Outcome(f)' \cap Imports \subseteq Outcome(f) \cup returned
    PROVE  NothingDueLost' /\ Exact'
<1>1. NothingDueLost'
  <2> SUFFICES ASSUME NEW f \in Files
               PROVE  /\ Due(f)' \subseteq Held(plan'[f]) \cup Others(f)'
                      /\ step'.call # "clean" => Due(f)' \subseteq Outcome(f)' \cup Others(f)'
    BY DEF NothingDueLost
  <2>1. /\ Due(f) \subseteq Held(plan[f]) \cup Others(f)
        /\ step.call # "clean" => Due(f) \subseteq Outcome(f) \cup Others(f)
    BY DEF ImportInv, NothingDueLost
  <2>2. plan'[f] = plan[f] /\ Others(f)' = Others(f) /\ Due(f)' \subseteq Due(f)
    OBVIOUS
  <2>3. step'.call # "clean" => Outcome(f) \cap Due(f)' \subseteq Outcome(f)'
    OBVIOUS
  <2>4. Due(f)' \subseteq Held(plan'[f]) \cup Others(f)'
    BY <2>1, <2>2
  <2>5. ASSUME step'.call # "clean"
        PROVE  Due(f)' \subseteq Outcome(f)' \cup Others(f)'
    <3>1. /\ Due(f) \subseteq Outcome(f) \cup Others(f)
          /\ Outcome(f) \cap Due(f)' \subseteq Outcome(f)'
      BY <2>1, <2>3, <2>5
    <3> QED
      BY <2>2, <3>1
  <2> QED
    BY <2>4, <2>5
<1>2. Exact'
  <2> SUFFICES ASSUME ImportCalm', NEW f \in Files
               PROVE  /\ Due(f)' \subseteq Held(plan'[f])
                      /\ Held(plan'[f]) \cap Imports \subseteq returned' \cup {current'}
                      /\ step'.call # "clean" =>
                            /\ Due(f)' \subseteq Outcome(f)'
                            /\ Outcome(f)' \cap Imports \subseteq returned'
    BY DEF Exact
  <2>1. /\ Due(f) \subseteq Held(plan[f])
        /\ Held(plan[f]) \cap Imports \subseteq returned \cup {current}
        /\ step.call # "clean" => /\ Due(f) \subseteq Outcome(f)
                                   /\ Outcome(f) \cap Imports \subseteq returned
    BY DEF ImportInv, Exact
  <2>2. plan'[f] = plan[f] /\ Due(f)' \subseteq Due(f)
    OBVIOUS
  <2>3. step'.call # "clean" => /\ Outcome(f) \cap Due(f)' \subseteq Outcome(f)'
                                /\ Outcome(f)' \cap Imports \subseteq Outcome(f) \cup returned
    OBVIOUS
  <2>4. Due(f)' \subseteq Held(plan'[f])
        /\ Held(plan'[f]) \cap Imports \subseteq returned' \cup {current'}
    BY <2>1, <2>2
  <2>5. ASSUME step'.call # "clean"
        PROVE  /\ Due(f)' \subseteq Outcome(f)'
               /\ Outcome(f)' \cap Imports \subseteq returned'
    BY <2>1, <2>2, <2>3, <2>5
  <2> QED
    BY <2>4, <2>5
<1> QED
  BY <1>1, <1>2

----------------------------------------------------------------------------
LEMMA ImportInitInv == ImportInit => ImportInv
<1> SUFFICES ASSUME ImportInit
             PROVE  ImportInv
  OBVIOUS
<1>1. ImportTypeOK
  BY DEF ImportInit, ImportTypeOK, NoFiles, Calls, Files, Contents
<1>2. \A f \in Files : file[f] = None /\ Held(file[f]) = {} /\ Due(f) = {}
  BY DEF ImportInit, NoFiles, Due, Held
<1>3. Progress /\ NothingDueLost /\ Exact /\ FeedbackKnown
  BY <1>2 DEF ImportInit, Progress, NothingDueLost, Exact, FeedbackKnown, Held, Files
<1> QED
  BY <1>1, <1>2, <1>3 DEF ImportInv, ImportInit, BothOrNeither, NothingDestroyed

LEMMA BeginInv ==
    ASSUME ImportInv, NEW i \in Imports, Begin(i)
    PROVE  ImportInv'
<1> USE DEF daemon
<1>1. /\ current = None /\ backup[i] = NoFiles /\ i \notin returned
      /\ current' = i /\ installed' = {}
      /\ plan' = [f \in Files |-> Held(file[f]) \cup {i}]
      /\ step' = [call |-> "backup", file |-> "ledger"]
      /\ file' = file /\ backup' = backup /\ returned' = returned
      /\ daemon' = daemon /\ faults' = faults
  BY DEF Begin, To
<1>2. i # None /\ step'.call = "backup" /\ step'.file = "ledger"
  BY <1>1, DesignImportAssumption
<1>3. ASSUME NEW f \in Files
      PROVE  /\ plan'[f] \in Contents
             /\ Held(plan'[f]) = Held(file[f]) \cup {i}
             /\ backup[i][f] = None
             /\ Outcome(f)' = Held(file[f])
             /\ Due(f)' = Due(f)
             /\ Due(f) \subseteq Held(file[f]) \cup Others(f)'
  <2>1. plan'[f] = Held(file[f]) \cup {i}
    BY <1>1
  <2>2. plan'[f] \in Contents
    BY <2>1, ImportTyped, HeldTyped DEF ImportInv, Contents
  <2>3. Held(plan'[f]) = plan'[f]
    BY <2>2, HeldTyped
  <2>4. backup[i][f] = None
    BY <1>1 DEF NoFiles
  <2>5. Outcome(f)' = Held(file[f])
    BY <1>1, <2>4 DEF Outcome
  <2>6. Others(f)' = UNION {Held(backup[j][f]) : j \in Imports \ {i}}
    BY <1>1 DEF Others
  <2>7. Due(f) \subseteq Held(file[f]) \cup UNION {Held(backup[j][f]) : j \in Imports}
    BY DEF ImportInv, NothingDestroyed
  <2>8. Held(backup[i][f]) = {}
    BY <2>4 DEF Held
  <2>9. Due(f) \subseteq Held(file[f]) \cup Others(f)'
    BY <2>6, <2>7, <2>8
  <2>10. Due(f)' = Due(f)
    BY <1>1 DEF Due
  <2> QED
    BY <2>1, <2>2, <2>3, <2>4, <2>5, <2>9, <2>10
<1>4. ImportTypeOK'
  BY <1>1, <1>3 DEF ImportInv, ImportTypeOK, Calls, Files
<1>5. Progress'
  BY <1>1, <1>2, <1>3 DEF ImportInv, Progress, Files
<1>6. NothingDueLost'
  BY <1>2, <1>3 DEF NothingDueLost
<1>7. Exact'
  <2> SUFFICES ASSUME ImportCalm', NEW f \in Files
               PROVE  /\ Due(f)' \subseteq Held(plan[f])'
                      /\ Held(plan[f])' \cap Imports \subseteq returned' \cup {i}
                      /\ Due(f)' \subseteq Outcome(f)'
                      /\ Outcome(f)' \cap Imports \subseteq returned'
    BY <1>1 DEF Exact
  <2>1. Due(f) \subseteq Held(file[f]) /\ Held(file[f]) \cap Imports \subseteq returned
    BY <1>1 DEF ImportInv, BothOrNeither, ImportCalm
  <2>2. Held(plan'[f]) = Held(file[f]) \cup {i}
    BY <1>3
  <2> QED
    BY <1>1, <1>3, <2>1, <2>2 DEF Due, Outcome
<1>8. FeedbackKnown'
  <2>1. step.call # "clean"
    BY <1>1 DEF ImportInv, Progress
  <2> QED
    BY <1>1, <1>2, <2>1 DEF ImportInv, FeedbackKnown, Arriving, ImportCalm
<1> QED
  BY <1>1, <1>2, <1>4, <1>5, <1>6, <1>7, <1>8, UnderWayNext DEF ImportInv

LEMMA BackupInv ==
    ASSUME ImportInv, Backup
    PROVE  ImportInv'
<1> DEFINE f == step.file
           b == [backup[current] EXCEPT ![f] = file[f]]
<1> USE DEF daemon
<1>1. /\ current # None /\ current \in Imports /\ step.call = "backup" /\ f \in Files
      /\ backup' = [backup EXCEPT ![current] = b]
      /\ file' = [file EXCEPT ![f] = None]
      /\ step' = IF f = "ledger" THEN [call |-> "backup", file |-> "feedback"]
                                 ELSE [call |-> "install", file |-> "ledger"]
      /\ current' = current /\ plan' = plan /\ installed' = installed
      /\ returned' = returned /\ daemon' = daemon /\ faults' = faults
  BY DEF Backup, At, To, ImportInv, ImportTypeOK
<1>2. /\ step'.call = (IF f = "ledger" THEN "backup" ELSE "install")
      /\ step'.file = (IF f = "ledger" THEN "feedback" ELSE "ledger")
  BY <1>1
<1>3. /\ installed = {} /\ backup[current]["feedback"] = None
      /\ f = "ledger" => backup[current]["ledger"] = None
      /\ f = "feedback" => file["ledger"] = None
  BY <1>1 DEF ImportInv, Progress, Files
<1>4. /\ file \in [Files -> Contents \cup {None}]
      /\ backup[current] \in [Files -> Contents \cup {None}]
      /\ b \in [Files -> Contents \cup {None}]
  BY <1>1 DEF ImportInv, ImportTypeOK
<1>5. /\ backup' \in [Imports -> [Files -> Contents \cup {None}]]
      /\ backup'[current] = b
      /\ \A g \in Files : Others(g)' = Others(g)
  <2> HIDE DEF b
  <2> QED
    BY <1>1, <1>4, OthersStay DEF ImportInv
<1>6. b[f] = file[f] /\ file'[f] = None
      /\ \A g \in Files : g # f => b[g] = backup[current][g] /\ file'[g] = file[g]
  BY <1>1, <1>4
<1>7. ImportTypeOK'
  BY <1>1, <1>4, <1>5 DEF ImportInv, ImportTypeOK, Calls, Files
<1>8. Progress'
  <2>1. Held(None) = {}
    BY DEF Held
  <2>2. /\ f = "ledger" => b["feedback"] = None /\ file'["ledger"] = None
        /\ f = "feedback" => file'["ledger"] = None /\ file'["feedback"] = None
    BY <1>3, <1>6 DEF Files
  <2> HIDE DEF f, b
  <2> QED
    BY <1>1, <1>2, <1>3, <1>5, <2>1, <2>2 DEF ImportInv, Progress, Files
<1>9. ASSUME NEW g \in Files
      PROVE  Outcome(g)' = Outcome(g)
  <2>1. CASE g = f
    BY <1>1, <1>2, <1>3, <1>5, <1>6, <2>1 DEF Outcome, Held, Files
  <2>2. CASE g # f
    BY <1>1, <1>2, <1>3, <1>5, <1>6, <2>2 DEF Outcome, Held, Files
  <2> QED
    BY <2>1, <2>2
<1> HIDE DEF f, b
<1>10. NothingDueLost' /\ Exact'
  <2>1. ImportCalm' => ImportCalm
    BY <1>1 DEF ImportCalm
  <2>2. \A g \in Files : Due(g)' = Due(g)
    BY <1>1 DEF Due
  <2> QED
    BY <1>1, <1>5, <1>9, <2>1, <2>2, OutcomeKept
<1>11. FeedbackKnown'
  <2>1. step'.call # "clean" /\ Held(None) = {}
    BY <1>2 DEF Held
  <2>2. file'["feedback"] \in {file["feedback"], None}
    BY <1>6 DEF Files
  <2> QED
    BY <1>1, <2>1, <2>2 DEF ImportInv, FeedbackKnown, Arriving, ImportCalm
<1> QED
  BY <1>1, <1>7, <1>8, <1>10, <1>11, UnderWayNext DEF ImportInv

LEMMA InstallInv ==
    ASSUME ImportInv, Install
    PROVE  ImportInv'
<1> DEFINE f == step.file
<1> USE DEF daemon
<1>1. /\ current # None /\ current \in Imports /\ step.call = "install" /\ f \in Files
      /\ backup' = backup
      /\ file' = [file EXCEPT ![f] = plan[f]]
      /\ installed' = installed \cup {f}
      /\ step' = IF f = "ledger" THEN [call |-> "install", file |-> "feedback"]
                                 ELSE [call |-> "clean", file |-> "ledger"]
      /\ current' = current /\ plan' = plan
      /\ returned' = returned /\ daemon' = daemon /\ faults' = faults
  BY DEF Install, At, To, ImportInv, ImportTypeOK
<1>2. /\ step'.call = (IF f = "ledger" THEN "install" ELSE "clean")
      /\ step'.file = (IF f = "ledger" THEN "feedback" ELSE "ledger")
  BY <1>1
<1>3. /\ installed = (IF f = "ledger" THEN {} ELSE {"ledger"})
      /\ f = "ledger" => file["ledger"] = None
      /\ f = "feedback" => file["ledger"] = plan["ledger"]
      /\ current \in Held(plan["ledger"]) /\ current \in Held(plan["feedback"])
  BY <1>1 DEF ImportInv, Progress, Files
<1>4. /\ file'[f] = plan[f]
      /\ \A g \in Files : g # f => file'[g] = file[g]
  BY <1>1 DEF ImportInv, ImportTypeOK
<1>5. ImportTypeOK'
  BY <1>1 DEF ImportInv, ImportTypeOK, Calls, Files
<1>6. Progress'
  <2> HIDE DEF f
  <2> QED
    BY <1>1, <1>2, <1>3, <1>4 DEF ImportInv, Progress, Files
<1>7. ASSUME NEW g \in Files
      PROVE  Others(g)' = Others(g)
  BY <1>1 DEF Others
<1>8. ASSUME NEW g \in Files, step'.call # "clean"
      PROVE  /\ Outcome(g) \subseteq Outcome(g)'
             /\ Outcome(g)' \cap Imports \subseteq Outcome(g)
  <2>1. f = "ledger" /\ file["ledger"] = None /\ Held(None) = {}
    BY <1>1, <1>2, <1>3, <1>8 DEF Files, Held
  <2> HIDE DEF f
  <2> QED
    BY <1>1, <1>2, <1>3, <1>4, <2>1 DEF Outcome, Removed, Files
<1>9. NothingDueLost' /\ Exact'
  <2>1. ImportCalm' => ImportCalm
    BY <1>1 DEF ImportCalm
  <2>2. \A g \in Files : Due(g)' = Due(g)
    BY <1>1 DEF Due
  <2> HIDE DEF f
  <2> QED
    BY <1>1, <1>7, <1>8, <2>1, <2>2, OutcomeKept
<1>10. FeedbackKnown'
  <2> SUFFICES ASSUME ImportCalm'
               PROVE  /\ Held(file'["feedback"]) \cap Imports \subseteq returned \cup Arriving'
                      /\ Held(basis) \cap Imports \subseteq returned \cup Arriving'
    BY <1>1 DEF FeedbackKnown
  <2>1. ImportCalm /\ Arriving = {}
    BY <1>1 DEF ImportCalm, Arriving
  <2>2. CASE f = "ledger"
    BY <1>4, <2>1, <2>2 DEF ImportInv, FeedbackKnown, Files
  <2>3. CASE f = "feedback"
    <3>1. Held(plan["feedback"]) \cap Imports \subseteq returned \cup {current}
      BY <1>1, <2>1 DEF ImportInv, Exact, Files
    <3>2. Arriving' = {current}
      BY <1>1, <1>2, <2>3 DEF Arriving
    <3> QED
      BY <1>4, <2>1, <2>3, <3>1, <3>2 DEF ImportInv, FeedbackKnown
  <2> QED
    BY <1>1, <2>2, <2>3 DEF Files
<1> QED
  BY <1>1, <1>5, <1>6, <1>9, <1>10, UnderWayNext DEF ImportInv

LEMMA FailsInv ==
    ASSUME ImportInv, Fails
    PROVE  ImportInv'
<1> USE DEF daemon
<1>1. /\ current # None /\ step.call \in {"backup", "install"}
      /\ step' = [call |-> "remove", file |-> "feedback"]
      /\ file' = file /\ backup' = backup /\ installed' = installed
      /\ current' = current /\ plan' = plan
      /\ returned' = returned /\ daemon' = daemon
      /\ faults' = faults \cup {"rename"}
  BY DEF Fails, At, To, Fault
<1>2. step'.call = "remove" /\ step'.file = "feedback"
  BY <1>1
<1>3. ImportTypeOK'
  BY <1>1 DEF ImportInv, ImportTypeOK, Calls, Files
<1>4. Progress'
  BY <1>1, <1>2 DEF ImportInv, Progress
<1>5. \A g \in Files : Others(g)' = Others(g) /\ Outcome(g)' = Outcome(g) /\ Due(g)' = Due(g)
  BY <1>1, <1>2 DEF Others, Outcome, Removed, Due
<1>6. NothingDueLost' /\ Exact'
  <2>1. ImportCalm' => ImportCalm
    BY <1>1 DEF ImportCalm
  <2> QED
    BY <1>1, <1>5, <2>1, OutcomeKept
<1>7. FeedbackKnown'
  BY <1>1, <1>2 DEF ImportInv, FeedbackKnown, Arriving, ImportCalm
<1> QED
  BY <1>1, <1>3, <1>4, <1>6, <1>7, UnderWayNext DEF ImportInv

LEMMA RemoveInstalledInv ==
    ASSUME ImportInv, RemoveInstalled
    PROVE  ImportInv'
<1> DEFINE f == step.file
<1> USE DEF daemon
<1>1. /\ current # None /\ step.call = "remove" /\ f \in Files
      /\ file' = [file EXCEPT ![f] = IF f \in installed THEN None ELSE file[f]]
      /\ step' = [call |-> "restore", file |-> f]
      /\ backup' = backup /\ installed' = installed
      /\ current' = current /\ plan' = plan
      /\ returned' = returned /\ daemon' = daemon /\ faults' = faults
  BY DEF RemoveInstalled, At, To, ImportInv, ImportTypeOK
<1>2. step'.call = "restore" /\ step'.file = f
  BY <1>1
<1>3. /\ file'[f] = (IF f \in installed THEN None ELSE file[f])
      /\ \A g \in Files : g # f => file'[g] = file[g]
  BY <1>1 DEF ImportInv, ImportTypeOK
<1>4. ImportTypeOK'
  BY <1>1 DEF ImportInv, ImportTypeOK, Calls
<1>5. Progress'
  BY <1>1, <1>2 DEF ImportInv, Progress, ImportCalm
<1>6. ASSUME NEW g \in Files
      PROVE  Others(g)' = Others(g) /\ Outcome(g)' = Outcome(g)
  <2>1. Others(g)' = Others(g)
    BY <1>1 DEF Others
  <2>2. Held(None) = {}
    BY DEF Held
  <2>3. Outcome(g)' = Outcome(g)
    <3> HIDE DEF f
    <3>1. Removed(f)' /\ ~Removed(f)
      BY <1>1, <1>2 DEF Removed, f
    <3>2. CASE g = f
      BY <1>1, <1>3, <2>2, <3>1, <3>2 DEF Outcome
    <3>3. CASE g # f
      BY <1>1, <1>2, <1>3, <3>3 DEF Outcome, Removed, Files, f
    <3> QED
      BY <3>2, <3>3
  <2> QED
    BY <2>1, <2>3
<1>7. NothingDueLost' /\ Exact'
  <2>1. ImportCalm' => ImportCalm
    BY <1>1 DEF ImportCalm
  <2>2. \A g \in Files : Due(g)' = Due(g)
    BY <1>1 DEF Due
  <2> QED
    BY <1>1, <1>6, <2>1, <2>2, OutcomeKept
<1>8. FeedbackKnown'
  <2>1. file'["feedback"] \in {file["feedback"], None} /\ Held(None) = {}
    BY <1>1, <1>3 DEF Files, Held
  <2> QED
    BY <1>1, <1>2, <2>1 DEF ImportInv, FeedbackKnown, Arriving, ImportCalm
<1> QED
  BY <1>1, <1>4, <1>5, <1>7, <1>8, UnderWayNext DEF ImportInv

\* An import that ended leaves the rest of the invariant without an object.
LEMMA Ended ==
    ASSUME ImportTypeOK', current' = None, step'.call = "none", FeedbackKnown',
           NothingDestroyed', BothOrNeither'
    PROVE  ImportInv'
<1>1. Progress' /\ NothingDueLost' /\ Exact'
  BY DEF Progress, NothingDueLost, Exact
<1> QED
  BY <1>1 DEF ImportInv

LEMMA RestoreInv ==
    ASSUME ImportInv, Restore
    PROVE  ImportInv'
<1> DEFINE f == step.file
           old == backup[current][f]
           b == [backup[current] EXCEPT ![f] = None]
<1> USE DEF daemon
<1>1. /\ current # None /\ current \in Imports /\ step.call = "restore" /\ f \in Files
      /\ file' = [file EXCEPT ![f] = IF old # None THEN old ELSE file[f]]
      /\ backup' = [backup EXCEPT ![current] = b]
      /\ UndoNext(f)
      /\ returned' = returned /\ daemon' = daemon /\ faults' = faults
  BY DEF Restore, At, ImportInv, ImportTypeOK
<1>2. b \in [Files -> Contents \cup {None}] /\ b[f] = None
      /\ \A g \in Files : g # f => b[g] = backup[current][g]
  BY <1>1 DEF ImportInv, ImportTypeOK
<1>3. /\ file'[f] = (IF old # None THEN old ELSE file[f])
      /\ \A g \in Files : g # f => file'[g] = file[g]
      /\ file' \in [Files -> Contents \cup {None}]
  BY <1>1 DEF ImportInv, ImportTypeOK
<1>4. ImportCalm' => ImportCalm
  BY <1>1 DEF ImportCalm
<1> HIDE DEF b
<1>5. CASE f = "feedback"
  <2>1. /\ step' = [call |-> "remove", file |-> "ledger"]
        /\ current' = current /\ plan' = plan /\ installed' = installed
    BY <1>1, <1>5 DEF UndoNext, GoesOn, To
  <2>2. step'.call = "remove" /\ step'.file = "ledger"
    BY <2>1
  <2>3. /\ backup' \in [Imports -> [Files -> Contents \cup {None}]]
        /\ backup'[current] = b
        /\ \A g \in Files : Others(g)' = Others(g)
    BY <1>1, <1>2, <2>1, OthersStay DEF ImportInv
  <2>4. ImportTypeOK'
    BY <1>1, <1>3, <2>1, <2>3 DEF ImportInv, ImportTypeOK, Calls, Files
  <2>5. Progress'
    BY <1>1, <1>2, <1>5, <2>1, <2>2, <2>3 DEF ImportInv, Progress
  <2>6. Outcome("feedback")' = Outcome("feedback")
    <3>1. Removed("feedback") /\ Removed("feedback")'
      BY <1>1, <1>5, <2>2 DEF Removed
    <3> QED
      BY <1>2, <1>3, <1>5, <2>1, <2>3, <3>1 DEF Outcome
  <2>7. Outcome("ledger")' = Outcome("ledger")
    BY <1>1, <1>2, <1>3, <1>5, <2>1, <2>2, <2>3 DEF Outcome, Removed, Files
  <2>8. Due("feedback")' = Due("feedback") /\ Due("ledger")' = Due("ledger")
    BY <1>1 DEF Due
  <2>9. NothingDueLost' /\ Exact'
    BY <1>1, <1>4, <2>1, <2>2, <2>3, <2>6, <2>7, <2>8, OutcomeKept DEF Files
  <2>10. FeedbackKnown'
    <3>1. ImportCalm => /\ Outcome("feedback") \cap Imports \subseteq returned
                        /\ Held(file["feedback"]) \cap Imports \subseteq returned
                        /\ Held(basis) \cap Imports \subseteq returned
      BY <1>1 DEF ImportInv, Exact, FeedbackKnown, Arriving, Files
    <3>2. \/ file'["feedback"] = file["feedback"]
          \/ Held(file'["feedback"]) = Outcome("feedback")
      BY <1>1, <1>3, <1>5 DEF Outcome
    <3> QED
      BY <1>1, <1>4, <2>2, <3>1, <3>2 DEF FeedbackKnown, Arriving
  <2> QED
    BY <1>1, <2>1, <2>4, <2>5, <2>9, <2>10, UnderWayNext DEF ImportInv
<1>6. CASE f = "ledger"
  <2>1. /\ current' = None /\ plan' = NoFiles /\ installed' = {}
        /\ step' = [call |-> "none", file |-> "ledger"]
    BY <1>1, <1>6 DEF UndoNext, Ends, To
  <2>2. step'.call = "none" /\ step'.file = "ledger"
    BY <2>1
  <2>3. backup' \in [Imports -> [Files -> Contents \cup {None}]] /\ backup'[current] = b
        /\ \A i \in Imports : i # current => backup'[i] = backup[i]
    BY <1>1, <1>2 DEF ImportInv, ImportTypeOK
  <2>4. ImportTypeOK'
    BY <1>1, <1>3, <2>1, <2>3 DEF ImportInv, ImportTypeOK, Calls, Files, NoFiles
  <2>5. ASSUME NEW g \in Files
        PROVE  /\ Outcome(g) = IF g = "feedback" /\ b[g] # None THEN Held(b[g])
                                                                ELSE Held(file'[g])
               /\ Due(g) \subseteq Outcome(g) \cup Others(g)
               /\ Due(g)' = Due(g)
    <3>1. Removed(g)
      BY <1>1, <1>6 DEF Removed, Files
    <3>2. Due(g) \subseteq Outcome(g) \cup Others(g)
      BY <1>1 DEF ImportInv, NothingDueLost
    <3>3. g = "ledger" => Outcome(g) = Held(file'[g])
      BY <1>1, <1>2, <1>3, <1>6, <3>1 DEF Outcome
    <3>4. g = "feedback" =>
             Outcome(g) = IF b[g] # None THEN Held(b[g]) ELSE Held(file'[g])
      BY <1>1, <1>2, <1>3, <1>6, <3>1 DEF Outcome
    <3>5. Due(g)' = Due(g)
      BY <1>1 DEF Due
    <3> QED
      BY <3>2, <3>3, <3>4, <3>5 DEF Files
  <2>6. NothingDestroyed'
    <3> SUFFICES ASSUME NEW g \in Files, NEW x \in Due(g)', x \notin Held(file'[g])
                 PROVE  \E i \in Imports : x \in Held(backup'[i][g])
      BY DEF NothingDestroyed
    <3>1. x \in Outcome(g) \/ x \in Others(g)
      BY <2>5
    <3>2. CASE x \in Outcome(g)
      BY <1>1, <2>3, <2>5, <3>2
    <3>3. CASE x \in Others(g)
      BY <2>3, <3>3 DEF Others
    <3> QED
      BY <3>1, <3>2, <3>3
  <2>7. BothOrNeither'
    <3> SUFFICES ASSUME ImportCalm', NEW g \in Files
                 PROVE  /\ Due(g)' \subseteq Held(file'[g])
                        /\ Held(file'[g]) \cap Imports \subseteq returned'
      BY DEF BothOrNeither, ImportCalm
    <3>1. b["feedback"] = None
      BY <1>1, <1>2, <1>4, <1>6 DEF ImportInv, Progress, Files
    <3>2. Outcome(g) = Held(file'[g]) /\ Due(g)' = Due(g)
      BY <2>5, <3>1
    <3>3. Due(g) \subseteq Outcome(g) /\ Outcome(g) \cap Imports \subseteq returned
      BY <1>1, <1>4 DEF ImportInv, Exact
    <3> QED
      BY <1>1, <3>2, <3>3
  <2>8. FeedbackKnown'
    <3>1. file'["feedback"] = file["feedback"] /\ Arriving = {} /\ Arriving' = {}
      BY <1>1, <1>3, <1>6, <2>2 DEF Files, Arriving
    <3> QED
      BY <1>1, <1>4, <3>1 DEF ImportInv, FeedbackKnown
  <2> QED
    BY <2>1, <2>2, <2>4, <2>6, <2>7, <2>8, Ended
<1> QED
  BY <1>1, <1>5, <1>6 DEF Files

LEMMA UndoFailsInv ==
    ASSUME ImportInv, UndoFails
    PROVE  ImportInv'
<1> DEFINE f == step.file
<1> USE DEF daemon
<1>1. /\ current # None /\ current \in Imports /\ f \in Files
      /\ \/ step.call = "remove" /\ f \in installed
         \/ step.call = "restore" /\ backup[current][f] # None
      /\ UndoNext(f)
      /\ file' = file /\ backup' = backup
      /\ returned' = returned /\ daemon' = daemon /\ faults' = faults \cup {"undo"}
  BY DEF UndoFails, At, Fault, ImportInv, ImportTypeOK
<1>2. ~ImportCalm'
  BY <1>1 DEF ImportCalm
<1>3. CASE f = "feedback"
  <2>1. /\ step' = [call |-> "remove", file |-> "ledger"]
        /\ current' = current /\ plan' = plan /\ installed' = installed
    BY <1>1, <1>3 DEF UndoNext, GoesOn, To
  <2>2. step'.call = "remove" /\ step'.file = "ledger"
    BY <2>1
  <2>3. ImportTypeOK'
    BY <1>1, <2>1 DEF ImportInv, ImportTypeOK, Calls, Files
  <2>4. Progress'
    BY <1>1, <1>2, <2>1, <2>2 DEF ImportInv, Progress
  <2>5. ASSUME NEW g \in Files
        PROVE  /\ Others(g)' = Others(g) /\ Due(g)' = Due(g)
               /\ Outcome(g) \subseteq Outcome(g)'
    <3>1. Others(g)' = Others(g) /\ Due(g)' = Due(g)
      BY <1>1, <2>1 DEF Others, Due
    <3>2. Held(None) = {}
      BY DEF Held
    <3>3. CASE g = "feedback"
      <4>1. Outcome(g) \subseteq Outcome(g)'
        BY <1>1, <1>3, <2>1, <2>2, <3>2, <3>3 DEF Outcome, Removed
      <4> QED
        BY <3>1, <4>1
    <3>4. CASE g = "ledger"
      <4>1. Outcome(g) = Outcome(g)'
        BY <1>1, <1>3, <2>1, <2>2, <3>4 DEF Outcome, Removed
      <4> QED
        BY <3>1, <4>1
    <3> QED
      BY <3>1, <3>3, <3>4 DEF Files
  <2>6. step.call # "clean"
    BY <1>1
  <2>7. NothingDueLost' /\ Exact'
    BY <1>1, <1>2, <2>1, <2>5, <2>6, OutcomeKept
  <2>8. FeedbackKnown'
    BY <1>2 DEF FeedbackKnown
  <2> QED
    BY <1>1, <2>1, <2>3, <2>4, <2>7, <2>8, UnderWayNext DEF ImportInv
<1>4. CASE f = "ledger"
  <2>1. /\ current' = None /\ plan' = NoFiles /\ installed' = {}
        /\ step' = [call |-> "none", file |-> "ledger"]
    BY <1>1, <1>4 DEF UndoNext, Ends, To
  <2>2. step'.call = "none"
    BY <2>1
  <2>3. ImportTypeOK'
    BY <1>1, <2>1 DEF ImportInv, ImportTypeOK, Calls, Files, NoFiles
  <2>4. NothingDestroyed'
    BY <1>1 DEF ImportInv, NothingDestroyed, Due
  <2>5. BothOrNeither'
    BY <1>2 DEF BothOrNeither, ImportCalm
  <2>6. FeedbackKnown'
    BY <1>2 DEF FeedbackKnown
  <2> QED
    BY <2>1, <2>2, <2>3, <2>4, <2>5, <2>6, Ended
<1> QED
  BY <1>1, <1>3, <1>4 DEF Files

LEMMA ImportDiesInv ==
    ASSUME ImportInv, ImportDies
    PROVE  ImportInv'
<1> USE DEF daemon
<1>1. /\ current' = None /\ plan' = NoFiles /\ installed' = {}
      /\ step' = [call |-> "none", file |-> "ledger"]
      /\ file' = file /\ backup' = backup
      /\ returned' = returned /\ daemon' = daemon /\ faults' = faults \cup {"crash"}
  BY DEF ImportDies, Ends, To, Fault
<1>2. step'.call = "none"
  BY <1>1
<1>3. ImportTypeOK'
  BY <1>1 DEF ImportInv, ImportTypeOK, Calls, Files, NoFiles
<1>4. NothingDestroyed'
  BY <1>1 DEF ImportInv, NothingDestroyed, Due
<1>5. BothOrNeither'
  BY <1>1 DEF BothOrNeither
<1>6. FeedbackKnown'
  BY <1>1 DEF FeedbackKnown, ImportCalm
<1> QED
  BY <1>1, <1>2, <1>3, <1>4, <1>5, <1>6, Ended

LEMMA CleanInv ==
    ASSUME ImportInv, Clean
    PROVE  ImportInv'
<1> DEFINE f == step.file
           b == [backup[current] EXCEPT ![f] = None]
<1> USE DEF daemon
<1>1. /\ current # None /\ current \in Imports /\ step.call = "clean" /\ f \in Files
      /\ \/ backup' = [backup EXCEPT ![current] = b] /\ faults' = faults
         \/ backup' = backup /\ faults' = faults \cup {"clean"}
      /\ file' = file /\ daemon' = daemon
  BY DEF Clean, At, Fault, ImportInv, ImportTypeOK
<1>2. /\ backup' \in [Imports -> [Files -> Contents \cup {None}]]
      /\ \A i \in Imports : i # current => backup'[i] = backup[i]
  <2>1. backup \in [Imports -> [Files -> Contents \cup {None}]]
        /\ b \in [Files -> Contents \cup {None}]
    BY <1>1 DEF ImportInv, ImportTypeOK
  <2> HIDE DEF b
  <2> QED
    BY <1>1, <2>1
<1> HIDE DEF b
<1>3. ImportCalm' => ImportCalm
  BY <1>1 DEF ImportCalm
<1>4. CASE f = "ledger"
  <2>1. /\ step' = [call |-> "clean", file |-> "feedback"]
        /\ current' = current /\ plan' = plan /\ installed' = installed
        /\ returned' = returned
    BY <1>1, <1>4 DEF Clean, GoesOn, To
  <2>2. step'.call = "clean" /\ step'.file = "feedback"
    BY <2>1
  <2>3. ImportTypeOK'
    BY <1>1, <1>2, <2>1 DEF ImportInv, ImportTypeOK, Calls, Files
  <2>4. Progress'
    BY <1>1, <2>1, <2>2 DEF ImportInv, Progress
  <2>5. \A g \in Files : Others(g)' = Others(g)
    BY <1>2, <2>1 DEF Others
  <2>6. \A g \in Files : Due(g)' = Due(g)
    BY <1>1, <2>1 DEF Due
  <2>7. NothingDueLost' /\ Exact'
    BY <1>1, <1>3, <2>1, <2>2, <2>5, <2>6, OutcomeKept
  <2>8. FeedbackKnown'
    BY <1>1, <1>3, <2>1, <2>2 DEF ImportInv, FeedbackKnown, Arriving
  <2> QED
    BY <1>1, <2>1, <2>3, <2>4, <2>7, <2>8, UnderWayNext DEF ImportInv
<1>5. CASE f = "feedback"
  <2>1. /\ current' = None /\ plan' = NoFiles /\ installed' = {}
        /\ step' = [call |-> "none", file |-> "ledger"]
        /\ returned' = returned \cup {current}
    BY <1>1, <1>5 DEF Clean, Ends, To
  <2>2. step'.call = "none"
    BY <2>1
  <2>3. ImportTypeOK'
    BY <1>1, <1>2, <2>1 DEF ImportInv, ImportTypeOK, Calls, Files, NoFiles, Contents
  <2>4. FeedbackKnown'
    <3>1. Arriving = {current} /\ Arriving' = {}
      BY <1>1, <2>2 DEF Arriving
    <3> QED
      BY <1>1, <1>3, <2>1, <3>1 DEF ImportInv, FeedbackKnown
  <2>5. ASSUME NEW g \in Files
        PROVE  /\ Held(plan[g]) \cap Due(g)' \subseteq Held(file[g])
               /\ current \in Held(plan[g])
               /\ Due(g)' \subseteq Due(g) \cup {current}
    <3>1. current \in Held(plan[g])
      BY <1>1 DEF ImportInv, Progress
    <3>2. Due(g)' \subseteq Due(g) \cup {current}
      BY <1>1, <2>1 DEF Due
    <3>3. CASE g = "ledger"
      BY <1>1, <3>1, <3>2, <3>3 DEF ImportInv, Progress
    <3>4. CASE g = "feedback"
      <4>1. Due(g)' \cap overwritten = {}
        BY <1>1, <3>4 DEF Due
      <4>2. Held(plan[g]) \subseteq Held(file[g]) \cup overwritten
        BY <1>1, <3>4 DEF ImportInv, Progress
      <4> QED
        BY <3>1, <3>2, <4>1, <4>2
    <3> QED
      BY <3>3, <3>4 DEF Files
  <2>6. NothingDestroyed'
    <3> SUFFICES ASSUME NEW g \in Files, NEW x \in Due(g)', x \notin Held(file[g])
                 PROVE  \E i \in Imports : x \in Held(backup'[i][g])
      BY <1>1 DEF NothingDestroyed
    <3>1. x \in Due(g) /\ x \notin Held(plan[g])
      BY <2>5
    <3>2. x \in Others(g)
      BY <1>1, <3>1 DEF ImportInv, NothingDueLost
    <3> QED
      BY <1>2, <3>2 DEF Others
  <2>7. BothOrNeither'
    <3> SUFFICES ASSUME ImportCalm', NEW g \in Files
                 PROVE  /\ Due(g)' \subseteq Held(file[g])
                        /\ Held(file[g]) \cap Imports \subseteq returned'
      BY <1>1 DEF BothOrNeither, ImportCalm
    <3>1. /\ Due(g) \subseteq Held(plan[g])
          /\ Held(plan[g]) \cap Imports \subseteq returned \cup {current}
      BY <1>1, <1>3 DEF ImportInv, Exact
    <3>2. /\ Held(plan[g]) \cap Due(g)' \subseteq Held(file[g])
          /\ Due(g)' \subseteq Due(g) \cup {current} /\ current \in Held(plan[g])
      BY <2>5
    <3>3. Held(file[g]) \cap Imports \subseteq returned'
      <4>1. CASE g = "ledger"
        BY <1>1, <2>1, <3>1, <4>1 DEF ImportInv, Progress
      <4>2. CASE g = "feedback"
        <5>1. Held(file[g]) \cap Imports \subseteq returned \cup Arriving
          BY <1>3, <4>2 DEF ImportInv, FeedbackKnown
        <5> QED
          BY <1>1, <2>1, <5>1 DEF Arriving
      <4> QED
        BY <4>1, <4>2 DEF Files
    <3> QED
      BY <3>1, <3>2, <3>3
  <2> QED
    BY <2>1, <2>2, <2>3, <2>4, <2>6, <2>7, Ended
<1> QED
  BY <1>1, <1>4, <1>5 DEF Files

LEMMA SaveReadInv ==
    ASSUME ImportInv, NEW s \in Saves, SaveRead(s)
    PROVE  ImportInv'
<1>1. /\ saver' = s /\ basis' = file["feedback"]
      /\ UNCHANGED <<file, backup, current, step, plan, installed, returned, raced,
                     overwritten, faults>>
  BY DEF SaveRead
<1>2. ImportTypeOK'
  BY <1>1, ImportTyped DEF ImportInv, ImportTypeOK, Files
<1>3. FeedbackKnown'
  BY <1>1 DEF ImportInv, FeedbackKnown, Arriving, ImportCalm
<1>4. Progress' /\ BothOrNeither' /\ NothingDestroyed'
  BY <1>1 DEF ImportInv, Progress, BothOrNeither, NothingDestroyed, Due, ImportCalm
<1>5. NothingDueLost' /\ Exact'
  BY <1>1 DEF ImportInv, NothingDueLost, Exact, Due, Outcome, Others, Removed, ImportCalm
<1> QED
  BY <1>2, <1>3, <1>4, <1>5 DEF ImportInv

LEMMA SaveWriteInv ==
    ASSUME ImportInv, SaveWrite
    PROVE  ImportInv'
<1> DEFINE merged == Held(basis) \cup {saver}
<1>1. /\ saver \in Saves /\ saver \notin Imports
      /\ saver' = None /\ basis' = None
      /\ file' = [file EXCEPT !["feedback"] = merged]
      /\ overwritten' = IF file["feedback"] = basis THEN overwritten
                        ELSE overwritten \cup (Held(file["feedback"]) \ merged)
      /\ backup' = backup /\ current' = current /\ step' = step /\ plan' = plan
      /\ installed' = installed /\ faults' = faults
      /\ IF current = None THEN returned' = returned \cup {saver} /\ UNCHANGED raced
                           ELSE raced' = raced \cup {saver} /\ UNCHANGED returned
  BY DesignImportAssumption DEF SaveWrite, ImportInv, ImportTypeOK
<1>2. merged \in Contents /\ Held(merged) = merged /\ Held(None) = {}
  <2>1. Held(basis) \in Contents
    BY HeldTyped DEF ImportInv, ImportTypeOK
  <2>2. merged \in Contents
    BY <1>1, <2>1 DEF Contents
  <2> HIDE DEF merged
  <2> QED
    BY <2>2, HeldTyped DEF Held
<1>3. /\ Held(file'["feedback"]) = merged
      /\ file'["ledger"] = file["ledger"]
      /\ file' \in [Files -> Contents \cup {None}]
  <2> HIDE DEF merged
  <2>1. file'["feedback"] = merged /\ file'["ledger"] = file["ledger"]
        /\ file' \in [Files -> Contents \cup {None}]
    BY <1>1, <1>2 DEF ImportInv, ImportTypeOK, Files
  <2> QED
    BY <1>2, <2>1
<1>4. /\ Held(file["feedback"]) \subseteq merged \cup overwritten'
      /\ overwritten \subseteq overwritten'
  BY <1>1
<1>5. ImportTypeOK'
  <2>1. Held(file["feedback"]) \in Contents
    BY ImportTyped, HeldTyped DEF ImportInv, Files
  <2>2. overwritten' \in Contents
    BY <1>1, <2>1 DEF ImportInv, ImportTypeOK, Contents
  <2>3. returned' \in Contents /\ raced' \in SUBSET Saves
    BY <1>1 DEF ImportInv, ImportTypeOK, Contents
  <2> QED
    BY <1>1, <1>3, <2>2, <2>3 DEF ImportInv, ImportTypeOK
<1>6. ImportCalm' => /\ ImportCalm
                     /\ merged \cap Imports \subseteq returned \cup Arriving
                     /\ Arriving' = Arriving /\ returned \subseteq returned'
  BY <1>1 DEF ImportInv, FeedbackKnown, ImportCalm, Arriving
<1>7. FeedbackKnown'
  BY <1>1, <1>2, <1>3, <1>6 DEF FeedbackKnown
<1> HIDE DEF merged
<1>8. /\ Due("ledger")' = Due("ledger")
      /\ Due("feedback")' \subseteq Due("feedback") \cup {saver}
      /\ saver \in merged
      /\ Due("feedback")' \cap overwritten' = {}
      /\ current # None => Due("feedback")' \subseteq Due("feedback")
  <2>1. saver \in merged
    BY DEF merged
  <2>2. /\ returned' \cap Imports = returned \cap Imports
        /\ returned' \subseteq returned \cup {saver}
        /\ current # None => returned' = returned
    BY <1>1
  <2>3. Due("ledger")' = Due("ledger")
    BY <2>2 DEF Due
  <2>4. Due("feedback")' = returned' \ overwritten' /\ Due("feedback") = returned \ overwritten
    BY DEF Due
  <2>5. overwritten \subseteq overwritten'
    BY <1>4
  <2> QED
    BY <2>1, <2>2, <2>3, <2>4, <2>5
<1>9. CASE current = None
  <2>1. step'.call = "none" /\ current' = None
    BY <1>1, <1>9 DEF ImportInv, Progress
  <2>2. NothingDestroyed'
    <3> SUFFICES ASSUME NEW g \in Files, NEW x \in Due(g)', x \notin Held(file'[g])
                 PROVE  \E i \in Imports : x \in Held(backup[i][g])
      BY <1>1 DEF NothingDestroyed
    <3>1. x \in Due(g)
      BY <1>3, <1>8 DEF Files
    <3>2. x \notin Held(file[g])
      BY <1>3, <1>4, <1>8 DEF Files
    <3> QED
      BY <3>1, <3>2 DEF ImportInv, NothingDestroyed
  <2>3. BothOrNeither'
    <3> SUFFICES ASSUME ImportCalm', NEW g \in Files
                 PROVE  /\ Due(g)' \subseteq Held(file'[g])
                        /\ Held(file'[g]) \cap Imports \subseteq returned'
      BY DEF BothOrNeither, ImportCalm
    <3>1. /\ Due(g) \subseteq Held(file[g])
          /\ Held(file[g]) \cap Imports \subseteq returned
          /\ returned \subseteq returned'
      BY <1>6, <1>9 DEF ImportInv, BothOrNeither, ImportCalm
    <3>2. CASE g = "ledger"
      BY <1>3, <1>8, <3>1, <3>2
    <3>3. CASE g = "feedback"
      <4>1. Arriving = {}
        BY <1>9 DEF ImportInv, Progress, Arriving
      <4> QED
        BY <1>3, <1>4, <1>6, <1>8, <3>1, <3>3, <4>1
    <3> QED
      BY <3>2, <3>3 DEF Files
  <2> QED
    BY <1>5, <1>7, <2>1, <2>2, <2>3, Ended
<1>10. CASE current # None
  <2>1. returned' = returned
    BY <1>1, <1>10
  <2>2. Progress'
    <3>1. step.call = "clean" =>
             Held(plan["feedback"]) \subseteq Held(file'["feedback"]) \cup overwritten'
      BY <1>3, <1>4 DEF ImportInv, Progress
    <3> QED
      BY <1>1, <1>3, <1>10, <2>1, <3>1 DEF ImportInv, Progress, ImportCalm
  <2>3. \A g \in Files : Others(g)' = Others(g) /\ Due(g)' \subseteq Due(g)
    BY <1>1, <1>8, <1>10 DEF Others, Files
  <2>4. ASSUME NEW g \in Files, step.call # "clean"
        PROVE  /\ Outcome(g) \cap Due(g)' \subseteq Outcome(g)'
               /\ ImportCalm' => Outcome(g)' \cap Imports \subseteq Outcome(g) \cup returned
    <3>1. Removed(g)' = Removed(g)
      BY <1>1 DEF Removed
    <3>2. CASE g = "ledger" \/ backup[current][g] # None \/ (g \in installed /\ ~Removed(g))
      <4>1. Outcome(g)' = Outcome(g)
        BY <1>1, <1>3, <3>1, <3>2 DEF Outcome
      <4> QED
        BY <4>1
    <3>3. CASE g = "feedback" /\ backup[current][g] = None /\ ~(g \in installed /\ ~Removed(g))
      <4>1. Outcome(g)' = merged /\ Outcome(g) = Held(file[g])
        BY <1>1, <1>3, <3>1, <3>3 DEF Outcome
      <4>2. Outcome(g) \cap Due(g)' \subseteq Outcome(g)'
        BY <1>4, <1>8, <3>3, <4>1
      <4>3. Arriving = {}
        BY <2>4 DEF Arriving
      <4> QED
        BY <1>6, <4>1, <4>2, <4>3
    <3> QED
      BY <3>2, <3>3 DEF Files
  <2>5. NothingDueLost' /\ Exact'
    BY <1>1, <1>6, <1>10, <2>1, <2>3, <2>4, OutcomeKept
  <2> QED
    BY <1>1, <1>5, <1>7, <1>10, <2>2, <2>5, UnderWayNext DEF ImportInv
<1> QED
  BY <1>9, <1>10

LEMMA Invariant == ImportSpec => []ImportInv
<1>1. ImportInv /\ [ImportNext]_importVars => ImportInv'
  <2> SUFFICES ASSUME ImportInv, [ImportNext]_importVars
               PROVE  ImportInv'
    OBVIOUS
  <2>1. CASE ImportNext
    BY <2>1, BeginInv, BackupInv, InstallInv, CleanInv, FailsInv, RemoveInstalledInv,
       RestoreInv, UndoFailsInv, ImportDiesInv, SaveReadInv, SaveWriteInv DEF ImportNext
  <2>2. CASE UNCHANGED importVars
    BY <2>2 DEF importVars, daemon, FeedbackKnown, Arriving, ImportInv, ImportTypeOK, Progress, NothingDueLost, Exact, BothOrNeither,
                NothingDestroyed, Due, Outcome, Others, Removed, ImportCalm
  <2> QED
    BY <2>1, <2>2
<1> QED
  BY <1>1, ImportInitInv, PTL DEF ImportSpec

----------------------------------------------------------------------------
\* The files and backups hold contributions, and the import under way is at one
\* of its calls.
THEOREM ImportTypeCorrect == ImportSpec => []ImportTypeOK
<1>1. ImportInv => ImportTypeOK
  BY DEF ImportInv
<1> QED
  BY <1>1, Invariant, PTL

\* atomicDesignReviewWrite replaces both files or neither, until undoing fails as
\* well or the process dies, whatever the daemon saves meanwhile, but for what a save
\* overwrites that read the feedback before.
THEOREM BothFilesOrNeither == ImportSpec => []BothOrNeither
<1>1. ImportInv => BothOrNeither
  BY DEF ImportInv
<1> QED
  BY <1>1, Invariant, PTL

\* Whatever fails, what was returned is in its file or in a backup of it, unless a
\* save overwrote it that read the feedback before.
THEOREM NothingLost == ImportSpec => []NothingDestroyed
<1>1. ImportInv => NothingDestroyed
  BY DEF ImportInv
<1> QED
  BY <1>1, Invariant, PTL
=============================================================================
