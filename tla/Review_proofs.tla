---------------------------- MODULE Review_proofs ----------------------------
(***************************************************************************)
(* Proofs about reviews and where they are merged and kept, for any number *)
(* of revisions, sessions, imports and reviews.                            *)
(*                                                                         *)
(* First, the merge functions of ReviewMerge: Covers is a preorder on      *)
(* reviews, a merge without a conflict covers both revisions, and so a     *)
(* ledger that merges a review extends the ledger it was and holds the     *)
(* review.                                                                 *)
(*                                                                         *)
(* Then ReviewImportOrder: what a replica holds under a review ID is       *)
(* determined by the set of revisions it has merged.  It covers each of    *)
(* them, and says nothing that none of them says.                          *)
(*                                                                         *)
(* Last, ReviewStore: only the holder of the lock is between reading the   *)
(* ledger and writing it, and the ledger keeps what it is promised to      *)
(* keep.  That the ledger grows is not inductive: a writer replaces it by  *)
(* a copy made earlier.  CopiesCurrent says why the copy is not out of     *)
(* date: its owner holds the lock, so the ledger it extends is still the   *)
(* one on disk.                                                            *)
(***************************************************************************)
EXTENDS ReviewStore, ReviewImportOrder, TLAPS

\* Entries are stored under the ID of their review.
Keyed(ledger) ==
    \A i \in ReviewIds :
        ledger.entries[i] # NoEntry => ledger.entries[i].review.id = i

PinOrNone == Pin \cup {NoPin}

EntryOrNone == Entry \cup {NoEntry}

LEMMA ReviewFields ==
    ASSUME NEW r \in Review
    PROVE  /\ r.id \in ReviewIds /\ r.of \in Digests /\ r.at \in Nat
           /\ r.verdict \in Verdicts
           /\ r.pins \in [PinIds -> PinOrNone]
  BY ReviewMergeAssumption DEF Review, PinOrNone

LEMMA PinFields ==
    ASSUME NEW p \in PinOrNone, p # NoPin
    PROVE  /\ p \in Pin
           /\ p.shape \in Shapes /\ p.at \in Nat /\ p.at \in Times
           /\ p.content \in Contents
           /\ p.replies \in SUBSET Replies
  BY ReviewMergeAssumption DEF Pin, PinOrNone

----------------------------------------------------------------------------
LEMMA PinCoversReflexive ==
    ASSUME NEW p \in Pin
    PROVE  PinCovers(p, p)
<1>1. p.at \in Nat
  BY ReviewMergeAssumption DEF Pin
<1> QED
  BY <1>1 DEF PinCovers

\* Covers is reflexive: a review that is not touched keeps what it says.
LEMMA CoversReflexive ==
    ASSUME NEW r \in Review
    PROVE  Covers(r, r)
<1>1. r.at \in Nat
  BY ReviewFields
<1>2. ASSUME NEW i \in PinIds, r.pins[i] # NoPin
      PROVE  PinCovers(r.pins[i], r.pins[i])
  <2>1. r.pins[i] \in PinOrNone
    BY ReviewFields
  <2> QED
    BY <1>2, <2>1, PinFields, PinCoversReflexive
<1> QED
  BY <1>1, <1>2 DEF Covers

LEMMA PinCoversTransitive ==
    ASSUME NEW p \in Pin, NEW q \in Pin, NEW r \in Pin,
           PinCovers(p, q), PinCovers(q, r)
    PROVE  PinCovers(p, r)
<1>1. p.at \in Nat /\ q.at \in Nat /\ r.at \in Nat
  BY ReviewMergeAssumption DEF Pin
<1> QED
  BY <1>1 DEF PinCovers

\* Covers is transitive: what two merges in a row keep is kept.
LEMMA CoversTransitive ==
    ASSUME NEW a \in Review, NEW b \in Review, NEW c \in Review,
           Covers(a, b), Covers(b, c)
    PROVE  Covers(a, c)
<1>1. a.at \in Nat /\ b.at \in Nat /\ c.at \in Nat
  BY ReviewFields
<1>2. /\ a.id = c.id /\ a.of = c.of /\ c.at <= a.at
      /\ c.at = a.at => c.verdict = a.verdict
  BY <1>1 DEF Covers
<1>3. ASSUME NEW i \in PinIds, c.pins[i] # NoPin
      PROVE  a.pins[i] # NoPin /\ PinCovers(a.pins[i], c.pins[i])
  <2>1. b.pins[i] # NoPin /\ PinCovers(b.pins[i], c.pins[i])
    BY <1>3 DEF Covers
  <2>2. a.pins[i] # NoPin /\ PinCovers(a.pins[i], b.pins[i])
    BY <2>1 DEF Covers
  <2>3. a.pins[i] \in PinOrNone /\ b.pins[i] \in PinOrNone /\ c.pins[i] \in PinOrNone
    BY ReviewFields
  <2>4. a.pins[i] \in Pin /\ b.pins[i] \in Pin /\ c.pins[i] \in Pin
    BY <1>3, <2>1, <2>2, <2>3, PinFields
  <2> QED
    BY <2>1, <2>2, <2>4, PinCoversTransitive
<1> QED
  BY <1>2, <1>3 DEF Covers

----------------------------------------------------------------------------
\* mergePin returns a pin that covers both revisions, unless it throws.
LEMMA MergePinCovers ==
    ASSUME NEW stored \in Pin, NEW incoming \in Pin, ~PinConflict(stored, incoming)
    PROVE  /\ MergePin(stored, incoming) \in Pin
           /\ PinCovers(MergePin(stored, incoming), stored)
           /\ PinCovers(MergePin(stored, incoming), incoming)
<1> DEFINE all == stored.replies \cup incoming.replies
<1>1. /\ stored.at \in Nat /\ incoming.at \in Nat
      /\ all \in SUBSET Replies
      /\ stored.shape = incoming.shape
      /\ stored.at = incoming.at => stored.content = incoming.content
  BY ReviewMergeAssumption DEF Pin, PinConflict
<1>2. CASE incoming.at > stored.at
  <2>1. MergePin(stored, incoming) = [incoming EXCEPT !.replies = all]
    BY <1>2 DEF MergePin
  <2> QED
    BY <1>1, <1>2, <2>1 DEF Pin, PinCovers
<1>3. CASE ~(incoming.at > stored.at)
  <2>1. MergePin(stored, incoming) = [stored EXCEPT !.replies = all]
    BY <1>3 DEF MergePin
  <2> QED
    BY <1>1, <1>3, <2>1 DEF Pin, PinCovers
<1> QED
  BY <1>2, <1>3

\* mergePins keeps every pin of both sides.
LEMMA MergePinsCover ==
    ASSUME NEW S \in [PinIds -> PinOrNone], NEW T \in [PinIds -> PinOrNone],
           ~PinsConflict(S, T)
    PROVE  /\ MergePins(S, T) \in [PinIds -> PinOrNone]
           /\ \A i \in PinIds : S[i] # NoPin =>
                 MergePins(S, T)[i] # NoPin /\ PinCovers(MergePins(S, T)[i], S[i])
           /\ \A i \in PinIds : T[i] # NoPin =>
                 MergePins(S, T)[i] # NoPin /\ PinCovers(MergePins(S, T)[i], T[i])
<1> DEFINE M == MergePins(S, T)
<1> SUFFICES ASSUME NEW i \in PinIds
             PROVE  /\ M[i] \in PinOrNone
                    /\ S[i] # NoPin => M[i] # NoPin /\ PinCovers(M[i], S[i])
                    /\ T[i] # NoPin => M[i] # NoPin /\ PinCovers(M[i], T[i])
  BY DEF MergePins
<1>1. S[i] \in PinOrNone /\ T[i] \in PinOrNone
  OBVIOUS
<1>2. CASE Both(S, T, i)
  <2>1. S[i] \in Pin /\ T[i] \in Pin /\ ~PinConflict(S[i], T[i])
    BY <1>1, <1>2, PinFields DEF Both, PinsConflict
  <2>2. M[i] = MergePin(S[i], T[i])
    BY <1>2 DEF MergePins
  <2>3. M[i] \in Pin /\ M[i] # NoPin
    BY <2>1, <2>2, MergePinCovers, ReviewMergeAssumption
  <2> QED
    BY <2>1, <2>2, <2>3, MergePinCovers DEF PinOrNone
<1>3. CASE S[i] = NoPin
  <2>1. M[i] = T[i]
    BY <1>3 DEF MergePins, Both
  <2>2. T[i] # NoPin => PinCovers(T[i], T[i])
    BY <1>1, PinFields, PinCoversReflexive
  <2> QED
    BY <1>1, <1>3, <2>1, <2>2
<1>4. CASE S[i] # NoPin /\ T[i] = NoPin
  <2>1. M[i] = S[i]
    BY <1>4 DEF MergePins, Both
  <2>2. PinCovers(S[i], S[i])
    BY <1>1, <1>4, PinFields, PinCoversReflexive
  <2> QED
    BY <1>1, <1>4, <2>1, <2>2
<1> QED
  BY <1>2, <1>3, <1>4 DEF Both

\* mergeArtifactReviews returns a review that covers both revisions, unless it
\* throws: the later decision wins, pins and replies are united.
LEMMA MergeReviewCovers ==
    ASSUME NEW stored \in Review, NEW incoming \in Review,
           stored.id = incoming.id, ~ReviewConflict(stored, incoming)
    PROVE  /\ MergeReview(stored, incoming) \in Review
           /\ MergeReview(stored, incoming).id = stored.id
           /\ Covers(MergeReview(stored, incoming), stored)
           /\ Covers(MergeReview(stored, incoming), incoming)
<1> DEFINE m == MergeReview(stored, incoming)
           pins == MergePins(stored.pins, incoming.pins)
<1>1. /\ stored.at \in Nat /\ incoming.at \in Nat
      /\ stored.of = incoming.of
      /\ stored.at = incoming.at => stored.verdict = incoming.verdict
      /\ ~PinsConflict(stored.pins, incoming.pins)
  BY ReviewFields DEF ReviewConflict
<1>2. /\ pins \in [PinIds -> PinOrNone]
      /\ \A i \in PinIds : stored.pins[i] # NoPin =>
            pins[i] # NoPin /\ PinCovers(pins[i], stored.pins[i])
      /\ \A i \in PinIds : incoming.pins[i] # NoPin =>
            pins[i] # NoPin /\ PinCovers(pins[i], incoming.pins[i])
  BY <1>1, ReviewFields, MergePinsCover
<1> HIDE DEF pins
<1>3. CASE incoming.at > stored.at
  <2>1. m = [incoming EXCEPT !.pins = pins]
    BY <1>3 DEF MergeReview, pins
  <2>2. /\ m.id = incoming.id /\ m.of = incoming.of /\ m.at = incoming.at
        /\ m.verdict = incoming.verdict /\ m.pins = pins
        /\ m \in Review
    BY <1>2, <2>1 DEF Review, PinOrNone
  <2> HIDE DEF m
  <2>3. Covers(m, stored) /\ Covers(m, incoming)
    BY <1>1, <1>2, <1>3, <2>2 DEF Covers
  <2> QED
    BY <2>2, <2>3 DEF m
<1>4. CASE ~(incoming.at > stored.at)
  <2>1. m = [stored EXCEPT !.pins = pins]
    BY <1>4 DEF MergeReview, pins
  <2>2. /\ m.id = stored.id /\ m.of = stored.of /\ m.at = stored.at
        /\ m.verdict = stored.verdict /\ m.pins = pins
        /\ m \in Review
    BY <1>2, <2>1 DEF Review, PinOrNone
  <2> HIDE DEF m
  <2>3. Covers(m, stored) /\ Covers(m, incoming)
    BY <1>1, <1>2, <1>4, <2>2 DEF Covers
  <2> QED
    BY <2>2, <2>3 DEF m
<1> QED
  BY <1>3, <1>4

----------------------------------------------------------------------------
\* The entries of a ledger, and the reviews in them.
LEMMA LedgerFields ==
    ASSUME NEW ledger \in Ledger, NEW i \in ReviewIds
    PROVE  /\ ledger.current \in Digests
           /\ ledger.entries \in [ReviewIds -> EntryOrNone]
           /\ ledger.entries[i] \in EntryOrNone
           /\ ledger.entries[i] # NoEntry =>
                 /\ ledger.entries[i] \in Entry
                 /\ ledger.entries[i].review \in Review
                 /\ ledger.entries[i].stale \in BOOLEAN
  BY DEF Ledger, Entry, EntryOrNone

LEMMA EntryExtendsReflexive ==
    ASSUME NEW e \in EntryOrNone
    PROVE  EntryExtends(e, e)
  BY CoversReflexive DEF EntryExtends, Entry, EntryOrNone

LEMMA LedgerExtendsReflexive ==
    ASSUME NEW ledger \in Ledger
    PROVE  LedgerExtends(ledger, ledger)
  BY LedgerFields, EntryExtendsReflexive DEF LedgerExtends

LEMMA LedgerExtendsTransitive ==
    ASSUME NEW A \in Ledger, NEW B \in Ledger, NEW C \in Ledger,
           LedgerExtends(A, B), LedgerExtends(B, C)
    PROVE  LedgerExtends(A, C)
<1> SUFFICES ASSUME NEW i \in ReviewIds, C.entries[i] # NoEntry
             PROVE  EntryExtends(A.entries[i], C.entries[i])
  BY DEF LedgerExtends, EntryExtends
<1>1. EntryExtends(B.entries[i], C.entries[i]) /\ B.entries[i] # NoEntry
  BY DEF LedgerExtends, EntryExtends
<1>2. EntryExtends(A.entries[i], B.entries[i]) /\ A.entries[i] # NoEntry
  BY <1>1 DEF LedgerExtends, EntryExtends
<1>3. /\ A.entries[i].review \in Review /\ B.entries[i].review \in Review
      /\ C.entries[i].review \in Review
  BY <1>1, <1>2, LedgerFields
<1>4. Covers(A.entries[i].review, C.entries[i].review)
  BY <1>1, <1>2, <1>3, CoversTransitive DEF EntryExtends
<1> QED
  BY <1>1, <1>2, <1>4 DEF EntryExtends

\* A ledger that extends another holds what that one held.
LEMMA HoldsExtends ==
    ASSUME NEW A \in Ledger, NEW B \in Ledger, NEW r \in Review,
           LedgerExtends(A, B), Holds(B, r)
    PROVE  Holds(A, r)
<1>1. r.id \in ReviewIds
  BY ReviewFields
<1>2. B.entries[r.id] # NoEntry /\ Covers(B.entries[r.id].review, r)
  BY DEF Holds
<1>3. A.entries[r.id] # NoEntry
      /\ Covers(A.entries[r.id].review, B.entries[r.id].review)
  BY <1>1, <1>2 DEF LedgerExtends, EntryExtends
<1>4. A.entries[r.id].review \in Review /\ B.entries[r.id].review \in Review
  BY <1>1, <1>2, <1>3, LedgerFields
<1>5. Covers(A.entries[r.id].review, r)
  BY <1>2, <1>3, <1>4, CoversTransitive
<1> QED
  BY <1>3, <1>5 DEF Holds

\* mergeReviewLedger extends the ledger and holds the review, unless it throws.
LEMMA MergeLedgerExtends ==
    ASSUME NEW ledger \in Ledger, NEW r \in Review, NEW stale \in BOOLEAN,
           Keyed(ledger), ~LedgerConflict(ledger, r)
    PROVE  /\ MergeLedger(ledger, r, stale) \in Ledger
           /\ Keyed(MergeLedger(ledger, r, stale))
           /\ LedgerExtends(MergeLedger(ledger, r, stale), ledger)
           /\ Holds(MergeLedger(ledger, r, stale), r)
<1> DEFINE old == ledger.entries[r.id]
           new == IF old = NoEntry
                  THEN [review |-> r, stale |-> stale]
                  ELSE [review |-> MergeReview(old.review, r),
                        stale  |-> old.stale \/ stale]
           M == MergeLedger(ledger, r, stale)
<1>1. r.id \in ReviewIds
  BY ReviewFields
<1>2. /\ new \in Entry /\ new # NoEntry /\ new.review.id = r.id
      /\ Covers(new.review, r) /\ EntryExtends(new, old)
  <2>1. CASE old = NoEntry
    <3>1. new = [review |-> r, stale |-> stale]
      BY <2>1
    <3>2. new \in Entry /\ new.review = r
      BY <3>1 DEF Entry
    <3>3. new # NoEntry
      BY <3>2, ReviewMergeAssumption
    <3> QED
      BY <2>1, <3>2, <3>3, CoversReflexive DEF EntryExtends
  <2>2. CASE old # NoEntry
    <3>1. /\ old.review \in Review /\ old.stale \in BOOLEAN /\ old.review.id = r.id
          /\ ~ReviewConflict(old.review, r)
      BY <1>1, <2>2, LedgerFields DEF Keyed, LedgerConflict
    <3>2. /\ MergeReview(old.review, r) \in Review
          /\ MergeReview(old.review, r).id = r.id
          /\ Covers(MergeReview(old.review, r), old.review)
          /\ Covers(MergeReview(old.review, r), r)
      BY <3>1, MergeReviewCovers
    <3>3. new = [review |-> MergeReview(old.review, r), stale |-> old.stale \/ stale]
      BY <2>2
    <3>4. /\ new \in Entry
          /\ new.review = MergeReview(old.review, r)
          /\ new.stale = (old.stale \/ stale)
      BY <3>1, <3>2, <3>3 DEF Entry
    <3>5. new # NoEntry
      BY <3>4, ReviewMergeAssumption
    <3> QED
      BY <3>2, <3>4, <3>5 DEF EntryExtends
  <2> QED
    BY <2>1, <2>2
<1>3. /\ M.current = ledger.current
      /\ M.entries = [ledger.entries EXCEPT ![r.id] = new]
  BY DEF MergeLedger, Ledger
<1>4. M = [ledger EXCEPT !.entries = [ledger.entries EXCEPT ![r.id] = new]]
  BY DEF MergeLedger
<1> HIDE DEF new, M
<1>5. M \in Ledger
  BY <1>1, <1>2, <1>4 DEF Ledger
<1>6. M.entries[r.id] = new
  BY <1>1, <1>3, LedgerFields
<1>7. \A i \in ReviewIds : i # r.id => M.entries[i] = ledger.entries[i]
  BY <1>3, LedgerFields
<1>8. Keyed(M)
  BY <1>2, <1>6, <1>7 DEF Keyed
<1>9. LedgerExtends(M, ledger)
  <2> SUFFICES ASSUME NEW i \in ReviewIds
               PROVE  EntryExtends(M.entries[i], ledger.entries[i])
    BY DEF LedgerExtends
  <2>1. CASE i = r.id
    BY <1>2, <1>6, <2>1
  <2>2. CASE i # r.id
    BY <1>7, <2>2, LedgerFields, EntryExtendsReflexive
  <2> QED
    BY <2>1, <2>2
<1>10. Holds(M, r)
  BY <1>2, <1>6 DEF Holds
<1> QED
  BY <1>5, <1>8, <1>9, <1>10 DEF M

----------------------------------------------------------------------------
(* Any order of the same revisions. *)

\* The revisions of one review.
Of(S, i) == {m \in S : m.id = i}

\* A pin of a set of revisions, and its replies, were each in one of them.
PinFrom(pin, S, p) ==
    /\ \E m \in S : /\ m.pins[p] # NoPin
                    /\ pin.shape = m.pins[p].shape
                    /\ pin.at = m.pins[p].at
                    /\ pin.content = m.pins[p].content
    /\ \A reply \in pin.replies :
          \E m \in S : m.pins[p] # NoPin /\ reply \in m.pins[p].replies

\* A review says nothing that none of the revisions says.
ComposedOf(review, S) ==
    /\ \E m \in S : /\ review.id = m.id /\ review.of = m.of
                    /\ review.at = m.at /\ review.verdict = m.verdict
    /\ \A p \in PinIds : review.pins[p] # NoPin => PinFrom(review.pins[p], S, p)

\* An entry is what the merged revisions of its ID make of it.
EntryExact(entry, S, current) ==
    IF entry = NoEntry THEN S = {}
    ELSE /\ \A m \in S : Covers(entry.review, m)
         /\ ComposedOf(entry.review, S)
         /\ entry.stale = (\E m \in S : m.of # current)

LedgerExact(r) ==
    \A i \in ReviewIds :
        EntryExact(ledgers[r].entries[i], Of(taken[r], i), ledgers[r].current)

OrderInv ==
    /\ OrderTypeOK
    /\ ledgers["left"].current = ledgers["right"].current
    /\ \A r \in Replicas : Keyed(ledgers[r]) /\ LedgerExact(r)

----------------------------------------------------------------------------
LEMMA RevisionsAreReviews == \A m \in Revisions : m \in Review
  BY RevisionsAssumption

\* A larger set of revisions still explains a pin.
LEMMA PinFromMore ==
    ASSUME NEW pin, NEW S, NEW T, S \subseteq T, NEW p, PinFrom(pin, S, p)
    PROVE  PinFrom(pin, T, p)
  BY DEF PinFrom

LEMMA PinFromItself ==
    ASSUME NEW m \in Review, NEW S, m \in S, NEW p \in PinIds, m.pins[p] # NoPin
    PROVE  PinFrom(m.pins[p], S, p)
  BY DEF PinFrom

\* mergePin says nothing that neither side says.
LEMMA MergePinFrom ==
    ASSUME NEW stored \in Pin, NEW incoming \in Pin, NEW S, NEW p,
           PinFrom(stored, S, p), PinFrom(incoming, S, p)
    PROVE  PinFrom(MergePin(stored, incoming), S, p)
<1> DEFINE all == stored.replies \cup incoming.replies
           m == MergePin(stored, incoming)
<1>1. \A reply \in all : \E v \in S : v.pins[p] # NoPin /\ reply \in v.pins[p].replies
  BY DEF PinFrom
<1>2. PICK s \in {stored, incoming} :
         /\ m.shape = s.shape /\ m.at = s.at /\ m.content = s.content
         /\ m.replies = all
  <2>1. CASE incoming.at > stored.at
    <3>1. m = [incoming EXCEPT !.replies = all]
      BY <2>1 DEF MergePin
    <3> QED
      BY <3>1 DEF Pin
  <2>2. CASE ~(incoming.at > stored.at)
    <3>1. m = [stored EXCEPT !.replies = all]
      BY <2>2 DEF MergePin
    <3> QED
      BY <3>1 DEF Pin
  <2> QED
    BY <2>1, <2>2
<1>3. PICK v \in S : /\ v.pins[p] # NoPin
                     /\ s.shape = v.pins[p].shape
                     /\ s.at = v.pins[p].at
                     /\ s.content = v.pins[p].content
  BY DEF PinFrom
<1> HIDE DEF m, all
<1>4. PinFrom(m, S, p)
  BY <1>1, <1>2, <1>3 DEF PinFrom
<1> QED
  BY <1>4 DEF m

\* The fields of a merged review.
LEMMA MergeReviewFields ==
    ASSUME NEW stored \in Review, NEW incoming \in Review
    PROVE  LET m == MergeReview(stored, incoming)
           IN  /\ m.pins = MergePins(stored.pins, incoming.pins)
               /\ \E s \in {stored, incoming} :
                     /\ m.id = s.id /\ m.of = s.of
                     /\ m.at = s.at /\ m.verdict = s.verdict
<1> DEFINE m == MergeReview(stored, incoming)
           pins == MergePins(stored.pins, incoming.pins)
<1>1. CASE incoming.at > stored.at
  <2>1. m = [incoming EXCEPT !.pins = pins]
    BY <1>1 DEF MergeReview
  <2> HIDE DEF pins
  <2>2. /\ m.pins = pins /\ m.id = incoming.id /\ m.of = incoming.of
        /\ m.at = incoming.at /\ m.verdict = incoming.verdict
    BY <2>1 DEF Review
  <2> QED
    BY <2>2 DEF pins
<1>2. CASE ~(incoming.at > stored.at)
  <2>1. m = [stored EXCEPT !.pins = pins]
    BY <1>2 DEF MergeReview
  <2> HIDE DEF pins
  <2>2. /\ m.pins = pins /\ m.id = stored.id /\ m.of = stored.of
        /\ m.at = stored.at /\ m.verdict = stored.verdict
    BY <2>1 DEF Review
  <2> QED
    BY <2>2 DEF pins
<1> QED
  BY <1>1, <1>2

\* mergeArtifactReviews says nothing that neither side says.
LEMMA MergeReviewComposed ==
    ASSUME NEW stored \in Review, NEW rev \in Review,
           NEW S, NEW T, S \subseteq T, rev \in T,
           ComposedOf(stored, S)
    PROVE  ComposedOf(MergeReview(stored, rev), T)
<1> DEFINE m == MergeReview(stored, rev)
<1>1. /\ m.pins = MergePins(stored.pins, rev.pins)
      /\ \E s \in {stored, rev} : /\ m.id = s.id /\ m.of = s.of
                                  /\ m.at = s.at /\ m.verdict = s.verdict
  BY MergeReviewFields
<1> HIDE DEF m
<1>2. \E v \in T : m.id = v.id /\ m.of = v.of /\ m.at = v.at /\ m.verdict = v.verdict
  BY <1>1 DEF ComposedOf
<1>3. ASSUME NEW p \in PinIds, m.pins[p] # NoPin
      PROVE  PinFrom(m.pins[p], T, p)
  <2>1. /\ stored.pins[p] # NoPin => PinFrom(stored.pins[p], T, p)
        /\ rev.pins[p] # NoPin => PinFrom(rev.pins[p], T, p)
    BY PinFromMore, PinFromItself DEF ComposedOf
  <2>2. CASE Both(stored.pins, rev.pins, p)
    <3>1. m.pins[p] = MergePin(stored.pins[p], rev.pins[p])
      BY <1>1, <2>2 DEF MergePins
    <3>2. stored.pins[p] \in Pin /\ rev.pins[p] \in Pin
      BY <2>2, ReviewFields, PinFields DEF Both
    <3> QED
      BY <2>1, <2>2, <3>1, <3>2, MergePinFrom DEF Both
  <2>3. CASE ~Both(stored.pins, rev.pins, p)
    <3>1. m.pins[p] = stored.pins[p] \/ m.pins[p] = rev.pins[p]
      BY <1>1, <2>3 DEF MergePins
    <3> QED
      BY <1>3, <2>1, <3>1
  <2> QED
    BY <2>2, <2>3
<1>4. ComposedOf(m, T)
  BY <1>2, <1>3 DEF ComposedOf
<1> QED
  BY <1>4 DEF m

\* A review composed of one revision is that revision.
LEMMA ComposedOfItself ==
    ASSUME NEW rev \in Review, NEW S, rev \in S
    PROVE  ComposedOf(rev, S)
  BY PinFromItself DEF ComposedOf

----------------------------------------------------------------------------
\* A pin that covers and is composed of the same revisions is determined.
LEMMA PinDetermined ==
    ASSUME NEW a \in Pin, NEW b \in Pin, NEW S, NEW p,
           \A m \in S : m.pins[p] # NoPin =>
               m.pins[p] \in Pin /\ PinCovers(a, m.pins[p]) /\ PinCovers(b, m.pins[p]),
           PinFrom(a, S, p), PinFrom(b, S, p)
    PROVE  a = b
<1>1. a.at \in Nat /\ b.at \in Nat
  BY ReviewMergeAssumption DEF Pin
<1>2. PICK m \in S : /\ m.pins[p] # NoPin /\ a.shape = m.pins[p].shape
                     /\ a.at = m.pins[p].at /\ a.content = m.pins[p].content
  BY DEF PinFrom
<1>3. PICK n \in S : /\ n.pins[p] # NoPin /\ b.shape = n.pins[p].shape
                     /\ b.at = n.pins[p].at /\ b.content = n.pins[p].content
  BY DEF PinFrom
<1>4. PinCovers(b, m.pins[p]) /\ PinCovers(a, n.pins[p])
  BY <1>2, <1>3
<1>5. a.shape = b.shape /\ a.at = b.at /\ a.content = b.content
  BY <1>1, <1>2, <1>3, <1>4 DEF PinCovers
<1>6. a.replies \subseteq b.replies /\ b.replies \subseteq a.replies
  BY DEF PinFrom, PinCovers
<1>7. a.replies = b.replies
  BY <1>6
<1> QED
  BY <1>5, <1>7 DEF Pin

\* A review that covers and is composed of the same revisions is determined.
LEMMA ReviewDetermined ==
    ASSUME NEW a \in Review, NEW b \in Review, NEW S, \A m \in S : m \in Review,
           \A m \in S : Covers(a, m) /\ Covers(b, m),
           ComposedOf(a, S), ComposedOf(b, S)
    PROVE  a = b
<1>1. a.at \in Nat /\ b.at \in Nat
  BY ReviewFields
<1>2. PICK m \in S : a.id = m.id /\ a.of = m.of /\ a.at = m.at /\ a.verdict = m.verdict
  BY DEF ComposedOf
<1>3. PICK n \in S : b.id = n.id /\ b.of = n.of /\ b.at = n.at /\ b.verdict = n.verdict
  BY DEF ComposedOf
<1>4. Covers(b, m) /\ Covers(a, n)
  BY <1>2, <1>3
<1>5. a.id = b.id /\ a.of = b.of /\ a.at = b.at /\ a.verdict = b.verdict
  BY <1>1, <1>2, <1>3, <1>4 DEF Covers
<1>6. ASSUME NEW p \in PinIds
      PROVE  a.pins[p] = b.pins[p]
  <2>1. a.pins[p] \in PinOrNone /\ b.pins[p] \in PinOrNone
    BY ReviewFields
  <2>2. (a.pins[p] # NoPin) <=> (b.pins[p] # NoPin)
    BY DEF ComposedOf, PinFrom, Covers
  <2>3. CASE a.pins[p] # NoPin
    <3>1. a.pins[p] \in Pin /\ b.pins[p] \in Pin
      BY <2>1, <2>2, <2>3, PinFields
    <3>2. PinFrom(a.pins[p], S, p) /\ PinFrom(b.pins[p], S, p)
      BY <2>2, <2>3 DEF ComposedOf
    <3>3. ASSUME NEW v \in S, v.pins[p] # NoPin
          PROVE  /\ v.pins[p] \in Pin
                 /\ PinCovers(a.pins[p], v.pins[p]) /\ PinCovers(b.pins[p], v.pins[p])
      <4>1. v.pins[p] \in PinOrNone
        BY ReviewFields
      <4> QED
        BY <3>3, <4>1, PinFields DEF Covers
    <3> QED
      BY <3>1, <3>2, <3>3, PinDetermined
  <2> QED
    BY <2>1, <2>2, <2>3
<1>7. a.pins = b.pins
  BY <1>6, ReviewFields
<1> QED
  BY <1>5, <1>7 DEF Review

\* Two entries made of the same revisions, for the same digest, are equal.
LEMMA EntryDetermined ==
    ASSUME NEW e \in EntryOrNone, NEW f \in EntryOrNone, NEW S, NEW d,
           \A m \in S : m \in Review,
           EntryExact(e, S, d), EntryExact(f, S, d)
    PROVE  e = f
<1>1. CASE S = {}
  BY <1>1 DEF EntryExact, ComposedOf
<1>2. CASE S # {}
  <2>1. /\ e # NoEntry /\ f # NoEntry
        /\ \A m \in S : Covers(e.review, m) /\ Covers(f.review, m)
        /\ ComposedOf(e.review, S) /\ ComposedOf(f.review, S)
        /\ e.stale = f.stale
    BY <1>2 DEF EntryExact
  <2>2. e \in Entry /\ f \in Entry
    BY <2>1 DEF EntryOrNone
  <2>3. e.review \in Review /\ f.review \in Review
    BY <2>2 DEF Entry
  <2>4. e.review = f.review
    BY <2>1, <2>3, ReviewDetermined
  <2> QED
    BY <2>1, <2>2, <2>4 DEF Entry
<1> QED
  BY <1>1, <1>2

----------------------------------------------------------------------------
\* Merging one more revision keeps an entry exact.
LEMMA MergeLedgerExact ==
    ASSUME NEW L \in Ledger, Keyed(L), NEW S, \A m \in S : m \in Review,
           \A i \in ReviewIds : EntryExact(L.entries[i], Of(S, i), L.current),
           NEW rev \in Review, ~LedgerConflict(L, rev)
    PROVE  LET M == MergeLedger(L, rev, rev.of # L.current)
           IN  /\ M.current = L.current
               /\ \A i \in ReviewIds :
                     EntryExact(M.entries[i], Of(S \cup {rev}, i), M.current)
<1> DEFINE stale == rev.of # L.current
           old == L.entries[rev.id]
           new == IF old = NoEntry
                  THEN [review |-> rev, stale |-> stale]
                  ELSE [review |-> MergeReview(old.review, rev),
                        stale  |-> old.stale \/ stale]
           M == MergeLedger(L, rev, stale)
           T == Of(S \cup {rev}, rev.id)
<1>1. rev.id \in ReviewIds
  BY ReviewFields
<1>2. M.current = L.current /\ M.entries = [L.entries EXCEPT ![rev.id] = new]
  BY DEF MergeLedger, Ledger
<1>3. M.entries[rev.id] = new
      /\ \A i \in ReviewIds : i # rev.id => M.entries[i] = L.entries[i]
  BY <1>1, <1>2, LedgerFields
<1>4. \A i \in ReviewIds : i # rev.id => Of(S \cup {rev}, i) = Of(S, i)
  BY DEF Of
<1>5. /\ T = Of(S, rev.id) \cup {rev}
      /\ \A m \in T : m \in Review /\ m.id = rev.id
  BY DEF Of
<1>6. EntryExact(old, Of(S, rev.id), L.current)
  BY <1>1
<1>7. EntryExact(new, T, L.current)
  <2>1. CASE old = NoEntry
    <3>1. T = {rev}
      BY <1>5, <1>6, <2>1 DEF EntryExact
    <3>2. new = [review |-> rev, stale |-> stale]
      BY <2>1
    <3>3. new \in Entry /\ new.review = rev /\ new.stale = stale
      BY <3>2 DEF Entry
    <3>4. new # NoEntry
      BY <3>3, ReviewMergeAssumption
    <3>5. Covers(rev, rev) /\ ComposedOf(rev, T)
      BY <3>1, CoversReflexive, ComposedOfItself
    <3>6. new.stale = (\E m \in T : m.of # L.current)
      BY <3>1, <3>3
    <3> HIDE DEF new
    <3> QED
      BY <3>1, <3>3, <3>4, <3>5, <3>6 DEF EntryExact
  <2>2. CASE old # NoEntry
    <3> DEFINE kept == MergeReview(old.review, rev)
    <3>1. /\ old.review \in Review /\ old.stale \in BOOLEAN /\ old.review.id = rev.id
          /\ ~ReviewConflict(old.review, rev)
      BY <1>1, <2>2, LedgerFields DEF Keyed, LedgerConflict
    <3>2. kept \in Review /\ Covers(kept, old.review) /\ Covers(kept, rev)
      BY <3>1, MergeReviewCovers
    <3>3. /\ \A m \in Of(S, rev.id) : Covers(old.review, m)
          /\ ComposedOf(old.review, Of(S, rev.id))
          /\ old.stale = (\E m \in Of(S, rev.id) : m.of # L.current)
      BY <1>6, <2>2 DEF EntryExact
    <3>4. \A m \in T : Covers(kept, m)
      BY <1>5, <3>1, <3>2, <3>3, CoversTransitive
    <3>5. ComposedOf(kept, T)
      <4>1. Of(S, rev.id) \subseteq T /\ rev \in T
        BY <1>5
      <4> HIDE DEF T
      <4> QED
        BY <3>1, <3>3, <4>1, MergeReviewComposed
    <3>6. new = [review |-> kept, stale |-> old.stale \/ stale]
      BY <2>2
    <3> HIDE DEF kept
    <3>7. new \in Entry /\ new.review = kept /\ new.stale = (old.stale \/ stale)
      BY <3>1, <3>2, <3>6 DEF Entry
    <3>8. new # NoEntry
      BY <3>7, ReviewMergeAssumption
    <3>9. new.stale = (\E m \in T : m.of # L.current)
      BY <1>5, <3>3, <3>7
    <3> HIDE DEF new
    <3> QED
      BY <3>4, <3>5, <3>7, <3>8, <3>9 DEF EntryExact
  <2> QED
    BY <2>1, <2>2
<1> HIDE DEF new, M, T
<1>8. \A i \in ReviewIds :
         EntryExact(M.entries[i], Of(S \cup {rev}, i), M.current)
  BY <1>2, <1>3, <1>4, <1>7 DEF T
<1> QED
  BY <1>2, <1>8 DEF M

----------------------------------------------------------------------------
LEMMA InitOrderInv == OrderInit => OrderInv
<1> SUFFICES ASSUME OrderInit
             PROVE  OrderInv
  OBVIOUS
<1>1. PICK d \in Digests : ledgers = [r \in Replicas |-> EmptyLedger(d)]
  BY DEF OrderInit
<1>2. EmptyLedger(d) \in Ledger /\ Keyed(EmptyLedger(d))
  BY DEF EmptyLedger, Ledger, Keyed
<1>3. \A r \in Replicas :
         /\ ledgers[r] = EmptyLedger(d) /\ taken[r] = {}
         /\ \A i \in ReviewIds : ledgers[r].entries[i] = NoEntry /\ Of(taken[r], i) = {}
  BY <1>1 DEF OrderInit, EmptyLedger, Of
<1>4. OrderTypeOK
  BY <1>1, <1>2 DEF OrderTypeOK, OrderInit
<1>5. ledgers["left"].current = ledgers["right"].current
  BY <1>3 DEF Replicas
<1> QED
  BY <1>2, <1>3, <1>4, <1>5 DEF OrderInv, LedgerExact, EntryExact

LEMMA ReceiveOrderInv ==
    ASSUME OrderInv, NEW r \in Replicas, NEW rev \in Revisions, Receive(r, rev)
    PROVE  OrderInv'
<1> DEFINE stale == rev.of # ledgers[r].current
           M == MergeLedger(ledgers[r], rev, stale)
<1>1. /\ ledgers \in [Replicas -> Ledger]
      /\ taken \in [Replicas -> SUBSET Revisions]
      /\ rev \in Review
  BY RevisionsAreReviews DEF OrderInv, OrderTypeOK
<1>2. /\ ledgers' = [ledgers EXCEPT ![r] = M]
      /\ taken' = [taken EXCEPT ![r] = taken[r] \cup {rev}]
      /\ ~LedgerConflict(ledgers[r], rev)
  BY DEF Receive
<1>3. M \in Ledger /\ Keyed(M)
  <2>1. ledgers[r] \in Ledger /\ Keyed(ledgers[r]) /\ stale \in BOOLEAN
    BY <1>1 DEF OrderInv
  <2> HIDE DEF stale
  <2> QED
    BY <1>1, <1>2, <2>1, MergeLedgerExtends
<1>4. /\ M.current = ledgers[r].current
      /\ \A i \in ReviewIds :
            EntryExact(M.entries[i], Of(taken[r] \cup {rev}, i), M.current)
  <2>1. \A m \in taken[r] : m \in Review
    BY <1>1, RevisionsAreReviews
  <2>2. \A i \in ReviewIds :
           EntryExact(ledgers[r].entries[i], Of(taken[r], i), ledgers[r].current)
    BY DEF OrderInv, LedgerExact
  <2>3. ledgers[r] \in Ledger /\ Keyed(ledgers[r])
    BY <1>1 DEF OrderInv
  <2> QED
    BY <1>1, <1>2, <2>1, <2>2, <2>3, MergeLedgerExact
<1> HIDE DEF M, stale
<1>5. /\ ledgers'[r] = M /\ taken'[r] = taken[r] \cup {rev}
      /\ \A s \in Replicas : s # r => ledgers'[s] = ledgers[s] /\ taken'[s] = taken[s]
  BY <1>1, <1>2
<1>6. OrderTypeOK'
  BY <1>1, <1>2, <1>3 DEF OrderTypeOK
<1>7. ledgers'["left"].current = ledgers'["right"].current
  BY <1>4, <1>5 DEF OrderInv, Replicas
<1>8. ASSUME NEW s \in Replicas
      PROVE  Keyed(ledgers'[s]) /\ LedgerExact(s)'
  BY <1>3, <1>4, <1>5 DEF OrderInv, LedgerExact
<1> QED
  BY <1>6, <1>7, <1>8 DEF OrderInv

LEMMA OrderInvariant == OrderSpec => []OrderInv
<1>1. OrderInv /\ [OrderNext]_orderVars => OrderInv'
  <2> SUFFICES ASSUME OrderInv, [OrderNext]_orderVars
               PROVE  OrderInv'
    OBVIOUS
  <2>1. CASE OrderNext
    BY <2>1, ReceiveOrderInv DEF OrderNext
  <2>2. CASE UNCHANGED orderVars
    BY <2>2 DEF OrderInv, OrderTypeOK, LedgerExact, orderVars
  <2> QED
    BY <2>1, <2>2
<1> QED
  BY <1>1, InitOrderInv, PTL DEF OrderSpec

----------------------------------------------------------------------------
\* A replica's ledger and the revisions it was given are well formed.
THEOREM OrderTypeCorrect == OrderSpec => []OrderTypeOK
<1>1. OrderInv => OrderTypeOK
  BY DEF OrderInv
<1> QED
  BY <1>1, OrderInvariant, PTL

\* mergeReviewLedger may be applied to the same revisions in any order, with
\* repetitions and refusals in between: the ledger comes out the same.
THEOREM OrderIndependent == OrderSpec => []SameRevisionsSameLedger
<1>1. OrderInv => SameRevisionsSameLedger
  <2> SUFFICES ASSUME OrderInv, taken["left"] = taken["right"]
               PROVE  ledgers["left"] = ledgers["right"]
    BY DEF SameRevisionsSameLedger
  <2> DEFINE L == ledgers["left"]
             R == ledgers["right"]
  <2>1. /\ L \in Ledger /\ R \in Ledger /\ L.current = R.current
        /\ \A m \in taken["left"] : m \in Review
        /\ LedgerExact("left") /\ LedgerExact("right")
    BY RevisionsAreReviews DEF OrderInv, OrderTypeOK, Replicas
  <2>2. ASSUME NEW i \in ReviewIds
        PROVE  L.entries[i] = R.entries[i]
    <3>1. EntryExact(L.entries[i], Of(taken["left"], i), L.current)
          /\ EntryExact(R.entries[i], Of(taken["left"], i), L.current)
      BY <2>1 DEF LedgerExact
    <3>2. L.entries[i] \in EntryOrNone /\ R.entries[i] \in EntryOrNone
      BY <2>1, LedgerFields
    <3>3. \A m \in Of(taken["left"], i) : m \in Review
      BY <2>1 DEF Of
    <3> QED
      BY <3>1, <3>2, <3>3, EntryDetermined
  <2>3. L.entries = R.entries
    <3>1. L.entries \in [ReviewIds -> EntryOrNone] /\ R.entries \in [ReviewIds -> EntryOrNone]
      BY <2>1 DEF Ledger, EntryOrNone
    <3> QED
      BY <2>2, <3>1
  <2> QED
    BY <2>1, <2>3 DEF Ledger
<1> QED
  BY <1>1, OrderInvariant, PTL

\* Every revision mergeReviewLedger accepted is covered by its entry.
THEOREM MergedKept == OrderSpec => []MergedRevisionsKept
<1>1. OrderInv => MergedRevisionsKept
  <2> SUFFICES ASSUME OrderInv, NEW r \in Replicas, NEW rev \in taken[r]
               PROVE  /\ ledgers[r].entries[rev.id] # NoEntry
                      /\ Covers(ledgers[r].entries[rev.id].review, rev)
    BY DEF MergedRevisionsKept
  <2>1. rev \in Review
    BY RevisionsAreReviews DEF OrderInv, OrderTypeOK
  <2>2. EntryExact(ledgers[r].entries[rev.id], Of(taken[r], rev.id), ledgers[r].current)
    BY <2>1, ReviewFields DEF OrderInv, LedgerExact
  <2>3. rev \in Of(taken[r], rev.id)
    BY DEF Of
  <2> QED
    BY <2>2, <2>3 DEF EntryExact
<1> QED
  BY <1>1, OrderInvariant, PTL

\* A pin that conflicts with what was composed conflicts with a revision of it.
LEMMA PinConflictFrom ==
    ASSUME NEW kept \in Pin, NEW pin \in Pin, NEW S, NEW p,
           PinFrom(kept, S, p), PinConflict(kept, pin)
    PROVE  \E m \in S : m.pins[p] # NoPin /\ PinConflict(m.pins[p], pin)
<1>1. PICK m \in S : /\ m.pins[p] # NoPin /\ kept.shape = m.pins[p].shape
                     /\ kept.at = m.pins[p].at /\ kept.content = m.pins[p].content
  BY DEF PinFrom
<1>2. CASE ReplyConflict(kept.replies, pin.replies)
  BY <1>2 DEF PinFrom, ReplyConflict, PinConflict
<1>3. CASE ~ReplyConflict(kept.replies, pin.replies)
  BY <1>1, <1>3 DEF PinConflict
<1> QED
  BY <1>2, <1>3

\* mergeReviewLedger refuses a revision only if it contradicts one that was
\* merged: a merge makes no conflict that its parts did not have.
THEOREM RefusalsNameAContradiction == OrderSpec => []RefusalsJustified
<1>1. OrderInv => RefusalsJustified
  <2> SUFFICES ASSUME OrderInv, NEW r \in Replicas, NEW rev \in Revisions,
                      LedgerConflict(ledgers[r], rev)
               PROVE  \E other \in taken[r] :
                          other.id = rev.id /\ ReviewConflict(other, rev)
    BY DEF RefusalsJustified
  <2> DEFINE entry == ledgers[r].entries[rev.id]
             S == Of(taken[r], rev.id)
  <2>1. rev \in Review /\ rev.id \in ReviewIds /\ ledgers[r] \in Ledger
    BY RevisionsAreReviews, ReviewFields DEF OrderInv, OrderTypeOK
  <2>2. entry # NoEntry /\ ReviewConflict(entry.review, rev)
    BY DEF LedgerConflict
  <2>3. entry.review \in Review
    BY <2>1, <2>2, LedgerFields
  <2>4. ComposedOf(entry.review, S)
    BY <2>1, <2>2 DEF OrderInv, LedgerExact, EntryExact
  <2>5. \A m \in S : m \in Review /\ m \in taken[r] /\ m.id = rev.id
    BY RevisionsAreReviews DEF Of, OrderInv, OrderTypeOK
  <2> HIDE DEF entry, S
  <2>6. PICK m \in S : /\ entry.review.of = m.of /\ entry.review.at = m.at
                       /\ entry.review.verdict = m.verdict
    BY <2>4 DEF ComposedOf
  <2>7. CASE PinsConflict(entry.review.pins, rev.pins)
    <3>1. PICK p \in PinIds : /\ entry.review.pins[p] # NoPin /\ rev.pins[p] # NoPin
                              /\ PinConflict(entry.review.pins[p], rev.pins[p])
      BY <2>7 DEF PinsConflict, Both
    <3>2. entry.review.pins[p] \in Pin /\ rev.pins[p] \in Pin
      BY <2>1, <2>3, <3>1, ReviewFields, PinFields
    <3>3. PinFrom(entry.review.pins[p], S, p)
      BY <2>4, <3>1 DEF ComposedOf
    <3>4. PICK n \in S : n.pins[p] # NoPin /\ PinConflict(n.pins[p], rev.pins[p])
      BY <3>1, <3>2, <3>3, PinConflictFrom
    <3>5. ReviewConflict(n, rev)
      BY <3>1, <3>4 DEF ReviewConflict, PinsConflict, Both
    <3> QED
      BY <2>5, <3>5
  <2>8. CASE ~PinsConflict(entry.review.pins, rev.pins)
    <3>1. ReviewConflict(m, rev)
      BY <2>2, <2>6, <2>8 DEF ReviewConflict
    <3> QED
      BY <2>5, <3>1
  <2> QED
    BY <2>7, <2>8
<1> QED
  BY <1>1, OrderInvariant, PTL

----------------------------------------------------------------------------
(* The ledger on disk. *)

\* A writer's copy holds what it has merged, and extends the ledger on disk as
\* long as no other writer was busy with it.
CopyCurrent(w) ==
    /\ copy[w] \in Ledger
    /\ Keyed(copy[w])
    /\ w \notin mixed /\ durable # NoLedger => LedgerExtends(copy[w], durable)
    /\ \A r \in batch[w] : Holds(copy[w], r)

CopiesCurrent == \A w \in Writers : stage[w] \in Busy => CopyCurrent(w)

DurableKeyed == durable # NoLedger => durable \in Ledger /\ Keyed(durable)

IdleEmpty == \A w \in Writers : stage[w] \notin Busy => batch[w] = {}

\* A busy writer that is not marked is the only one.
MixedMarked ==
    /\ mixed \subseteq BusyWriters
    /\ \A v, w \in BusyWriters : v # w => w \in mixed

\* A session that takes reviews knows a digest.
DigestKnown ==
    \A s \in Sessions : stage[s] \in {"open", "committing"} => known[s] \in Digests

Inv == /\ TypeOK /\ OneWriter /\ IdleEmpty /\ MixedMarked /\ DigestKnown
       /\ DurableKeyed /\ CopiesCurrent /\ AcknowledgedReviewsKept

\* The variables of the sessions alone have their values after a step.
SessionsTyped ==
    /\ known' \in [Sessions -> Digests \cup {NoDigest}]
    /\ queue' \in [Sessions -> Seq(Submissions)]
    /\ DigestKnown'

----------------------------------------------------------------------------
LEMMA EmptyLedgerFits ==
    ASSUME NEW d \in Digests
    PROVE  EmptyLedger(d) \in Ledger /\ Keyed(EmptyLedger(d))
  BY DEF EmptyLedger, Ledger, Keyed

\* Retargeting relabels entries and keeps them.
LEMMA RetargetExtends ==
    ASSUME NEW ledger \in Ledger, Keyed(ledger), NEW d \in Digests
    PROVE  /\ Retarget(ledger, d) \in Ledger
           /\ Keyed(Retarget(ledger, d))
           /\ LedgerExtends(Retarget(ledger, d), ledger)
<1>1. CASE ledger.current = d
  BY <1>1, LedgerExtendsReflexive DEF Retarget
<1>2. CASE ledger.current # d
  <2> DEFINE R == Retarget(ledger, d)
             relabel(entry) == [review |-> entry.review,
                                stale |-> entry.stale \/ entry.review.of # d]
  <2>1. ASSUME NEW i \in ReviewIds
        PROVE  R.entries[i] = IF ledger.entries[i] = NoEntry THEN NoEntry
                              ELSE relabel(ledger.entries[i])
    <3>1. CASE ledger.entries[i] = NoEntry
      BY <1>2, <3>1 DEF Retarget
    <3>2. CASE ledger.entries[i] # NoEntry
      <4>1. ledger.entries[i] \in Entry
        BY <3>2, LedgerFields
      <4>2. [ledger.entries[i] EXCEPT
               !.stale = @ \/ ledger.entries[i].review.of # d]
              = relabel(ledger.entries[i])
        BY <4>1 DEF Entry
      <4> QED
        BY <1>2, <3>2, <4>2 DEF Retarget
    <3> QED
      BY <3>1, <3>2
  <2>2. ASSUME NEW i \in ReviewIds
        PROVE  /\ R.entries[i] \in EntryOrNone
               /\ EntryExtends(R.entries[i], ledger.entries[i])
               /\ R.entries[i] # NoEntry => R.entries[i].review.id = i
    <3>1. CASE ledger.entries[i] = NoEntry
      BY <2>1, <3>1 DEF EntryOrNone, EntryExtends
    <3>2. CASE ledger.entries[i] # NoEntry
      <4>1. /\ ledger.entries[i].review \in Review
            /\ ledger.entries[i].stale \in BOOLEAN
            /\ ledger.entries[i].review.id = i
        BY <3>2, LedgerFields DEF Keyed
      <4>2. R.entries[i] = relabel(ledger.entries[i])
        BY <2>1, <3>2
      <4>3. relabel(ledger.entries[i]) \in Entry
        BY <4>1 DEF Entry
      <4>4. R.entries[i] # NoEntry
        BY <4>2, <4>3, ReviewMergeAssumption
      <4> QED
        BY <4>1, <4>2, <4>3, <4>4, CoversReflexive DEF EntryOrNone, EntryExtends
    <3> QED
      BY <3>1, <3>2
  <2>3. /\ R.current = d
        /\ R = [current |-> R.current, entries |-> R.entries]
        /\ R.entries = [i \in ReviewIds |-> R.entries[i]]
    BY <1>2 DEF Retarget
  <2> HIDE DEF R
  <2>4. R.entries \in [ReviewIds -> EntryOrNone]
    BY <2>2, <2>3
  <2>5. R \in Ledger
    BY <2>3, <2>4 DEF Ledger, EntryOrNone
  <2> QED
    BY <2>2, <2>5 DEF R, Keyed, LedgerExtends
<1> QED
  BY <1>1, <1>2

\* What a writer reads or creates extends the ledger on disk.
LEMMA ReadOrCreateCurrent ==
    ASSUME DurableKeyed, NEW d \in Digests
    PROVE  /\ ReadOrCreate(d) \in Ledger
           /\ Keyed(ReadOrCreate(d))
           /\ durable # NoLedger => LedgerExtends(ReadOrCreate(d), durable)
  BY EmptyLedgerFits, LedgerExtendsReflexive DEF ReadOrCreate, DurableKeyed

LEMMA RegisterCopyCurrent ==
    ASSUME DurableKeyed, NEW d \in Digests
    PROVE  LET ledger == Retarget(ReadOrCreate(d), d)
           IN  /\ ledger \in Ledger
               /\ Keyed(ledger)
               /\ durable # NoLedger => LedgerExtends(ledger, durable)
  BY ReadOrCreateCurrent, RetargetExtends, LedgerExtendsTransitive DEF DurableKeyed

----------------------------------------------------------------------------
\* Taking the lock and reading the ledger.
LEMMA BeginKeepsInv ==
    ASSUME Inv, SessionsTyped, NEW w \in Writers, stage[w] \notin Busy,
           NEW newStage \in Stages \cap Busy,
           NEW ledger \in Ledger, Keyed(ledger),
           durable # NoLedger => LedgerExtends(ledger, durable),
           NEW reviews \in Seq(Submissions),
           Begin(w, newStage, ledger, reviews), UNCHANGED <<durable, told>>
    PROVE  Inv'
<1> USE ReviewStoreAssumption
<1>1. /\ lock = Nobody /\ lock' = w
      /\ stage' = [stage EXCEPT ![w] = newStage]
      /\ copy' = [copy EXCEPT ![w] = ledger]
      /\ todo' = [todo EXCEPT ![w] = reviews]
      /\ mixed' = IF BusyWriters = {} THEN mixed ELSE BusyWriters \cup {w}
      /\ batch' = batch /\ looking' = looking /\ thefts' = thefts
      /\ acked' = acked /\ lost' = lost
  BY DEF Begin, Take, told
<1>2. stage'[w] = newStage /\ \A v \in Writers : v # w => stage'[v] = stage[v]
  BY <1>1 DEF Inv, TypeOK
<1>3. BusyWriters' = BusyWriters \cup {w} /\ w \notin BusyWriters
  BY <1>2 DEF BusyWriters
<1>4. mixed' \subseteq Writers
  BY <1>1 DEF Inv, TypeOK, BusyWriters
<1>5. TypeOK'
  BY <1>1, <1>4 DEF Inv, TypeOK, SessionsTyped
<1>6. MixedMarked'
  <2>1. CASE BusyWriters = {}
    BY <1>1, <1>3, <2>1 DEF Inv, MixedMarked
  <2>2. CASE BusyWriters # {}
    BY <1>1, <1>3, <2>2 DEF MixedMarked
  <2> QED
    BY <2>1, <2>2
<1>7. OneWriter'
  <2> SUFFICES ASSUME thefts = 0
               PROVE  (\A v \in Writers : stage'[v] \in Busy <=> lock' = v) /\ mixed' = {}
    BY <1>1 DEF OneWriter
  <2>1. BusyWriters = {} /\ mixed = {}
    BY <1>1 DEF Inv, OneWriter, BusyWriters, Writers
  <2> QED
    BY <1>1, <1>2, <2>1 DEF BusyWriters
<1>8. IdleEmpty'
  BY <1>1, <1>2 DEF Inv, IdleEmpty
<1>9. copy'[w] = ledger /\ batch'[w] = {}
  BY <1>1 DEF Inv, TypeOK, IdleEmpty
<1>10. ASSUME NEW v \in Writers, stage'[v] \in Busy PROVE CopyCurrent(v)'
  <2>1. CASE v = w
    BY <1>9, <2>1 DEF CopyCurrent
  <2>2. CASE v # w
    <3>1. v \in BusyWriters /\ CopyCurrent(v)
      BY <1>2, <1>10, <2>2 DEF BusyWriters, Inv, CopiesCurrent
    <3>2. v \in mixed' /\ copy'[v] = copy[v] /\ batch'[v] = batch[v]
      BY <1>1, <2>2, <3>1 DEF Inv, TypeOK
    <3> QED
      BY <3>1, <3>2 DEF CopyCurrent
  <2> QED
    BY <2>1, <2>2
<1>11. CopiesCurrent'
  BY <1>10 DEF CopiesCurrent
<1>12. DurableKeyed' /\ AcknowledgedReviewsKept'
  BY <1>1 DEF Inv, DurableKeyed, AcknowledgedReviewsKept
<1> QED
  BY <1>5, <1>6, <1>7, <1>8, <1>11, <1>12 DEF Inv, SessionsTyped

\* Merging one review into the copy.
LEMMA MergeKeepsInv ==
    ASSUME Inv, NEW w \in Writers, stage[w] \in Busy, NEW stale \in BOOLEAN,
           MergeNext(w, stale)
    PROVE  Inv'
<1> USE ReviewStoreAssumption
<1> DEFINE r == Head(todo[w])
<1>1. /\ todo[w] # <<>>
      /\ ~LedgerConflict(copy[w], r)
      /\ copy' = [copy EXCEPT ![w] = MergeLedger(copy[w], r, stale)]
      /\ todo' = [todo EXCEPT ![w] = Tail(todo[w])]
      /\ batch' = [batch EXCEPT ![w] = batch[w] \cup {r}]
      /\ UNCHANGED <<durable, lock, looking, thefts, stage, known, queue, acked, lost, mixed>>
  BY DEF MergeNext, lockVars, sessionVars, told
<1>2. todo[w] \in Seq(Submissions) /\ r \in Submissions /\ r \in Review
  BY <1>1 DEF Inv, TypeOK
<1> HIDE DEF r
<1>3. CopyCurrent(w)
  BY DEF Inv, CopiesCurrent
<1>4. /\ MergeLedger(copy[w], r, stale) \in Ledger
      /\ Keyed(MergeLedger(copy[w], r, stale))
      /\ LedgerExtends(MergeLedger(copy[w], r, stale), copy[w])
      /\ Holds(MergeLedger(copy[w], r, stale), r)
  BY <1>1, <1>2, <1>3, MergeLedgerExtends DEF CopyCurrent
<1>5. /\ copy'[w] = MergeLedger(copy[w], r, stale)
      /\ batch'[w] = batch[w] \cup {r}
      /\ \A v \in Writers : v # w => copy'[v] = copy[v] /\ batch'[v] = batch[v]
  BY <1>1 DEF Inv, TypeOK
<1>6. Tail(todo[w]) \in Seq(Submissions)
  BY <1>1, <1>2
<1>7. TypeOK'
  BY <1>1, <1>2, <1>4, <1>6 DEF Inv, TypeOK
<1>8. batch[w] \subseteq Review
  BY DEF Inv, TypeOK
<1>9. CopyCurrent(w)'
  <2>1. w \notin mixed' /\ durable' # NoLedger => LedgerExtends(copy'[w], durable')
    BY <1>1, <1>3, <1>4, <1>5, LedgerExtendsTransitive
       DEF CopyCurrent, Inv, DurableKeyed
  <2>2. ASSUME NEW q \in batch'[w]
        PROVE  Holds(copy'[w], q)
    <3>1. CASE q = r
      BY <1>4, <1>5, <3>1
    <3>2. CASE q \in batch[w]
      BY <1>3, <1>4, <1>5, <1>8, <3>2, HoldsExtends DEF CopyCurrent
    <3> QED
      BY <1>5, <3>1, <3>2
  <2> QED
    BY <1>4, <1>5, <2>1, <2>2 DEF CopyCurrent
<1>10. CopiesCurrent'
  BY <1>1, <1>5, <1>9 DEF Inv, CopiesCurrent, CopyCurrent
<1>11. OneWriter' /\ IdleEmpty' /\ MixedMarked' /\ DigestKnown'
  BY <1>1, <1>5 DEF Inv, OneWriter, IdleEmpty, MixedMarked, BusyWriters, DigestKnown
<1>12. DurableKeyed' /\ AcknowledgedReviewsKept'
  BY <1>1 DEF Inv, DurableKeyed, AcknowledgedReviewsKept
<1> QED
  BY <1>7, <1>10, <1>11, <1>12 DEF Inv

----------------------------------------------------------------------------
\* Writers that stop, alone or with their process, whatever becomes of the ledger:
\* a writer that goes on keeps its copy.
Stop(gone, newStage) ==
    /\ lock' \in {lock, Nobody, Orphan}
    /\ lock \in gone => lock' \notin gone
    /\ lock \notin gone => lock' = lock
    /\ stage' = [w \in Writers |-> IF w \in gone THEN newStage ELSE stage[w]]
    /\ copy' = [w \in Writers |-> IF w \in gone THEN NoLedger ELSE copy[w]]
    /\ todo' = [w \in Writers |-> IF w \in gone THEN <<>> ELSE todo[w]]
    /\ batch' = [w \in Writers |-> IF w \in gone THEN {} ELSE batch[w]]
    /\ mixed' = mixed \ gone
    /\ looking' \in [Processes -> {"no", "found", "removing"}]
    /\ thefts' = thefts

LEMMA StopKeepsStages ==
    ASSUME Inv, SessionsTyped, NEW gone \in SUBSET Writers,
           NEW newStage \in Stages \ Busy, Stop(gone, newStage),
           durable' \in Ledger \cup {NoLedger}, acked' \subseteq Submissions,
           lost' \subseteq Submissions
    PROVE  /\ TypeOK' /\ OneWriter' /\ IdleEmpty' /\ MixedMarked'
           /\ \A v \in Writers : stage'[v] \in Busy =>
                 /\ v \notin gone /\ stage[v] \in Busy
                 /\ copy'[v] = copy[v] /\ batch'[v] = batch[v]
                 /\ v \in mixed => v \in mixed'
<1> USE ReviewStoreAssumption
<1>1. /\ lock' \in {lock, Nobody, Orphan}
      /\ lock \in gone => lock' \notin gone
      /\ lock \notin gone => lock' = lock
      /\ stage' = [w \in Writers |-> IF w \in gone THEN newStage ELSE stage[w]]
      /\ copy' = [w \in Writers |-> IF w \in gone THEN NoLedger ELSE copy[w]]
      /\ todo' = [w \in Writers |-> IF w \in gone THEN <<>> ELSE todo[w]]
      /\ batch' = [w \in Writers |-> IF w \in gone THEN {} ELSE batch[w]]
      /\ mixed' = mixed \ gone
      /\ looking' \in [Processes -> {"no", "found", "removing"}]
      /\ thefts' = thefts
  BY DEF Stop
<1>2. TypeOK'
  <2>1. stage' \in [Writers -> Stages] /\ copy' \in [Writers -> Ledger \cup {NoLedger}]
    BY <1>1 DEF Inv, TypeOK
  <2>2. /\ todo' \in [Writers -> Seq(Submissions)]
        /\ batch' \in [Writers -> SUBSET Submissions]
    BY <1>1 DEF Inv, TypeOK
  <2>3. lock' \in Writers \cup {Nobody, Orphan} /\ mixed' \subseteq Writers
    BY <1>1 DEF Inv, TypeOK
  <2> QED
    BY <1>1, <2>1, <2>2, <2>3 DEF Inv, TypeOK, SessionsTyped
<1>3. \A v \in Writers : IF v \in gone THEN stage'[v] \notin Busy /\ batch'[v] = {}
                                       ELSE stage'[v] = stage[v] /\ batch'[v] = batch[v]
  BY <1>1
<1>4. BusyWriters' = BusyWriters \ gone
  BY <1>3 DEF BusyWriters
<1>5. MixedMarked'
  BY <1>1, <1>4 DEF Inv, MixedMarked
<1>6. IdleEmpty'
  BY <1>3 DEF Inv, IdleEmpty
<1>7. OneWriter'
  <2> SUFFICES ASSUME thefts = 0
               PROVE  (\A v \in Writers : stage'[v] \in Busy <=> lock' = v) /\ mixed' = {}
    BY <1>1 DEF OneWriter
  <2>1. (\A v \in Writers : stage[v] \in Busy <=> lock = v) /\ mixed = {}
    BY DEF Inv, OneWriter
  <2>2. ASSUME NEW v \in Writers PROVE stage'[v] \in Busy <=> lock' = v
    <3>1. CASE v \in gone
      BY <1>1, <1>3, <3>1
    <3>2. CASE v \notin gone
      BY <1>1, <1>3, <2>1, <3>2 DEF Writers
    <3> QED
      BY <3>1, <3>2
  <2> QED
    BY <1>1, <2>1, <2>2
<1>8. \A v \in Writers : stage'[v] \in Busy =>
        /\ v \notin gone /\ stage[v] \in Busy
        /\ copy'[v] = copy[v] /\ batch'[v] = batch[v]
        /\ v \in mixed => v \in mixed'
  BY <1>1, <1>3
<1> QED
  BY <1>2, <1>5, <1>6, <1>7, <1>8

\* They stop without having written.
LEMMA QuietStopKeepsInv ==
    ASSUME Inv, SessionsTyped, NEW gone \in SUBSET Writers,
           NEW newStage \in Stages \ Busy, Stop(gone, newStage),
           UNCHANGED <<durable, told>>
    PROVE  Inv'
<1>1. durable' = durable /\ acked' = acked /\ lost' = lost
  BY DEF told
<1>2. /\ TypeOK' /\ OneWriter' /\ IdleEmpty' /\ MixedMarked'
      /\ \A v \in Writers : stage'[v] \in Busy =>
            /\ v \notin gone /\ stage[v] \in Busy
            /\ copy'[v] = copy[v] /\ batch'[v] = batch[v]
            /\ v \in mixed => v \in mixed'
  BY <1>1, StopKeepsStages DEF Inv, TypeOK
<1>3. \A v \in Writers : v \in mixed' => v \in mixed
  BY DEF Stop
<1>4. CopiesCurrent'
  BY <1>1, <1>2, <1>3 DEF Inv, CopiesCurrent, CopyCurrent
<1>5. DurableKeyed' /\ AcknowledgedReviewsKept'
  BY <1>1 DEF Inv, DurableKeyed, AcknowledgedReviewsKept, Stop
<1> QED
  BY <1>2, <1>4, <1>5 DEF Inv, SessionsTyped

\* One of them replaced the ledger by its copy.  If it was alone, what was told
\* before is in the copy because the copy extends the ledger; what is told now is
\* in it because it was merged.
LEMMA LoudStopKeepsInv ==
    ASSUME Inv, SessionsTyped, NEW gone \in SUBSET Writers,
           NEW newStage \in Stages \ Busy, Stop(gone, newStage),
           NEW w \in gone, stage[w] \in Busy, Replace(w),
           acked' = acked \/ acked' = acked \cup batch[w]
    PROVE  Inv'
<1> USE ReviewStoreAssumption
<1> DEFINE atRisk == IF w \in mixed THEN acked ELSE lost
<1>1. durable' = copy[w] /\ lost' = {r \in atRisk : ~Holds(copy[w], r)} /\ w \in Writers
  BY DEF Replace
<1>2. CopyCurrent(w)
  BY <1>1 DEF Inv, CopiesCurrent
<1>3. /\ acked \subseteq Submissions /\ lost \subseteq Submissions
      /\ batch[w] \subseteq Submissions /\ Submissions \subseteq Review
  BY <1>1 DEF Inv, TypeOK
<1>4. acked' \subseteq Submissions /\ lost' \subseteq Submissions
  BY <1>1, <1>3
<1>5. /\ TypeOK' /\ OneWriter' /\ IdleEmpty' /\ MixedMarked'
      /\ \A v \in Writers : stage'[v] \in Busy =>
            /\ v \notin gone /\ stage[v] \in Busy
            /\ copy'[v] = copy[v] /\ batch'[v] = batch[v]
            /\ v \in mixed => v \in mixed'
  BY <1>1, <1>2, <1>4, StopKeepsStages DEF CopyCurrent
<1>6. durable' \in Ledger /\ durable' # NoLedger /\ DurableKeyed'
  BY <1>1, <1>2 DEF CopyCurrent, DurableKeyed
<1>7. ASSUME NEW v \in Writers, stage'[v] \in Busy PROVE CopyCurrent(v)'
  <2>1. /\ v \in BusyWriters /\ w \in BusyWriters /\ v # w
        /\ copy'[v] = copy[v] /\ batch'[v] = batch[v]
        /\ v \in mixed => v \in mixed'
    BY <1>1, <1>5, <1>7 DEF BusyWriters
  <2>2. v \in mixed'
    BY <2>1 DEF Inv, MixedMarked
  <2>3. CopyCurrent(v)
    BY <2>1 DEF Inv, CopiesCurrent, BusyWriters
  <2> QED
    BY <2>1, <2>2, <2>3 DEF CopyCurrent
<1>8. ASSUME NEW r \in acked' \ lost' PROVE Holds(durable', r)
  <2>1. CASE r \in batch[w]
    BY <1>1, <1>2, <2>1 DEF CopyCurrent
  <2>2. CASE r \in acked /\ r \in atRisk
    BY <1>1, <1>8, <2>2
  <2>3. CASE r \in acked /\ r \notin atRisk
    <3>1. w \notin mixed /\ r \in acked \ lost
      BY <2>3
    <3>2. durable # NoLedger /\ Holds(durable, r) /\ durable \in Ledger
      BY <3>1 DEF Inv, AcknowledgedReviewsKept, DurableKeyed
    <3>3. LedgerExtends(copy[w], durable) /\ copy[w] \in Ledger /\ r \in Review
      BY <1>2, <1>3, <3>1, <3>2 DEF CopyCurrent
    <3> QED
      BY <1>1, <3>2, <3>3, HoldsExtends
  <2> QED
    BY <1>8, <2>1, <2>2, <2>3
<1>9. lost' # {} => thefts' > 0
  <2>1. thefts \in Nat /\ thefts' = thefts
    BY DEF Inv, TypeOK, Stop
  <2>2. CASE w \in mixed
    BY <2>1, <2>2 DEF Inv, OneWriter
  <2>3. CASE w \notin mixed
    <3>1. lost' \subseteq lost
      BY <1>1, <2>3
    <3> QED
      BY <2>1, <3>1 DEF Inv, AcknowledgedReviewsKept
  <2> QED
    BY <2>2, <2>3
<1>10. AcknowledgedReviewsKept'
  BY <1>6, <1>8, <1>9 DEF AcknowledgedReviewsKept
<1>11. CopiesCurrent'
  BY <1>7 DEF CopiesCurrent
<1> QED
  BY <1>5, <1>6, <1>10, <1>11 DEF Inv, SessionsTyped

LEMMA LeaveStops ==
    ASSUME Inv, NEW w \in Writers, NEW newStage \in Stages \ Busy, Leave(w, newStage)
    PROVE  Stop({w}, newStage)
<1> USE ReviewStoreAssumption
<1>1. /\ lock' = IF lock = w THEN Nobody ELSE lock
      /\ stage' = [stage EXCEPT ![w] = newStage]
      /\ copy' = [copy EXCEPT ![w] = NoLedger]
      /\ todo' = [todo EXCEPT ![w] = <<>>]
      /\ batch' = [batch EXCEPT ![w] = {}]
      /\ mixed' = mixed \ {w}
      /\ looking' = looking /\ thefts' = thefts
  BY DEF Leave
<1>2. /\ stage' = [v \in Writers |-> IF v \in {w} THEN newStage ELSE stage[v]]
      /\ copy' = [v \in Writers |-> IF v \in {w} THEN NoLedger ELSE copy[v]]
  BY <1>1 DEF Inv, TypeOK
<1>3. /\ todo' = [v \in Writers |-> IF v \in {w} THEN <<>> ELSE todo[v]]
      /\ batch' = [v \in Writers |-> IF v \in {w} THEN {} ELSE batch[v]]
  BY <1>1 DEF Inv, TypeOK
<1> QED
  BY <1>1, <1>2, <1>3 DEF Stop, Inv, TypeOK, Writers

LEMMA ThrowKeepsInv ==
    ASSUME Inv, SessionsTyped, NEW w \in Writers, NEW newStage \in Stages \ Busy,
           Throw(w, newStage)
    PROVE  Inv'
  BY LeaveStops, QuietStopKeepsInv DEF Throw

LEMMA WriteKeepsInv ==
    ASSUME Inv, SessionsTyped, NEW w \in Writers, stage[w] \in Busy,
           NEW newStage \in Stages \ Busy, Write(w, newStage)
    PROVE  Inv'
  BY LeaveStops, LoudStopKeepsInv DEF Write

\* A crash, before or after the ledger was replaced.
LEMMA VanishKeepsInv ==
    ASSUME Inv, SessionsTyped, NEW process \in Processes,
           NEW newStage \in Stages \ Busy, Vanish(process, newStage)
    PROVE  Inv'
<1> USE ReviewStoreAssumption
<1> DEFINE dead == {w \in Writers : ProcessOf(w) = process}
<1>1. /\ stage' = [w \in Writers |-> IF w \in dead THEN newStage ELSE stage[w]]
      /\ copy' = [w \in Writers |-> IF w \in dead THEN NoLedger ELSE copy[w]]
      /\ todo' = [w \in Writers |-> IF w \in dead THEN <<>> ELSE todo[w]]
      /\ batch' = [w \in Writers |-> IF w \in dead THEN {} ELSE batch[w]]
      /\ lock' = IF lock \in dead THEN Orphan ELSE lock
      /\ looking' = [looking EXCEPT ![process] = "no"]
      /\ mixed' = mixed \ dead
      /\ \/ UNCHANGED <<durable, lost>>
         \/ \E w \in dead : stage[w] \in Busy /\ todo[w] = <<>> /\ Replace(w)
      /\ acked' = acked /\ thefts' = thefts
  BY DEF Vanish
<1>2. dead \in SUBSET Writers
  OBVIOUS
<1> HIDE DEF dead
<1>3. looking' \in [Processes -> {"no", "found", "removing"}]
  BY <1>1 DEF Inv, TypeOK
<1>4. Orphan \notin dead
  BY <1>2 DEF Writers
<1>5. Stop(dead, newStage)
  BY <1>1, <1>3, <1>4 DEF Stop
<1>6. CASE UNCHANGED <<durable, lost>>
  BY <1>1, <1>2, <1>5, <1>6, QuietStopKeepsInv DEF told
<1>7. CASE \E w \in dead : stage[w] \in Busy /\ todo[w] = <<>> /\ Replace(w)
  BY <1>1, <1>2, <1>5, <1>7, LoudStopKeepsInv
<1> QED
  BY <1>1, <1>6, <1>7

----------------------------------------------------------------------------
\* A step that leaves writers, their copies and the ledger alone.
LEMMA AsideKeepsInv ==
    ASSUME Inv, SessionsTyped,
           UNCHANGED <<durable, stage, copy, todo, batch, acked, lost, mixed>>,
           looking' \in [Processes -> {"no", "found", "removing"}],
           \/ lock' = lock /\ thefts' = thefts
           \/ /\ lock' = Nobody
              /\ thefts' = IF lock \in Writers THEN thefts + 1 ELSE thefts
    PROVE  Inv'
<1> USE ReviewStoreAssumption
<1>1. TypeOK'
  BY DEF Inv, TypeOK, SessionsTyped
<1>2. IdleEmpty' /\ MixedMarked' /\ DurableKeyed'
  BY DEF Inv, IdleEmpty, MixedMarked, BusyWriters, DurableKeyed
<1>3. CopiesCurrent'
  BY DEF Inv, CopiesCurrent, CopyCurrent
<1>4. thefts \in Nat /\ thefts' \in Nat /\ (thefts > 0 => thefts' > 0)
  BY DEF Inv, TypeOK
<1>5. AcknowledgedReviewsKept'
  BY <1>4 DEF Inv, AcknowledgedReviewsKept
<1>6. OneWriter'
  <2>1. CASE lock' = lock /\ thefts' = thefts
    BY <2>1 DEF Inv, OneWriter
  <2>2. CASE lock' = Nobody /\ lock \notin Writers /\ thefts' = thefts
    BY <2>2 DEF Inv, OneWriter, Writers
  <2>3. CASE lock \in Writers /\ thefts' = thefts + 1
    BY <1>4, <2>3 DEF OneWriter
  <2> QED
    BY <2>1, <2>2, <2>3
<1> QED
  BY <1>1, <1>2, <1>3, <1>5, <1>6 DEF Inv, SessionsTyped

LEMMA StepKeepsInv == Inv /\ [Next]_vars => Inv'
<1> USE ReviewStoreAssumption
<1> SUFFICES ASSUME Inv, [Next]_vars PROVE Inv'
  OBVIOUS
<1>1. TypeOK /\ DurableKeyed /\ DigestKnown
  BY DEF Inv
<1> USE DEF Stages, Busy
<1>2. ASSUME NEW s \in Sessions, RegisterBegin(s) PROVE Inv'
  <2>1. PICK d \in Digests :
          \E reviews \in {<<>>} \cup {<<r>> : r \in {r \in Submissions : r.of = d}} :
             Begin(s, "registering", Retarget(ReadOrCreate(d), d), reviews)
    BY <1>2 DEF RegisterBegin
  <2>2. PICK reviews \in {<<>>} \cup {<<r>> : r \in {r \in Submissions : r.of = d}} :
          Begin(s, "registering", Retarget(ReadOrCreate(d), d), reviews)
    BY <2>1
  <2>3. reviews \in Seq(Submissions)
    <3>1. CASE reviews = <<>>
      BY <3>1
    <3>2. ASSUME NEW r \in Submissions, reviews = <<r>> PROVE reviews \in Seq(Submissions)
      BY <3>2
    <3> QED
      BY <3>1, <3>2
  <2>4. UNCHANGED <<durable, told, known, queue>> /\ stage[s] = "closed"
    BY <1>2 DEF RegisterBegin, sessionVars
  <2>5. SessionsTyped
    BY <1>1, <2>2, <2>4 DEF SessionsTyped, TypeOK, DigestKnown, Begin, Writers
  <2> QED
    BY <1>1, <2>2, <2>3, <2>4, <2>5, RegisterCopyCurrent, BeginKeepsInv DEF Writers
<1>3. ASSUME NEW s \in Sessions, RegisterMerge(s) \/ CommitMerge(s) PROVE Inv'
  BY <1>3, MergeKeepsInv DEF RegisterMerge, CommitMerge, Writers
<1>4. ASSUME NEW s \in Sessions, RegisterEnd(s) PROVE Inv'
  <2>1. stage[s] = "registering" /\ queue' = queue
    BY <1>4 DEF RegisterEnd
  <2>2. CASE Throw(s, "closed")
    <3>1. SessionsTyped
      BY <1>1, <2>1, <2>2 DEF Throw, Leave, SessionsTyped, TypeOK, DigestKnown, Writers
    <3> QED
      BY <2>2, <3>1, ThrowKeepsInv DEF Writers
  <2>3. CASE Write(s, "open") /\ known' = [known EXCEPT ![s] = copy[s].current]
    <3>1. copy[s].current \in Digests
      BY <2>1 DEF Inv, CopiesCurrent, CopyCurrent, Ledger, Writers
    <3>2. SessionsTyped
      BY <1>1, <2>1, <2>3, <3>1
         DEF Write, Leave, SessionsTyped, TypeOK, DigestKnown, Writers
    <3> QED
      BY <2>1, <2>3, <3>2, WriteKeepsInv DEF Writers
  <2> QED
    BY <1>4, <2>2, <2>3 DEF RegisterEnd
<1>5. ASSUME NEW s \in Sessions, NEW review \in Submissions, Submit(s, review)
      PROVE  Inv'
  <2>1. queue' \in [Sessions -> Seq(Submissions)]
    BY <1>1, <1>5 DEF Submit, TypeOK
  <2>2. SessionsTyped
    BY <1>1, <1>5, <2>1 DEF Submit, SessionsTyped, TypeOK, DigestKnown
  <2> QED
    BY <1>1, <1>5, <2>2, AsideKeepsInv DEF Submit, TypeOK, lockVars, told
<1>6. ASSUME NEW s \in Sessions, CommitBegin(s) PROVE Inv'
  <2>1. known[s] \in Digests /\ queue[s] \in Seq(Submissions) /\ queue[s] # <<>>
    BY <1>1, <1>6 DEF CommitBegin, TypeOK, DigestKnown
  <2>2. <<Head(queue[s])>> \in Seq(Submissions)
    BY <2>1
  <2>3. /\ UNCHANGED <<durable, told, known, queue>> /\ stage[s] = "open"
        /\ Begin(s, "committing", ReadOrCreate(known[s]), <<Head(queue[s])>>)
    BY <1>6 DEF CommitBegin, sessionVars
  <2>4. SessionsTyped
    BY <1>1, <2>1, <2>3 DEF SessionsTyped, TypeOK, DigestKnown, Begin, Writers
  <2> QED
    BY <1>1, <2>1, <2>2, <2>3, <2>4, ReadOrCreateCurrent, BeginKeepsInv DEF Writers
<1>7. ASSUME NEW s \in Sessions, CommitEnd(s) PROVE Inv'
  <2>1. /\ stage[s] = "committing" /\ queue[s] # <<>>
        /\ queue' = [queue EXCEPT ![s] = Tail(@)]
    BY <1>7 DEF CommitEnd
  <2>2. queue' \in [Sessions -> Seq(Submissions)]
    BY <1>1, <2>1 DEF TypeOK
  <2>3. CASE Throw(s, "open")
    <3>1. SessionsTyped
      BY <1>1, <2>1, <2>2, <2>3
         DEF Throw, Leave, SessionsTyped, TypeOK, DigestKnown, Writers
    <3> QED
      BY <2>3, <3>1, ThrowKeepsInv DEF Writers
  <2>4. CASE Write(s, "open") /\ known' = [known EXCEPT ![s] = copy[s].current]
    <3>1. copy[s].current \in Digests
      BY <2>1 DEF Inv, CopiesCurrent, CopyCurrent, Ledger, Writers
    <3>2. SessionsTyped
      BY <1>1, <2>1, <2>2, <2>4, <3>1
         DEF Write, Leave, SessionsTyped, TypeOK, DigestKnown, Writers
    <3> QED
      BY <2>1, <2>4, <3>2, WriteKeepsInv DEF Writers
  <2> QED
    BY <1>7, <2>3, <2>4 DEF CommitEnd
<1>8. ASSUME NEW s \in Sessions, CommitTimeout(s) PROVE Inv'
  <2>1. queue' \in [Sessions -> Seq(Submissions)]
    BY <1>1, <1>8 DEF CommitTimeout, TypeOK
  <2>2. SessionsTyped
    BY <1>1, <1>8, <2>1 DEF CommitTimeout, SessionsTyped, TypeOK, DigestKnown
  <2> QED
    BY <1>1, <1>8, <2>2, AsideKeepsInv DEF CommitTimeout, TypeOK, lockVars, told
<1>9. ASSUME NEW s \in Sessions, Refresh(s) PROVE Inv'
  <2>1. durable.current \in Digests /\ known' = [known EXCEPT ![s] = durable.current]
        /\ queue' = queue /\ stage' = stage
    BY <1>1, <1>9 DEF Refresh, DurableKeyed, Ledger
  <2>2. SessionsTyped
    BY <1>1, <2>1 DEF SessionsTyped, TypeOK, DigestKnown
  <2> QED
    BY <1>1, <1>9, <2>2, AsideKeepsInv DEF Refresh, TypeOK, lockVars, told
<1>10. ASSUME NEW s \in Sessions, Close(s) PROVE Inv'
  <2>1. /\ stage[s] = "open" /\ stage' = [stage EXCEPT ![s] = "closed"]
        /\ known' = [known EXCEPT ![s] = NoDigest]
        /\ UNCHANGED <<durable, lock, looking, thefts, copy, todo, batch, queue,
                       acked, lost, mixed>>
    BY <1>10 DEF Close, lockVars, told
  <2>2. /\ stage' \in [Writers -> Stages]
        /\ \A v \in Writers : stage'[v] \in Busy <=> stage[v] \in Busy
    BY <1>1, <2>1 DEF TypeOK, Writers
  <2>3. BusyWriters' = BusyWriters
    BY <2>2 DEF BusyWriters
  <2>4. DigestKnown'
    BY <1>1, <2>1 DEF DigestKnown, TypeOK, Writers
  <2>5. TypeOK'
    BY <1>1, <2>1, <2>2 DEF TypeOK
  <2>6. OneWriter' /\ IdleEmpty' /\ MixedMarked'
    BY <2>1, <2>2, <2>3 DEF Inv, OneWriter, IdleEmpty, MixedMarked
  <2>7. DurableKeyed' /\ CopiesCurrent' /\ AcknowledgedReviewsKept'
    BY <2>1, <2>2 DEF Inv, DurableKeyed, CopiesCurrent, CopyCurrent,
                      AcknowledgedReviewsKept
  <2> QED
    BY <2>4, <2>5, <2>6, <2>7 DEF Inv
<1>11. ASSUME NEW i \in Imports, ImportBegin(i) PROVE Inv'
  <2>1. PICK reviews \in SourceLists, digest \in Digests :
          Begin(i, "importing", ReadOrCreate(digest), reviews)
    BY <1>11 DEF ImportBegin
  <2>2. reviews \in Seq(Submissions)
    BY DEF SourceLists
  <2>3. UNCHANGED <<durable, told, known, queue>> /\ stage[i] = "idle"
    BY <1>11 DEF ImportBegin, sessionVars
  <2>4. SessionsTyped
    BY <1>1, <2>1, <2>3 DEF SessionsTyped, TypeOK, DigestKnown, Begin, Writers
  <2> QED
    BY <1>1, <2>1, <2>2, <2>3, <2>4, ReadOrCreateCurrent, BeginKeepsInv DEF Writers
<1>12. ASSUME NEW i \in Imports, ImportMerge(i) PROVE Inv'
  <2>1. PICK labelled \in BOOLEAN :
          MergeNext(i, labelled \/ Head(todo[i]).of # copy[i].current)
    BY <1>12 DEF ImportMerge
  <2>2. (labelled \/ Head(todo[i]).of # copy[i].current) \in BOOLEAN
    OBVIOUS
  <2> QED
    BY <1>12, <2>1, <2>2, MergeKeepsInv DEF ImportMerge, Writers
<1>13. ASSUME NEW i \in Imports, ImportEnd(i) PROVE Inv'
  <2>1. stage[i] = "importing" /\ queue' = queue /\ known' = known
    BY <1>13 DEF ImportEnd, Throw
  <2>2. stage' = [stage EXCEPT ![i] = "idle"]
    BY <1>13 DEF ImportEnd, Throw, Write, Leave
  <2>3. SessionsTyped
    BY <1>1, <2>1, <2>2 DEF SessionsTyped, TypeOK, DigestKnown, Writers
  <2>4. CASE Throw(i, "idle")
    BY <2>3, <2>4, ThrowKeepsInv DEF Writers
  <2>5. CASE Write(i, "idle") /\ UNCHANGED known
    BY <2>1, <2>3, <2>5, WriteKeepsInv DEF Writers
  <2> QED
    BY <1>13, <2>4, <2>5 DEF ImportEnd
<1>14. ASSUME NEW i \in Imports, CrashImport(i) PROVE Inv'
  <2>1. Vanish(i, "idle") /\ i \in Processes /\ known' = known /\ queue' = queue
    BY <1>14 DEF CrashImport, sessionVars, Processes
  <2>2. \A s \in Sessions : stage'[s] = stage[s]
    BY <2>1 DEF Vanish, ProcessOf, Writers
  <2>3. SessionsTyped
    BY <1>1, <2>1, <2>2 DEF SessionsTyped, TypeOK, DigestKnown
  <2> QED
    BY <2>1, <2>3, VanishKeepsInv
<1>15. CASE CrashServer
  <2>1. /\ Vanish(Server, "closed") /\ Server \in Processes
        /\ queue' = [s \in Sessions |-> <<>>]
        /\ known' = [s \in Sessions |-> NoDigest]
    BY <1>15 DEF CrashServer, Processes
  <2>2. \A s \in Sessions : stage'[s] = "closed"
    BY <2>1 DEF Vanish, ProcessOf, Writers
  <2>3. SessionsTyped
    BY <2>1, <2>2 DEF SessionsTyped, DigestKnown
  <2> QED
    BY <2>1, <2>3, VanishKeepsInv
<1>16. ASSUME NEW p \in Processes, FindLock(p) \/ JudgeLock(p) \/ RemoveLock(p)
       PROVE  Inv'
  <2>1. /\ UNCHANGED <<durable, stage, copy, todo, batch, known, queue, acked, lost, mixed>>
        /\ \/ lock' = lock /\ thefts' = thefts
           \/ /\ lock' = Nobody
              /\ thefts' = IF lock \in Writers THEN thefts + 1 ELSE thefts
    BY <1>16 DEF FindLock, JudgeLock, RemoveLock, lookRest, sessionVars, told
  <2>2. looking' \in [Processes -> {"no", "found", "removing"}]
    BY <1>1, <1>16 DEF FindLock, JudgeLock, RemoveLock, TypeOK
  <2>3. SessionsTyped
    BY <1>1, <2>1 DEF SessionsTyped, TypeOK, DigestKnown
  <2> QED
    BY <2>1, <2>2, <2>3, AsideKeepsInv
<1>17. CASE UNCHANGED vars
  <2>1. SessionsTyped
    BY <1>1, <1>17 DEF vars, sessionVars, SessionsTyped, TypeOK, DigestKnown
  <2> QED
    BY <1>1, <1>17, <2>1, AsideKeepsInv DEF vars, lockVars, told, TypeOK
<1> QED
  BY <1>2, <1>3, <1>4, <1>5, <1>6, <1>7, <1>8, <1>9, <1>10, <1>11, <1>12,
     <1>13, <1>14, <1>15, <1>16, <1>17
     DEF Next, SessionStep, CommitStep, ImportStep

----------------------------------------------------------------------------
\* The ledger holds what was acknowledged and not written away by two writers at
\* once, and copies are current, in every reachable state.
THEOREM Invariance == Spec => []Inv
<1>1. Init => Inv
  BY ReviewStoreAssumption
     DEF Init, Inv, TypeOK, OneWriter, IdleEmpty, MixedMarked, BusyWriters,
         DigestKnown, DurableKeyed, CopiesCurrent, AcknowledgedReviewsKept,
         Stages, Busy, Writers
<1> QED
  BY <1>1, StepKeepsInv, PTL DEF Spec

\* The variables have their types.
THEOREM TypeCorrect == Spec => []TypeOK
<1>1. Inv => TypeOK
  BY DEF Inv
<1> QED
  BY <1>1, Invariance, PTL

\* As long as no waiter removed the lock file of a live writer, a writer reads,
\* merges and writes the ledger only while it holds the lock, and alone.
THEOREM CriticalSections == Spec => []OneWriter
<1>1. Inv => OneWriter
  BY DEF Inv
<1> QED
  BY <1>1, Invariance, PTL

\* Whoever was told that a review is stored finds it in the ledger ever after,
\* unless a writer that another one joined after a theft of the lock wrote it away.
THEOREM NothingAcknowledgedIsLost == Spec => []AcknowledgedReviewsKept
<1>1. Inv => AcknowledgedReviewsKept
  BY DEF Inv
<1> QED
  BY <1>1, Invariance, PTL

\* What a step does to the ledger, to what was told and to the count of thefts.
Quiet == UNCHANGED <<durable, acked, lost>>

Writes(w) ==
    /\ stage[w] \in Busy /\ Replace(w) /\ thefts' = thefts
    /\ acked \subseteq acked'

LEMMA StepShape ==
    ASSUME [Next]_vars
    PROVE  \/ Quiet /\ thefts' \in {thefts, thefts + 1}
           \/ \E w \in Writers : Writes(w)
<1> USE DEF Busy, Writers, Quiet, told, sessionVars, lockVars, lookRest
<1>1. ASSUME NEW s \in Sessions, SessionStep(s)
      PROVE  (Quiet /\ thefts' = thefts) \/ \E w \in Writers : Writes(w)
  <2>1. CASE RegisterBegin(s) \/ CommitBegin(s)
    BY <2>1 DEF RegisterBegin, CommitBegin, Begin
  <2>2. CASE RegisterMerge(s) \/ CommitMerge(s)
    BY <2>2 DEF RegisterMerge, CommitMerge, MergeNext
  <2>3. CASE RegisterEnd(s) \/ CommitEnd(s)
    BY <2>3 DEF RegisterEnd, CommitEnd, Throw, Write, Leave, Writes
  <2>4. CASE \E review \in Submissions : Submit(s, review)
    BY <2>4 DEF Submit
  <2>5. CASE CommitTimeout(s) \/ Refresh(s) \/ Close(s)
    BY <2>5 DEF CommitTimeout, Refresh, Close
  <2> QED
    BY <1>1, <2>1, <2>2, <2>3, <2>4, <2>5 DEF SessionStep, CommitStep
<1>2. ASSUME NEW i \in Imports, ImportStep(i)
      PROVE  (Quiet /\ thefts' = thefts) \/ \E w \in Writers : Writes(w)
  <2>1. CASE ImportBegin(i)
    BY <2>1 DEF ImportBegin, Begin
  <2>2. CASE ImportMerge(i)
    BY <2>2 DEF ImportMerge, MergeNext
  <2>3. CASE ImportEnd(i)
    BY <2>3 DEF ImportEnd, Throw, Write, Leave, Writes
  <2>4. CASE CrashImport(i)
    BY <2>4 DEF CrashImport, Vanish, Writes
  <2> QED
    BY <1>2, <2>1, <2>2, <2>3, <2>4 DEF ImportStep
<1>3. CASE CrashServer
  BY <1>3 DEF CrashServer, Vanish, Writes
<1>4. CASE \E p \in Processes : FindLock(p) \/ JudgeLock(p) \/ RemoveLock(p)
  BY <1>4 DEF FindLock, JudgeLock, RemoveLock
<1>5. CASE UNCHANGED vars
  BY <1>5 DEF vars
<1> QED
  BY <1>1, <1>2, <1>3, <1>4, <1>5 DEF Next

\* The store implements its promise: until the lock is stolen, each step replaces
\* the ledger by one that extends it and holds every acknowledged review, or leaves
\* it alone.
THEOREM Refinement == Spec => StoreKeepsReviews
<1>1. Init => Promise!Init
  BY DEF Init, Promise!Init
<1>2. Inv /\ Inv' /\ [Next]_vars => [Promise!Replace \/ Promise!Break]_Promise!vars
  <2> SUFFICES ASSUME Inv, Inv', [Next]_vars
               PROVE  [Promise!Replace \/ Promise!Break]_Promise!vars
    OBVIOUS
  <2>1. thefts \in Nat
    BY DEF Inv, TypeOK
  <2>2. CASE Quiet /\ thefts' \in {thefts, thefts + 1}
    <3>1. durable' = durable /\ (acked \ lost)' = acked \ lost
      BY <2>2 DEF Quiet
    <3>2. (thefts > 0)' = (thefts > 0) \/ (thefts > 0)'
      BY <2>1, <2>2
    <3> QED
      BY <3>1, <3>2 DEF Promise!vars, Promise!Break
  <2>3. ASSUME NEW w \in Writers, Writes(w) PROVE Promise!Replace
    <3>1. /\ stage[w] \in Busy /\ durable' = copy[w] /\ thefts' = thefts
          /\ acked \subseteq acked'
          /\ lost' = {r \in (IF w \in mixed THEN acked ELSE lost) : ~Holds(copy[w], r)}
      BY <2>3 DEF Writes, Replace
    <3>2. CopyCurrent(w)
      BY <3>1 DEF Inv, CopiesCurrent
    <3>3. durable' \in Ledger /\ acked' \ lost' \subseteq Submissions
      BY <3>1, <3>2 DEF CopyCurrent, Inv, TypeOK
    <3>4. \A r \in acked' \ lost' : Holds(durable', r)
      BY DEF Inv, AcknowledgedReviewsKept
    <3>5. ASSUME ~(thefts > 0)
          PROVE  /\ acked \ lost \subseteq acked' \ lost'
                 /\ durable # NoLedger => LedgerExtends(durable', durable)
      <4>1. mixed = {}
        BY <2>1, <3>5 DEF Inv, OneWriter
      <4> QED
        BY <3>1, <3>2, <4>1 DEF CopyCurrent
    <3> QED
      BY <3>1, <3>3, <3>4, <3>5 DEF Promise!Replace
  <2> QED
    BY <2>2, <2>3, StepShape
<1> QED
  BY <1>1, <1>2, Invariance, PTL DEF Spec, StoreKeepsReviews, Promise!Spec
=============================================================================
