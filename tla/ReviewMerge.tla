----------------------------- MODULE ReviewMerge -----------------------------
(***************************************************************************)
(* The pure merge functions of lib/artifact/merge.mjs: revisions of one    *)
(* review are merged field by field (the later updatedAt wins, replies and *)
(* pins are united), and a ledger keeps one merged revision per review ID. *)
(*                                                                         *)
(* A merge either throws a conflict or returns a value.  Conflicts are the *)
(* predicates ...Conflict; Merge... is what is returned when there is none.*)
(* Geometry, authors and other fields that never change are one value,     *)
(* `shape`; intent, status and comment of a pin are one value, `content`.  *)
(***************************************************************************)
EXTENDS Naturals

CONSTANTS ReviewIds, Digests, Verdicts, PinIds, Shapes, Contents, ReplyIds,
          Texts,
          Times,    \* values of updatedAt, ordered
          NoPin,    \* the review has no pin of this ID
          NoEntry   \* the ledger has no review of this ID

Replies == [rid: ReplyIds, text: Texts]

Pin == [shape: Shapes, at: Times, content: Contents, replies: SUBSET Replies]

Review == [id: ReviewIds, of: Digests, at: Times, verdict: Verdicts,
           pins: [PinIds -> Pin \cup {NoPin}]]

Entry == [review: Review, stale: BOOLEAN]

Ledger == [current: Digests, entries: [ReviewIds -> Entry \cup {NoEntry}]]

ASSUME ReviewMergeAssumption ==
    /\ Times \subseteq Nat
    /\ NoPin \notin Pin
    /\ NoEntry \notin Entry

----------------------------------------------------------------------------
\* mergeReplies: the same reply ID may not carry two texts.
ReplyConflict(R, S) == \E r \in R, s \in S : r.rid = s.rid /\ r.text # s.text

\* mergePin: identity, replies, and a tie between different contents.
PinConflict(stored, incoming) ==
    \/ stored.shape # incoming.shape
    \/ ReplyConflict(stored.replies, incoming.replies)
    \/ stored.at = incoming.at /\ stored.content # incoming.content

\* Mutant: the revision that arrives last wins, whatever its time.
MergePinLastArrival(stored, incoming) ==
    [incoming EXCEPT !.replies = stored.replies \cup incoming.replies]

\* Mutant: the replies of the selected revision replace the others.
MergePinSelectedReplies(stored, incoming) ==
    IF incoming.at > stored.at THEN incoming ELSE stored

MergePin(stored, incoming) ==
    [(IF incoming.at > stored.at THEN incoming ELSE stored)
        EXCEPT !.replies = stored.replies \cup incoming.replies]

Both(stored, incoming, i) == stored[i] # NoPin /\ incoming[i] # NoPin

PinsConflict(stored, incoming) ==
    \E i \in PinIds : Both(stored, incoming, i)
                         /\ PinConflict(stored[i], incoming[i])

MergePins(stored, incoming) ==
    [i \in PinIds |->
        IF Both(stored, incoming, i) THEN MergePin(stored[i], incoming[i])
        ELSE IF stored[i] = NoPin THEN incoming[i] ELSE stored[i]]

----------------------------------------------------------------------------
\* mergeArtifactReviews: another digest, or a tie between different verdicts.
ReviewConflict(stored, incoming) ==
    \/ stored.of # incoming.of
    \/ stored.at = incoming.at /\ stored.verdict # incoming.verdict
    \/ PinsConflict(stored.pins, incoming.pins)

MergeReview(stored, incoming) ==
    [(IF incoming.at > stored.at THEN incoming ELSE stored)
        EXCEPT !.pins = MergePins(stored.pins, incoming.pins)]

\* createReviewLedger, empty.
EmptyLedger(digest) ==
    [current |-> digest, entries |-> [i \in ReviewIds |-> NoEntry]]

\* Mutant: an older revision of a review that moved on is refused.
LedgerConflictOlder(ledger, review) ==
    LET entry == ledger.entries[review.id]
    IN  /\ entry # NoEntry
        /\ ReviewConflict(entry.review, review) \/ review.at < entry.review.at

LedgerConflict(ledger, review) ==
    LET entry == ledger.entries[review.id]
    IN  entry # NoEntry /\ ReviewConflict(entry.review, review)

\* mergeReviewLedger for one review; stale is sticky.
MergeLedger(ledger, review, stale) ==
    LET entry == ledger.entries[review.id]
    IN  [ledger EXCEPT !.entries[review.id] =
            IF entry = NoEntry
            THEN [review |-> review, stale |-> stale]
            ELSE [review |-> MergeReview(entry.review, review),
                  stale  |-> entry.stale \/ stale]]

----------------------------------------------------------------------------
\* What a merge promises: nothing that was said before is lost.  kept holds all
\* of said: every pin and reply, and its verdict or a later one.
PinCovers(kept, said) ==
    /\ kept.shape = said.shape
    /\ said.at <= kept.at
    /\ said.at = kept.at => said.content = kept.content
    /\ said.replies \subseteq kept.replies

Covers(kept, said) ==
    /\ kept.id = said.id
    /\ kept.of = said.of
    /\ said.at <= kept.at
    /\ said.at = kept.at => said.verdict = kept.verdict
    /\ \A i \in PinIds : said.pins[i] # NoPin =>
          kept.pins[i] # NoPin /\ PinCovers(kept.pins[i], said.pins[i])

\* An entry of a later ledger keeps what an entry of an earlier one held.
EntryExtends(later, earlier) ==
    earlier # NoEntry =>
        /\ later # NoEntry
        /\ Covers(later.review, earlier.review)
        /\ earlier.stale => later.stale

LedgerExtends(later, earlier) ==
    \A i \in ReviewIds : EntryExtends(later.entries[i], earlier.entries[i])

\* A ledger holds a review, whole or merged into a later revision.
Holds(ledger, review) ==
    /\ ledger.entries[review.id] # NoEntry
    /\ Covers(ledger.entries[review.id].review, review)
=============================================================================
