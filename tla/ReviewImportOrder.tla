-------------------------- MODULE ReviewImportOrder --------------------------
(***************************************************************************)
(* Two ledgers of the same artifact receive the same review revisions in   *)
(* different orders, each through mergeReviewLedger: two reviewers who     *)
(* import the same links, a session and an import, a retry.  A conflicting *)
(* revision is refused and leaves the ledger as it was.                    *)
(***************************************************************************)
EXTENDS ReviewMerge

CONSTANTS Revisions  \* the revisions in circulation

ASSUME RevisionsAssumption == Revisions \subseteq Review

Replicas == {"left", "right"}

VARIABLES
    ledgers,   \* the ledger of each replica
    taken      \* revisions a replica has merged

orderVars == <<ledgers, taken>>

OrderTypeOK ==
    /\ ledgers \in [Replicas -> Ledger]
    /\ taken \in [Replicas -> SUBSET Revisions]

OrderInit ==
    /\ \E d \in Digests : ledgers = [r \in Replicas |-> EmptyLedger(d)]
    /\ taken = [r \in Replicas |-> {}]

\* A revision arrives, for the first time or again, and does not conflict.  It
\* is stale if it is about another digest (the import was told to allow that).
Receive(r, rev) ==
    /\ ~LedgerConflict(ledgers[r], rev)
    /\ ledgers' = [ledgers EXCEPT ![r] =
                     MergeLedger(@, rev, rev.of # ledgers[r].current)]
    /\ taken' = [taken EXCEPT ![r] = @ \cup {rev}]

OrderNext == \E r \in Replicas, rev \in Revisions : Receive(r, rev)

OrderSpec == OrderInit /\ [][OrderNext]_orderVars

\* Two replicas that merged the same revisions agree, whatever the order, the
\* duplicates and the refusals in between: an import can be repeated and
\* reordered.
SameRevisionsSameLedger ==
    taken["left"] = taken["right"] => ledgers["left"] = ledgers["right"]

\* Nothing a replica merged is lost from its ledger.
MergedRevisionsKept ==
    \A r \in Replicas : \A rev \in taken[r] :
        LET entry == ledgers[r].entries[rev.id]
        IN  entry # NoEntry /\ Covers(entry.review, rev)

\* A revision is refused only if it contradicts one the replica was given, about
\* the digest, a tie in time or the identity of a pin or reply: merging makes no
\* new conflicts.
RefusalsJustified ==
    \A r \in Replicas : \A rev \in Revisions :
        LedgerConflict(ledgers[r], rev) =>
            \E other \in taken[r] :
                other.id = rev.id /\ ReviewConflict(other, rev)
=============================================================================
