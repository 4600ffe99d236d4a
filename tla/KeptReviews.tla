----------------------------- MODULE KeptReviews -----------------------------
(***************************************************************************)
(* What the durable review ledger promises to reviewers, whoever writes it *)
(* and however (the "Atomic, private persistence" and the serialised       *)
(* read-modify-write of lib/artifact/review.mjs, the "non-destructive"     *)
(* import of lib/artifact/import.mjs): the ledger only grows, and a review *)
(* whose sender was told that it is stored is in it from then on.          *)
(*                                                                         *)
(* The promise is as good as the lock it rests on.  Once that was broken a *)
(* writer may write away what another one stored; the reviews it leaves    *)
(* are still in the ledger.                                                *)
(***************************************************************************)
CONSTANTS Ledger,        \* the ledgers
          Extends(_, _), \* one ledger keeps all that another one holds
          Holds(_, _),   \* a ledger holds a review
          Submissions,   \* the reviews that reviewers submit or import
          NoLedger       \* there is no ledger yet

VARIABLES
    ledger,  \* the durable ledger
    told,    \* the reviews whose sender was told that they are stored
    broken   \* the lock was taken from a writer that still ran

vars == <<ledger, told, broken>>

Init == ledger = NoLedger /\ told = {} /\ broken = FALSE

\* Somebody replaces the ledger by one that extends it, and tells some senders.
Replace ==
    /\ ledger' \in Ledger
    /\ told' \subseteq Submissions
    /\ \A review \in told' : Holds(ledger', review)
    /\ ~broken => /\ told \subseteq told'
                  /\ ledger # NoLedger => Extends(ledger', ledger)
    /\ UNCHANGED broken

Break == broken' /\ UNCHANGED <<ledger, told>>

Spec == Init /\ [][Replace \/ Break]_vars
=============================================================================
