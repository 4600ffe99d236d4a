----------------------------- MODULE OperatingLog -----------------------------
(***************************************************************************)
(* The event log of the operating board: createOperatingEvent, its         *)
(* verification, the checkpoint of a projection and the projection resumed *)
(* from one (lib/operate/reducer.mjs).  The planr engine, which is not in  *)
(* this repository, appends an event when the reducer accepts it after the *)
(* events since its checkpoint, and writes checkpoints when it likes.      *)
(*                                                                         *)
(* The hash of the n-th event stands as n: a hash names one event and all  *)
(* before it.  An event whose content is not what was hashed is not        *)
(* intact.  Signatures of checkpoints are left out.                        *)
(***************************************************************************)
EXTENDS OperatingReducer, Sequences, SequencesExt

CONSTANTS Events,       \* the events a caller may make, ids and places aside
          EventIds,
          MaxEvents     \* bound: events in the log

\* What the schema says of the sensitivity of a finding and of its patches.
ASSUME EventsAssumption ==
    \A e \in Events : e.family = "finding" =>
        /\ e.record.sensitivity \in Nat
        /\ "sensitivity" \in DOMAIN e.patch => e.patch.sensitivity \in Nat
        /\ "cycle" \notin DOMAIN e.patch

ASSUME MaxEventsAssumption == MaxEvents \in Nat

VARIABLES
    log,         \* the entries written, oldest first
    board,       \* the projection of all of them, as the engine holds it
    checkpoint   \* a projection and how many entries it stands for

vars == <<log, board, checkpoint>>

Genesis == [head |-> 0, board |-> EmptyBoard]

\* createOperatingEvent, after the entry with the hash given.
Entry(id, previous, e) ==
    [id |-> id, sequence |-> previous + 1, previous |-> previous,
     intact |-> TRUE, event |-> e]

\* Mutant: places are not counted and links are not followed.
ChainOfIntact(entries, head) ==
    /\ \A i, j \in DOMAIN entries : entries[i].id = entries[j].id => i = j
    /\ \A i \in DOMAIN entries : entries[i].intact

\* verifyOperatingEventChain: no id twice, no gap, every entry refers to the
\* one before and is what was hashed.
Chain(entries, head) ==
    /\ \A i, j \in DOMAIN entries : entries[i].id = entries[j].id => i = j
    /\ \A i \in DOMAIN entries :
          /\ entries[i].sequence = head + i
          /\ entries[i].previous = head + i - 1
          /\ entries[i].intact

\* assertProjectedRouteFindingReferences
RoutesKnown(b) ==
    \A r \in DOMAIN b.routes :
        FindingsOfCycle(b, b.routes[r].findings, b.routes[r].cycle)

\* An event is applied; one that is not accepted throws.
Taken(r, e) ==
    IF ~r.thrown /\ Accepts(r.board, e)
    THEN [thrown |-> FALSE, board |-> Apply(r.board, e)]
    ELSE [thrown |-> TRUE, board |-> r.board]

\* Event after event.
EventByEvent(b, entries) ==
    LET after[n \in 0 .. Len(entries)] ==
            IF n = 0 THEN [thrown |-> FALSE, board |-> b]
            ELSE Taken(after[n - 1], entries[n].event)
    IN  after[Len(entries)]

\* reduceOperatingEvents, from a checkpoint.
Reduced(from, entries) ==
    IF ~Chain(entries, from.head) \/ ~RoutesKnown(from.board)
    THEN [thrown |-> TRUE, board |-> from.board]
    ELSE EventByEvent(from.board, entries)

After(n) == SubSeq(log, n + 1, Len(log))

Recent == After(checkpoint.head)

----------------------------------------------------------------------------
Init ==
    /\ log = <<>>
    /\ board = EmptyBoard
    /\ checkpoint = Genesis

\* An event is made after the last entry, and written when the reducer accepts
\* the entries since the checkpoint and this one.  The ids it knows are theirs.
Record(id, e) ==
    /\ Len(log) < MaxEvents
    /\ \A i \in DOMAIN Recent : Recent[i].id # id
    /\ Accepts(board, e)
    /\ log' = Append(log, Entry(id, Len(log), e))
    /\ board' = Apply(board, e)
    /\ UNCHANGED checkpoint

\* Mutant: the head is that of the log before its last entry.
CheckpointBehind ==
    /\ checkpoint' = [head |-> IF log = <<>> THEN 0 ELSE Len(log) - 1, board |-> board]
    /\ UNCHANGED <<log, board>>

\* createOperatingCheckpoint
Checkpoint ==
    /\ checkpoint' = [head |-> Len(log), board |-> board]
    /\ UNCHANGED <<log, board>>

Next ==
    \/ \E id \in EventIds, e \in Events : Record(id, e)
    \/ Checkpoint

Spec == Init /\ [][Next]_vars

----------------------------------------------------------------------------
\* Properties.

TypeOK ==
    /\ \A i \in DOMAIN log : /\ log[i].id \in EventIds
                            /\ log[i].event \in Events
                            /\ log[i].sequence = i
                            /\ log[i].previous = i - 1
                            /\ log[i].intact
    /\ checkpoint.head \in 0..Len(log)

UniqueIds == \A i, j \in DOMAIN log : log[i].id = log[j].id => i = j

\* The projection resumed from the checkpoint is the one held, and so is the
\* one replayed from the start of the log, unless an id was used before and
\* after a checkpoint: resuming does not see that, and replaying throws.
\* (tests/orchestration/operating-reducer.test.mjs:593)
ResumedAsReplayed ==
    LET resumed == Reduced(checkpoint, Recent)
        replayed == Reduced(Genesis, log)
    IN  /\ ~resumed.thrown /\ resumed.board = board
        /\ replayed.thrown <=> ~UniqueIds
        /\ UniqueIds => replayed.board = board

\* A copy of the recent entries with one lost, read twice, out of place or
\* altered.  (One cut short is the log as it was, and no damage can be seen.)
Damaged ==
    LET Places == DOMAIN Recent
    IN  {RemoveAt(Recent, i) : i \in Places \ {Len(Recent)}}
          \cup {InsertAt(Recent, i, Recent[i]) : i \in Places}
          \cup {[Recent EXCEPT ![i] = Recent[i + 1], ![i + 1] = Recent[i]] :
                   i \in Places \ {Len(Recent)}}
          \cup {[Recent EXCEPT ![i].intact = FALSE] : i \in Places}

\* A damaged log is refused; it never yields another projection
\* (lib/operate/reducer.mjs:106-140).
DamageNoticed == \A entries \in Damaged : Reduced(checkpoint, entries).thrown

\* The i-th entry moved the entity of this kind to that state.
Moved(i, family, entity, to) ==
    /\ log[i].event.family = family
    /\ log[i].event.entity = entity
    /\ log[i].event.to = to

\* A route that was applied had been proposed, then accepted as the plan that was
\* proposed, then prepared as that plan with the preview that was proposed, and was
\* applied under the confirmation that accepting it gave, checkpoints in between or
\* not (moveEntity, lib/operate/reducer.mjs:423-436).
AppliedAsApproved ==
    \A j \in DOMAIN log : log[j].event.family = "route" /\ log[j].event.to = "applied" =>
        LET plan == log[j].event.routeDigest
            route == log[j].event.entity
        IN  \E h, i, k \in 1..(j - 1) :
                /\ h < i /\ i < k
                /\ Moved(h, "route", route, "proposed")
                /\ log[h].event.record.routeDigest = plan
                /\ Moved(i, "route", route, "accepted")
                /\ log[i].event.routeDigest = plan
                /\ log[i].event.confirmationDigest = log[j].event.confirmationDigest
                /\ Moved(k, "route", route, "prepared")
                /\ log[k].event.routeDigest = plan
                /\ log[k].event.previewDigest = log[h].event.record.previewDigest

\* Work on a finding goes on only because a human accepted it.
WorkIsAccepted ==
    \A f \in DOMAIN board.findings :
        board.findings[f].status \in {"accepted", "queued", "in-progress", "done"} =>
            \E i \in DOMAIN log : /\ Moved(i, "finding", f, "accepted")
                                 /\ log[i].event.actor = "human"

\* A finding is never forgotten, and what it cites never becomes less
\* sensitive (docs/protocol/operating-board.md:105).
SensitivityNeverLowered ==
    [][\A f \in DOMAIN board.findings :
          /\ f \in DOMAIN board'.findings
          /\ board'.findings[f].sensitivity >= board.findings[f].sensitivity]_vars
=============================================================================
