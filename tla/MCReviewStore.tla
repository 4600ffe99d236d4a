---------------------------- MODULE MCReviewStore ----------------------------
(* ReviewStore with two sessions, an import and two chosen reviews that       *)
(* contradict each other.                                                     *)
EXTENDS ReviewStore, TLC

NoPins == [i \in PinIds |-> NoPin]

OnePin(at, content, replies) ==
    [i \in PinIds |->
        [shape |-> "box", at |-> at, content |-> content, replies |-> replies]]

Rev(id, of, at, verdict, pins) ==
    [id |-> id, of |-> of, at |-> at, verdict |-> verdict, pins |-> pins]

Second == Rev("r1", "d1", 2, "approved", OnePin(1, "open", {}))
Tied   == Rev("r1", "d1", 2, "changes",  NoPins)

TwoReviews == {Second, Tied}
=============================================================================
