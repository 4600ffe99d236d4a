------------------------- MODULE MCReviewImportOrder -------------------------
(* ReviewImportOrder over chosen revisions of two reviews: edits at different *)
(* and at equal times, added replies, a moved pin and a rewritten reply.      *)
EXTENDS ReviewImportOrder

NoPins == [i \in PinIds |-> NoPin]

PinAt(shape, at, content, replies) ==
    [i \in PinIds |->
        [shape |-> shape, at |-> at, content |-> content, replies |-> replies]]

Reply(rid, text) == [rid |-> rid, text |-> text]

Rev(id, of, at, verdict, pins) ==
    [id |-> id, of |-> of, at |-> at, verdict |-> verdict, pins |-> pins]

MCRevisions ==
    { Rev("r1", "d1", 1, "pending",  NoPins),
      Rev("r1", "d1", 2, "approved", PinAt("box", 1, "open", {})),
      Rev("r1", "d1", 2, "changes",  NoPins),
      Rev("r1", "d1", 1, "pending",  PinAt("box", 2, "done", {Reply("a", "x")})),
      Rev("r1", "d1", 2, "approved", PinAt("box", 2, "done", {Reply("b", "x")})),
      Rev("r1", "d1", 3, "approved", PinAt("box", 1, "open", {Reply("a", "y")})),
      Rev("r1", "d1", 3, "approved", PinAt("moved", 1, "open", {})),
      Rev("r1", "d2", 3, "approved", NoPins),
      Rev("r2", "d2", 1, "approved", NoPins) }
=============================================================================
