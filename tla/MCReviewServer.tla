---------------------------- MODULE MCReviewServer ----------------------------
\* ReviewServer with two calls, of one process and of two.
EXTENDS ReviewServer

CONSTANTS c1, c2, p1, p2

MCHosts == {[c \in Calls |-> p1], [c \in Calls |-> IF c = c1 THEN p1 ELSE p2]}
=============================================================================
