----------------------------- MODULE MCStartLock -----------------------------
(* StartLock with two processes that make one call at a time each.            *)
EXTENDS StartLock, TLC

CONSTANTS c1, c2, p1, p2

TwoProcesses == (c1 :> p1) @@ (c2 :> p2)

\* Healthy processes and prompt system calls only: nobody crashes, no write
\* fails, no lock file grows old and no call runs out of time.
HealthyNext == \E c \in Callers : CallStep(c)
HealthySpec == LockInit /\ [][HealthyNext]_lockVars
=============================================================================
