------------------------------ MODULE StartLock ------------------------------
(***************************************************************************)
(* The cross-process lock of lib/design-engine/server-util.mjs             *)
(* (acquireStartLock).  It serialises the start of a review server and     *)
(* every read-modify-write of a review ledger.  The lock is a file: whoever*)
(* creates it exclusively owns it, writes its identity into it and removes *)
(* it to release it.  A waiter that judges the owner gone removes the file *)
(* itself and tries again.                                                 *)
(*                                                                         *)
(* Each action is one system call of the code.  The calls of one process   *)
(* share its event loop, so between two awaits of a call no other call of  *)
(* the same process runs; calls of different processes interleave freely.  *)
(***************************************************************************)
EXTENDS Naturals, FiniteSets

CONSTANTS Callers,    \* callers, each acquiring and releasing in a loop
          Processes,  \* operating-system processes
          ProcessOf,  \* the process a caller runs in
          Absent,     \* there is no lock file
          Unreadable  \* what readJsonState gives for a missing or empty file

\* A lock file: the call that created it, whether its owner record has been
\* written into it, whether its modification time is past the stale limit.
LockFile == [maker: Callers, written: BOOLEAN, aged: BOOLEAN]

ASSUME StartLockAssumption ==
    /\ ProcessOf \in [Callers -> Processes]
    /\ Unreadable \notin Callers
    /\ Absent \notin LockFile

VARIABLES
    lockFile,  \* Absent, or the file at the lock path
    at,        \* where each call stands
    seen,      \* the owner a waiter read from the lock file
    expired,   \* calls whose timeout has run out
    alive,     \* running processes
    stolen     \* history: a lock file was removed from under a live owner

lockVars == <<lockFile, at, seen, expired, alive, stolen>>

\* Points where a call has given the event loop back.
AwaitPoints == {"idle", "waiting", "holding"}

Locations == AwaitPoints \cup
    {"writing", "reading", "deciding", "removing", "retry", "unlocking", "crashed"}

\* A call between creating the lock file and giving it up.
Owning == {"writing", "holding", "unlocking"}

LockTypeOK ==
    /\ lockFile \in LockFile \cup {Absent}
    /\ at \in [Callers -> Locations]
    /\ seen \in [Callers -> Callers \cup {Unreadable}]
    /\ expired \subseteq Callers
    /\ alive \subseteq Processes
    /\ stolen \in BOOLEAN

LockInit ==
    /\ lockFile = Absent
    /\ at = [c \in Callers |-> "idle"]
    /\ seen = [c \in Callers |-> Unreadable]
    /\ expired = {}
    /\ alive = Processes
    /\ stolen = FALSE

\* c may take a step: its process runs and is not inside another call.
MayStep(c) ==
    /\ ProcessOf[c] \in alive
    /\ \A d \in Callers \ {c} :
          ProcessOf[d] = ProcessOf[c] => at[d] \in AwaitPoints

Goto(c, location) == at' = [at EXCEPT ![c] = location]

\* Removing the file now takes it from a live owner other than c.
TakesFromOwner(c) ==
    /\ lockFile # Absent
    /\ lockFile.maker # c
    /\ at[lockFile.maker] \in Owning

----------------------------------------------------------------------------
\* Mutant: the file is opened with 'w', which truncates an existing lock.
OpenNonExclusive(c) ==
    /\ MayStep(c)
    /\ at[c] \in {"idle", "waiting", "retry"}
    /\ c \notin expired
    /\ lockFile' = [maker |-> c, written |-> FALSE, aged |-> FALSE]
    /\ Goto(c, "writing")
    /\ UNCHANGED <<seen, expired, alive, stolen>>

\* openSync(path, 'wx'): exclusive creation, or EEXIST.
Open(c) ==
    /\ MayStep(c)
    /\ at[c] \in {"idle", "waiting", "retry"}
    /\ c \notin expired
    /\ \/ /\ lockFile = Absent
          /\ lockFile' = [maker |-> c, written |-> FALSE, aged |-> FALSE]
          /\ Goto(c, "writing")
       \/ /\ lockFile # Absent
          /\ Goto(c, "reading")
          /\ UNCHANGED lockFile
    /\ UNCHANGED <<seen, expired, alive, stolen>>

\* writeFileSync(fd, ...): through the descriptor, so a file that was removed
\* and created again by another call is not touched.
WriteOwner(c) ==
    /\ MayStep(c)
    /\ at[c] = "writing"
    /\ lockFile' = IF lockFile # Absent /\ lockFile.maker = c
                   THEN [lockFile EXCEPT !.written = TRUE]
                   ELSE lockFile
    /\ Goto(c, "holding")
    /\ expired' = expired \ {c}
    /\ UNCHANGED <<seen, alive, stolen>>

\* The write throws: the call fails and leaves the file without an owner.
WriteFails(c) ==
    /\ MayStep(c)
    /\ at[c] = "writing"
    /\ Goto(c, "idle")
    /\ expired' = expired \ {c}
    /\ UNCHANGED <<lockFile, seen, alive, stolen>>

\* readJsonState(path) after EEXIST.
ReadOwner(c) ==
    /\ MayStep(c)
    /\ at[c] = "reading"
    /\ seen' = [seen EXCEPT ![c] =
                   IF lockFile # Absent /\ lockFile.written
                   THEN lockFile.maker ELSE Unreadable]
    /\ Goto(c, "deciding")
    /\ UNCHANGED <<lockFile, expired, alive, stolen>>

DeadOwner(c) == seen[c] \in Callers /\ ProcessOf[seen[c]] \notin alive

\* statSync throwing, because the file is gone, counts as old enough.
InvalidStale(c) ==
    seen[c] = Unreadable /\ (lockFile = Absent \/ lockFile.aged)

\* Mutant: the owner's process is not looked at.
RemovableIfStale(c) == InvalidStale(c)

Removable(c) == DeadOwner(c) \/ InvalidStale(c)

\* statSync and isAlive: remove the file, or wait a poll interval.
Decide(c) ==
    /\ MayStep(c)
    /\ at[c] = "deciding"
    /\ Goto(c, IF Removable(c) THEN "removing" ELSE "waiting")
    /\ UNCHANGED <<lockFile, seen, expired, alive, stolen>>

\* rmSync(path): whatever file is at the path now.
Remove(c) ==
    /\ MayStep(c)
    /\ at[c] = "removing"
    /\ lockFile' = Absent
    /\ stolen' = (stolen \/ TakesFromOwner(c))
    /\ Goto(c, "retry")
    /\ UNCHANGED <<seen, expired, alive>>

\* Mutant: the deadline is not an exit of the loop.
TimeOutNever(c) == at[c] = "waiting" /\ c \in expired /\ UNCHANGED lockVars

\* The loop condition fails: E_START_LOCK_TIMEOUT.
TimeOut(c) ==
    /\ MayStep(c)
    /\ at[c] \in {"waiting", "retry"}
    /\ c \in expired
    /\ Goto(c, "idle")
    /\ expired' = expired \ {c}
    /\ UNCHANGED <<lockFile, seen, alive, stolen>>

\* The release function: read the file, remove it if it still is this call's.
ReleaseRead(c) ==
    /\ MayStep(c)
    /\ at[c] = "holding"
    /\ Goto(c, IF lockFile # Absent /\ lockFile.written /\ lockFile.maker = c
               THEN "unlocking" ELSE "idle")
    /\ UNCHANGED <<lockFile, seen, expired, alive, stolen>>

Unlock(c) ==
    /\ MayStep(c)
    /\ at[c] = "unlocking"
    /\ lockFile' = Absent
    /\ stolen' = (stolen \/ TakesFromOwner(c))
    /\ Goto(c, "idle")
    /\ UNCHANGED <<seen, expired, alive>>

----------------------------------------------------------------------------
\* A process dies wherever it stands; its lock file stays.
ProcessDies(p) ==
    /\ p \in alive
    /\ alive' = alive \ {p}
    /\ at' = [c \in Callers |-> IF ProcessOf[c] = p THEN "crashed" ELSE at[c]]
    /\ UNCHANGED <<lockFile, seen, expired, stolen>>

\* The lock file's modification time passes the stale limit.
Age ==
    /\ lockFile # Absent
    /\ ~lockFile.aged
    /\ lockFile' = [lockFile EXCEPT !.aged = TRUE]
    /\ UNCHANGED <<at, seen, expired, alive, stolen>>

\* A call's own timeout runs out while it is trying.
Expire(c) ==
    /\ at[c] \in {"waiting", "reading", "deciding", "removing", "retry"}
    /\ c \notin expired
    /\ expired' = expired \cup {c}
    /\ UNCHANGED <<lockFile, at, seen, alive, stolen>>

CallStep(c) ==
    \/ Open(c) \/ WriteOwner(c) \/ ReadOwner(c) \/ Decide(c) \/ Remove(c)
    \/ TimeOut(c) \/ ReleaseRead(c) \/ Unlock(c)

LockNext ==
    \/ \E c \in Callers : CallStep(c) \/ WriteFails(c) \/ Expire(c)
    \/ \E p \in Processes : ProcessDies(p)
    \/ Age

LockSpec == LockInit /\ [][LockNext]_lockVars

\* What runs without being asked: every step of a call that has begun, and time.
\* Nobody has to begin a call, and a process may crash but need not.  The step of
\* a call is enabled only while no other call of its process runs, so it needs
\* strong fairness; the event loop, which runs due timers in turn, gives it.
Fairness ==
    /\ \A c \in Callers : SF_lockVars(at[c] # "idle" /\ CallStep(c))
    /\ WF_lockVars(Age)

LockFairSpec == LockSpec /\ Fairness

\* A call that keeps trying runs out of time.  It is not part of the specification:
\* a dead owner's lock has to be reclaimed without it.
TimeLimits == \A c \in Callers : WF_lockVars(Expire(c))

----------------------------------------------------------------------------
\* At most one call owns the lock, as long as no waiter has removed the file of
\* a live owner: exclusive creation and owner-checked release are enough.
MutualExclusionUnlessStolen ==
    ~stolen => \A c, d \in Callers :
                  at[c] \in Owning /\ at[d] \in Owning => c = d

\* An owner's file is on disk, under its own name, until it removes it itself.
OwnerFileInPlace ==
    ~stolen => \A c \in Callers :
                  at[c] \in Owning =>
                     /\ lockFile # Absent
                     /\ lockFile.maker = c
                     /\ at[c] # "writing" => lockFile.written

\* The comment on acquireStartLock: "Only a dead owner's lock is removed; an
\* alive but slow owner is allowed to finish or the waiter times out."
OnlyDeadOwnersLockRemoved ==
    [][\A c \in Callers : at[c] = "removing" /\ at'[c] = "retry"
                           => ~TakesFromOwner(c)]_lockVars

\* Every acquisition ends, if calls that keep trying run out of time: the lock is
\* acquired, or the call times out.
AcquisitionEnds ==
    TimeLimits =>
        \A c \in Callers : at[c] = "waiting" ~> at[c] \in {"holding", "idle", "crashed"}

\* A lock left by a crashed process does not outlast a call that waits for it,
\* unless that call happens to run out of time first.
DeadLock == lockFile # Absent /\ ProcessOf[lockFile.maker] \notin alive

DeadOwnerReclaimed ==
    \A c \in Callers :
        at[c] = "waiting" /\ DeadLock
            ~> \/ ~DeadLock
               \/ c \in expired
               \/ at[c] \in {"idle", "crashed"}
=============================================================================
