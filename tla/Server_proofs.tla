---------------------------- MODULE Server_proofs ----------------------------
(***************************************************************************)
(* Proofs about the lock under which a review server is started            *)
(* (StartLock) and about the servers and the calls for them                *)
(* (ReviewServer), for any number of calls, processes, page requests,      *)
(* faults and crashes.                                                     *)
(***************************************************************************)
EXTENDS StartLock, ReviewServer, TLAPS

-----------------------------------------------------------------------------
(* StartLock: types, and mutual exclusion as long as no lock file is        *)
(* removed from under a live owner.  The inductive invariant is             *)
(* OwnerFileInPlace: mutual exclusion alone is not inductive, because it    *)
(* does not say that the file on disk keeps a second call from opening.     *)


\* The variables have their types in every reachable state.
THEOREM LockTypeCorrect == LockSpec => []LockTypeOK
<1> USE StartLockAssumption
<1>1. LockInit => LockTypeOK
  BY DEF LockInit, LockTypeOK, Locations, AwaitPoints
<1>2. LockTypeOK /\ [LockNext]_lockVars => LockTypeOK'
  <2> SUFFICES ASSUME LockTypeOK, [LockNext]_lockVars PROVE LockTypeOK'
    OBVIOUS
  <2> USE DEF LockTypeOK, Goto, Locations, AwaitPoints, LockFile
  <2>1. ASSUME NEW c \in Callers, Open(c) PROVE LockTypeOK'
    <3>1. CASE lockFile = Absent
      <4>1. /\ lockFile' = [maker |-> c, written |-> FALSE, aged |-> FALSE]
            /\ at' = [at EXCEPT ![c] = "writing"]
            /\ UNCHANGED <<seen, expired, alive, stolen>>
        BY <2>1, <3>1 DEF Open
      <4> QED
        BY <4>1, <3>1
    <3>2. CASE lockFile # Absent
      BY <2>1, <3>2 DEF Open
    <3> QED
      BY <3>1, <3>2
  <2>2. ASSUME NEW c \in Callers, WriteOwner(c) PROVE LockTypeOK'
    BY <2>2 DEF WriteOwner
  <2>3. ASSUME NEW c \in Callers, WriteFails(c) PROVE LockTypeOK'
    BY <2>3 DEF WriteFails
  <2>4. ASSUME NEW c \in Callers, ReadOwner(c) PROVE LockTypeOK'
    BY <2>4 DEF ReadOwner
  <2>5. ASSUME NEW c \in Callers, Decide(c) PROVE LockTypeOK'
    BY <2>5 DEF Decide
  <2>6. ASSUME NEW c \in Callers, Remove(c) PROVE LockTypeOK'
    BY <2>6 DEF Remove, TakesFromOwner
  <2>7. ASSUME NEW c \in Callers, TimeOut(c) PROVE LockTypeOK'
    BY <2>7 DEF TimeOut
  <2>8. ASSUME NEW c \in Callers, ReleaseRead(c) PROVE LockTypeOK'
    BY <2>8 DEF ReleaseRead
  <2>9. ASSUME NEW c \in Callers, Unlock(c) PROVE LockTypeOK'
    BY <2>9 DEF Unlock, TakesFromOwner
  <2>10. ASSUME NEW c \in Callers, Expire(c) PROVE LockTypeOK'
    BY <2>10 DEF Expire
  <2>11. ASSUME NEW p \in Processes, ProcessDies(p) PROVE LockTypeOK'
    BY <2>11 DEF ProcessDies
  <2>12. CASE Age
    BY <2>12 DEF Age
  <2>13. CASE UNCHANGED lockVars
    BY <2>13 DEF lockVars
  <2> QED
    BY <2>1, <2>2, <2>3, <2>4, <2>5, <2>6, <2>7, <2>8, <2>9, <2>10, <2>11,
       <2>12, <2>13 DEF LockNext, CallStep
<1> QED
  BY <1>1, <1>2, PTL DEF LockSpec

----------------------------------------------------------------------------
\* While no live owner has lost its file, the file on disk is that of the call
\* that owns the lock.
THEOREM OwnerFileStays == LockSpec => []OwnerFileInPlace
<1> USE StartLockAssumption
<1>1. LockInit => OwnerFileInPlace
  BY DEF LockInit, OwnerFileInPlace, Owning
<1>2. LockTypeOK /\ OwnerFileInPlace /\ [LockNext]_lockVars => OwnerFileInPlace'
  <2> SUFFICES ASSUME LockTypeOK, OwnerFileInPlace, [LockNext]_lockVars, ~stolen'
               PROVE  OwnerFileInPlace'
    BY DEF OwnerFileInPlace
  <2> USE DEF LockTypeOK, OwnerFileInPlace, Owning, Goto, LockFile
  <2>1. ASSUME NEW c \in Callers, Open(c) PROVE OwnerFileInPlace'
    <3>1. CASE lockFile = Absent
      <4>1. /\ lockFile' = [maker |-> c, written |-> FALSE, aged |-> FALSE]
            /\ at' = [at EXCEPT ![c] = "writing"]
            /\ UNCHANGED <<seen, expired, alive, stolen>>
        BY <2>1, <3>1 DEF Open
      <4>2. \A e \in Callers : at[e] \notin Owning
        BY <3>1, <4>1
      <4>3. lockFile' \in LockFile /\ lockFile'.maker = c
        BY <4>1
      <4>4. \A e \in Callers : at'[e] \in Owning => e = c /\ at'[e] = "writing"
        BY <4>1, <4>2
      <4> QED
        BY <4>3, <4>4
    <3>2. CASE lockFile # Absent
      BY <2>1, <3>2 DEF Open
    <3> QED
      BY <3>1, <3>2
  <2>2. ASSUME NEW c \in Callers, WriteOwner(c) PROVE OwnerFileInPlace'
    BY <2>2 DEF WriteOwner
  <2>3. ASSUME NEW c \in Callers, WriteFails(c) PROVE OwnerFileInPlace'
    BY <2>3 DEF WriteFails
  <2>4. ASSUME NEW c \in Callers, ReadOwner(c) PROVE OwnerFileInPlace'
    BY <2>4 DEF ReadOwner
  <2>5. ASSUME NEW c \in Callers, Decide(c) PROVE OwnerFileInPlace'
    BY <2>5 DEF Decide
  <2>6. ASSUME NEW c \in Callers, Remove(c) PROVE OwnerFileInPlace'
    \* Had d owned the lock, the step would have taken its file: stolen'.
    <3>1. ~\E e \in Callers : at[e] \in Owning
      BY <2>6 DEF Remove, TakesFromOwner
    <3> QED
      BY <2>6, <3>1 DEF Remove
  <2>7. ASSUME NEW c \in Callers, TimeOut(c) PROVE OwnerFileInPlace'
    BY <2>7 DEF TimeOut
  <2>8. ASSUME NEW c \in Callers, ReleaseRead(c) PROVE OwnerFileInPlace'
    BY <2>8 DEF ReleaseRead
  <2>9. ASSUME NEW c \in Callers, Unlock(c) PROVE OwnerFileInPlace'
    \* The file is c's own, so no other call can own the lock.
    <3>1. lockFile # Absent /\ lockFile.maker = c
      BY <2>9 DEF Unlock
    <3>2. \A e \in Callers : at[e] \in Owning => e = c
      BY <3>1, <2>9 DEF Unlock
    <3> QED
      BY <2>9, <3>2 DEF Unlock
  <2>10. ASSUME NEW c \in Callers, Expire(c) PROVE OwnerFileInPlace'
    BY <2>10 DEF Expire
  <2>11. ASSUME NEW p \in Processes, ProcessDies(p) PROVE OwnerFileInPlace'
    BY <2>11 DEF ProcessDies
  <2>12. CASE Age
    BY <2>12 DEF Age
  <2>13. CASE UNCHANGED lockVars
    BY <2>13 DEF lockVars
  <2> QED
    BY <2>1, <2>2, <2>3, <2>4, <2>5, <2>6, <2>7, <2>8, <2>9, <2>10, <2>11,
       <2>12, <2>13 DEF LockNext, CallStep
<1> QED
  BY <1>1, <1>2, LockTypeCorrect, PTL DEF LockSpec

\* At most one call owns the lock, for any number of calls and processes, any
\* crash and any stale file, until a waiter removes a live owner's file.
THEOREM MutualExclusion == LockSpec => []MutualExclusionUnlessStolen
<1>1. OwnerFileInPlace => MutualExclusionUnlessStolen
  BY DEF OwnerFileInPlace, MutualExclusionUnlessStolen
<1> QED
  BY <1>1, OwnerFileStays, PTL

-----------------------------------------------------------------------------
(* ReviewServer.                                                            *)

\* A call that has not come to the server of its attempt: that server is not yet,
\* and the one of a second attempt neither.
Before == {"idle", "ensure", "wait", "lock", "probe", "listen"}

Fresh ==
    \A c \in Calls :
        /\ pc[c] \in Before => phase[<<c, attempt[c]>>] = "none"
        /\ attempt[c] = 0 => phase[<<c, 1>>] = "none"

\* A call past that knows its server, which listened once.
Known ==
    \A c \in Calls :
        pc[c] \in {"post", "registering", "error", "restart", "open", "closing"} =>
            server[c] \in Servers /\ phase[server[c]] # "none"

Inv == TypeOK /\ Fresh /\ Known /\ SessionsServed

-----------------------------------------------------------------------------
LEMMA HostTyped ==
    ASSUME TypeOK, NEW i \in Servers
    PROVE  HostOf(i) \in Procs
  BY DEF TypeOK, HostOf, Servers

LEMMA InitInv == Init => Inv
<1> SUFFICES ASSUME Init PROVE Inv
  OBVIOUS
<1>1. TypeOK
  BY ReviewServerAssumption DEF Init, TypeOK, Servers
<1>2. Fresh
  BY DEF Init, Fresh, Servers
<1> QED
  BY <1>1, <1>2 DEF Inv, Known, SessionsServed, Init

\* The steps of a call before it has a server.
LEMMA BeginKeeps ==
    ASSUME Inv, NEW c \in Calls,
           Start(c) \/ Ensure(c) \/ WaitClosed(c) \/ Acquire(c) \/ LockTimesOut(c)
             \/ LockStolen(c) \/ ProbeAnswered(c) \/ ProbeFails(c) \/ Listen(c) \/ ListenFails(c)
    PROVE  Inv'
<1> USE DEF Inv, Goes, Release
<1> cached[host[c]] \in Servers \cup {None} /\ found[c] \in Servers \cup {None}
  BY DEF TypeOK
<1> <<c, attempt[c]>> \in Servers /\ None \notin Servers
  BY ReviewServerAssumption DEF TypeOK, Servers
<1>1. CASE Start(c) \/ WaitClosed(c) \/ Acquire(c) \/ LockTimesOut(c) \/ ListenFails(c)
  <2>1. /\ UNCHANGED <<attempt, server, cached, hosted, host, raced>>
        /\ pc[c] \in Before
        /\ \E to \in {"ensure", "lock", "probe", "failed"} : pc' = [pc EXCEPT ![c] = to]
    BY <1>1 DEF Start, WaitClosed, Acquire, LockTimesOut, ListenFails, shared, Before
  <2>2. TypeOK'
    <3>1. found' \in [Calls -> Servers \cup {None}]
      <4>1. found' = found \/ found' = [found EXCEPT ![c] = file]
        BY <1>1 DEF Start, WaitClosed, Acquire, LockTimesOut, ListenFails
      <4> QED
        BY <4>1 DEF TypeOK
    <3>2. lock' \in Calls \cup {None} /\ file' \in Servers \cup {None}
      <4>1. file' = file /\ lock' \in {lock, c, None}
        BY <1>1 DEF Start, WaitClosed, Acquire, LockTimesOut, ListenFails, shared
      <4> QED
        BY <4>1 DEF TypeOK
    <3>3. pc' \in [Calls -> {"idle", "ensure", "wait", "lock", "probe", "listen", "post",
                            "registering", "error", "restart", "open", "closing", "done",
                            "failed", "crashed"}]
      BY <2>1 DEF TypeOK
    <3>4. /\ UNCHANGED <<attempt, server, cached, host, raced>>
          /\ UNCHANGED <<phase, sessions, pending, active, timer>>
      BY <2>1 DEF hosted
    <3> HIDE DEF Inv
    <3>5. TypeOK
      BY DEF Inv
    <3> QED
      BY <3>1, <3>2, <3>3, <3>4, <3>5 DEF TypeOK
  <2> QED
    BY <2>1, <2>2 DEF TypeOK, Fresh, Before, Known, SessionsServed, hosted
<1>2. CASE Ensure(c)
  BY <1>2 DEF Ensure, TypeOK, Fresh, Before, Known, SessionsServed, client, shared, hosted
<1>3. CASE ProbeAnswered(c)
  <2>1. found[c] \in Servers /\ phase[found[c]] = "listening"
    BY <1>3 DEF ProbeAnswered, Answers
  <2>2. Scheduled(found[c]) \in BOOLEAN
    BY DEF Scheduled, TypeOK
  <2>3. TypeOK'
    BY <1>3, <2>1, <2>2 DEF ProbeAnswered, TypeOK
  <2> QED
    BY <1>3, <2>1, <2>3 DEF ProbeAnswered, TypeOK, Fresh, Before, Known, SessionsServed
<1>4. CASE ProbeFails(c)
  BY <1>4 DEF ProbeFails, TypeOK, Fresh, Before, Known, SessionsServed, hosted
<1>6. CASE LockStolen(c)
  BY <1>6 DEF LockStolen, TypeOK, Fresh, Before, Known, SessionsServed, client, hosted
<1>5. CASE Listen(c)
  <2> DEFINE i == <<c, attempt[c]>>
  <2>1. phase[i] = "none" /\ pc[c] = "listen"
    BY <1>5 DEF Listen, Fresh, Before
  <2>2. TypeOK'
    BY <1>5 DEF Listen, TypeOK
  <2>3. Fresh'
    <3> SUFFICES ASSUME NEW d \in Calls
                 PROVE  /\ pc'[d] \in Before => phase'[<<d, attempt'[d]>>] = "none"
                        /\ attempt'[d] = 0 => phase'[<<d, 1>>] = "none"
      BY DEF Fresh
    <3>1. /\ attempt' = attempt /\ attempt[d] \in {0, 1}
          /\ <<d, attempt[d]>> \in Servers /\ <<d, 1>> \in Servers
      BY <1>5 DEF Listen, TypeOK, Servers
    <3>2. /\ pc'[d] = IF d = c THEN "post" ELSE pc[d]
          /\ \A j \in Servers : phase'[j] = IF j = i THEN "listening" ELSE phase[j]
      BY <1>5 DEF Listen, TypeOK
    <3>3. CASE d = c
      BY <2>1, <3>1, <3>2, <3>3 DEF Fresh, Before
    <3>4. CASE d # c
      BY <2>1, <3>1, <3>2, <3>4 DEF Fresh, Before
    <3> QED
      BY <3>3, <3>4
  <2>4. Known' /\ SessionsServed'
    BY <1>5, <2>1 DEF Listen, TypeOK, Known, SessionsServed
  <2> QED
    BY <2>2, <2>3, <2>4
<1> QED
  BY <1>1, <1>2, <1>3, <1>4, <1>5, <1>6

\* The steps of a call at its server.
LEMMA ProceedKeeps ==
    ASSUME Inv, NEW c \in Calls,
           Post(c) \/ Registered(c) \/ Refused(c) \/ Unreachable(c) \/ Retry(c) \/ Fails(c)
             \/ GiveUp(c) \/ Aborted(c) \/ Close(c) \/ Deleted(c)
    PROVE  Inv'
<1> USE DEF Inv, Goes
<1> server[c] \in Servers \cup {None} /\ None \notin Servers
  BY ReviewServerAssumption DEF TypeOK
<1>1. CASE Post(c) \/ GiveUp(c) \/ Close(c)
  <2>1. server[c] \in Servers
    BY <1>1 DEF Post, GiveUp, Close, Known
  <2>2. /\ UNCHANGED <<attempt, found, server, lock, file, cached, phase, sessions, timer, host,
                       raced>>
        /\ pc[c] \in {"post", "registering", "open"}
        /\ \E to \in {"registering", "failed", "closing"} : pc' = [pc EXCEPT ![c] = to]
    BY <1>1 DEF Post, GiveUp, Close, shared
  <2>3. /\ pending' \in [Servers -> SUBSET Calls]
        /\ active' \in [Servers -> SUBSET (Calls \cup {Page})]
    <3>1. CASE Post(c)
      BY <3>1, <2>1 DEF Post, TypeOK
    <3>2. CASE GiveUp(c)
      BY <3>2, <2>1 DEF GiveUp, TypeOK
    <3>3. CASE Close(c)
      BY <3>3, <2>1 DEF Close, TypeOK
    <3> QED
      BY <1>1, <3>1, <3>2, <3>3
  <2>4. TypeOK'
    BY <2>2, <2>3 DEF TypeOK
  <2>5. Fresh'
    BY <2>2 DEF TypeOK, Fresh, Before
  <2>6. Known'
    BY <2>1, <2>2 DEF TypeOK, Known
  <2>7. SessionsServed'
    BY <2>2 DEF TypeOK, SessionsServed
  <2> QED
    BY <2>4, <2>5, <2>6, <2>7
<1>2. CASE Registered(c)
  <2>1. server[c] \in Servers /\ phase[server[c]] = "listening"
    BY <1>2 DEF Registered, Answers
  <2>2. TypeOK'
    BY <1>2, <2>1 DEF Registered, TypeOK, shared
  <2>3. Fresh' /\ Known'
    BY <1>2, <2>1 DEF Registered, TypeOK, Fresh, Before, Known, shared
  <2>4. SessionsServed'
    BY <1>2, <2>1 DEF Registered, TypeOK, SessionsServed, Known, shared
  <2> QED
    BY <2>2, <2>3, <2>4
<1>3. CASE Refused(c)
  <2>1. server[c] \in Servers
    BY <1>3 DEF Refused, Answers
  <2> QED
    BY <1>3, <2>1 DEF Refused, TypeOK, Fresh, Before, Known, SessionsServed, shared
<1>4. CASE Unreachable(c)
  BY <1>4 DEF Unreachable, TypeOK, Fresh, Before, Known, SessionsServed, shared, hosted
<1>5. CASE Retry(c)
  BY <1>5 DEF Retry, MayRetry, TypeOK, Fresh, Before, Known, SessionsServed, shared, hosted
<1>6. CASE Fails(c)
  <2> DEFINE i == server[c]
  <2>1. i \in Servers
    BY <1>6 DEF Fails, Known
  <2>2. TypeOK'
    BY <1>6, <2>1 DEF Fails, TypeOK, shared
  <2>0. /\ pc[c] \notin Before /\ pc' = [pc EXCEPT ![c] = "failed"]
        /\ UNCHANGED <<attempt, server>>
        /\ \/ phase' = phase
           \/ phase[i] = "listening" /\ phase' = [phase EXCEPT ![i] = "closing"]
    BY <1>6 DEF Fails, Before
  <2>5. \A j \in Servers : phase'[j] = phase[j] \/ (phase[j] = "listening" /\ phase'[j] # "none")
    BY <2>0, <2>1 DEF TypeOK
  <2>6. \A d \in Calls : <<d, attempt[d]>> \in Servers /\ <<d, 1>> \in Servers
    BY DEF TypeOK, Servers
  <2>7. \A d \in Calls : pc'[d] = pc[d] \/ pc'[d] = "failed"
    BY <2>0 DEF TypeOK
  <2> HIDE DEF i
  <2>8. Fresh'
    <3> SUFFICES ASSUME NEW d \in Calls
                 PROVE  /\ pc'[d] \in Before => phase'[<<d, attempt[d]>>] = "none"
                        /\ attempt[d] = 0 => phase'[<<d, 1>>] = "none"
      BY <2>0 DEF Fresh
    <3>1. pc'[d] \in Before => pc[d] \in Before
      BY <2>7 DEF Before
    <3>2. /\ pc[d] \in Before => phase[<<d, attempt[d]>>] = "none"
          /\ attempt[d] = 0 => phase[<<d, 1>>] = "none"
      BY DEF Fresh
    <3>3. \A j \in Servers : phase[j] = "none" => phase'[j] = "none"
      BY <2>5
    <3> QED
      BY <2>6, <3>1, <3>2, <3>3
  <2>9. Known'
    BY <2>0, <2>5, <2>7 DEF Known
  <2>3. Fresh' /\ Known'
    BY <2>8, <2>9
  <2>4. SessionsServed'
    BY <1>6, <2>1 DEF Fails, Idle, TypeOK, SessionsServed, Known, shared
  <2> QED
    BY <2>2, <2>3, <2>4
<1>7. CASE Aborted(c)
  <2>1. server[c] \in Servers
    BY <1>7 DEF Aborted
  <2> QED
    BY <1>7, <2>1 DEF Aborted, TypeOK, Fresh, Before, Known, SessionsServed, client, shared
<1>8. CASE Deleted(c)
  <2>1. server[c] \in Servers
    BY <1>8 DEF Deleted, Known
  <2> QED
    BY <1>8, <2>1 DEF Deleted, TypeOK, Fresh, Before, Known, SessionsServed, shared
<1> QED
  BY <1>1, <1>2, <1>3, <1>4, <1>5, <1>6, <1>7, <1>8

\* The steps of a server.
LEMMA ServeKeeps ==
    ASSUME Inv, NEW i \in Servers,
           Visit(i) \/ (\E r \in Calls \cup {Page} : FinishRequest(i, r))
             \/ TimerFires(i) \/ Closes(i) \/ CleanupRead(i) \/ CleanupRemove(i)
    PROVE  Inv'
<1> USE DEF Inv
<1>1. CASE Visit(i)
  BY <1>1 DEF Visit, TypeOK, Fresh, Before, Known, SessionsServed, client, shared
<1>2. ASSUME NEW r \in Calls \cup {Page}, FinishRequest(i, r) PROVE Inv'
  <2>1. Scheduled(i) \in BOOLEAN
    BY DEF Scheduled, TypeOK
  <2>2. TypeOK'
    BY <1>2, <2>1 DEF FinishRequest, TypeOK, client, shared
  <2> QED
    BY <1>2, <2>2 DEF FinishRequest, TypeOK, Fresh, Before, Known, SessionsServed, client, shared
<1>3. CASE TimerFires(i)
  <2>1. TypeOK' /\ Fresh' /\ Known'
    BY <1>3 DEF TimerFires, TypeOK, Fresh, Before, Known, client, shared
  <2>2. SessionsServed'
    BY <1>3 DEF TimerFires, Idle, TypeOK, SessionsServed, Known, client, shared
  <2> QED
    BY <2>1, <2>2
<1>4. CASE Closes(i)
  BY <1>4 DEF Closes, TypeOK, Fresh, Before, Known, SessionsServed, client, shared
<1>5. CASE CleanupRead(i)
  <2>1. cached' \in [Procs -> Servers \cup {None}]
    BY <1>5, HostTyped DEF CleanupRead, Forget, TypeOK
  <2>2. TypeOK'
    BY <1>5, <2>1 DEF CleanupRead, TypeOK, client
  <2> QED
    BY <1>5, <2>2 DEF CleanupRead, TypeOK, Fresh, Before, Known, SessionsServed, client
<1>6. CASE CleanupRemove(i)
  <2>1. TypeOK'
    BY <1>6, HostTyped DEF CleanupRemove, Forget, TypeOK, client
  <2> QED
    BY <1>6, <2>1 DEF CleanupRemove, TypeOK, Fresh, Before, Known, SessionsServed, client
<1> QED
  BY <1>1, <1>2, <1>3, <1>4, <1>5, <1>6

LEMMA CrashKeeps ==
    ASSUME Inv, NEW p \in Procs, Crash(p)
    PROVE  Inv'
<1> DEFINE dead == {c \in Calls : host[c] = p /\ pc[c] # "idle"}
           own == {i \in Servers : HostOf(i) = p /\ phase[i] # "none"}
<1>1. /\ pc' = [c \in Calls |-> IF c \in dead THEN "crashed" ELSE pc[c]]
      /\ phase' = [i \in Servers |-> IF i \in own THEN "dead" ELSE phase[i]]
      /\ sessions' = [i \in Servers |-> IF i \in own THEN {} ELSE sessions[i]]
      /\ pending' = [i \in Servers |-> IF i \in own THEN {} ELSE pending[i]]
      /\ active' = [i \in Servers |-> IF i \in own THEN {} ELSE active[i] \ dead]
      /\ lock' = IF lock \in dead THEN None ELSE lock
      /\ cached' = [cached EXCEPT ![p] = None]
      /\ UNCHANGED <<attempt, found, server, file, host, raced>>
  BY DEF Crash
<1>2. timer' \in [Servers -> BOOLEAN]
  <2>1. \A i \in Servers : timer[i] \in BOOLEAN /\ Scheduled(i) \in BOOLEAN
    BY DEF Inv, TypeOK, Scheduled
  <2>2. timer' = [i \in Servers |-> i \notin own /\ IF active'[i] = active[i] THEN timer[i]
                                                   ELSE Scheduled(i)]
    BY DEF Crash
  <2> HIDE DEF own
  <2> QED
    BY <2>1, <2>2
<1>3. TypeOK'
  BY <1>1, <1>2 DEF Inv, TypeOK
<1>4. Fresh'
  BY <1>1 DEF Inv, TypeOK, Fresh, Before, Servers
<1>5. Known' /\ SessionsServed'
  BY <1>1 DEF Inv, TypeOK, Known, SessionsServed
<1> QED
  BY <1>3, <1>4, <1>5 DEF Inv

LEMMA NextInv == Inv /\ [Next]_vars => Inv'
<1> SUFFICES ASSUME Inv, [Next]_vars PROVE Inv'
  OBVIOUS
<1>1. ASSUME NEW c \in Calls,
             Start(c) \/ Begin(c) \/ Proceed(c) \/ Close(c) \/ LockTimesOut(c)
               \/ LockStolen(c) \/ ListenFails(c) \/ Refused(c) \/ GiveUp(c) \/ Aborted(c)
      PROVE  Inv'
  BY <1>1, BeginKeeps, ProceedKeeps DEF Begin, Proceed
<1>2. ASSUME NEW i \in Servers, Serve(i) \/ Visit(i) PROVE Inv'
  BY <1>2, ServeKeeps DEF Serve
<1>3. ASSUME NEW p \in Procs, Crash(p) PROVE Inv'
  BY <1>3, CrashKeeps
<1>4. CASE UNCHANGED vars
  BY <1>4 DEF Inv, TypeOK, Fresh, Known, SessionsServed, vars, client, shared, hosted
<1> QED
  BY <1>1, <1>2, <1>3, <1>4 DEF Next

\* Types, and what is known of calls and servers, hold throughout.
THEOREM ReviewServerInvariant == Spec => []Inv
  BY InitInv, NextInv, PTL DEF Spec

\* A review that was opened is served until it is closed, however the idle timer,
\* registrations and other closes interleave (SessionsServed).
THEOREM ReviewsAreServed == Spec => []SessionsServed
<1>1. Inv => SessionsServed
  BY DEF Inv
<1> QED
  BY ReviewServerInvariant, <1>1, PTL

-----------------------------------------------------------------------------
(* The state file.  Unless a probe was too slow or the lock was stolen, it   *)
(* names every server that listens, those apart that were announced while   *)
(* another one's name was being removed.  The holder of the lock is the     *)
(* only one that writes a name there, and none is there when it does.       *)

Named ==
    \A i \in Servers : phase[i] = "listening" => file = i \/ i \in raced \/ Disturbed

HolderKnows ==
    \A c \in Calls : ~Disturbed =>
        /\ pc[c] \in {"probe", "listen"} => lock = c
        /\ pc[c] = "probe" => file \in {found[c], None}
        /\ pc[c] = "listen" => file = None

\* What a server removes is its own name, or one that was written since it looked.
RemoversKnow ==
    \A i \in Servers : phase[i] = "removing" => file \in {i, None} \cup raced \/ Disturbed

FileInv == Named /\ HolderKnows /\ RemoversKnow

LEMMA DisturbedForGood == faults \subseteq faults' => (Disturbed => Disturbed')
  BY DEF Disturbed

\* The steps that leave the file, the lock and its holder alone, and let no server
\* begin to listen or to remove the file.
Aside ==
    /\ UNCHANGED <<file, lock, raced>>
    /\ faults \subseteq faults'
    /\ \A i \in Servers : phase'[i] \in {"listening", "removing"} => phase[i] = phase'[i]
    /\ \A c \in Calls : pc'[c] \in {"probe", "listen"} =>
          pc'[c] = pc[c] /\ found'[c] = found[c]

LEMMA AsideKeeps == FileInv /\ Aside => FileInv'
<1> SUFFICES ASSUME FileInv, Aside PROVE FileInv'
  OBVIOUS
<1>1. Disturbed => Disturbed'
  BY DisturbedForGood DEF Aside
<1>2. Named' /\ HolderKnows' /\ RemoversKnow'
  BY <1>1 DEF Aside, FileInv, Named, HolderKnows, RemoversKnow
<1> QED
  BY <1>2 DEF FileInv

LEMMA CallsAside ==
    ASSUME Inv, NEW c \in Calls,
           \/ Start(c) \/ Ensure(c) \/ WaitClosed(c) \/ LockTimesOut(c)
           \/ Post(c) \/ Registered(c) \/ Refused(c) \/ Unreachable(c) \/ Retry(c)
           \/ Fails(c) \/ GiveUp(c) \/ Aborted(c) \/ Close(c) \/ Deleted(c)
    PROVE  Aside
<1>1. UNCHANGED <<file, lock, raced>> /\ faults \subseteq faults'
  BY DEF Start, Ensure, WaitClosed, LockTimesOut, Post, Registered, Refused, Unreachable,
         Retry, Fails, GiveUp, Aborted, Close, Deleted, Happens, client, shared
<1>2. \A i \in Servers : phase'[i] \in {"listening", "removing"} => phase[i] = phase'[i]
  BY DEF Start, Ensure, WaitClosed, LockTimesOut, Post, Registered, Refused, Unreachable,
         Retry, Fails, GiveUp, Aborted, Close, Deleted, hosted, Inv, TypeOK
<1>3. \E to \in {"ensure", "wait", "lock", "post", "registering", "error", "restart",
                  "open", "closing", "done", "failed", pc[c]} : pc' = [pc EXCEPT ![c] = to]
  <2>1. CASE Start(c) \/ Ensure(c) \/ WaitClosed(c) \/ LockTimesOut(c)
    BY <2>1 DEF Start, Ensure, WaitClosed, LockTimesOut, Goes
  <2>2. CASE Post(c) \/ Refused(c) \/ Unreachable(c) \/ Retry(c) \/ Fails(c)
    BY <2>2 DEF Post, Refused, Unreachable, Retry, Fails, Goes
  <2>3. CASE GiveUp(c) \/ Close(c) \/ Deleted(c)
    BY <2>3 DEF GiveUp, Close, Deleted, Goes
  <2>4. CASE Registered(c)
    BY <2>4 DEF Registered
  <2>5. CASE Aborted(c)
    BY <2>5 DEF Aborted, client, Inv, TypeOK
  <2> QED
    BY <2>1, <2>2, <2>3, <2>4, <2>5
<1>4. \A d \in Calls : pc'[d] \in {"probe", "listen"} => pc'[d] = pc[d]
  BY <1>3 DEF Inv, TypeOK
<1>5. \A d \in Calls : pc'[d] \in {"probe", "listen"} => found'[d] = found[d]
  <2>1. CASE Ensure(c)
    BY <2>1 DEF Ensure, Goes, Inv, TypeOK
  <2>2. CASE ~Ensure(c)
    BY <2>2 DEF Start, WaitClosed, LockTimesOut, Post, Registered, Refused, Unreachable,
                Retry, Fails, GiveUp, Aborted, Close, Deleted, client
  <2> QED
    BY <2>1, <2>2
<1> QED
  BY <1>1, <1>2, <1>4, <1>5 DEF Aside

\* The steps of the call that holds the lock, or has lost it.
LEMMA HolderKeepsFile ==
    ASSUME Inv, FileInv, NEW c \in Calls,
           \/ Acquire(c) \/ LockStolen(c) \/ ProbeAnswered(c) \/ ProbeFails(c)
           \/ Listen(c) \/ ListenFails(c)
    PROVE  FileInv'
<1> USE DEF Inv
<1>1. CASE Acquire(c)
  <2>1. UNCHANGED <<file, phase, raced, faults>>
    BY <1>1 DEF Acquire, hosted
  <2>2. ~Disturbed => \A d \in Calls : pc[d] \notin {"probe", "listen"}
    BY <1>1, ReviewServerAssumption DEF Acquire, FileInv, HolderKnows
  <2>3. HolderKnows'
    BY <1>1, <2>1, <2>2 DEF Acquire, Goes, HolderKnows, Disturbed, TypeOK
  <2> QED
    BY <2>1, <2>3 DEF FileInv, Named, RemoversKnow, Disturbed
<1>2. CASE LockStolen(c)
  <2>1. Disturbed'
    BY <1>2 DEF LockStolen, Happens, Disturbed
  <2> QED
    BY <2>1 DEF FileInv, Named, HolderKnows, RemoversKnow
<1>3. CASE ProbeAnswered(c)
  <2>1. UNCHANGED <<file, phase, found, raced, faults>>
    BY <1>3 DEF ProbeAnswered
  <2>2. HolderKnows'
    BY <1>3, <2>1 DEF ProbeAnswered, Release, Goes, FileInv, HolderKnows, Disturbed, TypeOK
  <2> QED
    BY <2>1, <2>2 DEF FileInv, Named, RemoversKnow, Disturbed
<1>4. CASE ProbeFails(c)
  <2>1. Disturbed => Disturbed'
    BY <1>4, DisturbedForGood DEF ProbeFails, Happens
  <2>2. /\ file' = None /\ UNCHANGED <<phase, raced, lock>>
        /\ pc[c] = "probe" /\ pc' = [pc EXCEPT ![c] = "listen"]
        /\ found' = [found EXCEPT ![c] = None]
    BY <1>4 DEF ProbeFails, Goes, hosted
  <2>3. HolderKnows'
    BY <2>1, <2>2 DEF FileInv, HolderKnows, TypeOK
  <2>4. Disturbed' \/ ~Answers(found[c])
    BY <1>4 DEF ProbeFails, Happens, Disturbed
  <2>5. Named'
    <3> SUFFICES ASSUME NEW i \in Servers, phase[i] = "listening", ~Disturbed', i \notin raced
                 PROVE  FALSE
      BY <2>2 DEF Named
    <3>1. file = i /\ i # None
      BY <2>1, ReviewServerAssumption DEF FileInv, Named
    <3>2. found[c] = i
      BY <2>1, <2>2, <3>1 DEF FileInv, HolderKnows
    <3> QED
      BY <2>4, <3>1, <3>2 DEF Answers
  <2>6. RemoversKnow'
    BY <2>2 DEF RemoversKnow
  <2> QED
    BY <2>3, <2>5, <2>6 DEF FileInv
<1>5. CASE Listen(c)
  <2> DEFINE j == <<c, attempt[c]>>
  <2>1. /\ file' = j /\ faults' = faults
        /\ phase' = [phase EXCEPT ![j] = "listening"]
        /\ raced' = IF \E k \in Servers : phase[k] = "removing" THEN raced \cup {j} ELSE raced
        /\ file = None \/ Disturbed
    BY <1>5 DEF Listen, Goes, FileInv, HolderKnows
  <2>2. Named'
    BY <2>1, ReviewServerAssumption DEF FileInv, Named, Disturbed, TypeOK
  <2>3. RemoversKnow'
    BY <2>1 DEF RemoversKnow, TypeOK
  <2>4. HolderKnows'
    BY <1>5 DEF Listen, Release, Goes, FileInv, HolderKnows, Disturbed, TypeOK
  <2> QED
    BY <2>2, <2>3, <2>4 DEF FileInv
<1>6. CASE ListenFails(c)
  <2>1. UNCHANGED <<file, phase, found, raced>> /\ (Disturbed => Disturbed')
    BY <1>6, DisturbedForGood DEF ListenFails, Happens, hosted
  <2>2. HolderKnows'
    BY <1>6, <2>1 DEF ListenFails, Release, Goes, FileInv, HolderKnows, TypeOK
  <2> QED
    BY <2>1, <2>2 DEF FileInv, Named, RemoversKnow
<1> QED
  BY <1>1, <1>2, <1>3, <1>4, <1>5, <1>6

LEMMA FileKept ==
    ASSUME Inv, FileInv, Next
    PROVE  FileInv'
<1> USE DEF Inv
<1>1. ASSUME NEW c \in Calls,
             Start(c) \/ Begin(c) \/ Proceed(c) \/ Close(c) \/ LockTimesOut(c)
               \/ LockStolen(c) \/ ListenFails(c) \/ Refused(c) \/ GiveUp(c) \/ Aborted(c)
      PROVE  FileInv'
  BY <1>1, HolderKeepsFile, CallsAside, AsideKeeps DEF Begin, Proceed
<1>2. ASSUME NEW i \in Servers, Serve(i) \/ Visit(i) PROVE FileInv'
  <2>1. CASE CleanupRead(i)
    <3>1. /\ UNCHANGED <<file, lock, found, pc, raced, faults>>
          /\ phase' = [phase EXCEPT ![i] = IF file = i THEN "removing" ELSE "gone"]
      BY <2>1 DEF CleanupRead, client
    <3> QED
      BY <3>1 DEF FileInv, Named, HolderKnows, RemoversKnow, Disturbed, TypeOK
  <2>2. CASE CleanupRemove(i)
    <3>1. /\ UNCHANGED <<lock, found, pc, raced, faults>> /\ file' = None
          /\ phase[i] = "removing" /\ phase' = [phase EXCEPT ![i] = "gone"]
      BY <2>2 DEF CleanupRemove, client
    <3>2. Named'
      <4> SUFFICES ASSUME NEW k \in Servers, phase'[k] = "listening", ~Disturbed
                   PROVE  k \in raced
        BY <3>1 DEF Named, Disturbed
      <4>1. phase[k] = "listening" /\ k # i /\ k # None
        BY <3>1, ReviewServerAssumption DEF TypeOK
      <4>2. file \in {i, None} \cup raced /\ (file = k \/ k \in raced)
        BY <3>1, <4>1 DEF FileInv, Named, RemoversKnow
      <4> QED
        BY <4>1, <4>2
    <3>3. HolderKnows' /\ RemoversKnow'
      BY <3>1 DEF FileInv, HolderKnows, RemoversKnow, Disturbed
    <3> QED
      BY <3>2, <3>3 DEF FileInv
  <2>3. CASE Visit(i) \/ (\E r \in Calls \cup {Page} : FinishRequest(i, r))
               \/ TimerFires(i) \/ Closes(i)
    <3>1. UNCHANGED <<file, found, lock, pc, raced>> /\ faults \subseteq faults'
      BY <2>3 DEF Visit, FinishRequest, TimerFires, Closes, Happens, client, shared
    <3>2. \A j \in Servers : phase'[j] \in {"listening", "removing"} => phase[j] = phase'[j]
      BY <2>3 DEF Visit, FinishRequest, TimerFires, Closes, TypeOK
    <3> QED
      BY <3>1, <3>2, AsideKeeps DEF Aside
  <2> QED
    BY <1>2, <2>1, <2>2, <2>3 DEF Serve
<1>3. ASSUME NEW p \in Procs, Crash(p) PROVE FileInv'
  <2> DEFINE dead == {c \in Calls : host[c] = p /\ pc[c] # "idle"}
             own == {i \in Servers : HostOf(i) = p /\ phase[i] # "none"}
  <2>1. /\ UNCHANGED <<file, found, raced>> /\ faults \subseteq faults'
        /\ pc' = [c \in Calls |-> IF c \in dead THEN "crashed" ELSE pc[c]]
        /\ lock' = IF lock \in dead THEN None ELSE lock
        /\ phase' = [i \in Servers |-> IF i \in own THEN "dead" ELSE phase[i]]
    BY <1>3 DEF Crash, Happens
  <2> HIDE DEF dead, own
  <2>2. /\ \A j \in Servers : phase'[j] \in {"listening", "removing"} => phase[j] = phase'[j]
        /\ \A d \in Calls : pc'[d] \in {"probe", "listen"} =>
              pc'[d] = pc[d] /\ (lock = d => lock' = d)
        /\ Disturbed => Disturbed'
    BY <2>1, DisturbedForGood
  <2> QED
    BY <2>1, <2>2 DEF FileInv, Named, HolderKnows, RemoversKnow
<1> QED
  BY <1>1, <1>2, <1>3 DEF Next

\* Others find the server of every open review, by the state file, and share it,
\* however servers come and go: unless a probe was too slow, the lock was stolen, or
\* the server was announced between another's look at the file and its removal of it
\* (SessionsFound).
THEOREM ReviewsAreFound == Spec => []SessionsFound
<1>1. Init => FileInv
  BY DEF Init, FileInv, Named, HolderKnows, RemoversKnow
<1>2. Inv /\ FileInv /\ [Next]_vars => FileInv'
  <2>1. ASSUME FileInv, UNCHANGED vars PROVE FileInv'
    BY <2>1 DEF FileInv, Named, HolderKnows, RemoversKnow, Disturbed, vars, client, shared, hosted
  <2> QED
    BY <2>1, FileKept
<1>3. Inv /\ FileInv => SessionsFound
  BY DEF Inv, Known, FileInv, Named, SessionsFound
<1> QED
  BY ReviewServerInvariant, <1>1, <1>2, <1>3, PTL DEF Spec
=============================================================================
