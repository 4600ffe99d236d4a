----------------------------- MODULE ReviewServer -----------------------------
(***************************************************************************)
(* The local review server (lib/artifact/review-server.mjs): calls of      *)
(* startArtifactReview, of one process or of several, that find the        *)
(* running server by its state file or start one, register a session with  *)
(* it, try once more when it went away meanwhile, and close their session; *)
(* and the server, which ends by itself when it has been idle for a while. *)
(*                                                                         *)
(* A call does one review.  A server is named after the attempt of the     *)
(* call that started it.  The start lock excludes until it is stolen from  *)
(* its holder: StartLock has the details of that, and ReviewStore what a   *)
(* session does with its ledger.                                           *)
(***************************************************************************)
EXTENDS Naturals, FiniteSets

CONSTANTS Calls, Procs,
          Hosts,       \* how the calls are spread over processes
          Page,        \* a request of a page
          None,
          MaxVisits,   \* bound: requests of pages
          MaxFaults    \* bound: kinds of disturbance that happen

Servers == Calls \X {0, 1}

ASSUME ReviewServerAssumption ==
    /\ Hosts \subseteq [Calls -> Procs]
    /\ Page \notin Calls /\ None \notin Calls \cup Servers

VARIABLES
    pc,        \* where each call is
    attempt,   \* its attempt
    found,     \* the server that it found by the state file
    server,    \* the server it registers with
    lock,      \* the call that holds the start lock
    file,      \* the server that the state file names
    cached,    \* the server that a process knows to be its own
    phase,     \* of each server
    sessions,  \* of each server
    pending,   \* the registrations a server works on
    active,    \* the requests a server has not answered completely
    timer,     \* whether its idle timer runs
    host,      \* the process of each call
    visits,    \* the requests of pages so far
    faults,    \* history: the kinds of disturbance that happened
    raced      \* history: the servers announced while another process removed a name

client == <<pc, attempt, found, server>>
shared == <<lock, file, cached>>
hosted == <<phase, sessions, pending, active, timer>>
vars == <<client, shared, hosted, host, visits, faults, raced>>

Init ==
    /\ pc = [c \in Calls |-> "idle"]
    /\ attempt = [c \in Calls |-> 0]
    /\ found = [c \in Calls |-> None]
    /\ server = [c \in Calls |-> None]
    /\ lock = None /\ file = None
    /\ cached = [p \in Procs |-> None]
    /\ phase = [i \in Servers |-> "none"]
    /\ sessions = [i \in Servers |-> {}]
    /\ pending = [i \in Servers |-> {}]
    /\ active = [i \in Servers |-> {}]
    /\ timer = [i \in Servers |-> FALSE]
    /\ host \in Hosts /\ visits = 0 /\ faults = {} /\ raced = {}

HostOf(i) == host[i[1]]

Happens(kind) ==
    /\ Cardinality(faults \cup {kind}) <= MaxFaults
    /\ faults' = faults \cup {kind}

Goes(c, from, to) ==
    /\ pc[c] = from
    /\ pc' = [pc EXCEPT ![c] = to]

\* The descriptor of a server that a call found by the file is that of another's,
\* even if it runs in the same process.
Local(c) == server[c] # None /\ found[c] # server[c]

\* Reading the state file and removing it is one turn of a process: none of its
\* calls sees the file in between.
InTurn(c) == \A i \in Servers : HostOf(i) = host[c] => phase[i] # "removing"

\* release() removes the lock file only if it is still the caller's own.
Release(c) == lock' = IF lock = c THEN None ELSE lock

Answers(i) == i # None /\ phase[i] = "listening"

Idle(i) == sessions[i] = {} /\ pending[i] = {} /\ active[i] = {}

----------------------------------------------------------------------------
\* ensureArtifactReviewServer.

Start(c) ==
    /\ Goes(c, "idle", "ensure")
    /\ UNCHANGED <<attempt, found, server, shared, hosted, host, visits, faults, raced>>

\* The process has a server of its own: it is used, or its end awaited.
Ensure(c) ==
    LET own == cached[host[c]]
    IN  /\ \/ /\ own = None
              /\ Goes(c, "ensure", "lock")
              /\ UNCHANGED server
           \/ /\ own # None /\ phase[own] = "listening"
              /\ Goes(c, "ensure", "post")
              /\ server' = [server EXCEPT ![c] = own]
           \/ /\ own # None /\ phase[own] # "listening"
              /\ Goes(c, "ensure", "wait")
              /\ server' = [server EXCEPT ![c] = own]
        /\ found' = [found EXCEPT ![c] = None]
        /\ UNCHANGED <<attempt, shared, hosted, host, visits, faults, raced>>

WaitClosed(c) ==
    /\ Goes(c, "wait", "lock")
    /\ phase[server[c]] \in {"closed", "removing", "gone"}
    /\ UNCHANGED <<attempt, found, server, shared, hosted, host, visits, faults, raced>>

Acquire(c) ==
    /\ lock = None /\ InTurn(c)
    /\ lock' = c
    /\ Goes(c, "lock", "probe")
    /\ found' = [found EXCEPT ![c] = file]
    /\ UNCHANGED <<attempt, server, file, cached, hosted, host, visits, faults, raced>>

LockTimesOut(c) ==
    /\ lock # None
    /\ Happens("lock busy")
    /\ Goes(c, "lock", "failed")
    /\ UNCHANGED <<attempt, found, server, shared, hosted, host, visits, raced>>

\* A call that waits for the lock removes its file under a holder that lives, which
\* it took for that of a dead one (StartLock says how).
LockStolen(c) ==
    /\ lock = c /\ pc[c] \in {"probe", "listen"}
    /\ \E d \in Calls : pc[d] = "lock"
    /\ Happens("lock stolen")
    /\ lock' = None
    /\ UNCHANGED <<client, file, cached, hosted, host, visits, raced>>

\* scheduleEmpty, at the end of a request: the timer of a server that is left idle.
Scheduled(i) ==
    \/ timer[i]
    \/ phase[i] = "listening" /\ sessions[i] = {} /\ pending[i] = {} /\ active'[i] = {}

\* The server the file names answers /health, and is used.
ProbeAnswered(c) ==
    LET i == found[c]
    IN  /\ Goes(c, "probe", "post")
        /\ Answers(i)
        /\ server' = [server EXCEPT ![c] = i]
        /\ Release(c)
        /\ UNCHANGED active
        /\ timer' = [timer EXCEPT ![i] = Scheduled(i)]
        /\ UNCHANGED <<attempt, found, file, cached, phase, sessions, pending, host, visits, faults, raced>>

\* No server answers, or not in time: the file is removed.
ProbeFails(c) ==
    /\ Goes(c, "probe", "listen") /\ InTurn(c)
    /\ IF Answers(found[c]) THEN Happens("slow probe") ELSE UNCHANGED faults
    /\ file' = None
    /\ found' = [found EXCEPT ![c] = None]
    /\ UNCHANGED <<attempt, server, lock, cached, hosted, host, visits, raced>>

\* A server of its own listens and is announced.
Listen(c) ==
    LET i == <<c, attempt[c]>>
    IN  /\ Goes(c, "listen", "post") /\ InTurn(c)
        /\ server' = [server EXCEPT ![c] = i]
        /\ phase' = [phase EXCEPT ![i] = "listening"]
        /\ file' = i
        /\ cached' = [cached EXCEPT ![host[c]] = i]
        /\ raced' = IF \E j \in Servers : phase[j] = "removing" THEN raced \cup {i} ELSE raced
        /\ Release(c)
        /\ UNCHANGED <<attempt, found, sessions, pending, active, timer, host, visits, faults>>

\* Mutant: the lock is not released when the server cannot listen.
ListenFailsLocked(c) ==
    /\ Happens("port in use")
    /\ Goes(c, "listen", "failed")
    /\ UNCHANGED <<attempt, found, server, shared, hosted, host, visits, raced>>

ListenFails(c) ==
    /\ Happens("port in use")
    /\ Goes(c, "listen", "failed")
    /\ Release(c)
    /\ UNCHANGED <<attempt, found, server, file, cached, hosted, host, visits, raced>>

----------------------------------------------------------------------------
\* startArtifactReview, and the handler of a registration.

\* POST internal/v1/sessions reaches the server, which reads its body, ...
Post(c) ==
    LET i == server[c]
    IN  /\ Goes(c, "post", "registering")
        /\ phase[i] = "listening"
        /\ pending' = [pending EXCEPT ![i] = @ \cup {c}]
        /\ active' = [active EXCEPT ![i] = @ \cup {c}]
        /\ UNCHANGED <<attempt, found, server, shared, phase, sessions, timer,
                       host, visits, faults, raced>>

\* ... initializes the review and keeps the session, also of a client that is gone.
Registered(c) ==
    LET i == server[c]
    IN  /\ Answers(i) /\ c \in pending[i]
        /\ pending' = [pending EXCEPT ![i] = @ \ {c}]
        /\ sessions' = [sessions EXCEPT ![i] = @ \cup {c}]
        /\ pc' = [pc EXCEPT ![c] = IF @ = "registering" THEN "open" ELSE @]
        /\ UNCHANGED <<attempt, found, server, shared, phase, active, timer,
                       host, visits, faults, raced>>

\* The registration is not valid, or its review cannot be initialized: an answer
\* without a code counts as one of a server that restarts.
Refused(c) ==
    LET i == server[c]
    IN  /\ Answers(i) /\ c \in pending[i]
        /\ Happens("refused")
        /\ \E reason \in {"error", "restart"} : Goes(c, "registering", reason)
        /\ pending' = [pending EXCEPT ![i] = @ \ {c}]
        /\ UNCHANGED <<attempt, found, server, shared, phase, sessions, active, timer,
                       host, visits, raced>>

\* Nobody listens any more.
Unreachable(c) ==
    /\ Goes(c, "post", "error") \/ Goes(c, "registering", "error")
    /\ phase[server[c]] # "listening"
    /\ UNCHANGED <<attempt, found, server, shared, hosted, host, visits, faults, raced>>

\* The server restarts, or is the process's own and went away: once, that is
\* waited for, at most a second, and all begins anew.  Otherwise the call fails,
\* and takes a server of its own that is idle along.
MayRetry(c) ==
    /\ attempt[c] = 0
    /\ pc[c] = "restart" \/ (Local(c) /\ phase[server[c]] # "listening")

Retry(c) ==
    /\ pc[c] \in {"error", "restart"} /\ MayRetry(c)
    /\ pc' = [pc EXCEPT ![c] = "ensure"]
    /\ attempt' = [attempt EXCEPT ![c] = 1]
    /\ UNCHANGED <<found, server, shared, hosted, host, visits, faults, raced>>

Fails(c) ==
    LET i == server[c]
    IN  /\ pc[c] \in {"error", "restart"} /\ ~MayRetry(c)
        /\ pc' = [pc EXCEPT ![c] = "failed"]
        /\ IF Local(c) /\ phase[i] = "listening" /\ Idle(i)
           THEN /\ phase' = [phase EXCEPT ![i] = "closing"]
                /\ timer' = [timer EXCEPT ![i] = FALSE]
           ELSE UNCHANGED <<phase, timer>>
        /\ UNCHANGED <<attempt, found, server, shared, sessions, pending, active,
                       host, visits, faults, raced>>

\* The client waits no longer: its connection closes and ends the request.
GiveUp(c) ==
    LET i == server[c]
    IN  /\ Goes(c, "registering", "failed")
        /\ c \in pending[i]
        /\ Happens("gave up")
        /\ active' = [active EXCEPT ![i] = @ \ {c}]
        /\ UNCHANGED <<attempt, found, server, shared, phase, sessions, pending, timer,
                       host, visits, raced>>

\* The body of a registration whose client is gone stays incomplete.
Aborted(c) ==
    LET i == server[c]
    IN  /\ i # None /\ c \in pending[i] /\ pc[c] \in {"failed", "crashed"}
        /\ pending' = [pending EXCEPT ![i] = @ \ {c}]
        /\ UNCHANGED <<client, shared, phase, sessions, active, timer, host, visits, faults, raced>>

\* DELETE of the session, and the answer to it.
Close(c) ==
    LET i == server[c]
    IN  /\ Goes(c, "open", "closing")
        /\ phase[i] = "listening" /\ c \notin active[i]
        /\ active' = [active EXCEPT ![i] = @ \cup {c}]
        /\ UNCHANGED <<attempt, found, server, shared, phase, sessions, pending, timer,
                       host, visits, faults, raced>>

Deleted(c) ==
    LET i == server[c]
    IN  /\ Goes(c, "closing", "done")
        /\ phase[i] = "listening"
        /\ sessions' = [sessions EXCEPT ![i] = @ \ {c}]
        /\ UNCHANGED <<attempt, found, server, shared, phase, pending, active, timer,
                       host, visits, faults, raced>>

----------------------------------------------------------------------------
\* The server.

\* A page asks for something.
Visit(i) ==
    /\ phase[i] = "listening"
    /\ visits < MaxVisits /\ visits' = visits + 1
    /\ Happens("visit")
    /\ active' = [active EXCEPT ![i] = @ \cup {Page}]
    /\ UNCHANGED <<client, shared, phase, sessions, pending, timer, host, raced>>

Answered(i, r) ==
    /\ phase[i] = "listening"
    /\ r \in active[i] \ (pending[i] \cup {c \in Calls : pc[c] = "closing"})

\* Mutant: nobody looks whether the server became idle.
FinishRequestOnly(i, r) ==
    /\ Answered(i, r)
    /\ active' = [active EXCEPT ![i] = @ \ {r}]
    /\ UNCHANGED <<client, shared, phase, sessions, pending, timer, host, visits, faults, raced>>

\* A request is answered completely: if that leaves the server idle, its timer starts.
FinishRequest(i, r) ==
    /\ Answered(i, r)
    /\ active' = [active EXCEPT ![i] = @ \ {r}]
    /\ timer' = [timer EXCEPT ![i] = Scheduled(i)]
    /\ UNCHANGED <<client, shared, phase, sessions, pending, host, visits, faults, raced>>

\* Mutant: who set the timer saw an idle server, and that is enough.
TimerFiresBlindly(i) ==
    /\ timer[i] /\ phase[i] = "listening"
    /\ timer' = [timer EXCEPT ![i] = FALSE]
    /\ phase' = [phase EXCEPT ![i] = "closing"]
    /\ UNCHANGED <<client, shared, sessions, pending, active, host, visits, faults, raced>>

\* The timer: an idle server takes no more requests and closes.
TimerFires(i) ==
    /\ timer[i] /\ phase[i] = "listening"
    /\ timer' = [timer EXCEPT ![i] = FALSE]
    /\ phase' = [phase EXCEPT ![i] = IF Idle(i) THEN "closing" ELSE @]
    /\ UNCHANGED <<client, shared, sessions, pending, active, host, visits, faults, raced>>

\* The last connection is closed, which is what others wait for ...
Closes(i) ==
    /\ phase[i] = "closing"
    /\ phase' = [phase EXCEPT ![i] = "closed"]
    /\ UNCHANGED <<client, shared, sessions, pending, active, timer, host, visits, faults, raced>>

Forget(i) == cached' = [cached EXCEPT ![HostOf(i)] = IF @ = i THEN None ELSE @]

\* Mutant: the file is removed whoever wrote it.
CleanupReadAny(i) ==
    /\ phase[i] = "closed"
    /\ phase' = [phase EXCEPT ![i] = "removing"]
    /\ UNCHANGED <<client, shared, sessions, pending, active, timer, host, visits, faults, raced>>

\* ... and then its state file is read ...
CleanupRead(i) ==
    /\ phase[i] = "closed"
    /\ phase' = [phase EXCEPT ![i] = IF file = i THEN "removing" ELSE "gone"]
    /\ IF file = i THEN UNCHANGED cached ELSE Forget(i)
    /\ UNCHANGED <<client, lock, file, sessions, pending, active, timer, host, visits,
                   faults, raced>>

\* ... and, if that was its own, removed: whatever another process wrote meanwhile.
CleanupRemove(i) ==
    /\ phase[i] = "removing"
    /\ phase' = [phase EXCEPT ![i] = "gone"]
    /\ file' = None
    /\ Forget(i)
    /\ UNCHANGED <<client, lock, sessions, pending, active, timer, host, visits, faults, raced>>

\* A process dies, with its calls and servers: its lock is taken from it by the next
\* who wants it, and its requests elsewhere break off, as those of one who gave up.
\* A process that takes its place may make the calls that were not made yet.
Crash(p) ==
    LET dead == {c \in Calls : host[c] = p /\ pc[c] # "idle"}
        own == {i \in Servers : HostOf(i) = p /\ phase[i] # "none"}
        Without(f, none) == [i \in Servers |-> IF i \in own THEN none ELSE f[i]]
    IN  /\ \E c \in dead : pc[c] # "crashed"
        /\ Happens(IF \E c \in dead : pc[c] = "registering" THEN "gave up" ELSE "crash")
        /\ pc' = [c \in Calls |-> IF c \in dead THEN "crashed" ELSE pc[c]]
        /\ lock' = IF lock \in dead THEN None ELSE lock
        /\ cached' = [cached EXCEPT ![p] = None]
        /\ phase' = Without(phase, "dead")
        /\ sessions' = Without(sessions, {}) /\ pending' = Without(pending, {})
        /\ active' = [i \in Servers |-> IF i \in own THEN {} ELSE active[i] \ dead]
        /\ timer' = [i \in Servers |-> i \notin own /\ IF active'[i] = active[i] THEN timer[i]
                                                       ELSE Scheduled(i)]
        /\ UNCHANGED <<attempt, found, server, file, host, visits, raced>>

----------------------------------------------------------------------------
Begin(c) == Ensure(c) \/ WaitClosed(c) \/ Acquire(c) \/ ProbeAnswered(c)
            \/ ProbeFails(c) \/ Listen(c)

Proceed(c) == Post(c) \/ Registered(c) \/ Unreachable(c) \/ Retry(c) \/ Fails(c) \/ Deleted(c)

Serve(i) == TimerFires(i) \/ Closes(i) \/ CleanupRead(i) \/ CleanupRemove(i)
            \/ \E r \in Calls \cup {Page} : FinishRequest(i, r)

Next ==
    \/ \E c \in Calls :
        \/ Start(c) \/ Begin(c) \/ Proceed(c) \/ Close(c)
        \/ LockTimesOut(c) \/ LockStolen(c) \/ ListenFails(c) \/ Refused(c) \/ GiveUp(c) \/ Aborted(c)
    \/ \E i \in Servers : Serve(i) \/ Visit(i)
    \/ \E p \in Procs : Crash(p)

Spec == Init /\ [][Next]_vars

\* What is under way goes on: calls, requests, timers and closing.  Nobody has to
\* start or close a review, and no fault has to happen.
FairSpec ==
    /\ Spec
    /\ \A c \in Calls : WF_vars(Begin(c) \/ Proceed(c))
    /\ \A i \in Servers : WF_vars(Serve(i))

----------------------------------------------------------------------------
\* Properties.

TypeOK ==
    /\ host \in [Calls -> Procs]
    /\ pc \in [Calls -> {"idle", "ensure", "wait", "lock", "probe", "listen", "post",
                         "registering", "error", "restart", "open", "closing", "done", "failed", "crashed"}]
    /\ attempt \in [Calls -> {0, 1}]
    /\ found \in [Calls -> Servers \cup {None}] /\ server \in [Calls -> Servers \cup {None}]
    /\ lock \in Calls \cup {None} /\ file \in Servers \cup {None}
    /\ cached \in [Procs -> Servers \cup {None}]
    /\ phase \in [Servers -> {"none", "listening", "closing", "closed", "removing", "gone", "dead"}]
    /\ sessions \in [Servers -> SUBSET Calls] /\ pending \in [Servers -> SUBSET Calls]
    /\ active \in [Servers -> SUBSET (Calls \cup {Page})]
    /\ timer \in [Servers -> BOOLEAN]
    /\ raced \subseteq Servers

\* The last close cannot race a new registration: a review that was opened is
\* served until it is closed, unless the process of the server dies, however the
\* idle timer, registrations and other closes interleave.
SessionsServed ==
    \A c \in Calls : pc[c] = "open" =>
        \/ phase[server[c]] = "dead"
        \/ phase[server[c]] = "listening" /\ c \in sessions[server[c]]

\* What may part a server from its name: a probe that was too slow, or two starts at
\* once, after a waiter stole the lock.
Disturbed == faults \cap {"slow probe", "lock stolen"} # {}

\* The state file names the server of every open review, so that others find it
\* (exportArtifactReviewSession) and share it: no server that goes away, no crash
\* and no failed start takes another's name away.  What can: a probe that was too
\* slow, a stolen lock, and a server's end, of the name that another process writes
\* just between its look at the file and its removal of it.
SessionsFound ==
    \A c \in Calls : pc[c] = "open" /\ phase[server[c]] = "listening" =>
        file = server[c] \/ server[c] \in raced \/ Disturbed

\* A start ends: with an open review, or it fails.
StartsEnd ==
    \A c \in Calls : pc[c] = "ensure" ~> pc[c] \in {"open", "failed", "crashed"}

\* A server does not stay without a review for ever, unless a client went away in
\* the middle of its registration.
EmptyServersEnd ==
    \A i \in Servers :
        []<>(\/ phase[i] # "listening" \/ sessions[i] # {}
             \/ "gave up" \in faults)
=============================================================================
