-------------------------- MODULE ArtifactGeneration --------------------------
(***************************************************************************)
(* Generation of an artifact for an AGENT route, lib/operate/generator.mjs:*)
(* the session, a document every operation takes and returns anew or       *)
(* throws, and runOperatingArtifactGeneration, which calls a generator     *)
(* again and again until one answer passes.                                *)
(*                                                                         *)
(* The generator is a callback of the caller.  It answers when it likes,   *)
(* also after its attempt timed out and another is under way, or never.    *)
(* An answer is good, over a budget, unfit (refused by the output checks)  *)
(* or an error.  Templates and the checks of the content are left out.     *)
(***************************************************************************)
EXTENDS Naturals, Sequences, FiniteSets

CONSTANTS MaxAttempts,   \* MAX_ATTEMPTS, 3
          MaxRuns        \* bound: runs of one session

ASSUME GenerationAssumption == MaxAttempts \in Nat \ {0} /\ MaxRuns \in Nat

VARIABLES
    document,    \* the session as the caller holds it
    session,     \* the session as the run under way holds it
    running,     \* whether a run awaits an answer or the time limit
    runs,
    calls        \* the calls of the generator, by all runs, oldest first

vars == <<document, session, running, runs, calls>>

SessionStates == {"prepared", "generating", "validated", "committed", "failed",
                  "cancelled"}

FailureCodes == {"E_OPERATE_ARTIFACT_BUDGET_EXCEEDED",
                 "E_OPERATE_ARTIFACT_OUTPUT_INVALID",
                 "E_OPERATE_ARTIFACT_GENERATION_FAILED"}

Answers == {"good", "over budget", "unfit", "error"}

\* A session: its output is the number of the call that answered it.
Session == [state : SessionStates, attempt : 0..MaxAttempts, max : 1..MaxAttempts,
            failure : FailureCodes \cup {"none"}, output : Nat]

\* A call: what it answered so far, whether its time is up, whether it answered
\* after that, and whether the run gave up on it and aborted it.
Call == [run : Nat, attempt : 1..MaxAttempts, answer : Answers \cup {"none"},
         overdue : BOOLEAN, late : BOOLEAN, aborted : BOOLEAN]

----------------------------------------------------------------------------
\* Operations on a session.  Each is defined where its transition is allowed.

Prepared(max) == [state |-> "prepared", attempt |-> 0, max |-> max,
                  failure |-> "none", output |-> 0]

Started(s) == [s EXCEPT !.state = "generating", !.attempt = @ + 1]

Validated(s, call) == [s EXCEPT !.state = "validated", !.output = call]

Committed(s) == [s EXCEPT !.state = "committed"]

Failed(s, code) == [s EXCEPT !.state = "failed", !.failure = code]

\* Mutant: one attempt too many.
MayResumeOneMore(s) == s.state = "failed" /\ s.attempt <= s.max

MayResume(s) == s.state = "failed" /\ s.attempt < s.max

Resumed(s) == [s EXCEPT !.state = "prepared", !.failure = "none"]

Cancelled(s) == [s EXCEPT !.state = "cancelled"]

----------------------------------------------------------------------------
Init ==
    /\ document \in {Prepared(max) : max \in 1..MaxAttempts}
    /\ session = document
    /\ running = FALSE
    /\ runs = 0
    /\ calls = <<>>

\* The caller works on its document step by step, while no run is under way.
\* What it generates itself counts as call 0.
ByHand ==
    /\ ~running
    /\ \/ /\ document.state = "prepared"
          /\ document' = Started(document)
       \/ /\ document.state = "generating"
          /\ \/ document' = Validated(document, 0)
             \/ \E code \in FailureCodes : document' = Failed(document, code)
       \/ /\ document.state = "validated"
          /\ document' = Committed(document)
       \/ /\ MayResume(document)
          /\ document' = Resumed(document)
       \/ /\ document.state \in {"prepared", "generating", "failed"}
          /\ document' = Cancelled(document)
    /\ UNCHANGED <<session, running, runs, calls>>

NewCall(run, attempt) ==
    [run |-> run, attempt |-> attempt, answer |-> "none",
     overdue |-> FALSE, late |-> FALSE, aborted |-> FALSE]

\* The next attempt starts and calls the generator.
Attempt(s, run, made) ==
    /\ session' = Started(s)
    /\ running' = TRUE
    /\ calls' = Append(made, NewCall(run, s.attempt + 1))
    /\ UNCHANGED document

\* A run on a session that is prepared or may be resumed; on another it throws.
Run ==
    /\ ~running
    /\ runs < MaxRuns
    /\ runs' = runs + 1
    /\ document.state = "prepared" \/ MayResume(document)
    /\ Attempt(IF document.state = "failed" THEN Resumed(document) ELSE document,
               runs + 1, calls)

\* The attempt fails.  The last one ends the run by throwing, and the caller
\* keeps the document it had.
AttemptFails(code, made) ==
    LET failed == Failed(session, code)
    IN  /\ UNCHANGED runs
        /\ IF failed.attempt >= failed.max
           THEN /\ session' = failed
                /\ running' = FALSE
                /\ calls' = made
                /\ UNCHANGED document
           ELSE Attempt(Resumed(failed), runs, made)

\* The call whose answer the run awaits: an earlier one lost its race.
Awaited(c) == running /\ c = Len(calls)

\* Mutant: a late answer is as good as any.
PassesLate(answer, late) == answer = "good"

\* The checks of an answer: its time, its budgets and its content.
Passes(answer, late) == answer = "good" /\ ~late

\* An error is one whenever it comes before the timer fires; the code it may bring
\* of its own is left out.
CodeOf(answer, late) ==
    CASE answer = "error"               -> "E_OPERATE_ARTIFACT_GENERATION_FAILED"
      [] late \/ answer = "over budget" -> "E_OPERATE_ARTIFACT_BUDGET_EXCEEDED"
      [] OTHER                          -> "E_OPERATE_ARTIFACT_OUTPUT_INVALID"

\* A call answers.  If the run awaits it the answer is checked and, when it
\* passes, validated and committed at once; if not it is dropped.
Answer(c, answer) ==
    LET late == calls[c].overdue
        made == [calls EXCEPT ![c] = [@ EXCEPT !.answer = answer, !.late = late]]
    IN  /\ calls[c].answer = "none"
        /\ IF ~Awaited(c)
           THEN calls' = made /\ UNCHANGED <<document, session, running, runs>>
           ELSE IF Passes(answer, late)
           THEN /\ document' = Committed(Validated(session, c))
                /\ running' = FALSE
                /\ calls' = made
                /\ UNCHANGED <<session, runs>>
           ELSE AttemptFails(CodeOf(answer, late), made)

\* The time of the call awaited is up.  The timer fires after that, and its
\* answer may come first.
TimePasses ==
    /\ running
    /\ ~calls[Len(calls)].overdue
    /\ calls' = [calls EXCEPT ![Len(calls)].overdue = TRUE]
    /\ UNCHANGED <<document, session, running, runs>>

\* Mutant: without the timer only an answer ends the wait.
NoTimer == FALSE /\ UNCHANGED vars

\* The timer fires: the attempt fails and its call is aborted.
TimeOut ==
    /\ running
    /\ calls[Len(calls)].overdue
    /\ AttemptFails("E_OPERATE_ARTIFACT_BUDGET_EXCEEDED",
                    [calls EXCEPT ![Len(calls)].aborted = TRUE])

Next ==
    \/ ByHand
    \/ Run
    \/ \E c \in DOMAIN calls, answer \in Answers : Answer(c, answer)
    \/ TimePasses
    \/ TimeOut

Spec == Init /\ [][Next]_vars

\* Time passes and timers fire; that a generator answers nobody promises.
FairSpec == Spec /\ WF_vars(TimePasses) /\ WF_vars(TimeOut)

----------------------------------------------------------------------------
\* Properties.

TypeOK ==
    /\ document \in Session
    /\ session \in Session
    /\ running \in BOOLEAN
    /\ runs \in 0..MaxRuns
    /\ calls \in Seq(Call)

\* What a run commits is the answer of the call it awaited, given in time and
\* good; no call before it in that run passed, and none is after it.
\* (lib/operate/generator.mjs:433-535)
CommittedWhatPassed ==
    \A c \in DOMAIN calls : document.state = "committed" /\ document.output = c =>
        /\ calls[c].answer = "good" /\ ~calls[c].late
        /\ calls[c].attempt = document.attempt
        /\ \A d \in DOMAIN calls : calls[d].run = calls[c].run /\ d # c =>
              d < c /\ (calls[d].aborted \/ calls[d].answer # "none")

\* A run makes at most as many calls as the session has attempts left, and a
\* new one only when the one before has answered or was aborted.
CallsBounded ==
    \A c \in DOMAIN calls :
        /\ calls[c].attempt <= document.max
        /\ \A d \in DOMAIN calls :
              c < d => /\ calls[c].aborted \/ calls[c].answer # "none"
                       /\ calls[c].run = calls[d].run =>
                             calls[c].attempt < calls[d].attempt

\* Every run ends, whatever its generators do: the time limit bounds each
\* attempt and the attempts are bounded.
RunEnds == running ~> ~running
=============================================================================
