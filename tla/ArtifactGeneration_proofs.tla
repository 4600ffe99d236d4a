---------------------- MODULE ArtifactGeneration_proofs ----------------------
(***************************************************************************)
(* Proofs about ArtifactGeneration, for any number of attempts and runs.   *)
(* Every call but the one the run awaits is settled: it has answered or    *)
(* was aborted, so what it answers later reaches no document.              *)
(***************************************************************************)
EXTENDS ArtifactGeneration, TLAPS

Settled(c) == calls[c].aborted \/ calls[c].answer # "none"

\* The run awaits the last call, made for the attempt its session is at.
Awaiting ==
    running =>
        LET n == Len(calls)
        IN  /\ n \in DOMAIN calls
            /\ ~Settled(n)
            /\ calls[n].run = runs
            /\ calls[n].attempt = session.attempt
            /\ session.max = document.max
            /\ session.state = "generating"
            /\ document.state \in {"prepared", "failed"}

OthersSettled == \A c \in DOMAIN calls : Settled(c) \/ (running /\ c = Len(calls))

\* Calls are made in the order of their runs, and in a run of its attempts.
InOrder ==
    /\ \A c \in DOMAIN calls : calls[c].run <= runs /\ calls[c].attempt <= document.max
    /\ \A c, d \in DOMAIN calls :
          c < d => /\ calls[c].run <= calls[d].run
                   /\ calls[c].run = calls[d].run => calls[c].attempt < calls[d].attempt

\* A document that is prepared has an attempt left; one validated by hand names
\* no call.
DocumentSound ==
    /\ document.state = "prepared" => document.attempt < document.max
    /\ document.attempt <= document.max
    /\ document.state = "validated" => document.output = 0

Inv == /\ TypeOK /\ Awaiting /\ OthersSettled /\ InOrder /\ DocumentSound
       /\ CommittedWhatPassed

----------------------------------------------------------------------------
\* The operations on a session keep its type and change the fields they name.
LEMMA SessionFields ==
    ASSUME NEW s \in Session
    PROVE  /\ s.state \in SessionStates
           /\ s.attempt \in Nat /\ s.max \in Nat /\ s.max \in 1..MaxAttempts
           /\ s.output \in Nat /\ s.failure \in FailureCodes \cup {"none"}
  BY GenerationAssumption DEF Session

LEMMA StartedFields ==
    ASSUME NEW s \in Session, s.attempt < s.max
    PROVE  /\ Started(s) \in Session
           /\ Started(s).state = "generating" /\ Started(s).attempt = s.attempt + 1
           /\ Started(s).max = s.max
<1> DEFINE next == s.attempt + 1
<1>1. next \in 0..MaxAttempts
  BY GenerationAssumption DEF Session
<1>2. Started(s) = [s EXCEPT !.state = "generating", !.attempt = next]
  BY DEF Started
<1> HIDE DEF next
<1>3. /\ Started(s) \in Session
      /\ Started(s).state = "generating" /\ Started(s).attempt = next
      /\ Started(s).max = s.max
  BY <1>1, <1>2 DEF Session, SessionStates
<1> QED
  BY <1>3 DEF next

LEMMA ValidatedFields ==
    ASSUME NEW s \in Session, NEW c \in Nat
    PROVE  /\ Validated(s, c) \in Session
           /\ Validated(s, c).state = "validated" /\ Validated(s, c).output = c
           /\ Validated(s, c).attempt = s.attempt /\ Validated(s, c).max = s.max
  BY DEF Session, Validated, SessionStates

LEMMA CommittedFields ==
    ASSUME NEW s \in Session
    PROVE  /\ Committed(s) \in Session
           /\ Committed(s).state = "committed" /\ Committed(s).output = s.output
           /\ Committed(s).attempt = s.attempt /\ Committed(s).max = s.max
  BY DEF Session, Committed, SessionStates

LEMMA FailedFields ==
    ASSUME NEW s \in Session, NEW code \in FailureCodes
    PROVE  /\ Failed(s, code) \in Session
           /\ Failed(s, code).state = "failed"
           /\ Failed(s, code).attempt = s.attempt /\ Failed(s, code).max = s.max
  BY DEF Session, Failed, SessionStates

LEMMA ResumedFields ==
    ASSUME NEW s \in Session
    PROVE  /\ Resumed(s) \in Session
           /\ Resumed(s).state = "prepared"
           /\ Resumed(s).attempt = s.attempt /\ Resumed(s).max = s.max
  BY DEF Session, Resumed, SessionStates

LEMMA CancelledFields ==
    ASSUME NEW s \in Session
    PROVE  /\ Cancelled(s) \in Session
           /\ Cancelled(s).state = "cancelled"
           /\ Cancelled(s).attempt = s.attempt /\ Cancelled(s).max = s.max
  BY DEF Session, Cancelled, SessionStates

LEMMA CallFields ==
    ASSUME NEW c \in Call
    PROVE  /\ c.run \in Nat /\ c.attempt \in Nat /\ c.answer \in Answers \cup {"none"}
           /\ c.overdue \in BOOLEAN /\ c.late \in BOOLEAN /\ c.aborted \in BOOLEAN
  BY DEF Call

LEMMA NewCallFields ==
    ASSUME NEW run \in Nat, NEW attempt \in 1..MaxAttempts
    PROVE  /\ NewCall(run, attempt) \in Call
           /\ NewCall(run, attempt).run = run /\ NewCall(run, attempt).attempt = attempt
           /\ NewCall(run, attempt).answer = "none" /\ ~NewCall(run, attempt).aborted
  BY DEF NewCall, Call

\* What changes of the calls when call k becomes new.
LEMMA OneCallChanges ==
    ASSUME NEW s \in Seq(Call), NEW k \in DOMAIN s, NEW new \in Call,
           NEW made, made = [s EXCEPT ![k] = new]
    PROVE  /\ made \in Seq(Call) /\ Len(made) = Len(s) /\ DOMAIN made = DOMAIN s
           /\ made[k] = new
           /\ \A c \in DOMAIN s : c # k => made[c] = s[c]
  OBVIOUS

----------------------------------------------------------------------------
LEMMA InitInv == Init => Inv
<1> SUFFICES ASSUME Init
             PROVE  Inv
  OBVIOUS
<1>1. PICK max \in 1..MaxAttempts : document = Prepared(max)
  BY DEF Init
<1>2. /\ document \in Session /\ document.state = "prepared"
      /\ document.attempt = 0 /\ document.max = max
  BY <1>1, GenerationAssumption DEF Prepared, Session, SessionStates
<1>3. /\ session = document /\ running = FALSE /\ runs = 0 /\ calls = <<>>
      /\ calls \in Seq(Call) /\ DOMAIN calls = {}
  BY DEF Init
<1>4. TypeOK
  <2>1. runs \in 0..MaxRuns
    BY <1>3, GenerationAssumption
  <2> QED
    BY <1>2, <1>3, <2>1 DEF TypeOK
<1>5. DocumentSound
  BY <1>2, GenerationAssumption DEF DocumentSound
<1> QED
  BY <1>2, <1>3, <1>4, <1>5
     DEF Inv, Awaiting, OthersSettled, InOrder, CommittedWhatPassed

\* Steps of the caller's own change the document only.
LEMMA ByHandInv ==
    ASSUME Inv, ByHand
    PROVE  Inv'
<1> USE DEF Inv
<1>1. /\ ~running
      /\ session' = session /\ running' = running /\ runs' = runs /\ calls' = calls
      /\ document \in Session
  BY DEF ByHand, TypeOK
<1>2. /\ document.attempt \in Nat /\ document.max \in Nat
      /\ document.attempt <= document.max
  BY <1>1, SessionFields DEF DocumentSound
<1>3. /\ document' \in Session /\ document'.max = document.max
      /\ DocumentSound'
      /\ document'.state = "committed" => document'.output = 0
  <2>1. CASE document.state = "prepared" /\ document' = Started(document)
    <3>1. document.attempt < document.max
      BY <2>1 DEF DocumentSound
    <3>2. /\ document' \in Session /\ document'.state = "generating"
          /\ document'.attempt = document.attempt + 1 /\ document'.max = document.max
      BY <1>1, <2>1, <3>1, StartedFields
    <3> QED
      BY <1>2, <3>1, <3>2 DEF DocumentSound
  <2>2. CASE document.state = "generating" /\ document' = Validated(document, 0)
    BY <1>1, <1>2, <2>2, ValidatedFields DEF DocumentSound
  <2>3. CASE document.state = "generating"
             /\ \E code \in FailureCodes : document' = Failed(document, code)
    BY <1>1, <1>2, <2>3, FailedFields DEF DocumentSound
  <2>4. CASE document.state = "validated" /\ document' = Committed(document)
    BY <1>1, <1>2, <2>4, CommittedFields DEF DocumentSound
  <2>5. CASE MayResume(document) /\ document' = Resumed(document)
    BY <1>1, <1>2, <2>5, ResumedFields DEF DocumentSound, MayResume
  <2>6. CASE document' = Cancelled(document)
    BY <1>1, <1>2, <2>6, CancelledFields DEF DocumentSound
  <2> QED
    BY <2>1, <2>2, <2>3, <2>4, <2>5, <2>6 DEF ByHand
<1>4. TypeOK'
  BY <1>1, <1>3 DEF TypeOK
<1>5. Awaiting' /\ OthersSettled' /\ InOrder'
  BY <1>1, <1>3 DEF Awaiting, OthersSettled, InOrder, Settled
<1>6. CommittedWhatPassed'
  <2>1. \A c \in DOMAIN calls : c # 0
    BY <1>1 DEF TypeOK
  <2> QED
    BY <1>1, <1>3, <2>1 DEF CommittedWhatPassed
<1> QED
  BY <1>3, <1>4, <1>5, <1>6

\* A further attempt, with all calls before it settled.
LEMMA AttemptInv ==
    ASSUME Inv, NEW made \in Seq(Call), DOMAIN made = DOMAIN calls,
           \A c \in DOMAIN calls :
               /\ made[c].run = calls[c].run /\ made[c].attempt = calls[c].attempt
               /\ made[c].aborted \/ made[c].answer # "none",
           NEW s \in Session, s.attempt < s.max, s.max = document.max,
           document.state \in {"prepared", "failed"},
           runs' \in 0..MaxRuns,
           \A c \in DOMAIN calls :
               /\ calls[c].run <= runs'
               /\ calls[c].run = runs' => calls[c].attempt <= s.attempt,
           Attempt(s, runs', made)
    PROVE  Inv'
<1> DEFINE new == NewCall(runs', s.attempt + 1)
           n == Len(made) + 1
<1>1. /\ session' = Started(s) /\ running' = TRUE
      /\ calls' = Append(made, new) /\ document' = document
  BY DEF Attempt
<1>2. /\ s.attempt \in Nat /\ s.max \in Nat /\ runs' \in Nat
      /\ s.attempt + 1 \in 1..MaxAttempts /\ s.attempt + 1 <= document.max
  BY SessionFields, GenerationAssumption
<1>3. /\ new \in Call /\ new.run = runs' /\ new.attempt = s.attempt + 1
      /\ new.answer = "none" /\ ~new.aborted
  BY <1>2, NewCallFields
<1>4. /\ session' \in Session /\ session'.state = "generating"
      /\ session'.attempt = s.attempt + 1 /\ session'.max = document.max
  BY <1>1, StartedFields
<1> HIDE DEF new
<1>5. /\ calls' \in Seq(Call) /\ Len(calls') = n /\ n \in DOMAIN calls'
      /\ calls'[n] = new
      /\ \A c \in DOMAIN calls' : c # n => c \in DOMAIN calls /\ c < n /\ calls'[c] = made[c]
      /\ \A c \in DOMAIN calls' : c <= n /\ c \in Nat
  BY <1>1, <1>3
<1> HIDE DEF n
<1>6. \A c \in DOMAIN calls' : c # n =>
         /\ c \in DOMAIN calls /\ c < n
         /\ calls'[c].run = calls[c].run /\ calls'[c].attempt = calls[c].attempt
         /\ calls'[c].aborted \/ calls'[c].answer # "none"
  BY <1>5
<1>7. \A c \in DOMAIN calls : calls[c].run \in Nat /\ calls[c].attempt \in Nat
  BY CallFields DEF Inv, TypeOK
<1>8. TypeOK'
  BY <1>1, <1>4, <1>5 DEF Inv, TypeOK
<1>9. Awaiting'
  BY <1>1, <1>3, <1>4, <1>5 DEF Awaiting, Settled
<1>10. OthersSettled'
  BY <1>1, <1>5, <1>6 DEF OthersSettled, Settled
<1>11. InOrder'
  <2>1. ASSUME NEW c \in DOMAIN calls'
        PROVE  calls'[c].run <= runs' /\ calls'[c].attempt <= document'.max
    <3>1. CASE c = n
      BY <1>1, <1>2, <1>3, <1>5, <3>1
    <3>2. CASE c # n
      BY <1>1, <1>6, <3>2 DEF Inv, InOrder
    <3> QED
      BY <3>1, <3>2
  <2>2. ASSUME NEW c \in DOMAIN calls', NEW d \in DOMAIN calls', c < d
        PROVE  /\ calls'[c].run <= calls'[d].run
               /\ calls'[c].run = calls'[d].run => calls'[c].attempt < calls'[d].attempt
    <3>1. c # n
      BY <1>5, <2>2
    <3>2. CASE d = n
      BY <1>2, <1>3, <1>5, <1>6, <1>7, <3>1, <3>2
    <3>3. CASE d # n
      BY <1>6, <2>2, <3>1, <3>3 DEF Inv, InOrder
    <3> QED
      BY <3>2, <3>3
  <2> QED
    BY <2>1, <2>2 DEF InOrder
<1>12. DocumentSound' /\ CommittedWhatPassed'
  BY <1>1 DEF Inv, DocumentSound, CommittedWhatPassed
<1> QED
  BY <1>8, <1>9, <1>10, <1>11, <1>12 DEF Inv

LEMMA RunInv ==
    ASSUME Inv, Run
    PROVE  Inv'
<1> DEFINE s == IF document.state = "failed" THEN Resumed(document) ELSE document
<1>1. /\ ~running /\ runs \in Nat /\ runs < MaxRuns /\ runs' = runs + 1
      /\ document \in Session
      /\ document.state = "prepared" \/ MayResume(document)
      /\ Attempt(s, runs + 1, calls)
  BY DEF Run, Inv, TypeOK
<1>2. /\ s \in Session /\ s.attempt < s.max /\ s.max = document.max
      /\ document.state \in {"prepared", "failed"}
  BY <1>1, ResumedFields DEF MayResume, Inv, DocumentSound
<1>3. runs' \in 0..MaxRuns
  BY <1>1, GenerationAssumption
<1>4. \A c \in DOMAIN calls : calls[c].aborted \/ calls[c].answer # "none"
  BY <1>1 DEF Inv, OthersSettled, Settled
<1>5. \A c \in DOMAIN calls : calls[c].run < runs'
  BY <1>1, CallFields DEF Inv, InOrder, TypeOK
<1>6. calls \in Seq(Call)
  BY DEF Inv, TypeOK
<1> HIDE DEF s
<1>7. \A c \in DOMAIN calls : /\ calls[c].run <= runs'
                              /\ calls[c].run = runs' => calls[c].attempt <= s.attempt
  <2>1. \A c \in DOMAIN calls : calls[c].run \in Nat
    BY <1>6, CallFields
  <2> QED
    BY <1>1, <1>5, <2>1
<1>8. Attempt(s, runs', calls)
  BY <1>1
<1> QED
  BY <1>2, <1>3, <1>4, <1>6, <1>7, <1>8, AttemptInv

\* The attempt under way fails: its call is settled, the run ends or goes on.
LEMMA AttemptFailsInv ==
    ASSUME Inv, running, NEW code \in FailureCodes,
           NEW made \in Seq(Call), DOMAIN made = DOMAIN calls, Len(made) = Len(calls),
           \A c \in DOMAIN calls :
               /\ made[c].run = calls[c].run /\ made[c].attempt = calls[c].attempt
               /\ made[c].aborted \/ made[c].answer # "none",
           AttemptFails(code, made)
    PROVE  Inv'
<1> DEFINE failed == Failed(session, code)
           n == Len(calls)
<1>1. /\ session \in Session /\ runs' = runs /\ runs \in 0..MaxRuns /\ runs \in Nat
      /\ document.state \in {"prepared", "failed"}
      /\ session.max = document.max
      /\ n \in DOMAIN calls /\ calls[n].run = runs /\ calls[n].attempt = session.attempt
      /\ calls \in Seq(Call)
  BY GenerationAssumption DEF Inv, TypeOK, Awaiting, AttemptFails
<1>2. /\ failed \in Session /\ failed.attempt = session.attempt
      /\ failed.max = document.max
  BY <1>1, FailedFields
<1>3. \A c \in DOMAIN calls : /\ calls[c].run <= runs
                              /\ calls[c].run = runs => calls[c].attempt <= session.attempt
  <2> SUFFICES ASSUME NEW c \in DOMAIN calls
               PROVE  /\ calls[c].run <= runs
                      /\ calls[c].run = runs => calls[c].attempt <= session.attempt
    OBVIOUS
  <2>1. c = n \/ c < n
    BY <1>1
  <2>2. calls[c].run <= runs
    BY DEF Inv, InOrder
  <2>3. c < n /\ calls[c].run = runs => calls[c].attempt < session.attempt
    BY <1>1 DEF Inv, InOrder
  <2>4. calls[c].attempt \in Nat /\ session.attempt \in Nat
    BY <1>1, CallFields, SessionFields
  <2> HIDE DEF n
  <2> QED
    BY <1>1, <2>1, <2>2, <2>3, <2>4
<1> HIDE DEF failed
<1>4. CASE failed.attempt >= failed.max
  <2>1. /\ session' = failed /\ running' = FALSE /\ calls' = made
        /\ document' = document
    BY <1>4 DEF AttemptFails, failed
  <2>2. TypeOK'
    BY <1>1, <1>2, <2>1 DEF Inv, TypeOK
  <2>3. Awaiting' /\ OthersSettled'
    BY <2>1 DEF Awaiting, OthersSettled, Settled
  <2>4. InOrder'
    BY <1>1, <2>1 DEF Inv, InOrder
  <2>5. DocumentSound' /\ CommittedWhatPassed'
    BY <1>1, <2>1 DEF Inv, DocumentSound, CommittedWhatPassed
  <2> QED
    BY <2>2, <2>3, <2>4, <2>5 DEF Inv
<1>5. CASE ~(failed.attempt >= failed.max)
  <2>1. Attempt(Resumed(failed), runs', made)
    BY <1>1, <1>5 DEF AttemptFails, failed
  <2>2. /\ Resumed(failed) \in Session /\ Resumed(failed).attempt = session.attempt
        /\ Resumed(failed).max = document.max
    BY <1>2, ResumedFields
  <2>3. Resumed(failed).attempt < Resumed(failed).max
    BY <1>1, <1>2, <1>5, <2>2, SessionFields
  <2> DEFINE s == Resumed(failed)
  <2> HIDE DEF s
  <2>4. /\ s \in Session /\ s.attempt < s.max /\ s.max = document.max
        /\ Attempt(s, runs', made)
        /\ \A c \in DOMAIN calls : /\ calls[c].run <= runs'
                                   /\ calls[c].run = runs' => calls[c].attempt <= s.attempt
    BY <1>1, <1>3, <2>1, <2>2, <2>3 DEF s
  <2> QED
    BY <1>1, <2>4, AttemptInv
<1> QED
  BY <1>4, <1>5

LEMMA AnswerInv ==
    ASSUME Inv, NEW c \in DOMAIN calls, NEW answer \in Answers, Answer(c, answer)
    PROVE  Inv'
<1> DEFINE late == calls[c].overdue
           new == [calls[c] EXCEPT !.answer = answer, !.late = late]
           made == [calls EXCEPT ![c] = new]
<1>1. /\ calls[c].answer = "none" /\ calls \in Seq(Call) /\ calls[c] \in Call
      /\ answer # "none" /\ late \in BOOLEAN
  <2>1. calls \in Seq(Call)
    BY DEF Inv, TypeOK
  <2>2. calls[c] \in Call
    BY <2>1
  <2>3. calls[c].answer = "none"
    BY DEF Answer
  <2> QED
    BY <2>1, <2>2, <2>3, CallFields DEF Answers
<1>2. /\ made \in Seq(Call) /\ DOMAIN made = DOMAIN calls
      /\ Len(made) = Len(calls)
      /\ made[c].answer = answer /\ made[c].late = late
      /\ made[c].run = calls[c].run /\ made[c].attempt = calls[c].attempt
      /\ made[c].aborted = calls[c].aborted
      /\ \A d \in DOMAIN calls : d # c => made[d] = calls[d]
  <2>1. /\ new \in Call /\ new.answer = answer /\ new.late = late
        /\ new.run = calls[c].run /\ new.attempt = calls[c].attempt
        /\ new.aborted = calls[c].aborted
    BY <1>1 DEF Call
  <2> HIDE DEF new, late
  <2>2. /\ made \in Seq(Call) /\ Len(made) = Len(calls) /\ DOMAIN made = DOMAIN calls
        /\ made[c] = new
        /\ \A d \in DOMAIN calls : d # c => made[d] = calls[d]
    BY <1>1, <2>1, OneCallChanges
  <2> QED
    BY <2>1, <2>2
<1>3. \/ /\ ~Awaited(c) /\ calls' = made
         /\ UNCHANGED <<document, session, running, runs>>
      \/ /\ Awaited(c) /\ Passes(answer, late)
         /\ document' = Committed(Validated(session, c))
         /\ running' = FALSE /\ calls' = made /\ session' = session /\ runs' = runs
      \/ Awaited(c) /\ AttemptFails(CodeOf(answer, late), made)
  BY DEF Answer
<1> HIDE DEF made, late
<1>4. ASSUME NEW d \in DOMAIN calls
      PROVE  /\ made[d].run = calls[d].run /\ made[d].attempt = calls[d].attempt
             /\ calls[d].aborted \/ calls[d].answer # "none" =>
                   made[d].aborted \/ made[d].answer # "none"
             /\ Awaited(c) => made[d].aborted \/ made[d].answer # "none"
  BY <1>1, <1>2 DEF Inv, OthersSettled, Settled, Awaited
<1>5. CASE /\ ~Awaited(c) /\ calls' = made
           /\ UNCHANGED <<document, session, running, runs>>
  <2>1. TypeOK'
    BY <1>2, <1>5 DEF Inv, TypeOK
  <2>2. Awaiting'
    BY <1>2, <1>5 DEF Inv, Awaiting, Settled, Awaited
  <2>3. OthersSettled'
    BY <1>2, <1>4, <1>5 DEF Inv, OthersSettled, Settled
  <2>4. InOrder' /\ DocumentSound'
    BY <1>2, <1>4, <1>5 DEF Inv, InOrder, DocumentSound
  <2>5. CommittedWhatPassed'
    <3> SUFFICES ASSUME NEW k \in DOMAIN calls,
                        document.state = "committed", document.output = k
                 PROVE  /\ made[k].answer = "good" /\ ~made[k].late
                        /\ made[k].attempt = document.attempt
                        /\ \A d \in DOMAIN calls : made[d].run = made[k].run /\ d # k =>
                              d < k /\ (made[d].aborted \/ made[d].answer # "none")
      BY <1>2, <1>5 DEF CommittedWhatPassed
    <3>1. /\ calls[k].answer = "good" /\ ~calls[k].late
          /\ calls[k].attempt = document.attempt
          /\ \A d \in DOMAIN calls : calls[d].run = calls[k].run /\ d # k =>
                d < k /\ (calls[d].aborted \/ calls[d].answer # "none")
      BY DEF Inv, CommittedWhatPassed
    <3>2. k # c
      BY <1>1, <3>1
    <3> QED
      BY <1>2, <1>4, <3>1, <3>2
  <2> QED
    BY <2>1, <2>2, <2>3, <2>4, <2>5 DEF Inv
<1>6. CASE /\ Awaited(c) /\ Passes(answer, late)
           /\ document' = Committed(Validated(session, c))
           /\ running' = FALSE /\ calls' = made /\ session' = session /\ runs' = runs
  <2>1. /\ running /\ c = Len(calls) /\ answer = "good" /\ ~late
        /\ session \in Session /\ c \in Nat
    BY <1>1, <1>6 DEF Awaited, Passes, Inv, TypeOK
  <2>2. /\ session.attempt = calls[c].attempt /\ session.max = document.max
    BY <2>1 DEF Inv, Awaiting
  <2>3. /\ document' \in Session /\ document'.state = "committed"
        /\ document'.output = c /\ document'.attempt = session.attempt
        /\ document'.max = session.max
    <3>1. /\ Validated(session, c) \in Session /\ Validated(session, c).output = c
          /\ Validated(session, c).attempt = session.attempt
          /\ Validated(session, c).max = session.max
      BY <2>1, ValidatedFields
    <3> QED
      BY <1>6, <3>1, CommittedFields
  <2>4. TypeOK'
    BY <1>2, <1>6, <2>3 DEF Inv, TypeOK
  <2>5. Awaiting'
    BY <1>6 DEF Awaiting
  <2>6. OthersSettled'
    BY <1>2, <1>4, <1>6 DEF OthersSettled, Settled
  <2>7. InOrder'
    BY <1>2, <1>4, <1>6, <2>2, <2>3 DEF Inv, InOrder
  <2>8. DocumentSound'
    <3>1. session.attempt <= document.max
      BY <2>2 DEF Inv, InOrder
    <3> QED
      BY <2>2, <2>3, <3>1 DEF DocumentSound
  <2>9. CommittedWhatPassed'
    <3>1. \A d \in DOMAIN calls : d # c => d < c
      BY <1>1, <2>1
    <3> QED
      BY <1>2, <1>4, <1>6, <2>1, <2>2, <2>3, <3>1 DEF CommittedWhatPassed
  <2> QED
    BY <2>4, <2>5, <2>6, <2>7, <2>8, <2>9 DEF Inv
<1>7. CASE Awaited(c) /\ AttemptFails(CodeOf(answer, late), made)
  <2>1. CodeOf(answer, late) \in FailureCodes
    BY DEF CodeOf, FailureCodes
  <2>2. running
    BY <1>7 DEF Awaited
  <2> QED
    BY <1>2, <1>4, <1>7, <2>1, <2>2, AttemptFailsInv
<1> QED
  BY <1>3, <1>5, <1>6, <1>7

LEMMA TimePassesInv ==
    ASSUME Inv, TimePasses
    PROVE  Inv'
<1> DEFINE n == Len(calls)
           new == [calls[n] EXCEPT !.overdue = TRUE]
<1>1. /\ running /\ calls \in Seq(Call) /\ n \in DOMAIN calls /\ calls[n] \in Call
      /\ calls' = [calls EXCEPT ![n] = new]
      /\ document' = document /\ session' = session /\ running' = running /\ runs' = runs
  BY DEF TimePasses, Inv, TypeOK, Awaiting
<1>2. /\ new \in Call /\ new.answer = calls[n].answer /\ new.late = calls[n].late
      /\ new.run = calls[n].run /\ new.attempt = calls[n].attempt
      /\ new.aborted = calls[n].aborted
  BY <1>1 DEF Call
<1> HIDE DEF new, n
<1>3. /\ calls' \in Seq(Call) /\ Len(calls') = Len(calls) /\ DOMAIN calls' = DOMAIN calls
      /\ calls'[n] = new
      /\ \A c \in DOMAIN calls : c # n => calls'[c] = calls[c]
  BY <1>1, <1>2, OneCallChanges
<1>4. ASSUME NEW c \in DOMAIN calls
      PROVE  /\ calls'[c].answer = calls[c].answer /\ calls'[c].late = calls[c].late
             /\ calls'[c].run = calls[c].run /\ calls'[c].attempt = calls[c].attempt
             /\ calls'[c].aborted = calls[c].aborted
  BY <1>2, <1>3
<1>5. TypeOK'
  BY <1>1, <1>3 DEF Inv, TypeOK
<1>6. Awaiting' /\ OthersSettled' /\ InOrder' /\ DocumentSound'
  BY <1>1, <1>3, <1>4
     DEF Inv, Awaiting, OthersSettled, InOrder, DocumentSound, Settled
<1>7. CommittedWhatPassed'
  BY <1>1, <1>3, <1>4 DEF Inv, CommittedWhatPassed
<1> QED
  BY <1>5, <1>6, <1>7 DEF Inv

LEMMA TimeOutInv ==
    ASSUME Inv, TimeOut
    PROVE  Inv'
<1> DEFINE n == Len(calls)
           new == [calls[n] EXCEPT !.aborted = TRUE]
           made == [calls EXCEPT ![n].aborted = TRUE]
           code == "E_OPERATE_ARTIFACT_BUDGET_EXCEEDED"
<1>1. /\ running /\ calls \in Seq(Call) /\ n \in DOMAIN calls /\ calls[n] \in Call
      /\ made = [calls EXCEPT ![n] = new]
      /\ AttemptFails(code, made)
  BY DEF TimeOut, Inv, TypeOK, Awaiting
<1>2. /\ new \in Call /\ new.run = calls[n].run /\ new.attempt = calls[n].attempt
      /\ new.aborted
  BY <1>1 DEF Call
<1> HIDE DEF new, n, made
<1>3. /\ made \in Seq(Call) /\ Len(made) = Len(calls) /\ DOMAIN made = DOMAIN calls
      /\ made[n] = new
      /\ \A c \in DOMAIN calls : c # n => made[c] = calls[c]
  BY <1>1, <1>2, OneCallChanges
<1>4. ASSUME NEW c \in DOMAIN calls
      PROVE  /\ made[c].run = calls[c].run /\ made[c].attempt = calls[c].attempt
             /\ made[c].aborted \/ made[c].answer # "none"
  BY <1>2, <1>3 DEF Inv, OthersSettled, Settled, n
<1>5. code \in FailureCodes
  BY DEF FailureCodes
<1> HIDE DEF code
<1> QED
  BY <1>1, <1>3, <1>4, <1>5, AttemptFailsInv

LEMMA Invariant == Spec => []Inv
<1>1. Inv /\ [Next]_vars => Inv'
  <2> SUFFICES ASSUME Inv, [Next]_vars
               PROVE  Inv'
    OBVIOUS
  <2>1. CASE Next
    BY <2>1, ByHandInv, RunInv, AnswerInv, TimePassesInv, TimeOutInv DEF Next
  <2>2. CASE UNCHANGED vars
    BY <2>2 DEF vars, Inv, TypeOK, Awaiting, OthersSettled, InOrder, DocumentSound,
                CommittedWhatPassed, Settled
  <2> QED
    BY <2>1, <2>2
<1> QED
  BY <1>1, InitInv, PTL DEF Spec

----------------------------------------------------------------------------
\* The session documents and the calls are well formed.
THEOREM TypeCorrect == Spec => []TypeOK
<1>1. Inv => TypeOK
  BY DEF Inv
<1> QED
  BY <1>1, Invariant, PTL

\* runOperatingArtifactGeneration commits the answer of the call it awaited, in
\* time and good, however late the others answer.
THEOREM CommitsWhatPassed == Spec => []CommittedWhatPassed
<1>1. Inv => CommittedWhatPassed
  BY DEF Inv
<1> QED
  BY <1>1, Invariant, PTL

\* A run makes no more calls than the session has attempts, one after the other.
THEOREM CallsAreBounded == Spec => []CallsBounded
<1>1. Inv => CallsBounded
  <2> SUFFICES ASSUME Inv, NEW c \in DOMAIN calls
               PROVE  /\ calls[c].attempt <= document.max
                      /\ \A d \in DOMAIN calls :
                            c < d => /\ calls[c].aborted \/ calls[c].answer # "none"
                                     /\ calls[c].run = calls[d].run =>
                                           calls[c].attempt < calls[d].attempt
    BY DEF CallsBounded
  <2>1. calls \in Seq(Call)
    BY DEF Inv, TypeOK
  <2>2. \A d \in DOMAIN calls : c < d => c # Len(calls)
    BY <2>1
  <2> QED
    BY <2>2 DEF Inv, InOrder, OthersSettled, Settled
<1> QED
  BY <1>1, Invariant, PTL
=============================================================================
