----------------------------- MODULE DesignBoard -----------------------------
(***************************************************************************)
(* One design review board: the feedback file and the pending round next   *)
(* to it, the daemon that serves them (lib/design-engine/daemon.mjs), the  *)
(* browser tabs of its reviewers (board-adapter.mjs over the review        *)
(* controller of lib/artifact/ui/feedback-rail.mjs) and the agent that     *)
(* reads the feedback (feedback.mjs, `feedback resolve` of cli.mjs).       *)
(*                                                                         *)
(* A tab keeps a whole review.  Each edit queues a snapshot of it; the     *)
(* snapshots are sent one at a time and merged into the file pin by pin.   *)
(* Every merge tells all tabs, and a tab that is told fetches the review   *)
(* and replaces its own; such fetches are not ordered among themselves.    *)
(* What a locked section of the daemon does is synchronous, hence one      *)
(* action, except where a crash or the agent can see it half done.         *)
(***************************************************************************)
EXTENDS Naturals, Sequences, SequencesExt, FiniteSets

CONSTANTS Tabs,      \* browser tabs, each with a reviewer of its own
          Pins,      \* pins that can be dropped; the id of a pin is unique
          Author,    \* the tab whose reviewer drops a pin
          Statuses,  \* the statuses of a pin
          Replies,   \* replies that can be added
          Verdicts,  \* decisions that reviewers take
          Absent,    \* there is no such file
          Torn,      \* a file that does not parse
          Emptied,   \* the pending file after its round was folded in
          Nothing,   \* the agent, or the daemon, is not in the middle of anything
          MaxEdits, MaxFetches, MaxRounds, MaxDeletes, MaxCrashes, MaxTears, MaxReloads

Decisions == {"pending", "approved", "changes_requested"}

Item == [status: Statuses, replies: SUBSET Replies]
PinMap == UNION {[S -> Item] : S \in SUBSET Pins}
Feedback == [pins: PinMap, preferred: BOOLEAN]
Review == [pins: PinMap, decision: Decisions]
Round == 1 .. MaxRounds

\* A request for another design round.  It may name a preferred variant, and a
\* client may send pins with it.
Posted == [number: Round, pins: PinMap, preferred: BOOLEAN]

ASSUME DesignBoardAssumption ==
    /\ Author \in [Pins -> Tabs]
    /\ {"open", "resolved"} \subseteq Statuses
    /\ Verdicts \subseteq Decisions
    /\ Absent # Torn /\ {Absent, Torn} \cap Feedback = {}
    /\ {Absent, Torn, Emptied, Nothing} \cap Posted = {} /\ Emptied \notin {Absent, Torn}
    /\ Nothing \notin PinMap \cup [round: Posted, at: {"merge", "empty"}]
    /\ IsFiniteSet(Pins)
    /\ {MaxEdits, MaxRounds, MaxDeletes, MaxCrashes, MaxTears, MaxReloads} \subseteq Nat
    /\ MaxFetches \in Nat \ {0}

VARIABLES
    stored,     \* feedback.json
    pending,    \* feedback-pending.json
    folding,    \* the pending round the daemon is folding in, and how far it is
    up,         \* the daemon runs
    review,     \* the review a tab shows
    queue,      \* the snapshots a tab still has to send
    approving,  \* tabs that are sending the preferred variant
    listening,  \* tabs whose event stream is connected
    asked,      \* fetches of a tab that the daemon has not answered
    answers,    \* answers to fetches that have not reached the tab
    reading,    \* the pending round the agent has read and not yet deleted
    resolving,  \* what the agent read before it marks pins resolved
    seen,       \* history: pins the agent has read as submitted feedback
    rounds,     \* history: what became of the rounds
    dropped,    \* history: pins that were dropped
    deleted,    \* history: pins that their reviewer deleted
    told,       \* history: tabs that were told that a save failed
    used        \* edits, deletes, crashes, torn writes and reloads so far

files == <<stored, pending>>
tabs  == <<review, queue, approving, listening, asked, answers>>
past  == <<seen, rounds, dropped, deleted, told>>
agent == <<reading, resolving>>
vars  == <<files, folding, up, tabs, agent, past, used>>

Budget == [edits |-> MaxEdits, deletes |-> MaxDeletes,
           crashes |-> MaxCrashes, tears |-> MaxTears, reloads |-> MaxReloads]

Spend(what) ==
    /\ used[what] < Budget[what]
    /\ used' = [used EXCEPT ![what] = @ + 1]

-----------------------------------------------------------------------------
(* The merge of feedback.mjs, and what the file gives to its readers.       *)

SmallerOf(m, n) == IF m < n THEN m ELSE n

NoPins == [p \in {} |-> [status |-> "open", replies |-> {}]]

\* readStored gives nothing for a missing and for an unparseable file.
ReadStored == IF stored \in {Absent, Torn} THEN [pins |-> NoPins, preferred |-> FALSE]
                                           ELSE stored

RepliesOf(pins, p) == IF p \in DOMAIN pins THEN pins[p].replies ELSE {}

\* Mutant: a contribution replaces the record.
MergeWholesale(base, sent) == sent

MergePins(base, sent) ==
    [p \in DOMAIN base \cup DOMAIN sent |->
        IF p \in DOMAIN sent
        THEN [sent[p] EXCEPT !.replies = RepliesOf(base, p) \cup @]
        ELSE base[p]]

MergedWith(pins) == [ReadStored EXCEPT !.pins = MergePins(@, pins)]

FoldedWith(round) ==
    [MergedWith(round.pins) EXCEPT !.preferred = @ \/ round.preferred]

Without(pins, p) == [q \in DOMAIN pins \ {p} |-> pins[q]]

\* artifactReviewFor: of the decisions only an approval is kept, as the
\* preferred variant.
ShownReview ==
    [pins |-> ReadStored.pins,
     decision |-> IF ReadStored.preferred THEN "approved" ELSE "pending"]

\* A merge sends one feedback:update per pin to every connected tab, which
\* then fetches.  Of the fetches of a tab that wait for an answer at most
\* MaxFetches are told apart; the answer that they get is a later one anyway.
Broadcast(pins) ==
    asked' = [t \in Tabs |->
                IF t \in listening
                THEN SmallerOf(MaxFetches, asked[t] + Cardinality(DOMAIN pins))
                ELSE asked[t]]

\* No handler of the daemon runs while another one is in its locked section.
Serving == up /\ folding = Nothing

-----------------------------------------------------------------------------
TypeOK ==
    /\ stored \in Feedback \cup {Absent, Torn}
    /\ pending \in Posted \cup {Absent, Torn, Emptied}
    /\ folding \in [round: Posted, at: {"merge", "empty"}] \cup {Nothing}
    /\ up \in BOOLEAN
    /\ review \in [Tabs -> Review]
    /\ queue \in [Tabs -> Seq(PinMap)]
    /\ answers \in [Tabs -> Seq(Review)]
    /\ approving \subseteq Tabs /\ listening \subseteq Tabs
    /\ asked \in [Tabs -> 0 .. MaxFetches]
    /\ reading \in Posted \cup {Nothing} /\ resolving \in PinMap \cup {Nothing}
    /\ seen \subseteq dropped /\ deleted \subseteq dropped /\ dropped \subseteq Pins
    /\ rounds \in [posted: 0 .. MaxRounds, applied: SUBSET Round, again: SUBSET Round,
                   shared: SUBSET Round, gone: SUBSET Round]
    /\ told \subseteq Tabs
    /\ used \in [DOMAIN Budget -> Nat]
    /\ \A what \in DOMAIN Budget : used[what] <= Budget[what]

Fresh == [pins |-> NoPins, decision |-> "pending"]

\* The board has just been served and tabs opened: each connects its event stream
\* and fetches its review, in whatever order the daemon gets to them.
Init ==
    /\ \E open \in SUBSET Tabs : asked = [t \in Tabs |-> IF t \in open THEN 1 ELSE 0]
    /\ stored = Absent /\ pending = Absent /\ folding = Nothing /\ up = TRUE
    /\ review = [t \in Tabs |-> Fresh]
    /\ queue = [t \in Tabs |-> <<>>]
    /\ approving = {} /\ listening = {}
    /\ answers = [t \in Tabs |-> <<>>]
    /\ reading = Nothing /\ resolving = Nothing
    /\ seen = {} /\ dropped = {} /\ deleted = {} /\ told = {}
    /\ rounds = [posted |-> 0, applied |-> {}, again |-> {}, shared |-> {}, gone |-> {}]
    /\ used = [what \in DOMAIN Budget |-> 0]

-----------------------------------------------------------------------------
(* What a reviewer does in a tab: the controller changes the review, and    *)
(* its subscriber queues a snapshot.                                        *)

Edit(t, newReview) ==
    /\ Spend("edits")
    /\ review' = [review EXCEPT ![t] = newReview]
    /\ queue' = [queue EXCEPT ![t] = Append(@, newReview.pins)]
    /\ UNCHANGED <<files, folding, up, listening, asked, answers, agent>>

AddPin(t, p) ==
    /\ Author[p] = t /\ p \notin dropped
    /\ Edit(t, [review[t] EXCEPT
                !.pins = MergePins(@, [q \in {p} |-> [status |-> "open", replies |-> {}]])])
    /\ dropped' = dropped \cup {p}
    /\ UNCHANGED <<approving, seen, rounds, deleted, told>>

AddReply(t, p, r) ==
    /\ p \in DOMAIN review[t].pins /\ r \notin review[t].pins[p].replies
    /\ Edit(t, [review[t] EXCEPT !.pins[p].replies = @ \cup {r}])
    /\ UNCHANGED <<approving, past>>

SetStatus(t, p, status) ==
    /\ p \in DOMAIN review[t].pins /\ review[t].pins[p].status # status
    /\ Edit(t, [review[t] EXCEPT !.pins[p].status = status])
    /\ UNCHANGED <<approving, past>>

SetDecision(t, verdict) ==
    /\ review[t].decision # verdict
    /\ Edit(t, [review[t] EXCEPT !.decision = verdict])
    /\ approving' = IF verdict = "approved" THEN approving \cup {t} ELSE approving
    /\ UNCHANGED past

-----------------------------------------------------------------------------
(* Tab and daemon.                                                          *)

\* PUT artifact-review: the oldest snapshot is merged, and all tabs are told.
Put(t) ==
    /\ Serving /\ queue[t] # <<>>
    /\ stored' = MergedWith(Head(queue[t]))
    /\ Broadcast(Head(queue[t]))
    /\ queue' = [queue EXCEPT ![t] = Tail(@)]
    /\ UNCHANGED <<pending, folding, up, review, approving, listening, answers, agent, past, used>>

\* Mutant: the failure of a save is swallowed.
PutFailsSilently(t) ==
    /\ Serving \/ ~up
    /\ queue[t] # <<>>
    /\ queue' = [queue EXCEPT ![t] = Tail(@)]
    /\ UNCHANGED <<files, folding, up, review, approving, listening, asked, answers, agent, past, used>>

\* The daemon cannot be reached, or refuses because the review does not fit the
\* design envelope (any more) or cannot be written: the tab says so and goes on.
PutFails(t) ==
    /\ Serving \/ ~up
    /\ queue[t] # <<>>
    /\ queue' = [queue EXCEPT ![t] = Tail(@)]
    /\ told' = told \cup {t}
    /\ UNCHANGED <<files, folding, up, review, approving, listening, asked, answers, agent,
                   seen, rounds, dropped, deleted, used>>

\* POST feedback of an approval: the preferred variant, and no pins.
PostApproval(t) ==
    /\ t \in approving
    /\ approving' = approving \ {t}
    /\ \/ /\ Serving
          /\ stored' = [ReadStored EXCEPT !.preferred = TRUE]
          /\ UNCHANGED told
       \/ /\ Serving \/ ~up
          /\ told' = told \cup {t}
          /\ UNCHANGED stored
    /\ UNCHANGED <<pending, folding, up, review, queue, listening, asked, answers, agent,
                   seen, rounds, dropped, deleted, used>>

\* The event stream of a tab is connected, at first or again.
Connect(t) ==
    /\ Serving /\ t \notin listening
    /\ listening' = listening \cup {t}
    /\ UNCHANGED <<files, folding, up, review, queue, approving, asked, answers,
                   agent, past, used>>

\* The daemon answers a fetch with what the file holds now.
Answer(t) ==
    /\ Serving /\ asked[t] > 0 /\ Len(answers[t]) < MaxFetches
    /\ asked' = [asked EXCEPT ![t] = @ - 1]
    /\ answers' = [answers EXCEPT ![t] = Append(@, ShownReview)]
    /\ UNCHANGED <<files, folding, up, review, queue, approving, listening, agent, past, used>>

\* A fetch fails while the daemon is down; nobody retries it.
FetchFails(t) ==
    /\ ~up /\ asked[t] > 0
    /\ asked' = [asked EXCEPT ![t] = @ - 1]
    /\ UNCHANGED <<files, folding, up, review, queue, approving, listening, answers, agent, past, used>>

\* Mutant: an answer also drops the snapshots that were not sent yet.
HydrateResets(t) ==
    \E i \in DOMAIN answers[t] :
        /\ review' = [review EXCEPT ![t] = answers[t][i]]
        /\ answers' = [answers EXCEPT ![t] = RemoveAt(@, i)]
        /\ queue' = [queue EXCEPT ![t] = <<>>]
        /\ UNCHANGED <<files, folding, up, approving, listening, asked, agent, past, used>>

\* hydrateReview: the answers replace the review of the tab as they come in.
Hydrate(t) ==
    \E i \in DOMAIN answers[t] :
        /\ review' = [review EXCEPT ![t] = answers[t][i]]
        /\ answers' = [answers EXCEPT ![t] = RemoveAt(@, i)]
        /\ UNCHANGED <<files, folding, up, queue, approving, listening, asked, agent, past, used>>

\* location.reload: the page starts anew, and what it had in flight is gone.
Reload(t) ==
    /\ Spend("reloads")
    /\ review' = [review EXCEPT ![t] = Fresh]
    /\ queue' = [queue EXCEPT ![t] = <<>>]
    /\ approving' = approving \ {t} /\ listening' = listening \ {t}
    /\ asked' = [asked EXCEPT ![t] = 1]
    /\ answers' = [answers EXCEPT ![t] = <<>>]
    /\ UNCHANGED <<files, folding, up, agent, past>>

\* POST feedback with a delete marker, which carries the pin and its author; with
\* another author it would match no pin.  No tab is told of it.
Delete(p) ==
    /\ Serving /\ p \in DOMAIN ReadStored.pins \ deleted /\ Spend("deletes")
    /\ stored' = [ReadStored EXCEPT !.pins = Without(@, p)]
    /\ deleted' = deleted \cup {p}
    /\ UNCHANGED <<pending, folding, up, tabs, agent, seen, rounds, dropped, told>>

-----------------------------------------------------------------------------
(* Rounds, the agent, crashes.                                              *)

\* The agent or the record has got a round.
Applied(number) ==
    rounds' = [rounds EXCEPT !.applied = @ \cup {number},
                             !.again = @ \cup (rounds.applied \cap {number})]

\* The round in the pending file, if there is one.
Waiting == IF pending \in Posted THEN {pending.number} ELSE {}

\* POST feedback of a pending round: it replaces the one that is there.
PostRound(pins, preferred) ==
    /\ Serving /\ rounds.posted < MaxRounds
    /\ pending' = [number |-> rounds.posted + 1, pins |-> pins, preferred |-> preferred]
    /\ rounds' = [rounds EXCEPT !.posted = @ + 1, !.gone = @ \cup Waiting]
    /\ UNCHANGED <<stored, folding, up, tabs, agent, seen, dropped, deleted, told, used>>

\* The board is served again: registering it folds a leftover round in.
Register ==
    /\ Serving /\ pending \in Posted
    /\ folding' = [round |-> pending, at |-> "merge"]
    /\ rounds' = IF reading # Nothing /\ reading.number = pending.number
                 THEN [rounds EXCEPT !.shared = @ \cup {pending.number}]
                 ELSE rounds
    /\ UNCHANGED <<files, up, tabs, agent, seen, dropped, deleted, told, used>>

\* reconcilePending writes the merged file ...
FoldMerges ==
    /\ up /\ folding # Nothing /\ folding.at = "merge"
    /\ stored' = FoldedWith(folding.round)
    /\ folding' = [folding EXCEPT !.at = "empty"]
    /\ Applied(folding.round.number)
    /\ UNCHANGED <<pending, up, tabs, agent, seen, dropped, deleted, told, used>>

\* ... then empties the pending one, or creates it anew.
FoldEmpties ==
    /\ up /\ folding # Nothing /\ folding.at = "empty"
    /\ pending' = Emptied
    /\ folding' = Nothing
    /\ UNCHANGED <<stored, up, tabs, agent, past, used>>

\* readFeedback of the agent: it reads the pending round, or else the record.  A
\* record without the required fields, or one that does not parse, makes it throw.
AgentReads ==
    /\ reading = Nothing
    /\ \/ /\ pending \in Posted
          /\ reading' = pending
          /\ rounds' = IF folding # Nothing /\ folding.round.number = pending.number
                       THEN [rounds EXCEPT !.shared = @ \cup {pending.number}]
                       ELSE rounds
          /\ UNCHANGED seen
       \/ /\ pending = Absent /\ stored \in Feedback
          /\ seen' = seen \cup DOMAIN stored.pins
          /\ seen' # seen
          /\ UNCHANGED <<reading, rounds>>
    /\ UNCHANGED <<files, folding, up, tabs, resolving, dropped, deleted, told, used>>

\* Mutant: a round is not deleted when it is read.
AgentKeepsFile ==
    /\ reading # Nothing
    /\ reading' = Nothing
    /\ Applied(reading.number)
    /\ UNCHANGED <<files, folding, up, tabs, resolving, seen, dropped, deleted, told, used>>

\* The agent deletes the pending file, whatever is in it by now, and goes to work on
\* the round it has read.
AgentConsumes ==
    /\ reading # Nothing
    /\ pending' = Absent
    /\ reading' = Nothing
    /\ rounds' = [rounds EXCEPT !.applied = @ \cup {reading.number},
                                !.again = @ \cup (rounds.applied \cap {reading.number}),
                                !.gone = @ \cup (Waiting \ {reading.number})]
    /\ UNCHANGED <<stored, folding, up, tabs, resolving, seen, dropped, deleted, told, used>>

\* The agent dies between the two.
AgentDies ==
    /\ reading # Nothing
    /\ reading' = Nothing
    /\ UNCHANGED <<files, folding, up, tabs, resolving, past, used>>

\* `feedback resolve`: the agent fetches the record ...
AgentFetches ==
    /\ Serving /\ resolving = Nothing
    /\ LET open == {p \in DOMAIN ReadStored.pins : ReadStored.pins[p].status # "resolved"}
       IN  /\ open # {}
           /\ resolving' = [p \in open |-> [ReadStored.pins[p] EXCEPT !.status = "resolved"]]
    /\ UNCHANGED <<files, folding, up, tabs, reading, past, used>>

\* ... and posts the pins it found open as resolved.
AgentResolves ==
    /\ Serving /\ resolving # Nothing
    /\ stored' = MergedWith(resolving)
    /\ Broadcast(resolving)
    /\ resolving' = Nothing
    /\ UNCHANGED <<pending, folding, up, review, queue, approving, listening, answers, reading,
                   past, used>>

\* The daemon dies; a round it has merged may be left in the pending file.
Dies ==
    /\ up /\ up' = FALSE
    /\ folding' = Nothing /\ resolving' = Nothing /\ listening' = {}
    /\ UNCHANGED <<review, queue, approving, asked, answers, reading, seen, dropped, deleted, told>>

Crash ==
    /\ Dies /\ Spend("crashes")
    /\ rounds' = IF folding # Nothing /\ folding.at = "empty"
                 THEN [rounds EXCEPT !.shared = @ \cup {folding.round.number}]
                 ELSE rounds
    /\ UNCHANGED files

\* It dies while it writes one of the files, which is truncated first.
CrashWriting ==
    /\ Dies /\ Spend("tears")
    /\ \/ /\ \/ folding = Nothing /\ \E t \in Tabs : queue[t] # <<>> \/ t \in approving
             \/ folding = Nothing /\ resolving # Nothing
             \/ folding # Nothing /\ folding.at = "merge"
          /\ stored' = Torn
          /\ UNCHANGED <<pending, rounds>>
       \/ /\ IF folding = Nothing THEN rounds.posted < MaxRounds ELSE folding.at = "empty"
          /\ pending' = Torn
          /\ rounds' = [rounds EXCEPT !.gone = @ \cup Waiting]
          /\ UNCHANGED stored

\* ensureDaemon starts another one.
Restart ==
    /\ ~up /\ up' = TRUE
    /\ UNCHANGED <<files, folding, tabs, agent, past, used>>

-----------------------------------------------------------------------------
TabStep(t) ==
    \/ \E p \in Pins : AddPin(t, p)
    \/ \E p \in Pins, r \in Replies : AddReply(t, p, r)
    \/ \E p \in Pins, status \in Statuses : SetStatus(t, p, status)
    \/ \E verdict \in Verdicts : SetDecision(t, verdict)
    \/ Put(t) \/ PutFails(t) \/ PostApproval(t)
    \/ Connect(t) \/ Answer(t) \/ FetchFails(t) \/ Hydrate(t) \/ Reload(t)

Next ==
    \/ \E t \in Tabs : TabStep(t)
    \/ \E p \in Pins : Delete(p)
    \/ \E t \in Tabs, preferred \in BOOLEAN :
          PostRound(NoPins, preferred) \/ PostRound(review[t].pins, preferred)
    \/ Register \/ FoldMerges \/ FoldEmpties
    \/ AgentReads \/ AgentConsumes \/ AgentDies \/ AgentFetches \/ AgentResolves
    \/ Crash \/ CrashWriting \/ Restart

Spec == Init /\ [][Next]_vars

\* Requests that are under way are carried out or fail, a dead daemon is started
\* again, and an agent that waits for feedback looks for it.
Fairness ==
    /\ WF_vars(Restart) /\ WF_vars(FoldMerges) /\ WF_vars(FoldEmpties)
    /\ WF_vars(AgentReads) /\ WF_vars(AgentConsumes)
    /\ \A t \in Tabs : /\ WF_vars(Put(t)) /\ WF_vars(PutFails(t))
                       /\ WF_vars(Answer(t)) /\ WF_vars(FetchFails(t))
                       /\ WF_vars(Hydrate(t))

FairSpec == Spec /\ Fairness

-----------------------------------------------------------------------------
(* Properties.                                                              *)

Kept(p) == p \in DOMAIN ReadStored.pins

Underway(p) == \E t \in Tabs : \E i \in DOMAIN queue[t] : p \in DOMAIN queue[t][i]

\* What a page or a daemon that goes away in the middle takes with it.
Lost == used.tears > 0 \/ used.reloads > 0

\* A pin that was dropped is in the feedback file, or in a snapshot that is still
\* to be sent, unless its reviewer deleted it or was told that saving failed; a
\* tab that replaces its review by an older answer does not take it back
\* (persistReview and hydrateReview of board-adapter.mjs, the PUT of daemon.mjs).
KeptOrTold ==
    \A p \in dropped \ deleted : Kept(p) \/ Underway(p) \/ Author[p] \in told \/ Lost

\* What is in a feedback file that parses stays there: no write, of whichever
\* tab, agent or fold, drops somebody's pin or a reply to it, only a delete
\* marker of its own reviewer does (mergeFeedback of feedback.mjs).
ContributionsKept ==
    [][stored' # Torn =>
         \A p \in DOMAIN ReadStored.pins \ deleted' :
            Kept(p)' /\ RepliesOf(ReadStored.pins, p) \subseteq RepliesOf(ReadStored.pins, p)']_vars

\* No round is lost, and none is carried out twice: a round that was posted waits in
\* the pending file until the agent or the record has got it, unless a later one was
\* written over it or the agent deleted it for another one it had read; and only one
\* of them gets it, once, unless both had it in hand at the same time or the daemon
\* died between the two writes of the fold (readFeedback and reconcilePending).
EveryRoundOnce ==
    /\ 1 .. rounds.posted \subseteq rounds.applied \cup rounds.gone \cup Waiting
    /\ rounds.again \subseteq rounds.shared

\* A dropped pin gets into the feedback file, unless it is deleted or its
\* reviewer is told: one failed save does not hold up the ones behind it.
EditsArrive ==
    \A p \in Pins : p \in dropped ~> (Kept(p) \/ p \in deleted \/ Author[p] \in told \/ Lost)

\* The agent reads whichever file the board produced: a pin in the feedback file
\* is read by an agent that keeps asking, unless it is deleted (readFeedback).
SubmissionRead ==
    \A p \in Pins : Kept(p) ~> (p \in seen \/ p \in deleted)
=============================================================================
