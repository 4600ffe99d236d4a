---------------------------- MODULE MCDesignBoard ----------------------------
(* DesignBoard with one of the reviewers dropping the pins, and either two    *)
(* edits of the two tabs, or rounds, torn writes and reloads next to one edit *)
(* of one tab while the other is closed.                                      *)
EXTENDS DesignBoard, TLC

AllOfOne == [p \in Pins |-> CHOOSE t \in Tabs : TRUE]

Closed(t) == /\ asked[t] = 0 /\ answers[t] = <<>> /\ t \notin listening
             /\ review[t] = Fresh /\ queue[t] = <<>>

OneTab == \E t \in Tabs : Closed(t)

Calm == rounds.posted = 0 /\ used.tears = 0 /\ used.reloads = 0

\* Bound: of two edits, a deletion and a crash, three in one run; what is not calm
\* comes with one edit; two rounds or one and an edit, with one death, no deletion and
\* no reload, in a tab whose event stream is not connected, while the agent does not
\* resolve.
MCNext ==
    /\ Next
    /\ used'.edits + used'.deletes + used'.crashes <= 3
    /\ Calm' \/ (OneTab' /\ used'.edits <= 1)
    /\ rounds'.posted = 0 \/ (/\ used'.deletes + used'.reloads = 0
                              /\ used'.edits + rounds'.posted <= 2
                              /\ used'.crashes + used'.tears <= 1
                              /\ listening' = {} /\ resolving' = Nothing)

MCSpec == Init /\ [][MCNext]_vars /\ Fairness
=============================================================================
