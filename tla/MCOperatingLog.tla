---------------------------- MODULE MCOperatingLog ----------------------------
(* OperatingLog from a few logs written before: what is of interest happens   *)
(* in the last entries of a long one.                                         *)
EXTENDS OperatingLog, TLC

CONSTANTS Cycles, Findings, Decisions, Gaps, Routes, Specs, Outcomes, Digests,
          Grades   \* sensitivities, confidences and ceilings

CycleEvent(c, to) == [family |-> "cycle", entity |-> c, cycle |-> c, to |-> to,
                      record |-> to = "preparing", empty |-> to = "cancelled"]

FindingRecord(c) == [cycle |-> c, parked |-> FALSE, sensitivity |-> 1,
                     confidence |-> 1, ceiling |-> 1]

FindingEvent(f, c, to, patch, by) ==
    [family |-> "finding", entity |-> f, cycle |-> c, to |-> to, actor |-> by,
     record |-> FindingRecord(c), patch |-> patch,
     amendment |-> [by |-> by, prior |-> 1, next |-> 1]]

ItemEvent(family, i, c, to) ==
    [family |-> family, entity |-> i, cycle |-> c, to |-> to, record |-> [cycle |-> c]]

RouteEvent(r, c, fs, to, d) ==
    [family |-> "route", entity |-> r, cycle |-> c, to |-> to,
     record |-> [cycle |-> c, findings |-> fs, routeDigest |-> d, previewDigest |-> d],
     routeDigest |-> d, previewDigest |-> d, confirmationDigest |-> d,
     transaction |-> "TXN"]

Patches == {<<>>} \cup [{"parked"} -> BOOLEAN]
                  \cup [{"sensitivity"} -> Grades] \cup [{"confidence"} -> Grades]

CycleEvents == {CycleEvent(c, to) : c \in Cycles, to \in DOMAIN CycleMoves}

FindingEvents ==
    {FindingEvent(f, c, to, patch, by) :
        f \in Findings, c \in Cycles, patch \in Patches,
        to \in DOMAIN FindingMoves \ {"accepted"}, by \in {"engine"}}
    \cup {[FindingEvent(f, c, "accepted", <<>>, by) EXCEPT !.amendment.next = n,
                                                             !.amendment.prior = p] :
        f \in Findings, c \in Cycles, by \in {"human", "engine"}, p \in Grades, n \in Grades}

DecisionEvents == {ItemEvent("decision", d, c, to) :
                      d \in Decisions, c \in Cycles, to \in DOMAIN DecisionMoves}

GapEvents == {ItemEvent("gap", g, c, to) :
                 g \in Gaps, c \in Cycles, to \in DOMAIN GapMoves}

RouteEvents ==
    {[RouteEvent(r, c, {f}, to, d) EXCEPT !.confirmationDigest = e] :
        r \in Routes, c \in Cycles, f \in Findings, to \in DOMAIN RouteMoves,
        d \in Digests, e \in Digests}
    \cup {[RouteEvent(r, c, {f}, "prepared", d) EXCEPT !.previewDigest = e] :
        r \in Routes, c \in Cycles, f \in Findings, d \in Digests, e \in Digests}

OtherEvents ==
    [family : {"spec"}, entity : Specs, cycle : Cycles, finding : Findings, to : {"linked"}]
    \cup [family : {"ship"}, entity : Specs, to : {"observed"}]
    \cup [family : {"outcome"}, entity : Outcomes, spec : Specs, metric : {"m"},
          status : {"pending"}, to : {"registered"}]
    \cup [family : {"outcome"}, entity : Outcomes, to : {"observed"}]
    \cup [family : {"outcome"}, entity : Outcomes, to : {"evaluated"},
          evaluation : {"positive"}, metric : {None}]
    \cup [family : {"learning"}, entity : {"l"}, to : {"recorded"}, evaluation : {"positive"}]
    \cup [family : {"evidence"}, entity : {"git"}, to : {"collected"}, freshness : {"fresh"}]
    \cup [family : {"discontinuity"}, entity : {"g"}, to : {"security"},
          authority : {"human"}, actor : {"human", "engine"}]
    \cup [family : {"audit"}, entity : {"g"}, to : {"recorded"}]

AnyEvents == CycleEvents \cup FindingEvents \cup DecisionEvents \cup GapEvents
               \cup RouteEvents \cup OtherEvents

\* The logs written before: a cycle under review with a finding, accepted, and
\* with a route, proposed, accepted, prepared or applied.
Start(c) == <<CycleEvent(c, "preparing"), CycleEvent(c, "collecting"),
              CycleEvent(c, "advising"), CycleEvent(c, "consolidating")>>

Reviewed(c, f) ==
    Start(c) \o <<FindingEvent(f, c, "proposed", <<>>, "engine"), CycleEvent(c, "reviewable")>>

Approved(c, f, r, d) ==
    Reviewed(c, f)
      \o <<FindingEvent(f, c, "accepted", <<>>, "human"),
           RouteEvent(r, c, {f}, "proposed", d), RouteEvent(r, c, {f}, "accepted", d)>>

Pasts(c, f, r, d) == {<<>>, Reviewed(c, f), Approved(c, f, r, d),
                      Approved(c, f, r, d) \o <<RouteEvent(r, c, {f}, "prepared", d)>>,
                      Approved(c, f, r, d) \o <<RouteEvent(r, c, {f}, "prepared", d),
                                               RouteEvent(r, c, {f}, "applied", d)>>}

Written(past) ==
    [i \in DOMAIN past |-> Entry(<<"past", i>>, i - 1, past[i])]

Alike == Permutations(EventIds) \cup Permutations(Cycles)

CONSTANT MaxMore   \* bound: entries added to a log written before

MCInit ==
    \E c \in Cycles, f \in Findings, r \in Routes, d \in Digests :
      \E past \in Pasts(c, f, r, d) :
        /\ log = Written(past)
        /\ ~Reduced(Genesis, log).thrown
        /\ board = Reduced(Genesis, log).board
        /\ checkpoint \in {Genesis, [head |-> Len(past), board |-> board]}

MCNext == Next /\ Len(log') <= MaxMore + Len(SelectSeq(log, LAMBDA x : x.id \notin EventIds))

MCSpec == MCInit /\ [][MCNext]_vars
=============================================================================
