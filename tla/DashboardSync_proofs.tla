------------------------ MODULE DashboardSync_proofs ------------------------
(***************************************************************************)
(* Proofs about DashboardSync.                                             *)
(*                                                                         *)
(* A page is in step because the patches on their way to it are the steps  *)
(* between successive graphs, of which the last is what is served now.     *)
(* What a page shows is, item by item, one of two of these graphs: the one *)
(* the next patch starts from, or the one it fetched.                      *)
(***************************************************************************)
EXTENDS DashboardSync, WellFoundedInduction, SequenceTheorems, TLAPS

----------------------------------------------------------------------------
\* Patches.

\* A difference is a patch.
LEMMA DiffIsPatch ==
    ASSUME NEW prev \in Graph, NEW next \in Graph
    PROVE  Diff(prev, next) \in Patch
  BY DEF Diff, Patch, Graph

\* An empty difference is between two graphs that are the same.
LEMMA EmptyMeansSame ==
    ASSUME NEW prev \in Graph, NEW next \in Graph, Empty(Diff(prev, next))
    PROVE  prev = next
<1>1. ASSUME NEW i \in Items
      PROVE  prev[i] = next[i]
  BY SMT DEF Diff, Empty, Graph
<1> QED
  BY <1>1 DEF Graph

\* Patching a graph by its difference to another gives the other.
LEMMA AppliedDiff ==
    ASSUME NEW prev \in Graph, NEW next \in Graph
    PROVE  Applied(prev, Diff(prev, next)) = next
<1>1. ASSUME NEW i \in Items
      PROVE  Applied(prev, Diff(prev, next))[i] = next[i]
  BY DEF Applied, Diff, Graph
<1> QED
  BY <1>1 DEF Applied, Graph

\* What merging a patch gives.
LEMMA MergedIsGraph ==
    ASSUME NEW g \in Graph, NEW patch \in Patch
    PROVE  Merged(g, patch) \in Graph
  BY DEF Merged, Graph, Patch

\* An item that was where a patch starts comes to where the patch ends, and any
\* other comes there or stays.
LEMMA MergedDiff ==
    ASSUME NEW g \in Graph, NEW prev \in Graph, NEW next \in Graph, NEW i \in Items
    PROVE  /\ g[i] = prev[i] => Merged(g, Diff(prev, next))[i] = next[i]
           /\ Merged(g, Diff(prev, next))[i] \in {next[i], g[i]}
  BY DEF Merged, Diff, Graph

----------------------------------------------------------------------------
\* Types.

LEMMA BuiltIsGraph == TypeOK => Built \in Graph
  BY DEF TypeOK, Built, Graph

LEMMA BroadcastTyped ==
    ASSUME TypeOK, NEW patch \in Patch, Broadcast(patch), Applied(served, patch) \in Graph
    PROVE  /\ served' \in Graph
           /\ stream' \in [Pages -> Seq(Patch)]
           /\ subscribed' \subseteq Pages /\ spoiled' \subseteq Pages
           /\ fetch' \in [Pages -> [state : {"none", "answered", "loaded", "failed"}, graph : Graph,
                                    before : Nat]]
           /\ shown' \in [Pages -> Graph]
<1>1. \A p \in Pages : Append(stream[p], patch) \in Seq(Patch)
  BY DEF TypeOK
<1> QED
  BY <1>1 DEF TypeOK, Broadcast

LEMMA TypeStep == TypeOK /\ [Next]_vars => TypeOK'
<1> SUFFICES ASSUME TypeOK, [Next]_vars
             PROVE  TypeOK'
  OBVIOUS
<1>1. ASSUME NEW i \in Items, StartWriting(i) \/ FinishWriting(i) \/ Delete(i)
      PROVE  TypeOK'
  <2>1. /\ disk' \in Graph
        /\ half' \subseteq Items
    <3>1. CASE StartWriting(i)
      BY <3>1 DEF StartWriting, TypeOK
    <3>2. CASE FinishWriting(i)
      <4>1. writes + 2 \in Nat
        BY DEF TypeOK
      <4> QED
        BY <3>2, <4>1 DEF FinishWriting, TypeOK, Graph
    <3>3. CASE Delete(i)
      <4>1. 0 \in Nat
        OBVIOUS
      <4> QED
        BY <3>3, <4>1 DEF Delete, TypeOK, Graph
    <3> QED
      BY <1>1, <3>1, <3>2, <3>3
  <2>2. Written
    BY <1>1 DEF StartWriting, FinishWriting, Delete
  <2> QED
    BY <2>1, <2>2 DEF Written, pages, TypeOK
<1>2. ASSUME BuildFirst
      PROVE  TypeOK'
  BY <1>2, BuiltIsGraph DEF BuildFirst, files, pages, TypeOK
<1>3. ASSUME StartWatch \/ WatchError \/ Poll
      PROVE  TypeOK'
  <2>1. Scan \in Graph \X SUBSET Items
    BY DEF Scan, TypeOK
  <2>2. CASE StartWatch
    BY <2>1, <2>2 DEF StartWatch, files, pages, TypeOK
  <2>3. CASE WatchError
    <3>1. /\ unwatched' = (unwatched \/ event) /\ event' = FALSE /\ watching' = "poll"
          /\ seen' = Scan /\ drops' = drops + 1
          /\ UNCHANGED <<files, debounce, snapshot, served, pages>>
      BY <2>3 DEF WatchError
    <3>2. unwatched' \in BOOLEAN
      BY <3>1, Zenon DEF TypeOK
    <3>3. drops' \in Nat
      BY <3>1 DEF TypeOK
    <3> QED
      BY <2>1, <3>1, <3>2, <3>3 DEF files, pages, TypeOK
  <2>4. CASE Poll
    BY <2>1, <2>4 DEF Poll, files, pages, TypeOK
  <2> QED
    BY <1>3, <2>2, <2>3, <2>4
<1>4. ASSUME Notify
      PROVE  TypeOK'
  BY <1>4 DEF Notify, files, pages, TypeOK
<1>5. ASSUME Flush
      PROVE  TypeOK'
  <2>1. CASE half # {} /\ UNCHANGED <<snapshot, served, pages>>
    BY <1>5, <2>1 DEF Flush, files, pages, Undoable, TypeOK
  <2>2. CASE snapshot' = Built /\ UNCHANGED <<served, pages>>
    BY <1>5, <2>2, BuiltIsGraph DEF Flush, files, pages, Undoable, TypeOK
  <2>3. CASE snapshot' = Built /\ Broadcast(Diff(snapshot, Built))
    <3>1. Built \in Graph /\ snapshot \in Graph /\ served \in Graph
      BY BuiltIsGraph DEF TypeOK
    <3>2. Diff(snapshot, Built) \in Patch
      BY <3>1, DiffIsPatch
    <3>3. Applied(served, Diff(snapshot, Built)) \in Graph
      BY <3>1, <3>2 DEF Applied, Graph, Patch
    <3> HIDE DEF Broadcast, Diff, Applied, Built
    <3>4. /\ served' \in Graph
          /\ stream' \in [Pages -> Seq(Patch)]
          /\ subscribed' \subseteq Pages /\ spoiled' \subseteq Pages
          /\ fetch' \in [Pages -> [state : {"none", "answered", "loaded", "failed"}, graph : Graph,
                                   before : Nat]]
          /\ shown' \in [Pages -> Graph]
      BY <2>3, <3>2, <3>3, BroadcastTyped
    <3> QED
      BY <1>5, <2>3, <3>1, <3>4 DEF Flush, files, Undoable, TypeOK
  <2> QED
    BY <1>5, <2>1, <2>2, <2>3 DEF Flush
<1>6. ASSUME NEW p \in Pages, PageStep(p) \/ FetchFails(p) \/ Disconnect(p)
      PROVE  TypeOK'
  <2>1. CASE Subscribe(p)
    BY <2>1 DEF Subscribe, files, watch, TypeOK
  <2>2. CASE ServeGraph(p)
    <3>1. Len(stream[p]) \in Nat
      BY DEF TypeOK
    <3> QED
      BY <2>2, <3>1 DEF ServeGraph, files, watch, TypeOK
  <2>3. CASE LoadGraph(p)
    BY <2>3 DEF LoadGraph, files, watch, TypeOK
  <2>4. CASE Deliver(p)
    <3>1. stream[p] \in Seq(Patch) /\ stream[p] # <<>>
      BY <2>4 DEF Deliver, TypeOK
    <3>2. Head(stream[p]) \in Patch /\ Tail(stream[p]) \in Seq(Patch)
      BY <3>1
    <3>3. Merged(shown[p], Head(stream[p])) \in Graph
      BY <3>2, MergedIsGraph DEF TypeOK
    <3>4. stream' \in [Pages -> Seq(Patch)] /\ shown' \in [Pages -> Graph]
      BY <2>4, <3>2, <3>3 DEF Deliver, TypeOK
    <3>5. fetch' \in [Pages -> [state : {"none", "answered", "loaded", "failed"}, graph : Graph,
                                before : Nat]]
      <4>1. fetch[p] \in [state : {"none", "answered", "loaded", "failed"}, graph : Graph,
                          before : Nat]
        BY DEF TypeOK
      <4> DEFINE left == IF fetch[p].before = 0 THEN 0 ELSE fetch[p].before - 1
      <4>2. left \in Nat
        BY <4>1
      <4>3. fetch' = [fetch EXCEPT ![p] = [@ EXCEPT !.before = left]]
        BY <2>4 DEF Deliver
      <4> HIDE DEF left
      <4> QED
        BY <4>1, <4>2, <4>3 DEF TypeOK
    <3>6. spoiled' \subseteq Pages
      BY <2>4 DEF Deliver, TypeOK
    <3> QED
      BY <2>4, <3>4, <3>5, <3>6 DEF Deliver, files, watch, TypeOK
  <2>5. CASE Disconnect(p)
    <3>1. stream' \in [Pages -> Seq(Patch)]
      <4>1. <<>> \in Seq(Patch)
        OBVIOUS
      <4> QED
        BY <2>5, <4>1 DEF Disconnect, TypeOK
    <3>2. fetch' \in [Pages -> [state : {"none", "answered", "loaded", "failed"}, graph : Graph,
                                before : Nat]]
      <4>1. fetch' = [fetch EXCEPT ![p] = [@ EXCEPT !.before = 0]]
        BY <2>5 DEF Disconnect
      <4> QED
        BY <4>1 DEF TypeOK
    <3>3. spoiled' \subseteq Pages
      BY <2>5 DEF Disconnect, TypeOK
    <3>4. drops' \in Nat /\ subscribed' \subseteq Pages
      BY <2>5 DEF Disconnect, TypeOK
    <3> QED
      BY <2>5, <3>1, <3>2, <3>3, <3>4 DEF Disconnect, files, watch, TypeOK
  <2>6. CASE FetchFails(p)
    <3>1. None \in Graph /\ drops' \in Nat
      BY <2>6 DEF None, Graph, FetchFails, TypeOK
    <3> QED
      BY <2>6, <3>1 DEF FetchFails, files, watch, TypeOK
  <2> QED
    BY <1>6, <2>1, <2>2, <2>3, <2>4, <2>5, <2>6 DEF PageStep
<1>7. CASE UNCHANGED vars
  BY <1>7 DEF vars, TypeOK
<1> QED
  BY <1>1, <1>2, <1>3, <1>4, <1>5, <1>6, <1>7 DEF Next

\* Every graph, the watcher's, the server's and the pages', gives every item a
\* version, whatever is built, lost or merged (lib/dashboard/server.mjs).
THEOREM TypeCorrect == Spec => []TypeOK
<1>1. Init => TypeOK
  <2> SUFFICES ASSUME Init
               PROVE  TypeOK
    OBVIOUS
  <2>1. <<>> \in Seq(Patch) /\ None \in Graph
    BY DEF None, Graph
  <2>2. disk \in Graph
    BY DEF Init, Graph
  <2> QED
    BY <2>1, <2>2 DEF Init, TypeOK
<1> QED
  BY <1>1, TypeStep, PTL DEF Spec

----------------------------------------------------------------------------
\* The graph served.

LEMMA SameStep == TypeOK /\ served = snapshot /\ [Next]_vars => served' = snapshot'
<1> SUFFICES ASSUME TypeOK, served = snapshot, [Next]_vars
             PROVE  served' = snapshot'
  OBVIOUS
<1>1. CASE Flush
  <2>1. CASE Empty(Diff(snapshot, Built)) /\ snapshot' = Built /\ served' = served
    BY <2>1, BuiltIsGraph, EmptyMeansSame DEF TypeOK
  <2>2. CASE snapshot' = Built /\ served' = Applied(served, Diff(snapshot, Built))
    BY <2>2, BuiltIsGraph, AppliedDiff DEF TypeOK
  <2>3. CASE UNCHANGED <<snapshot, served>>
    BY <2>3
  <2> QED
    BY <1>1, <2>1, <2>2, <2>3 DEF Flush, Broadcast
<1>2. CASE BuildFirst
  BY <1>2 DEF BuildFirst
<1>3. CASE UNCHANGED <<snapshot, served>>
  BY <1>3
<1> QED
  BY <1>1, <1>2, <1>3 DEF Next, StartWriting, FinishWriting, Delete, Written, StartWatch,
     WatchError, Notify, Poll, PageStep, Subscribe, ServeGraph, LoadGraph, Deliver,
     FetchFails, Disconnect, watch, vars

\* The graph served is the watcher's, before the first one is built too.
Same == served = snapshot

LEMMA AlwaysSame == Spec => []Same
<1>1. Init => Same
  BY DEF Init, Same
<1>2. TypeOK /\ Same /\ [Next]_vars => Same'
  BY SameStep DEF Same
<1> QED
  BY <1>1, <1>2, TypeCorrect, PTL DEF Spec

\* The graph served is the one the watcher last built: patching it by the
\* difference never drops an update (lib/dashboard/server.mjs:151).
THEOREM ServedAsBuilt == Spec => []ServedIsBuilt
<1>1. Same => ServedIsBuilt
  BY DEF Same, ServedIsBuilt
<1> QED
  BY <1>1, AlwaysSame, PTL

----------------------------------------------------------------------------
\* The graphs between the patches on their way to a page.

\* Before the first graph is built there is no page.
Quiet == watching = "no" => \A p \in Pages : p \notin subscribed /\ fetch[p].state = "none"

\* Nothing is on its way where no stream is open.
Idle == \A p \in Pages : p \notin subscribed => stream[p] = <<>>

\* The patches on their way are the steps between these graphs, up to the one served.
Linked(p, gs) ==
    /\ \A n \in 1 .. Len(stream[p]) : stream[p][n] = Diff(gs[n - 1], gs[n])
    /\ gs[Len(stream[p])] = served

\* The answer to the page's fetch is one of these graphs, and once it is loaded the
\* page shows, item by item, that one or the one the next patch starts from.
Held(p, gs) ==
    p \notin spoiled /\ fetch[p].state # "none" =>
        /\ fetch[p].before <= Len(stream[p])
        /\ fetch[p].state = "answered" => fetch[p].graph = gs[fetch[p].before]
        /\ fetch[p].state = "loaded" =>
              \A i \in Items : shown[p][i] \in {gs[0][i], gs[fetch[p].before][i]}

Chained(p) == \E gs \in [0 .. Len(stream[p]) -> Graph] : Linked(p, gs) /\ Held(p, gs)

ChainInv == Quiet /\ Idle /\ \A p \in Pages : Chained(p)

\* A step that touches nothing of a page.
LEMMA ChainKept ==
    ASSUME NEW p \in Pages, Chained(p), stream'[p] = stream[p], served' = served,
           fetch'[p] = fetch[p], shown'[p] = shown[p], spoiled \subseteq spoiled'
    PROVE  Chained(p)'
<1>1. PICK gs \in [0 .. Len(stream[p]) -> Graph] : Linked(p, gs) /\ Held(p, gs)
  BY DEF Chained
<1>2. Linked(p, gs)'
  BY <1>1 DEF Linked
<1>3. Held(p, gs)'
  BY <1>1 DEF Held
<1> QED
  BY <1>1, <1>2, <1>3 DEF Chained

\* A step after which nothing is on its way to a page.
LEMMA ChainFresh ==
    ASSUME NEW p \in Pages, stream'[p] = <<>>, served' \in Graph,
           p \notin spoiled' /\ fetch'[p].state # "none" =>
               /\ fetch'[p].before = 0
               /\ fetch'[p].state = "answered" => fetch'[p].graph = served'
               /\ fetch'[p].state = "loaded" => shown'[p] = served'
    PROVE  Chained(p)'
<1>1. Len(stream'[p]) = 0
  OBVIOUS
<1>2. PICK gs \in [0 .. Len(stream'[p]) -> Graph] : gs[0] = served'
  <2>1. [n \in 0 .. 0 |-> served'] \in [0 .. Len(stream'[p]) -> Graph]
    BY <1>1
  <2>2. [n \in 0 .. 0 |-> served'][0] = served'
    OBVIOUS
  <2> QED
    BY <2>1, <2>2
<1>3. Linked(p, gs)'
  BY <1>1, <1>2 DEF Linked
<1>4. Held(p, gs)'
  BY <1>1, <1>2 DEF Held
<1> QED
  BY <1>2, <1>3, <1>4 DEF Chained

\* The graph served is patched and the patch sent to a page.
LEMMA ChainLonger ==
    ASSUME TypeOK, NEW p \in Pages, Chained(p), served' \in Graph,
           stream'[p] = Append(stream[p], Diff(served, served')),
           fetch'[p] = fetch[p], shown'[p] = shown[p], spoiled \subseteq spoiled'
    PROVE  Chained(p)'
<1>1. PICK gs \in [0 .. Len(stream[p]) -> Graph] : Linked(p, gs) /\ Held(p, gs)
  BY DEF Chained
<1> DEFINE len == Len(stream[p])
           longer == [n \in 0 .. len + 1 |-> IF n = len + 1 THEN served' ELSE gs[n]]
<1>2. /\ len \in Nat /\ stream[p] \in Seq(Patch)
      /\ Len(stream'[p]) = len + 1
      /\ stream'[p][len + 1] = Diff(served, served')
      /\ \A n \in 1 .. len : stream'[p][n] = stream[p][n]
  BY DEF TypeOK
<1>3. PICK hs \in [0 .. Len(stream'[p]) -> Graph] :
          /\ hs[len + 1] = served'
          /\ \A n \in 0 .. len : hs[n] = gs[n]
  <2>1. /\ longer \in [0 .. Len(stream'[p]) -> Graph]
        /\ longer[len + 1] = served'
        /\ \A n \in 0 .. len : longer[n] = gs[n]
    BY <1>1, <1>2
  <2> QED
    BY <2>1
<1> HIDE DEF len
<1>4. Linked(p, hs)'
  <2>1. ASSUME NEW n \in 1 .. len + 1
        PROVE  stream'[p][n] = Diff(hs[n - 1], hs[n])
    <3>1. CASE n = len + 1
      <4>1. n - 1 = len /\ hs[len] = served
        BY <1>1, <1>2, <1>3, <3>1 DEF Linked, len
      <4> QED
        BY <1>2, <1>3, <3>1, <4>1
    <3>2. CASE n # len + 1
      <4>1. n \in 1 .. len /\ n - 1 \in 0 .. len /\ n \in 0 .. len
        BY <1>2, <3>2
      <4>2. stream[p][n] = Diff(gs[n - 1], gs[n])
        BY <1>1, <4>1 DEF Linked, len
      <4> QED
        BY <1>2, <1>3, <4>1, <4>2
    <3> QED
      BY <3>1, <3>2
  <2> QED
    BY <1>2, <1>3, <2>1 DEF Linked
<1>5. Held(p, hs)'
  <2>1. CASE p \notin spoiled /\ fetch[p].state # "none"
    <3>1. fetch[p].before \in 0 .. len /\ 0 \in 0 .. len
      BY <1>1, <1>2, <2>1 DEF Held, len, TypeOK
    <3>2. hs[fetch[p].before] = gs[fetch[p].before] /\ hs[0] = gs[0]
      BY <1>3, <3>1
    <3> QED
      BY <1>1, <1>2, <2>1, <3>1, <3>2 DEF Held
  <2>2. CASE ~(p \notin spoiled /\ fetch[p].state # "none")
    BY <2>2 DEF Held
  <2> QED
    BY <2>1, <2>2
<1> QED
  BY <1>3, <1>4, <1>5 DEF Chained

\* A patch is merged by the page it was sent to.
LEMMA ChainShorter ==
    ASSUME TypeOK, NEW p \in Pages, Chained(p), Deliver(p)
    PROVE  Chained(p)'
<1>1. PICK gs \in [0 .. Len(stream[p]) -> Graph] : Linked(p, gs) /\ Held(p, gs)
  BY DEF Chained
<1> DEFINE len == Len(stream[p])
           shorter == [n \in 0 .. len - 1 |-> gs[n + 1]]
           before == fetch[p].before
<1>2. /\ stream[p] \in Seq(Patch) /\ len \in Nat \ {0}
      /\ stream'[p] = Tail(stream[p]) /\ Head(stream[p]) = stream[p][1]
      /\ Len(stream'[p]) = len - 1
      /\ \A n \in 1 .. len - 1 : stream'[p][n] = stream[p][n + 1]
  <2>1. stream[p] \in Seq(Patch) /\ stream[p] # <<>> /\ stream'[p] = Tail(stream[p])
    BY DEF Deliver, TypeOK
  <2> QED
    BY <2>1, HeadTailProperties
<1>3. /\ before \in Nat /\ served' = served
      /\ shown'[p] = Merged(shown[p], Head(stream[p]))
      /\ fetch'[p].before = IF before = 0 THEN 0 ELSE before - 1
      /\ fetch'[p].state = fetch[p].state /\ fetch'[p].graph = fetch[p].graph
      /\ spoiled' = IF fetch[p].state = "answered" /\ before = 0 THEN spoiled \cup {p} ELSE spoiled
      /\ shown[p] \in Graph
  <2>1. fetch' = [fetch EXCEPT ![p] =
                       [@ EXCEPT !.before = IF before = 0 THEN 0 ELSE before - 1]]
    BY DEF Deliver
  <2> QED
    BY <2>1 DEF Deliver, watch, TypeOK
<1> HIDE DEF before
<1>4. PICK hs \in [0 .. Len(stream'[p]) -> Graph] :
          \A n \in 0 .. len - 1 : hs[n] = gs[n + 1]
  <2>1. /\ shorter \in [0 .. Len(stream'[p]) -> Graph]
        /\ \A n \in 0 .. len - 1 : shorter[n] = gs[n + 1]
    BY <1>1, <1>2
  <2> QED
    BY <2>1
<1> HIDE DEF len
<1>5. Linked(p, hs)'
  <2>1. ASSUME NEW n \in 1 .. len - 1
        PROVE  stream'[p][n] = Diff(hs[n - 1], hs[n])
    <3>1. n + 1 \in 1 .. len /\ n - 1 \in 0 .. len - 1 /\ n \in 0 .. len - 1
          /\ (n + 1) - 1 = n /\ (n - 1) + 1 = n
      BY <1>2
    <3>2. stream[p][n + 1] = Diff(gs[n], gs[n + 1])
      BY <1>1, <3>1 DEF Linked, len
    <3> QED
      BY <1>2, <1>4, <3>1, <3>2
  <2>2. hs[len - 1] = served'
    <3>1. len - 1 \in 0 .. len - 1 /\ (len - 1) + 1 = len
      BY <1>2
    <3> QED
      BY <1>1, <1>3, <1>4, <3>1 DEF Linked, len
  <2> QED
    BY <1>2, <2>1, <2>2 DEF Linked
<1>6. Held(p, hs)'
  <2> SUFFICES ASSUME p \notin spoiled', fetch'[p].state # "none"
               PROVE  /\ fetch'[p].before <= len - 1
                      /\ fetch'[p].state = "answered" => fetch'[p].graph = hs[fetch'[p].before]
                      /\ fetch'[p].state = "loaded" =>
                           \A i \in Items : shown'[p][i] \in {hs[0][i], hs[fetch'[p].before][i]}
    BY <1>2 DEF Held
  <2>1. /\ p \notin spoiled /\ before <= len
        /\ fetch[p].state = "answered" => fetch[p].graph = gs[before] /\ before # 0
        /\ fetch[p].state = "loaded" =>
              \A i \in Items : shown[p][i] \in {gs[0][i], gs[before][i]}
    BY <1>1, <1>3 DEF Held, len, before
  <2>2. fetch'[p].before \in 0 .. len - 1 /\ 0 \in 0 .. len - 1
    BY <1>2, <1>3, <2>1
  <2>3. before # 0 => hs[fetch'[p].before] = gs[before]
    <3> SUFFICES ASSUME before # 0
                 PROVE  hs[fetch'[p].before] = gs[before]
      OBVIOUS
    <3>1. fetch'[p].before + 1 = before
      BY <1>3
    <3> QED
      BY <1>4, <2>2, <3>1
  <2>4. hs[0] = gs[1] /\ gs[0] \in Graph /\ gs[1] \in Graph
    <3>1. 0 \in 0 .. len /\ 1 \in 0 .. len
      BY <1>2
    <3> QED
      BY <1>1, <1>4, <2>2, <3>1 DEF len
  <2>5. Head(stream[p]) = Diff(gs[0], gs[1])
    <3>1. 1 \in 1 .. len /\ 1 - 1 = 0
      BY <1>2
    <3> QED
      BY <1>1, <1>2, <3>1 DEF Linked, len
  <2>6. ASSUME fetch[p].state = "loaded", NEW i \in Items
        PROVE  shown'[p][i] \in {hs[0][i], hs[fetch'[p].before][i]}
    <3> DEFINE m == Merged(shown[p], Diff(gs[0], gs[1]))[i]
    <3>1. (shown[p][i] = gs[0][i] => m = gs[1][i]) /\ m \in {gs[1][i], shown[p][i]}
      BY <1>3, <2>4, MergedDiff
    <3>2. shown'[p][i] = m
      BY <1>3, <2>5
    <3> HIDE DEF m
    <3>3. shown[p][i] \in {gs[0][i], gs[before][i]}
      BY <2>1, <2>6
    <3>4. CASE before = 0
      BY <2>4, <3>1, <3>2, <3>3, <3>4
    <3>5. CASE before # 0
      BY <2>3, <2>4, <3>1, <3>2, <3>3, <3>5
    <3> QED
      BY <3>4, <3>5
  <2>7. fetch'[p].state = "answered" => fetch'[p].graph = hs[fetch'[p].before]
    BY <1>3, <2>1, <2>3
  <2> QED
    BY <1>2, <1>3, <2>2, <2>6, <2>7
<1> QED
  BY <1>4, <1>5, <1>6 DEF Chained

\* The watcher's flush broadcasts, or leaves the graph served and the pages alone.
LEMMA ChainFlush ==
    ASSUME TypeOK, TypeOK', Same, ChainInv, Flush
    PROVE  ChainInv'
<1>0. /\ TypeOK /\ Quiet /\ Idle /\ \A p \in Pages : Chained(p)
      /\ watching' = watching
  BY DEF ChainInv, Flush
<1>1. CASE UNCHANGED <<served, pages>>
  <2>1. Quiet' /\ Idle'
    BY <1>0, <1>1 DEF Quiet, Idle, pages
  <2>2. ASSUME NEW p \in Pages
        PROVE  Chained(p)'
    BY <1>0, <1>1, ChainKept DEF pages
  <2> QED
    BY <2>1, <2>2 DEF ChainInv
<1>2. CASE Broadcast(Diff(snapshot, Built))
  <2>1. served' = Built /\ served = snapshot /\ Built \in Graph
    BY <1>2, BuiltIsGraph, AppliedDiff DEF Same, Broadcast, TypeOK
  <2>2. /\ subscribed' = subscribed /\ fetch' = fetch /\ shown' = shown
        /\ spoiled' = spoiled \cup {p \in Pages \ subscribed : fetch[p].state # "none"}
        /\ \A p \in Pages : stream'[p] = IF p \in subscribed
                                         THEN Append(stream[p], Diff(served, served'))
                                         ELSE stream[p]
    BY <1>2, <2>1 DEF Broadcast
  <2>3. Quiet' /\ Idle'
    BY <1>0, <2>2 DEF Quiet, Idle
  <2>4. ASSUME NEW p \in Pages
        PROVE  Chained(p)'
    <3>1. CASE p \in subscribed
      BY <1>0, <2>1, <2>2, <3>1, ChainLonger
    <3>2. CASE p \notin subscribed
      <4>1. stream'[p] = <<>> /\ (p \notin spoiled' => fetch'[p].state = "none")
        BY <1>0, <2>2, <3>2 DEF Idle
      <4> QED
        BY <2>1, <4>1, ChainFresh
    <3> QED
      BY <3>1, <3>2
  <2> QED
    BY <2>3, <2>4 DEF ChainInv
<1> QED
  BY <1>1, <1>2 DEF Flush

\* The steps of a page.
LEMMA ChainPage ==
    ASSUME TypeOK, TypeOK', ChainInv, NEW q \in Pages,
           PageStep(q) \/ FetchFails(q) \/ Disconnect(q)
    PROVE  ChainInv'
<1>0. /\ TypeOK /\ Quiet /\ Idle /\ \A p \in Pages : Chained(p)
      /\ subscribed \subseteq Pages /\ served \in Graph
      /\ \A p \in Pages : fetch[p] \in [state : {"none", "answered", "loaded", "failed"},
                                        graph : Graph, before : Nat]
  BY DEF ChainInv, TypeOK
<1>1. CASE Subscribe(q)
  <2>1. Quiet' /\ Idle'
    BY <1>0, <1>1 DEF Subscribe, Quiet, Idle, watch
  <2>2. ASSUME NEW p \in Pages
        PROVE  Chained(p)'
    BY <1>0, <1>1, ChainKept DEF Subscribe, watch
  <2> QED
    BY <2>1, <2>2 DEF ChainInv
<1>2. CASE ServeGraph(q)
  <2> DEFINE answer == [state |-> "answered", graph |-> served, before |-> Len(stream[q])]
  <2>1. /\ watching \in {"fs", "poll"} /\ watching' = watching /\ served' = served
        /\ UNCHANGED <<stream, subscribed, shown, spoiled>>
        /\ fetch' = [fetch EXCEPT ![q] = answer]
    BY <1>2 DEF ServeGraph, watch
  <2>2. fetch'[q] = answer /\ \A p \in Pages \ {q} : fetch'[p] = fetch[p]
    BY <2>1 DEF TypeOK
  <2>3. Quiet' /\ Idle'
    BY <1>0, <2>1 DEF Quiet, Idle
  <2>4. Chained(q)'
    <3>1. PICK gs \in [0 .. Len(stream[q]) -> Graph] : Linked(q, gs) /\ Held(q, gs)
      BY <1>0 DEF Chained
    <3>2. Linked(q, gs)'
      BY <2>1, <3>1 DEF Linked
    <3>3. Len(stream[q]) \in Nat
      BY DEF TypeOK
    <3>4. Held(q, gs)'
      BY <2>1, <2>2, <3>1, <3>3 DEF Held, Linked
    <3> QED
      BY <2>1, <3>1, <3>2, <3>4 DEF Chained
  <2>5. ASSUME NEW p \in Pages \ {q}
        PROVE  Chained(p)'
    BY <1>0, <2>1, <2>2, ChainKept
  <2> QED
    BY <2>3, <2>4, <2>5 DEF ChainInv
<1>3. CASE LoadGraph(q)
  <2> DEFINE loaded == [fetch[q] EXCEPT !.state = "loaded"]
  <2>1. /\ fetch[q].state = "answered" /\ watching' = watching /\ served' = served
        /\ UNCHANGED <<stream, subscribed, spoiled>>
        /\ fetch' = [fetch EXCEPT ![q] = loaded]
        /\ shown' = [shown EXCEPT ![q] = fetch[q].graph]
    BY <1>3 DEF LoadGraph, watch
  <2>2. /\ fetch'[q] = loaded /\ shown'[q] = fetch[q].graph
        /\ \A p \in Pages \ {q} : fetch'[p] = fetch[p] /\ shown'[p] = shown[p]
    BY <2>1 DEF TypeOK
  <2>3. fetch'[q].state = "loaded" /\ fetch'[q].before = fetch[q].before
    BY <1>0, <2>2
  <2>4. Quiet' /\ Idle'
    <3>1. watching # "no"
      BY <1>0, <2>1 DEF Quiet
    <3> QED
      BY <1>0, <2>1, <3>1 DEF Quiet, Idle
  <2>5. Chained(q)'
    <3>1. PICK gs \in [0 .. Len(stream[q]) -> Graph] : Linked(q, gs) /\ Held(q, gs)
      BY <1>0 DEF Chained
    <3>2. Linked(q, gs)'
      BY <2>1, <3>1 DEF Linked
    <3>3. Held(q, gs)'
      BY <2>1, <2>2, <2>3, <3>1 DEF Held
    <3> QED
      BY <2>1, <3>1, <3>2, <3>3 DEF Chained
  <2>6. ASSUME NEW p \in Pages \ {q}
        PROVE  Chained(p)'
    BY <1>0, <2>1, <2>2, ChainKept
  <2> QED
    BY <2>4, <2>5, <2>6 DEF ChainInv
<1>4. CASE Deliver(q)
  <2> DEFINE took == [fetch[q] EXCEPT !.before = IF fetch[q].before = 0 THEN 0
                                                 ELSE fetch[q].before - 1]
  <2>1. /\ watching' = watching /\ served' = served /\ subscribed' = subscribed
        /\ stream[q] # <<>> /\ spoiled \subseteq spoiled'
        /\ fetch' = [fetch EXCEPT ![q] = took]
        /\ stream' = [stream EXCEPT ![q] = Tail(@)]
        /\ shown' = [shown EXCEPT ![q] = Merged(@, Head(stream[q]))]
    BY <1>4 DEF Deliver, watch
  <2>2. /\ took.state = fetch[q].state
        /\ \A p \in Pages \ {q} : fetch'[p] = fetch[p] /\ shown'[p] = shown[p]
                                   /\ stream'[p] = stream[p]
        /\ fetch'[q] = took
    BY <1>0, <2>1 DEF TypeOK
  <2>3. Quiet'
    <3>1. \A p \in Pages : fetch'[p].state = fetch[p].state
      BY <2>2
    <3> QED
      BY <1>0, <2>1, <3>1 DEF Quiet
  <2>4. Idle'
    BY <1>0, <2>1, <2>2 DEF Idle
  <2>5. Chained(q)'
    BY <1>0, <1>4, ChainShorter
  <2>6. ASSUME NEW p \in Pages \ {q}
        PROVE  Chained(p)'
    BY <1>0, <2>1, <2>2, ChainKept
  <2> QED
    BY <2>3, <2>4, <2>5, <2>6 DEF ChainInv
<1>5. CASE Disconnect(q)
  <2> DEFINE lost == [fetch[q] EXCEPT !.before = 0]
  <2>1. /\ watching' = watching /\ served' = served /\ shown' = shown
        /\ subscribed' = subscribed \ {q} /\ q \in subscribed
        /\ spoiled \subseteq spoiled'
        /\ fetch' = [fetch EXCEPT ![q] = lost]
        /\ stream' = [stream EXCEPT ![q] = <<>>]
        /\ q \notin spoiled' =>
              /\ fetch[q].state = "answered" => ~(Len(stream[q]) > fetch[q].before)
              /\ fetch[q].state = "loaded" => stream[q] = <<>>
    BY <1>5 DEF Disconnect, watch
  <2>2. /\ lost.state = fetch[q].state /\ lost.before = 0 /\ lost.graph = fetch[q].graph
        /\ \A p \in Pages \ {q} : fetch'[p] = fetch[p] /\ stream'[p] = stream[p]
        /\ fetch'[q] = lost /\ stream'[q] = <<>>
    BY <1>0, <2>1 DEF TypeOK
  <2>3. Quiet'
    <3>1. \A p \in Pages : fetch'[p].state = fetch[p].state
      BY <2>2
    <3> QED
      BY <1>0, <2>1, <3>1 DEF Quiet
  <2>4. Idle'
    BY <1>0, <2>1, <2>2 DEF Idle
  <2>5. Chained(q)'
    <3>1. PICK gs \in [0 .. Len(stream[q]) -> Graph] : Linked(q, gs) /\ Held(q, gs)
      BY <1>0 DEF Chained
    <3>2. Len(stream[q]) \in Nat /\ fetch[q].before \in Nat
      BY <1>0 DEF TypeOK
    <3>3. ASSUME q \notin spoiled', fetch[q].state = "answered"
          PROVE  fetch[q].graph = served
      <4>1. q \notin spoiled /\ fetch[q].before = Len(stream[q])
        BY <2>1, <3>1, <3>2, <3>3 DEF Held
      <4> QED
        BY <3>1, <3>3, <4>1 DEF Held, Linked
    <3>4. ASSUME q \notin spoiled', fetch[q].state = "loaded"
          PROVE  shown[q] = served
      <4>1. q \notin spoiled /\ Len(stream[q]) = 0 /\ fetch[q].before = 0
        BY <2>1, <3>1, <3>2, <3>4 DEF Held
      <4>2. \A i \in Items : shown[q][i] = served[i]
        BY <3>1, <3>4, <4>1 DEF Held, Linked
      <4> QED
        BY <1>0, <4>2 DEF TypeOK, Graph
    <3> QED
      BY <1>0, <2>1, <2>2, <3>3, <3>4, ChainFresh
  <2>6. ASSUME NEW p \in Pages \ {q}
        PROVE  Chained(p)'
    BY <1>0, <2>1, <2>2, ChainKept
  <2> QED
    BY <2>3, <2>4, <2>5, <2>6 DEF ChainInv
<1>6. CASE FetchFails(q)
  <2> DEFINE failed == [state |-> "failed", graph |-> None, before |-> 0]
  <2>1. /\ watching \in {"fs", "poll"} /\ watching' = watching /\ served' = served
        /\ UNCHANGED <<stream, subscribed, shown, spoiled>>
        /\ fetch' = [fetch EXCEPT ![q] = failed]
    BY <1>6 DEF FetchFails, watch
  <2>2. fetch'[q] = failed /\ \A p \in Pages \ {q} : fetch'[p] = fetch[p]
    BY <2>1 DEF TypeOK
  <2>3. Quiet' /\ Idle'
    BY <1>0, <2>1 DEF Quiet, Idle
  <2>4. Chained(q)'
    <3>1. PICK gs \in [0 .. Len(stream[q]) -> Graph] : Linked(q, gs) /\ Held(q, gs)
      BY <1>0 DEF Chained
    <3>2. Linked(q, gs)' /\ Held(q, gs)'
      <4>1. Len(stream[q]) \in Nat
        BY DEF TypeOK
      <4> QED
        BY <2>1, <2>2, <3>1, <4>1 DEF Linked, Held
    <3> QED
      BY <2>1, <3>1, <3>2 DEF Chained
  <2>5. ASSUME NEW p \in Pages \ {q}
        PROVE  Chained(p)'
    BY <1>0, <2>1, <2>2, ChainKept
  <2> QED
    BY <2>3, <2>4, <2>5 DEF ChainInv
<1> QED
  BY <1>1, <1>2, <1>3, <1>4, <1>5, <1>6 DEF PageStep

LEMMA ChainStep ==
    TypeOK /\ TypeOK' /\ Same /\ ChainInv /\ [Next]_vars => ChainInv'
<1> SUFFICES ASSUME TypeOK, TypeOK', Same, ChainInv, [Next]_vars
             PROVE  ChainInv'
  OBVIOUS
<1>1. CASE Flush
  BY <1>1, ChainFlush
<1>2. CASE \E q \in Pages : PageStep(q) \/ FetchFails(q) \/ Disconnect(q)
  BY <1>2, ChainPage
<1>3. CASE BuildFirst
  <2>1. /\ watching = "no" /\ watching' = "built" /\ served' \in Graph
        /\ UNCHANGED <<stream, subscribed, fetch, shown, spoiled>>
    BY <1>3 DEF BuildFirst, pages, TypeOK
  <2>2. Quiet' /\ Idle'
    BY <2>1 DEF Quiet, Idle, ChainInv
  <2>3. ASSUME NEW p \in Pages
        PROVE  Chained(p)'
    <3>1. stream'[p] = <<>> /\ fetch'[p].state = "none"
      BY <2>1 DEF Quiet, Idle, ChainInv
    <3> QED
      BY <2>1, <3>1, ChainFresh
  <2> QED
    BY <2>2, <2>3 DEF ChainInv
<1>4. CASE /\ served' = served /\ UNCHANGED pages
           /\ watching' = "no" => watching = "no"
  <2>1. Quiet' /\ Idle'
    BY <1>4 DEF Quiet, Idle, ChainInv, pages
  <2>2. ASSUME NEW p \in Pages
        PROVE  Chained(p)'
    BY <1>4, ChainKept DEF ChainInv, pages
  <2> QED
    BY <2>1, <2>2 DEF ChainInv
<1> QED
  BY <1>1, <1>2, <1>3, <1>4 DEF Next, StartWriting, FinishWriting, Delete, Written,
     StartWatch, WatchError, Notify, Poll, pages, vars

\* The patches on their way to a page lead, graph by graph, to the graph served
\* (lib/dashboard/server.mjs:151).
THEOREM PatchesChained == Spec => []ChainInv
<1>1. Init => ChainInv
  <2> SUFFICES ASSUME Init
               PROVE  ChainInv
    OBVIOUS
  <2>1. Quiet /\ Idle
    BY DEF Init, Quiet, Idle
  <2>2. ASSUME NEW p \in Pages
        PROVE  Chained(p)
    <3>1. stream[p] = <<>> /\ fetch[p].state = "none" /\ served = None /\ Len(stream[p]) = 0
      BY DEF Init
    <3>2. None \in Graph
      BY DEF None, Graph
    <3>3. PICK gs \in [0 .. Len(stream[p]) -> Graph] : gs[0] = served
      <4>1. [n \in 0 .. 0 |-> None] \in [0 .. Len(stream[p]) -> Graph]
        BY <3>1, <3>2
      <4>2. [n \in 0 .. 0 |-> None][0] = served
        BY <3>1
      <4> QED
        BY <4>1, <4>2
    <3>4. Linked(p, gs) /\ Held(p, gs)
      BY <3>1, <3>3 DEF Linked, Held
    <3> QED
      BY <3>3, <3>4 DEF Chained
  <2> QED
    BY <2>1, <2>2 DEF ChainInv
<1> QED
  BY <1>1, ChainStep, TypeCorrect, AlwaysSame, PTL DEF Spec

----------------------------------------------------------------------------
\* Merging a sequence of patches.

\* A set of numbers that is not empty has a least element.
LEMMA LeastNumber ==
    ASSUME NEW T \in SUBSET Nat, T # {}
    PROVE  \E m \in T : \A k \in T : m <= k
<1> DEFINE R == {ss \in Nat \X Nat : ss[1] < ss[2]}
<1>1. IsWellFoundedOn(R, Nat)
  BY NatLessThanWellFounded DEF OpToRel
<1>2. PICK m \in T : \A k \in T : ~(<<k, m>> \in R)
  <2> HIDE DEF R
  <2> QED
    BY <1>1, WFMin
<1>3. ASSUME NEW k \in T
      PROVE  m <= k
  <2>1. ~(<<k, m>> \in R) /\ k \in Nat /\ m \in Nat
    BY <1>2
  <2> QED
    BY <2>1
<1> QED
  BY <1>2, <1>3

\* r[k] is what a page that had g has after n patches or fewer.
MergedUpTo(r, g, patches, n) ==
    r = [k \in 0 .. n |-> IF k = 0 THEN g ELSE Merged(r[k - 1], patches[k])]

LEMMA MergedUpToExists ==
    ASSUME NEW g, NEW patches \in Seq(Patch)
    PROVE  \E r : MergedUpTo(r, g, patches, Len(patches))
<1> DEFINE T == {n \in 0 .. Len(patches) : ~\E r : MergedUpTo(r, g, patches, n)}
<1>1. ASSUME T # {}
      PROVE  FALSE
  <2>1. PICK m \in T : \A k \in T : m <= k
    <3>1. T \in SUBSET Nat
      OBVIOUS
    <3> HIDE DEF T
    <3> QED
      BY <1>1, <3>1, LeastNumber
  <2>2. m # 0
    <3>1. MergedUpTo([k \in 0 .. 0 |-> g], g, patches, 0)
      BY DEF MergedUpTo
    <3>2. 0 \notin T
      BY <3>1
    <3> QED
      BY <2>1, <3>2
  <2>3. m - 1 \in 0 .. Len(patches) /\ m \in Nat
    BY <2>1, <2>2
  <2>4. PICK r : MergedUpTo(r, g, patches, m - 1)
    BY <2>1, <2>3
  <2> DEFINE q == [k \in 0 .. m |-> IF k = m THEN Merged(r[m - 1], patches[m]) ELSE r[k]]
  <2>5. MergedUpTo(q, g, patches, m)
    <3>1. ASSUME NEW k \in 0 .. m
          PROVE  q[k] = IF k = 0 THEN g ELSE Merged(q[k - 1], patches[k])
      <4>1. CASE k = m
        BY <2>2, <2>3, <4>1
      <4>2. CASE k # m
        <5>1. k \in 0 .. m - 1 /\ q[k] = r[k]
          BY <2>3, <4>2
        <5>2. r[k] = IF k = 0 THEN g ELSE Merged(r[k - 1], patches[k])
          BY <2>4, <5>1 DEF MergedUpTo
        <5> QED
          BY <2>3, <5>1, <5>2
      <4> QED
        BY <4>1, <4>2
    <3> QED
      BY <3>1 DEF MergedUpTo
  <2> QED
    BY <2>1, <2>5
<1>2. Len(patches) \in 0 .. Len(patches)
  OBVIOUS
<1> QED
  BY <1>1, <1>2

\* What the last of a sequence of patches leaves.
LEMMA MergedAllIs ==
    ASSUME NEW g, NEW patches \in Seq(Patch)
    PROVE  \E r : /\ r[0] = g
                  /\ \A k \in 1 .. Len(patches) : r[k] = Merged(r[k - 1], patches[k])
                  /\ MergedAll(g, patches) = r[Len(patches)]
<1> DEFINE R(r) == r = [n \in 0 .. Len(patches) |->
                           IF n = 0 THEN g ELSE Merged(r[n - 1], patches[n])]
           after == CHOOSE r : R(r)
<1>1. \E r : R(r)
  <2>1. PICK r : MergedUpTo(r, g, patches, Len(patches))
    BY MergedUpToExists
  <2>2. R(r)
    BY <2>1 DEF MergedUpTo
  <2> QED
    BY <2>2
<1>2. R(after)
  BY <1>1
<1>3. MergedAll(g, patches) = after[Len(patches)]
  BY DEF MergedAll
<1>4. Len(patches) \in Nat
  OBVIOUS
<1> HIDE DEF after
<1>5. after[0] = g /\ \A k \in 1 .. Len(patches) : after[k] = Merged(after[k - 1], patches[k])
  BY <1>2, <1>4
<1> QED
  BY <1>3, <1>5

\* A page that has its graph comes to what is served.
LEMMA InStep ==
    ASSUME TypeOK, NEW p \in Pages \ spoiled, Chained(p), fetch[p].state = "loaded"
    PROVE  MergedAll(shown[p], stream[p]) = served
<1> DEFINE len == Len(stream[p])
           before == fetch[p].before
<1>1. PICK gs \in [0 .. len -> Graph] : Linked(p, gs) /\ Held(p, gs)
  BY DEF Chained
<1>2. /\ stream[p] \in Seq(Patch) /\ len \in Nat /\ before \in Nat /\ before <= len
      /\ \A i \in Items : shown[p][i] \in {gs[0][i], gs[before][i]}
      /\ shown[p] \in Graph
  BY <1>1 DEF Held, TypeOK
<1>3. /\ gs[len] = served
      /\ \A n \in 1 .. len : stream[p][n] = Diff(gs[n - 1], gs[n])
  BY <1>1 DEF Linked
<1>4. PICK r : /\ r[0] = shown[p]
               /\ \A k \in 1 .. len : r[k] = Merged(r[k - 1], stream[p][k])
               /\ MergedAll(shown[p], stream[p]) = r[len]
  BY <1>2, MergedAllIs
\* After n patches: each item as in the n-th graph, or still ahead of it.
<1> DEFINE At(n) == /\ r[n] \in Graph
                    /\ \A i \in Items : \/ r[n][i] = gs[n][i]
                                        \/ n < before /\ r[n][i] = gs[before][i]
           T == {n \in 0 .. len : ~At(n)}
<1> HIDE DEF before, len
<1>5. At(0)
  <2>1. CASE before = 0
    BY <1>2, <1>4, <2>1
  <2>2. CASE before # 0
    BY <1>2, <1>4, <2>2
  <2> QED
    BY <2>1, <2>2
<1>6. ASSUME NEW n \in 1 .. len, At(n - 1)
      PROVE  At(n)
  <2>1. /\ n - 1 \in 0 .. len /\ n \in 0 .. len
        /\ gs[n - 1] \in Graph /\ gs[n] \in Graph /\ gs[before] \in Graph
    BY <1>1, <1>2
  <2>2. r[n] = Merged(r[n - 1], Diff(gs[n - 1], gs[n]))
    BY <1>3, <1>4
  <2>3. r[n] \in Graph
    BY <1>6, <2>1, <2>2, DiffIsPatch, MergedIsGraph
  <2>4. ASSUME NEW i \in Items
        PROVE  r[n][i] = gs[n][i] \/ (n < before /\ r[n][i] = gs[before][i])
    <3>1. /\ r[n - 1][i] = gs[n - 1][i] => r[n][i] = gs[n][i]
          /\ r[n][i] \in {gs[n][i], r[n - 1][i]}
      <4>1. r[n - 1] \in Graph
        BY <1>6
      <4> QED
        BY <2>1, <2>2, <4>1, MergedDiff
    <3>2. \/ r[n - 1][i] = gs[n - 1][i]
          \/ n - 1 < before /\ r[n - 1][i] = gs[before][i]
      BY <1>6
    <3>3. n - 1 < before => n < before \/ n = before
      BY <1>2
    <3> QED
      BY <3>1, <3>2, <3>3
  <2> QED
    BY <2>3, <2>4
<1>7. T = {}
  <2> SUFFICES ASSUME T # {}
               PROVE  FALSE
    OBVIOUS
  <2>1. T \in SUBSET Nat
    OBVIOUS
  <2>2. PICK m \in T : \A k \in T : m <= k
    <3> HIDE DEF T
    <3> QED
      BY <2>1, LeastNumber
  <2> HIDE DEF At
  <2>3. m \in 0 .. len /\ ~At(m) /\ m # 0
    BY <1>5, <2>2
  <2>4. m - 1 \in 0 .. len /\ m \in 1 .. len /\ ~(m <= m - 1)
    BY <1>2, <2>3
  <2>5. At(m - 1)
    BY <2>2, <2>4
  <2> QED
    BY <1>6, <2>3, <2>4, <2>5
<1>8. At(len)
  <2> HIDE DEF At
  <2>1. len \in 0 .. len
    BY <1>2
  <2> QED
    BY <1>7, <2>1
<1>9. r[len] = gs[len]
  <2>1. len \in 0 .. len /\ ~(len < before)
    BY <1>2
  <2>2. r[len] \in Graph /\ gs[len] \in Graph /\ \A i \in Items : r[len][i] = gs[len][i]
    BY <1>1, <1>8, <2>1
  <2> QED
    BY <2>2 DEF Graph
<1> QED
  BY <1>3, <1>4, <1>9

\* A page that has its graph, and was sent all patches since, has what is served once
\* it took those on their way, however the fetch and the stream overtook each other
\* (lib/dashboard/app/main.js).
THEOREM PagesInStep == Spec => []PageInStep
<1>1. TypeOK /\ ChainInv => PageInStep
  <2> SUFFICES ASSUME TypeOK, ChainInv, NEW p \in Pages \ spoiled, fetch[p].state = "loaded"
               PROVE  MergedAll(shown[p], stream[p]) = served
    BY DEF PageInStep
  <2>1. Chained(p)
    BY DEF ChainInv
  <2> QED
    BY <2>1, InStep
<1> QED
  BY <1>1, TypeCorrect, PatchesChained, PTL
=============================================================================
