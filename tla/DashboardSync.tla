---------------------------- MODULE DashboardSync ----------------------------
(***************************************************************************)
(* The live dashboard: the watcher of .planr/ (lib/dashboard/watcher.mjs), *)
(* the server's graph and its broadcast (lib/dashboard/server.mjs), and    *)
(* the pages, which fetch the graph once and merge every patch they are    *)
(* sent (lib/dashboard/app/main.js).                                       *)
(*                                                                         *)
(* A graph gives each item, a node or an edge, its version, 0 when it is   *)
(* not there.  A file, an .md file that is not hidden, holds one item and  *)
(* is written in two steps; between them a build may fail or not see the   *)
(* item.  What a page shows is the graph it holds in memory.  The stream of events and    *)
(* the fetch of a page use connections of their own, so either may be      *)
(* served, and may arrive, first.                                          *)
(***************************************************************************)
EXTENDS Naturals, Sequences

CONSTANTS Items, Pages,
          MaxWrites,   \* bound: steps of writing
          MaxDrops     \* bound: connections lost, watch errors, fetches failed

VARIABLES
    disk,        \* the version of every item on disk
    half,        \* the items whose file is half written
    writes, drops,
    watching,    \* "no", "built" (the first graph only), "fs", "poll"
    event,       \* whether an event of the file system is on its way
    seen,        \* the scan the next poll compares with
    debounce,    \* whether a flush is scheduled
    snapshot,    \* the watcher's graph
    served,      \* the server's graph
    stream,      \* the patches on their way to each page
    subscribed,  \* the pages whose stream is open
    fetch,       \* what became of each page's fetch: its answer, and how many of the
                 \* patches on their way that answer holds already
    shown,       \* each page's graph
    unwatched,   \* history: the last change was made while nobody looked
    spoiled      \* history: the pages that missed a patch

files == <<disk, half, writes>>
watch == <<watching, event, seen, debounce, snapshot, served, unwatched>>
pages == <<stream, subscribed, fetch, shown, spoiled>>
vars == <<disk, half, writes, drops, watching, event, seen, debounce, snapshot,
          served, unwatched, stream, subscribed, fetch, shown, spoiled>>

Graph == [Items -> Nat]

Patch == [added : SUBSET Items, updated : SUBSET Items, removed : SUBSET Items,
          version : Graph]

None == [i \in Items |-> 0]

Here(g) == {i \in Items : g[i] > 0}

----------------------------------------------------------------------------
\* Patches.

\* diffGraphs: what was added and updated, with the new versions, and what is gone.
Diff(prev, next) ==
    [added   |-> {i \in Items : prev[i] = 0 /\ next[i] > 0},
     updated |-> {i \in Items : prev[i] > 0 /\ next[i] > 0 /\ prev[i] # next[i]},
     removed |-> {i \in Items : prev[i] > 0 /\ next[i] = 0},
     version |-> next]

\* isEmptyPatch
Empty(patch) == patch.added \cup patch.updated \cup patch.removed = {}

\* applyPatch of the server: an update of an item it does not have is dropped.
Applied(g, patch) ==
    [i \in Items |->
        IF i \in patch.updated /\ g[i] > 0 THEN patch.version[i]
        ELSE IF i \in patch.added /\ (g[i] = 0 \/ i \in patch.removed)
        THEN patch.version[i]
        ELSE IF i \in patch.removed THEN 0 ELSE g[i]]

\* Mutant: items gone stay on the page.
MergedKeeping(g, patch) ==
    [i \in Items |->
        IF i \in patch.updated THEN patch.version[i]
        ELSE IF i \in patch.added /\ g[i] = 0 THEN patch.version[i] ELSE g[i]]

\* mergePatch of the page: an update of an item it does not have adds it.
Merged(g, patch) ==
    [i \in Items |->
        IF i \in patch.updated THEN patch.version[i]
        ELSE IF i \in patch.added /\ (g[i] = 0 \/ i \in patch.removed)
        THEN patch.version[i]
        ELSE IF i \in patch.removed THEN 0 ELSE g[i]]

\* What a page has once it took all those patches.
MergedAll(g, patches) ==
    LET after[n \in 0 .. Len(patches)] ==
            IF n = 0 THEN g ELSE Merged(after[n - 1], patches[n])
    IN  after[Len(patches)]

----------------------------------------------------------------------------
Init ==
    /\ disk \in [Items -> {0, 1}]
    /\ half = {}
    /\ writes = 0 /\ drops = 0
    /\ watching = "no"
    /\ event = FALSE
    /\ seen = <<None, {}>>
    /\ debounce = FALSE
    /\ snapshot = None
    /\ served = None
    /\ stream = [p \in Pages |-> <<>>]
    /\ subscribed = {}
    /\ fetch = [p \in Pages |-> [state |-> "none", graph |-> None, before |-> 0]]
    /\ shown = [p \in Pages |-> None]
    /\ unwatched = FALSE
    /\ spoiled = {}

\* What a scan of the modification times tells apart.
Scan == <<disk, half>>

\* A step of writing, which the file system reports to whom watches it.
Written ==
    /\ writes < MaxWrites
    /\ writes' = writes + 1
    /\ event' = (event \/ watching = "fs")
    /\ unwatched' = (unwatched \/ watching = "built")
    /\ UNCHANGED <<drops, watching, seen, debounce, snapshot, served, pages>>

\* Somebody opens a file, which empties it, and completes it, or removes it.
StartWriting(i) ==
    /\ i \notin half
    /\ half' = half \cup {i}
    /\ UNCHANGED disk
    /\ Written

FinishWriting(i) ==
    /\ i \in half
    /\ half' = half \ {i}
    /\ disk' = [disk EXCEPT ![i] = writes + 2]
    /\ Written

Delete(i) ==
    /\ disk[i] > 0
    /\ i \notin half
    /\ disk' = [disk EXCEPT ![i] = 0]
    /\ UNCHANGED half
    /\ Written

----------------------------------------------------------------------------
\* The server and its watcher.

\* buildGraph, when it does not throw: an item half written is not seen.
Built == [i \in Items |-> IF i \in half THEN 0 ELSE disk[i]]

\* listen: the first graph is built, which takes a while ...
BuildFirst ==
    /\ watching = "no"
    /\ watching' = "built"
    /\ snapshot' = Built /\ served' = Built
    /\ unwatched' = (half # {})
    /\ UNCHANGED <<files, drops, event, seen, debounce, pages>>

\* ... and then watched, or polled where it cannot be watched.
StartWatch ==
    /\ watching = "built"
    /\ \/ watching' = "fs" /\ UNCHANGED seen
       \/ watching' = "poll" /\ seen' = Scan
    /\ UNCHANGED <<files, drops, event, debounce, snapshot, served, unwatched, pages>>

\* The watch fails: the changes are polled from what is on disk by then.
WatchError ==
    /\ watching = "fs"
    /\ drops < MaxDrops
    /\ drops' = drops + 1
    /\ watching' = "poll"
    /\ seen' = Scan
    /\ event' = FALSE
    /\ unwatched' = (unwatched \/ event)
    /\ UNCHANGED <<files, debounce, snapshot, served, pages>>

\* onFsEvent: a flush is scheduled, or the one scheduled put off.
Notify ==
    /\ event
    /\ event' = FALSE
    /\ debounce' = TRUE
    /\ UNCHANGED <<files, drops, watching, seen, snapshot, served, unwatched, pages>>

Poll ==
    /\ watching = "poll"
    /\ Scan # seen
    /\ seen' = Scan
    /\ debounce' = TRUE
    /\ UNCHANGED <<files, drops, watching, event, snapshot, served, unwatched, pages>>

\* Something changed since the last scan, a file was created say, which may be
\* undone before the next.
Undoable == watching = "poll" /\ Scan # seen

\* Mutant: the pages are sent the patch and the graph served stays as it was.
BroadcastOnly(patch) ==
    /\ UNCHANGED <<served, subscribed, fetch, shown>>
    /\ stream' = [p \in Pages |-> IF p \in subscribed THEN Append(stream[p], patch)
                                   ELSE stream[p]]
    /\ spoiled' = spoiled \cup {p \in Pages \ subscribed : fetch[p].state # "none"}

\* onWatcherPatch: the graph served is patched and the patch sent to every page
\* whose stream is open.
Broadcast(patch) ==
    /\ served' = Applied(served, patch)
    /\ stream' = [p \in Pages |-> IF p \in subscribed THEN Append(stream[p], patch)
                                   ELSE stream[p]]
    /\ spoiled' = spoiled \cup {p \in Pages \ subscribed : fetch[p].state # "none"}
    /\ UNCHANGED <<subscribed, fetch, shown>>

\* Mutant: the snapshot stays what it was at the start.
FlushFirstSnapshot ==
    /\ debounce
    /\ debounce' = FALSE
    /\ LET patch == Diff(snapshot, Built)
       IN  IF Empty(patch) THEN UNCHANGED <<served, pages>> ELSE Broadcast(patch)
    /\ unwatched' = FALSE
    /\ UNCHANGED <<files, drops, watching, event, seen, snapshot>>

\* flush: the graph is built anew; nothing comes of it when that throws, which
\* it may while a file is half written.
Flush ==
    /\ debounce
    /\ debounce' = FALSE
    /\ \/ half # {} /\ unwatched' = (unwatched \/ Undoable)
          /\ UNCHANGED <<snapshot, served, pages>>
       \/ /\ snapshot' = Built
          /\ LET patch == Diff(snapshot, Built)
             IN  IF Empty(patch) THEN UNCHANGED <<served, pages>> ELSE Broadcast(patch)
          /\ unwatched' = Undoable
    /\ UNCHANGED <<files, drops, watching, event, seen>>

----------------------------------------------------------------------------
\* The pages.

\* GET /api/events is served: by a first connection, or one made again.
Subscribe(p) ==
    /\ watching \in {"fs", "poll"}
    /\ p \notin subscribed
    /\ subscribed' = subscribed \cup {p}
    /\ UNCHANGED <<files, drops, watch, stream, fetch, shown, spoiled>>

\* GET /api/graph is served.
ServeGraph(p) ==
    /\ watching \in {"fs", "poll"}
    /\ fetch[p].state = "none"
    /\ fetch' = [fetch EXCEPT ![p] = [state |-> "answered", graph |-> served,
                                     before |-> Len(stream[p])]]
    /\ UNCHANGED <<files, drops, watch, stream, subscribed, shown, spoiled>>

\* loadInitialGraph: the answer replaces what the page has.
LoadGraph(p) ==
    /\ fetch[p].state = "answered"
    /\ shown' = [shown EXCEPT ![p] = fetch[p].graph]
    /\ fetch' = [fetch EXCEPT ![p].state = "loaded"]
    /\ UNCHANGED <<files, drops, watch, stream, subscribed, spoiled>>

\* The fetch fails, or is answered by an error: the page goes on with the patches it
\* is sent, and fetches nothing anew.
FetchFails(p) ==
    /\ watching \in {"fs", "poll"}
    /\ fetch[p].state \in {"none", "answered"}
    /\ drops < MaxDrops
    /\ drops' = drops + 1
    /\ fetch' = [fetch EXCEPT ![p] = [state |-> "failed", graph |-> None, before |-> 0]]
    /\ UNCHANGED <<files, watch, stream, subscribed, shown, spoiled>>

\* applySsePatch: a patch is merged, before the graph it belongs to has come or
\* after.  Merged before, and not in that graph, it is lost.
Deliver(p) ==
    /\ stream[p] # <<>>
    /\ shown' = [shown EXCEPT ![p] = Merged(@, Head(stream[p]))]
    /\ stream' = [stream EXCEPT ![p] = Tail(@)]
    /\ fetch' = [fetch EXCEPT ![p].before = IF @ = 0 THEN 0 ELSE @ - 1]
    /\ spoiled' = IF fetch[p].state = "answered" /\ fetch[p].before = 0
                  THEN spoiled \cup {p} ELSE spoiled
    /\ UNCHANGED <<files, drops, watch, subscribed>>

\* The stream breaks, and what is on its way is lost; the browser connects again
\* and the page fetches nothing anew.
Disconnect(p) ==
    /\ p \in subscribed
    /\ drops < MaxDrops
    /\ drops' = drops + 1
    /\ subscribed' = subscribed \ {p}
    /\ stream' = [stream EXCEPT ![p] = <<>>]
    /\ fetch' = [fetch EXCEPT ![p].before = 0]
    /\ spoiled' = IF \/ fetch[p].state = "answered" /\ Len(stream[p]) > fetch[p].before
                     \/ fetch[p].state = "loaded" /\ stream[p] # <<>>
                  THEN spoiled \cup {p} ELSE spoiled
    /\ UNCHANGED <<files, watch, shown>>

PageStep(p) == Subscribe(p) \/ ServeGraph(p) \/ LoadGraph(p) \/ Deliver(p)

Next ==
    \/ \E i \in Items : StartWriting(i) \/ FinishWriting(i) \/ Delete(i)
    \/ BuildFirst \/ StartWatch \/ WatchError \/ Notify \/ Poll \/ Flush
    \/ \E p \in Pages : PageStep(p) \/ FetchFails(p) \/ Disconnect(p)

Spec == Init /\ [][Next]_vars

\* The server starts, its timers fire, and a page connects, fetches and takes what
\* it is sent.  Who opened a file completes it.
FairSpec ==
    /\ Spec
    /\ \A i \in Items : WF_vars(FinishWriting(i))
    /\ WF_vars(BuildFirst) /\ WF_vars(StartWatch)
    /\ WF_vars(Notify) /\ WF_vars(Poll) /\ WF_vars(Flush)
    /\ \A p \in Pages : WF_vars(PageStep(p))

----------------------------------------------------------------------------
\* Properties.

\* The watcher's graphs, the server's and the pages' give every item a version
\* (lib/dashboard/watcher.mjs, lib/dashboard/server.mjs, lib/dashboard/app/main.js).
TypeOK ==
    /\ disk \in Graph /\ half \subseteq Items
    /\ writes \in Nat /\ drops \in Nat
    /\ watching \in {"no", "built", "fs", "poll"}
    /\ event \in BOOLEAN /\ debounce \in BOOLEAN /\ unwatched \in BOOLEAN
    /\ seen \in Graph \X SUBSET Items
    /\ snapshot \in Graph /\ served \in Graph
    /\ stream \in [Pages -> Seq(Patch)]
    /\ subscribed \subseteq Pages /\ spoiled \subseteq Pages
    /\ fetch \in [Pages -> [state : {"none", "answered", "loaded", "failed"},
                            graph : Graph, before : Nat]]
    /\ shown \in [Pages -> Graph]

\* The graph served is the watcher's: patching it by the difference gives the
\* graph built, so that new pages and old ones see the same
\* (lib/dashboard/server.mjs:151).
ServedIsBuilt == watching # "no" => served = snapshot

\* A page that has its graph, and was sent all patches since, has what is served
\* once it took those on their way, the ones its graph held already included.
PageInStep ==
    \A p \in Pages \ spoiled : fetch[p].state = "loaded" =>
        MergedAll(shown[p], stream[p]) = served

\* Every page comes to show what is on disk, except that its fetch may have failed or
\* it may have missed a patch while it loaded or was not connected, and a change may have been made
\* while nobody watched, or undone before the next poll, after which only another
\* one is noticed.
PagesFollow ==
    \A p \in Pages :
        []<>(\/ shown[p] = disk \/ fetch[p].state = "failed" \/ p \in spoiled
            \/ unwatched \/ half # {})

\* Live synchronisation as lib/dashboard/watcher.mjs:10 promises it: pages come to
\* show what the server has.
PagesSync == \A p \in Pages : []<>(shown[p] = served)
=============================================================================
