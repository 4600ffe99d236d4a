----------------------------- MODULE DesignImport -----------------------------
(***************************************************************************)
(* Imports of reviews into a design board (lib/artifact/import.mjs): each  *)
(* adds its review to the ledger and its pins to the feedback file, and    *)
(* atomicDesignReviewWrite replaces the two files by way of backups, which *)
(* it takes back when something fails.  Imports exclude each other by the  *)
(* lock of the ledger, as long as nobody steals it: what comes of a stolen *)
(* one is in ReviewStore.  The daemon of the board does not take that      *)
(* lock: when somebody saves it reads the feedback file and then writes it *)
(* anew, one save at a time, whatever an import does to it in between.     *)
(*                                                                         *)
(* A file is the set of contributions it holds, an import or a save each.  *)
(* Temporary files are never read and left out.                            *)
(***************************************************************************)
CONSTANTS Imports, Saves,
          None   \* no file, no import

ASSUME DesignImportAssumption ==
    /\ None \notin Imports \cup Saves
    /\ \A content \in SUBSET (Imports \cup Saves) : content # None
    /\ Imports \cap Saves = {}

Files == {"ledger", "feedback"}

VARIABLES
    file,        \* the two files
    backup,      \* the backups of each import
    current,     \* the import that holds the lock
    step,        \* the call it makes next, and the file that call is about
    plan,        \* what it is going to install
    installed,   \* the files it has installed
    saver,       \* the save that the daemon makes
    basis,       \* the feedback file that it read
    returned,    \* imports that returned, and saves written while none was under way
    raced,       \* history: saves written while one was
    overwritten, \* history: what a save took out of a file that changed since it read it
    faults       \* history: the kinds of failure that happened

daemon == <<saver, basis, raced, overwritten>>
importVars == <<file, backup, current, step, plan, installed, daemon, returned, faults>>

Held(content) == IF content = None THEN {} ELSE content

Fault(kind) == faults' = faults \cup {kind}

To(call, f) == step' = [call |-> call, file |-> f]

At(call) == current # None /\ step.call = call

NoFiles == [f \in Files |-> None]

Contents == SUBSET (Imports \cup Saves)

Calls == {"none", "backup", "install", "clean", "remove", "restore"}

ImportTypeOK ==
    /\ file \in [Files -> Contents \cup {None}]
    /\ backup \in [Imports -> [Files -> Contents \cup {None}]]
    /\ current \in Imports \cup {None}
    /\ step \in [call : Calls, file : Files]
    /\ plan \in [Files -> Contents \cup {None}]
    /\ installed \in SUBSET Files
    /\ returned \in Contents
    /\ saver \in Saves \cup {None}
    /\ basis \in Contents \cup {None}
    /\ raced \in SUBSET Saves
    /\ overwritten \in Contents

ImportInit ==
    /\ file = NoFiles
    /\ backup = [i \in Imports |-> NoFiles]
    /\ current = None
    /\ step = [call |-> "none", file |-> "ledger"]
    /\ plan = NoFiles
    /\ installed = {}
    /\ saver = None /\ basis = None
    /\ returned = {} /\ raced = {} /\ overwritten = {}
    /\ faults = {}

----------------------------------------------------------------------------
\* The ledger and the feedback are read, a missing file for an empty one, and what
\* is to be installed is written next to them.
Begin(i) ==
    /\ current = None
    /\ backup[i] = NoFiles /\ i \notin returned
    /\ current' = i
    /\ plan' = [f \in Files |-> Held(file[f]) \cup {i}]
    /\ installed' = {}
    /\ To("backup", "ledger")
    /\ UNCHANGED <<file, backup, returned, daemon, faults>>

\* The file, if there is one, is renamed to its backup.
Backup ==
    /\ At("backup")
    /\ LET f == step.file
       IN  /\ backup' = [backup EXCEPT ![current][f] = file[f]]
           /\ file' = [file EXCEPT ![f] = None]
           /\ IF f = "ledger" THEN To("backup", "feedback") ELSE To("install", "ledger")
    /\ UNCHANGED <<current, plan, installed, returned, daemon, faults>>

\* Mutant: the backup of a file goes as soon as the file is installed.
InstallAndClean ==
    /\ At("install")
    /\ LET f == step.file
       IN  /\ file' = [file EXCEPT ![f] = plan[f]]
           /\ installed' = installed \cup {f}
           /\ backup' = [backup EXCEPT ![current][f] = None]
           /\ IF f = "ledger" THEN To("install", "feedback") ELSE To("clean", "ledger")
    /\ UNCHANGED <<current, plan, returned, daemon, faults>>

Install ==
    /\ At("install")
    /\ LET f == step.file
       IN  /\ file' = [file EXCEPT ![f] = plan[f]]
           /\ installed' = installed \cup {f}
           /\ IF f = "ledger" THEN To("install", "feedback") ELSE To("clean", "ledger")
    /\ UNCHANGED <<backup, current, plan, returned, daemon, faults>>

GoesOn == UNCHANGED <<current, plan, installed>>

Ends ==
    /\ current' = None
    /\ To("none", "ledger")
    /\ plan' = NoFiles /\ installed' = {}

\* Both are in place: the backups are removed, or stay when that fails, and the
\* import returns.
Clean ==
    /\ At("clean")
    /\ LET f == step.file
       IN  /\ \/ backup' = [backup EXCEPT ![current][f] = None] /\ UNCHANGED faults
              \/ backup[current][f] # None /\ Fault("clean") /\ UNCHANGED backup
           /\ IF f = "ledger"
              THEN To("clean", "feedback") /\ GoesOn /\ UNCHANGED returned
              ELSE Ends /\ returned' = returned \cup {current}
    /\ UNCHANGED <<file, daemon>>

\* A rename fails: what was done is undone, the feedback first.
Fails ==
    /\ At("backup") \/ At("install")
    /\ Fault("rename")
    /\ To("remove", "feedback")
    /\ UNCHANGED <<file, backup, current, plan, installed, returned, daemon>>

\* Mutant: only files that have a backup are put back.
RemoveInstalledReplaced ==
    /\ At("remove")
    /\ LET f == step.file
       IN  /\ file' = [file EXCEPT ![f] = IF f \in installed /\ backup[current][f] # None
                                           THEN None ELSE @]
           /\ To("restore", f)
    /\ UNCHANGED <<backup, current, plan, installed, returned, daemon, faults>>

\* A file installed is removed ...
RemoveInstalled ==
    /\ At("remove")
    /\ LET f == step.file
       IN  /\ file' = [file EXCEPT ![f] = IF f \in installed THEN None ELSE @]
           /\ To("restore", f)
    /\ UNCHANGED <<backup, current, plan, installed, returned, daemon, faults>>

UndoNext(f) == IF f = "feedback" THEN To("remove", "ledger") /\ GoesOn ELSE Ends

\* ... and its backup renamed back; after both the import throws.
Restore ==
    /\ At("restore")
    /\ LET f == step.file
           old == backup[current][f]
       IN  /\ file' = [file EXCEPT ![f] = IF old # None THEN old ELSE @]
           /\ backup' = [backup EXCEPT ![current][f] = None]
           /\ UndoNext(f)
    /\ UNCHANGED <<returned, daemon, faults>>

\* Either may fail, which leaves this file and its backup as they are.
UndoFails ==
    /\ \/ At("remove") /\ step.file \in installed
       \/ At("restore") /\ backup[current][step.file] # None
    /\ Fault("undo")
    /\ UndoNext(step.file)
    /\ UNCHANGED <<file, backup, returned, daemon>>

\* The process dies.  Its lock is reclaimed; nobody looks for its backups.
ImportDies ==
    /\ current # None
    /\ Fault("crash")
    /\ Ends
    /\ UNCHANGED <<file, backup, returned, daemon>>

\* The daemon reads the feedback that a reviewer's save is to be merged into ...
SaveRead(s) ==
    /\ saver = None /\ s \notin returned \cup raced
    /\ saver' = s
    /\ basis' = file["feedback"]
    /\ UNCHANGED <<file, backup, current, step, plan, installed, returned, raced,
                   overwritten, faults>>

\* ... and writes the two of them in place of the file that is there by then.
SaveWrite ==
    LET merged == Held(basis) \cup {saver}
    IN  /\ saver # None /\ saver' = None /\ basis' = None
        /\ file' = [file EXCEPT !["feedback"] = merged]
        /\ overwritten' = IF file["feedback"] = basis THEN overwritten
                          ELSE overwritten \cup (Held(file["feedback"]) \ merged)
        /\ IF current = None THEN returned' = returned \cup {saver} /\ UNCHANGED raced
                             ELSE raced' = raced \cup {saver} /\ UNCHANGED returned
        /\ UNCHANGED <<backup, current, step, plan, installed, faults>>

ImportNext ==
    \/ \E i \in Imports : Begin(i)
    \/ Backup \/ Install \/ Clean
    \/ Fails \/ RemoveInstalled \/ Restore \/ UndoFails \/ ImportDies
    \/ SaveWrite \/ \E s \in Saves : SaveRead(s)

ImportSpec == ImportInit /\ [][ImportNext]_importVars

----------------------------------------------------------------------------
\* Properties.

\* What was returned, in the files it belongs to: without what a save destroyed
\* there, which read the feedback before an import replaced it and wrote it afterwards.
Due(f) == IF f = "ledger" THEN returned \cap Imports ELSE returned \ overwritten

\* When no import is under way, both files hold every import that returned and none
\* that threw; what fails on the way makes no difference, until undoing fails as well
\* or a process dies (lib/artifact/import.mjs:285-347).  What no save overwrote is
\* there whatever the daemon did meanwhile.
BothOrNeither ==
    current = None /\ {"undo", "crash"} \cap faults = {} =>
        \A f \in Files : /\ Due(f) \subseteq Held(file[f])
                         /\ Held(file[f]) \cap Imports \subseteq returned

\* Whatever fails and whoever dies, what was returned is in its file or in a
\* backup: an import never puts a new file in the place of the only copy of an old
\* one ("recovery backups are preserved", lib/artifact/import.mjs:340).
NothingDestroyed ==
    \A f \in Files :
        Due(f) \subseteq Held(file[f]) \cup UNION {Held(backup[i][f]) : i \in Imports}
=============================================================================
