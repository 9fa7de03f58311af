------------------------------ MODULE Explorer ------------------------------
(***************************************************************************)
(* JViewExplorer: the update thread lists the directory the path field     *)
(* names and watches it; the draw thread shows the list and lets the user  *)
(* edit the field; the callback of the watcher raises the flag `changed'.  *)
(* None of path, changed and files is protected where it is shared.        *)
(*                                                                         *)
(* The watcher is seen through the promise of DirectoryWatch (recorded     *)
(* changes are delivered, none after it is deleted), except that its       *)
(* destructor may block; WatchedExplorer replaces it by FileWatch. The     *)
(* file system is a project directory with a subdirectory and a regular    *)
(* file, and the root of the file system; a directory's content is a       *)
(* version number.  Whatever may fail on a directory that is there makes   *)
(* it one of `faulty': it cannot be reached or read, no watch or inotify   *)
(* instance is left for it, or an entry has no size to ask for.  Texts are *)
(* no longer than the buffer inside a string.                              *)
(***************************************************************************)
EXTENDS Naturals, FiniteSets

CONSTANTS
  Texts,         \* what the user may type in the path field
  MayFail,       \* the directories that may be faulty
  Windows,       \* how wide the user makes the window: "reading" the list as
                 \* usual, or "narrow", less than one of its buttons
  MaxInputs,     \* bound: keystrokes (Type) and Enters in one behaviour
  MaxChanges     \* bound: changes of the file system in one behaviour

ASSUME ExplorerAssumption ==
  /\ Texts \subseteq {"blank", "/", "sub", "file"}
  /\ MayFail \subseteq {"project", "sub", "root"}
  /\ Windows \subseteq {"reading", "narrow"}
  /\ MaxInputs \in Nat
  /\ MaxChanges \in Nat

VARIABLES
  exists,        \* the directories that exist
  version,       \* the content of each directory
  faulty,        \* the directories on which a call may throw
  changes,       \* history: number of changes of the file system
  inputs,        \* history: number of user inputs
  watch,         \* watcher: the directory it is on, or "none"
  alive,         \* the kernel still has its watch
  eaten,         \* its watch thread has read IN_IGNORED and blocks in read()
  pending,       \* number of recorded changes it has not delivered
  changed, init, path,   \* the fields of these names
  files,         \* the directory and the version the field `files' shows
  pc, pp,        \* program counter and local of Update
  seen,          \* version at which Update began to iterate
  drawing,       \* Draw: between frames, reading files, the same in a window
                 \* narrower than a button, or reading a torn list
  editing,       \* ImGui's copy of the text while the field is active
  raised,        \* history: changed was set since Update last tested it
  lost,          \* history: the last refresh cleared changed unanswered
  missed,        \* history: an unreported rename since the watcher was made
  entered,       \* history: an Enter that no refresh has read the path for
  fell           \* history: fell back to the project, untouched since

disk     == <<exists, version, faulty, changes>>
watcher  == <<watch, alive, eaten, pending>>
field    == <<path, editing, inputs, entered, fell>>
update   == <<pc, pp, seen>>
ghosts   == <<raised, lost, missed>>
vars     == <<disk, watcher, field, update, ghosts, changed, init, files,
              drawing>>

Dirs == {"project", "sub", "root"}
Places == Dirs \cup {"file"}
NoFiles == [dir |-> "none", version |-> 0]
UpdatePc == {"check", "project", "read", "test", "delete", "join", "create",
             "clear", "begin", "end", "reset", "hung", "crashed"}

\* fs::path(project) / path: an absolute path replaces the project's, and
\* the empty one ("blank") adds nothing to it.
Resolve(text) == CASE text = "blank" -> "project"
                   [] text = "/"     -> "root"
                   [] text = "sub"   -> "sub"
                   [] text = "file"  -> "file"

\* fs::exists; the regular file lives in the project directory.
Exists(p) == (IF p = "file" THEN "project" ELSE p) \in exists

\* A call on p may throw although p exists.  The subdirectory and the regular
\* file are reached through the project directory.
Troubled(p) ==
  p \in faulty \/ (p \in {"sub", "file"} /\ "project" \in faulty)

Init ==
  /\ faulty \in SUBSET MayFail
  /\ exists \in {{"root"}, {"root", "project"}, Dirs}
  /\ version = [d \in Dirs |-> 0] /\ changes = 0 /\ inputs = 0
  /\ watch = "none" /\ alive = FALSE /\ eaten = FALSE /\ pending = 0
  /\ changed = FALSE /\ init = FALSE /\ path = "blank" /\ files = NoFiles
  /\ pc = "check" /\ pp = "none" /\ seen = 0
  /\ drawing = "no" /\ editing = "none"
  /\ raised = FALSE /\ lost = FALSE /\ missed = FALSE
  /\ entered = FALSE /\ fell = FALSE

Running == pc # "crashed"

-----------------------------------------------------------------------------
(* The file system and the watcher on it.                                  *)

\* The content of d changes.
Content(d, reported) ==
  /\ version' = [version EXCEPT ![d] = @ + 1]
  /\ missed' = (missed \/ (watch = d /\ ~reported))

\* The watcher records the change if its mask names it; the kernel may merge
\* it with one not delivered yet, or drop it behind a full queue of them.
Touch(d, reported) ==
  /\ Content(d, reported)
  /\ IF watch = d /\ alive /\ reported
     THEN \/ pending' = pending + 1
          \/ pending > 0 /\ UNCHANGED pending
     ELSE UNCHANGED pending

Step ==
  /\ Running
  /\ changes < MaxChanges
  /\ changes' = changes + 1

Change(d) ==
  /\ Step
  /\ d \in exists
  /\ Touch(d, TRUE)
  /\ UNCHANGED <<exists, faulty, watch, alive, eaten, field, update, raised,
                 lost, changed, init, files, drawing>>

Rename(d) ==
  /\ Step
  /\ d \in exists
  /\ Touch(d, FALSE)
  /\ UNCHANGED <<exists, faulty, watch, alive, eaten, field, update, raised,
                 lost, changed, init, files, drawing>>

\* A directory is removed once it is empty. The watcher of the project records
\* that the subdirectory goes; one on the directory itself loses its watch.
Remove(d) ==
  /\ Step
  /\ d \in exists
  /\ d = "project" => "sub" \notin exists
  /\ exists' = exists \ {d}
  /\ IF d = "sub" THEN Touch("project", TRUE)
                  ELSE UNCHANGED <<version, missed, pending>>
  /\ alive' = (alive /\ watch # d)
  /\ UNCHANGED <<faulty, watch, eaten, field, update, raised, lost, changed,
                 init, files, drawing>>

Make(d) ==
  /\ Step
  /\ d \notin exists
  /\ d = "sub" => "project" \in exists
  /\ exists' = exists \cup {d}
  /\ Touch("project", TRUE)
  /\ UNCHANGED <<faulty, watch, alive, eaten, field, update, raised, lost,
                 changed, init, files, drawing>>

\* Permissions, the supply of watches or the kind of an entry change: nothing
\* that a watcher is told of.
Alter ==
  /\ Step
  /\ faulty' \in SUBSET MayFail
  /\ UNCHANGED <<exists, version, watcher, field, update, ghosts, changed,
                 init, files, drawing>>

\* The watch thread has read the IN_IGNORED record of a removed directory and
\* goes back to a read() that nothing will ever end.  Once the destructor has
\* begun it goes back no more.
EatIgnored ==
  /\ Running
  /\ pc # "join"
  /\ watch # "none" /\ ~alive /\ ~eaten
  /\ eaten' = TRUE
  /\ UNCHANGED <<disk, watch, alive, pending, field, update, ghosts,
                 changed, init, files, drawing>>

Raise == changed' = TRUE /\ raised' = TRUE

\* Mutant: the callback is empty.
Callback_Empty ==
  /\ Running
  /\ pending > 0
  /\ pending' = pending - 1
  /\ UNCHANGED <<disk, watch, alive, eaten, field, update, ghosts,
                 changed, init, files, drawing>>

\* The callback thread delivers a change.
Callback ==
  /\ Running
  /\ pending > 0
  /\ pending' = pending - 1
  /\ Raise
  /\ UNCHANGED <<disk, watch, alive, eaten, field, update, lost, missed,
                 init, files, drawing>>

-----------------------------------------------------------------------------
(* The update thread: Update().                                            *)

\* Mutant: only the first refresh is done.
Check_Once ==
  /\ pc = "check"
  /\ changed /\ watch = "none"
  /\ raised' = FALSE
  /\ pc' = "project"
  /\ UNCHANGED <<disk, watcher, field, pp, seen, lost, missed, changed, init,
                 files, drawing>>

Check ==
  /\ pc = "check"
  /\ changed
  /\ raised' = FALSE
  /\ pc' = "project"
  /\ UNCHANGED <<disk, watcher, field, pp, seen, lost, missed, changed, init,
                 files, drawing>>

TestProject ==
  /\ pc = "project"
  /\ \/ /\ pc' = IF Exists("project") THEN "read" ELSE "reset"
        /\ lost' = ~Exists("project")
     \/ Troubled("project") /\ pc' = "crashed" /\ UNCHANGED lost
  /\ UNCHANGED <<disk, watcher, field, pp, seen, raised, missed, changed,
                 init, files, drawing>>

ReadPath ==
  /\ pc = "read"
  /\ pp' = Resolve(path)
  /\ entered' = FALSE
  /\ pc' = "test"
  /\ UNCHANGED <<disk, watcher, path, editing, inputs, fell, seen, ghosts,
                 changed, init, files, drawing>>

\* Mutant: what the path names is taken to exist.
TestPath_Trusting ==
  /\ pc = "test"
  /\ pc' = "delete"
  /\ UNCHANGED <<disk, watcher, field, pp, seen, ghosts, changed, init, files,
                 drawing>>

\* fs::exists itself throws when it cannot tell.
TestPath ==
  /\ pc = "test"
  /\ \/ Exists(pp) /\ pc' = "delete" /\ UNCHANGED <<pp, path, fell>>
     \/ /\ ~Exists(pp) /\ pc' = "delete"
        /\ pp' = "project" /\ path' = "/" /\ fell' = TRUE
     \/ Troubled(pp) /\ pc' = "crashed" /\ UNCHANGED <<pp, path, fell>>
  /\ UNCHANGED <<disk, watcher, editing, inputs, entered, seen, ghosts,
                 changed, init, files, drawing>>

\* delete watcher: its destructor removes the kernel's watch first.
RemoveWatch ==
  /\ pc = "delete"
  /\ pc' = IF watch = "none" THEN "create" ELSE "join"
  /\ alive' = FALSE
  /\ UNCHANGED <<disk, watch, eaten, pending, field, pp, seen, ghosts, changed,
                 init, files, drawing>>

\* Then it joins the two threads: what they have not delivered never will be.
DeleteWatcher ==
  /\ pc = "join"
  /\ ~eaten
  /\ watch' = "none" /\ pending' = 0
  /\ pc' = "create"
  /\ UNCHANGED <<disk, alive, eaten, field, pp, seen, ghosts, changed, init,
                 files, drawing>>

\* A join may block: certainly when IN_IGNORED has been eaten, else when the
\* callback thread has missed the notification (FileWatch: DestroyReturns).
DeleteHangs ==
  /\ pc = "join"
  /\ pc' = "hung"
  /\ UNCHANGED <<disk, watcher, field, pp, seen, ghosts, changed, init, files,
                 drawing>>

\* Mutant: the watcher is always made for the project.
CreateWatcher_Project ==
  /\ pc = "create"
  /\ \/ /\ Exists("project")
        /\ watch' = "project" /\ alive' = TRUE /\ pc' = "clear"
     \/ /\ ~Exists("project") \/ Troubled("project")
        /\ pc' = "crashed" /\ UNCHANGED <<watch, alive>>
  /\ missed' = FALSE
  /\ UNCHANGED <<disk, eaten, pending, field, pp, seen, raised, lost, changed,
                 init, files, drawing>>

\* The constructor throws if the directory is gone by now, and whenever it gets
\* no watch on it; nothing catches.
CreateWatcher ==
  /\ pc = "create"
  /\ \/ /\ Exists(pp)
        /\ watch' = pp /\ alive' = TRUE /\ pc' = "clear"
     \/ /\ ~Exists(pp) \/ Troubled(pp)
        /\ pc' = "crashed" /\ UNCHANGED <<watch, alive>>
  /\ missed' = FALSE
  /\ UNCHANGED <<disk, eaten, pending, field, pp, seen, raised, lost, changed,
                 init, files, drawing>>

\* A change of the vector under a Draw that iterates over it.
Tear == drawing' = IF drawing = "no" THEN "no" ELSE "torn"

Clear ==
  /\ pc = "clear"
  /\ files' = NoFiles
  /\ Tear
  /\ pc' = "begin"
  /\ UNCHANGED <<disk, watcher, field, pp, seen, ghosts, changed, init>>

\* directory_iterator throws on what is not a directory (any more), and on one
\* that may not be read.
FetchBegin ==
  /\ pc = "begin"
  /\ \/ pp \in exists /\ seen' = version[pp] /\ pc' = "end"
     \/ (pp \notin exists \/ Troubled(pp)) /\ pc' = "crashed" /\ UNCHANGED seen
  /\ UNCHANGED <<disk, watcher, field, pp, ghosts, changed, init, files,
                 drawing>>

\* The iteration sees the content at its start or at its end.  file_size() may
\* throw on an entry that has vanished in between, and at any time on one that
\* is no regular file: a broken link, a socket, a pipe, a device.
FetchEnd ==
  /\ pc = "end"
  /\ \/ /\ \E v \in {seen, version[pp]} :
             files' = [dir |-> pp, version |-> v]
        /\ Tear
        /\ pc' = "reset"
     \/ /\ seen # version[pp] \/ Troubled(pp)
        /\ pc' = "crashed"
        /\ UNCHANGED <<files, drawing>>
  /\ UNCHANGED <<disk, watcher, field, pp, seen, ghosts, changed, init>>

\* Mutant: the flag stays up.
Reset_Forgotten ==
  /\ pc = "reset"
  /\ lost' = (lost \/ raised)
  /\ pc' = "check"
  /\ UNCHANGED <<disk, watcher, field, pp, seen, raised, missed, changed, init,
                 files, drawing>>

\* changed = false, whatever has set it since it was tested.
Reset ==
  /\ pc = "reset"
  /\ changed' = FALSE
  /\ lost' = (lost \/ raised)
  /\ pc' = "check"
  /\ UNCHANGED <<disk, watcher, field, pp, seen, raised, missed, init, files,
                 drawing>>

-----------------------------------------------------------------------------
(* The draw thread and the user: Draw().                                   *)

FirstFrame ==
  /\ Running
  /\ ~init
  /\ init' = TRUE
  /\ Raise
  /\ UNCHANGED <<disk, watcher, field, update, lost, missed, files, drawing>>

\* The field is on screen.
InField ==
  /\ Running
  /\ init
  /\ drawing = "no"
  /\ Exists("project")

Input ==
  /\ InField
  /\ inputs < MaxInputs
  /\ inputs' = inputs + 1

\* InputText writes what is typed into path's own buffer, key by key. It takes
\* that for 512 bytes; the texts here are no longer than it is.
Type(text) ==
  /\ Input
  /\ editing' = text
  /\ path' = text
  /\ fell' = FALSE
  /\ UNCHANGED <<disk, watcher, entered, update, ghosts, changed, init, files,
                 drawing>>

\* Mutant: the result of InputText is not looked at.
Enter_Ignored ==
  /\ Input
  /\ editing # "none"
  /\ editing' = "none"
  /\ path' = editing
  /\ entered' = TRUE
  /\ UNCHANGED <<disk, watcher, update, ghosts, changed, init, files, drawing,
                 fell>>

\* Mutant: Enter is taken from a field that is not active.
Enter_Inactive ==
  /\ Input
  /\ editing' = "none"
  /\ path' = editing
  /\ entered' = TRUE
  /\ Raise
  /\ UNCHANGED <<disk, watcher, update, lost, missed, init, files, drawing,
                 fell>>

Enter ==
  /\ Input
  /\ editing # "none"
  /\ editing' = "none"
  /\ path' = editing
  /\ entered' = TRUE
  /\ Raise
  /\ UNCHANGED <<disk, watcher, update, lost, missed, init, files, drawing,
                 fell>>

\* The field loses the focus, or the frame shows no field: the text stays.
Blur ==
  /\ Running
  /\ editing # "none"
  /\ editing' = "none"
  /\ UNCHANGED <<disk, watcher, path, inputs, entered, fell, update, ghosts,
                 changed, init, files, drawing>>

\* While the field is active every frame writes its text to the buffer again,
\* over what Update may have assigned; then the list is iterated.
DrawBegin ==
  /\ InField
  /\ path' = IF editing = "none" THEN path ELSE editing
  /\ drawing' \in Windows
  /\ UNCHANGED <<disk, watcher, editing, inputs, entered, fell, update, ghosts,
                 changed, init, files>>

\* Draw too asks whether the project exists, and fs::exists may throw.
DrawThrows ==
  /\ Running
  /\ init
  /\ drawing = "no"
  /\ Troubled("project")
  /\ pc' = "crashed"
  /\ UNCHANGED <<disk, watcher, field, pp, seen, ghosts, changed, init, files,
                 drawing>>

\* Iterating over a vector that is changed meanwhile is undefined: a frame
\* with stale or odd entries, or the end of the process.  In a narrow window
\* the first entry, if there is one, divides by zero.
DrawEnd ==
  /\ Running
  /\ drawing # "no"
  /\ \/ drawing' = "no" /\ UNCHANGED pc
     \/ /\ drawing = "torn" \/ (drawing = "narrow" /\ files.dir # "none")
        /\ pc' = "crashed" /\ UNCHANGED drawing
  /\ UNCHANGED <<disk, watcher, field, pp, seen, ghosts, changed, init, files>>

-----------------------------------------------------------------------------
Disk ==
  \/ \E d \in Dirs : Change(d) \/ Rename(d)
  \/ \E d \in {"project", "sub"} : Remove(d) \/ Make(d)
  \/ Alter

Update ==
  \/ Check \/ TestProject \/ ReadPath \/ TestPath
  \/ RemoveWatch \/ DeleteWatcher \/ DeleteHangs \/ CreateWatcher
  \/ Clear \/ FetchBegin \/ FetchEnd \/ Reset

Draw == FirstFrame \/ DrawBegin \/ DrawThrows \/ DrawEnd

User == Enter \/ Blur \/ \E text \in Texts : Type(text)

Next == Disk \/ EatIgnored \/ Callback \/ Update \/ Draw \/ User

Spec == Init /\ [][Next]_vars

\* Both loops and the watcher's threads keep running; the user and the file
\* system do as they like.
Fairness ==
  /\ WF_vars(Update)
  /\ WF_vars(FirstFrame) /\ WF_vars(DrawEnd)
  /\ WF_vars(Callback)

FairSpec == Spec /\ Fairness

-----------------------------------------------------------------------------
(* Properties. *)

DiskOK ==
  /\ exists \subseteq Dirs /\ version \in [Dirs -> Nat]
  /\ faulty \subseteq Dirs /\ changes \in 0..MaxChanges

WatcherOK ==
  /\ watch \in Places \cup {"none"} /\ pending \in Nat
  /\ alive \in BOOLEAN /\ eaten \in BOOLEAN

FieldOK ==
  /\ path \in {"blank", "/"} \cup Texts /\ editing \in {"none"} \cup Texts
  /\ inputs \in 0..MaxInputs /\ entered \in BOOLEAN /\ fell \in BOOLEAN

UpdateOK == pc \in UpdatePc /\ pp \in Places \cup {"none"} /\ seen \in Nat

GhostsOK == raised \in BOOLEAN /\ lost \in BOOLEAN /\ missed \in BOOLEAN

ViewOK ==
  /\ changed \in BOOLEAN /\ init \in BOOLEAN
  /\ files \in [dir : Dirs \cup {"none"}, version : Nat]
  /\ drawing \in {"no", "reading", "narrow", "torn"}

TypeOK ==
  DiskOK /\ WatcherOK /\ FieldOK /\ UpdateOK /\ GhostsOK /\ ViewOK

Stopped == pc \in {"hung", "crashed"}

\* Update has nothing to do and nothing is on its way to it.
Resting == pc = "check" /\ ~changed /\ pending = 0

\* The list is what the watched directory holds whenever the explorer rests.
\* The only ways to a stale list are a flag cleared by the assignment at the
\* end of Update (or by a refresh skipped for want of a project), a rename,
\* and a directory that was removed under its watcher.
Fresh ==
  Resting /\ watch # "none" /\ alive /\ ~lost /\ ~missed
    => files = [dir |-> watch, version |-> version[watch]]

\* A list is never shown at rest for a directory other than the watched one,
\* so whatever changes it is whatever can refresh it.
ShowsWatched == pc = "check" /\ files.dir # "none" => watch = files.dir

\* An Enter whose path no refresh has read still has its flag up, unless a
\* refresh it overlapped has cleared it.
EnterKeepsFlag == entered /\ ~Stopped => changed \/ lost

\* What Update tests before it deletes the watcher is enough for the rest of it
\* as long as nobody else changes the file system: then the process ends only
\* over a directory on which a call fails, a regular file in the path field, or
\* a frame that is torn, or too narrow for a button.
SurvivesUndisturbed ==
  pc = "crashed" =>
    \/ changes > 0
    \/ Troubled("project") \/ Troubled(pp)
    \/ pp = "file"
    \/ drawing = "torn"
    \/ drawing = "narrow" /\ files.dir # "none"

\* However changes, renames and inputs interleave, the refreshing comes to an
\* end: a refresh does not set off the next one.
Settles == <>[](Stopped \/ Resting)

\* Every Enter is answered by reading the path, or lost to a refresh that it
\* overlapped.
EnterAnswered == entered ~> ~entered \/ lost \/ Stopped

\* "Path does not exist, so we change back to project root instead": the list
\* then shows the project until the user touches the field.
FallbackShowsProject ==
  fell /\ pc = "check" /\ Exists("project") => files.dir = "project"
=============================================================================
