--------------------------- MODULE WatchedExplorer ---------------------------
(***************************************************************************)
(* Explorer and FileWatch put together: the watcher that Explorer sees     *)
(* through a few promises is the one with threads, a kernel queue, a mutex *)
(* and a destructor that the update thread runs through.  The process has  *)
(* an update thread, a draw thread and, per watcher, two more; each change *)
(* of the file system is a change of the directory and a record in the     *)
(* kernel's queue.  The module shows that Explorer assumes of its watcher  *)
(* nothing that FileWatch does not do.                                     *)
(***************************************************************************)
EXTENDS Naturals, Sequences

CONSTANTS
  Texts, MayFail, Windows, MaxInputs, MaxChanges,   \* as in Explorer
  Events, MaxQueued                                 \* as in FileWatch

ASSUME WatchedExplorerAssumption ==
  /\ Texts \subseteq {"blank", "/", "sub", "file"}
  /\ MayFail \subseteq {"project", "sub", "root"}
  /\ Windows \subseteq {"reading", "narrow"}
  /\ MaxInputs \in Nat /\ MaxChanges \in Nat
  /\ MaxQueued \in Nat \ {0}

VARIABLES
  exists, version, faulty, changes, inputs, watch, changed, init, path, files,
  pc, pp, seen, drawing, editing, raised, lost, missed, entered, fell,
  posted, moves, unseen, queue, nameless, watched, running, _destory, mutex,
  _callback_information, parsed, batch, delivered, owner, wpc, cpc

\* The watcher's object and threads; when there is none, those of the last one
\* are over.
Watcher == INSTANCE FileWatch WITH MaxEvents <- MaxChanges, MaxMoves <- 0

\* What Explorer sees of it.  The watch thread is lost when it waits for a
\* record that nobody can queue any more.
Eaten ==
  watch # "none" /\ ~watched /\ ~nameless /\ queue = << >> /\ wpc = "read"

View == INSTANCE Explorer WITH
  alive <- watched, eaten <- Eaten,
  pending <- IF watch = "none" THEN 0 ELSE Len(posted) - Len(delivered)

disk == <<exists, version, faulty, changes>>
view == <<inputs, path, editing, entered, fell, pp, seen, init, files, drawing>>
flags == <<changed, raised, lost>>
watcher == <<posted, moves, unseen, queue, nameless, watched, running,
             _destory, mutex, _callback_information, parsed, batch, delivered,
             owner, wpc, cpc>>
vars == <<disk, view, flags, missed, watch, pc, watcher>>

\* There is no object yet, which is as if one had been deleted.
Init ==
  /\ View!Init
  /\ posted = << >> /\ moves = 0 /\ unseen = FALSE
  /\ queue = << >> /\ nameless = FALSE /\ watched = FALSE
  /\ running = TRUE /\ _destory = TRUE /\ mutex = "free"
  /\ _callback_information = << >> /\ parsed = << >> /\ batch = << >>
  /\ delivered = << >>
  /\ owner = "destroyed" /\ wpc = "done" /\ cpc = "done"

\* FileWatch's initial state, of a new object.
New ==
  /\ posted' = << >> /\ moves' = 0 /\ unseen' = FALSE
  /\ queue' = << >> /\ nameless' = FALSE /\ watched' = TRUE
  /\ running' = FALSE /\ _destory' = FALSE /\ mutex' = "free"
  /\ _callback_information' = << >> /\ parsed' = << >> /\ batch' = << >>
  /\ delivered' = << >>
  /\ owner' = "construct" /\ wpc' = "start" /\ cpc' = "check"

-----------------------------------------------------------------------------
(* The file system and the kernel. *)

Records(d) ==
  IF watch = d /\ watched THEN \E e \in Events : Watcher!Change(e)
                          ELSE UNCHANGED watcher

Change(d) ==
  /\ View!Step
  /\ d \in exists
  /\ View!Content(d, TRUE)
  /\ Records(d)
  /\ UNCHANGED <<exists, faulty, view, flags, watch, pc>>

Rename(d) ==
  /\ View!Step
  /\ d \in exists
  /\ View!Content(d, FALSE)
  /\ UNCHANGED <<exists, faulty, view, flags, watch, pc, watcher>>

Make(d) ==
  /\ View!Step
  /\ d \notin exists
  /\ d = "sub" => "project" \in exists
  /\ exists' = exists \cup {d}
  /\ View!Content("project", TRUE)
  /\ Records("project")
  /\ UNCHANGED <<faulty, view, flags, watch, pc>>

Remove(d) ==
  /\ View!Step
  /\ d \in exists
  /\ d = "project" => "sub" \notin exists
  /\ exists' = exists \ {d}
  /\ IF d = "sub" THEN View!Content("project", TRUE)
                  ELSE UNCHANGED <<version, missed>>
  /\ IF watch = d /\ watched
     THEN Watcher!DirectoryDeleted
     ELSE IF d = "sub" THEN Records("project") ELSE UNCHANGED watcher
  /\ UNCHANGED <<faulty, view, flags, watch, pc>>

Alter ==
  /\ View!Step
  /\ faulty' \in SUBSET MayFail
  /\ UNCHANGED <<exists, version, view, flags, missed, watch, pc, watcher>>

-----------------------------------------------------------------------------
(* The watcher's threads. *)

Thread ==
  /\ View!Running
  /\ \/ Watcher!WatchStep \/ Watcher!SpuriousWakeup
     \/ Watcher!CallCheck \/ Watcher!CallLock \/ Watcher!CallPredicate
     \/ Watcher!CallBlock \/ Watcher!CallRelock \/ Watcher!CallSwap
     \/ Watcher!CallEndBatch
  /\ UNCHANGED <<disk, view, flags, missed, watch, pc>>

Callback ==
  /\ View!Running
  /\ Watcher!CallCallback
  /\ View!Raise
  /\ UNCHANGED <<disk, view, lost, missed, watch, pc>>

-----------------------------------------------------------------------------
(* The update thread: what it does with the watcher, step by step.         *)

NoWatcher ==
  /\ watch = "none"
  /\ UNCHANGED watcher
  /\ View!RemoveWatch

SetDestroy ==
  /\ pc = "delete"
  /\ Watcher!SetDestroy
  /\ UNCHANGED <<disk, view, flags, missed, watch, pc>>

RemoveWatch ==
  /\ pc = "delete"
  /\ Watcher!RemoveWatch
  /\ pc' = "join"
  /\ UNCHANGED <<disk, view, flags, missed, watch>>

Join ==
  /\ pc = "join"
  /\ Watcher!NotifyDestroy \/ Watcher!JoinWatch \/ Watcher!JoinCallback
  /\ UNCHANGED <<disk, view, flags, missed, watch, pc>>

Deleted ==
  /\ pc = "join"
  /\ owner = "destroyed"
  /\ watch' = "none"
  /\ pc' = "create"
  /\ UNCHANGED <<disk, view, flags, missed, watcher>>

\* The constructor adds the kernel's watch and starts the threads, or throws;
\* it returns when the watch thread has started.
Construct ==
  /\ pc = "create"
  /\ \/ View!Exists(pp) /\ New /\ watch' = pp /\ pc' = "clear"
     \/ /\ ~View!Exists(pp) \/ View!Troubled(pp)
        /\ pc' = "crashed" /\ UNCHANGED <<watch, watcher>>
  /\ missed' = FALSE
  /\ UNCHANGED <<disk, view, flags>>

Constructed ==
  /\ pc = "clear"
  /\ Watcher!Constructed
  /\ UNCHANGED <<disk, view, flags, missed, watch, pc>>

Clear == owner = "live" /\ UNCHANGED watcher /\ View!Clear

\* Whatever else the two loops and the user do leaves the watcher alone.
Apart ==
  /\ UNCHANGED watcher
  /\ \/ View!Check \/ View!TestProject \/ View!ReadPath \/ View!TestPath
     \/ View!FetchBegin \/ View!FetchEnd \/ View!Reset
     \/ View!Draw \/ View!User

-----------------------------------------------------------------------------
Disk ==
  \/ \E d \in View!Dirs : Change(d) \/ Rename(d)
  \/ \E d \in {"project", "sub"} : Make(d) \/ Remove(d)
  \/ Alter

Delete == NoWatcher \/ SetDestroy \/ RemoveWatch \/ Join \/ Deleted

Create == Construct \/ Constructed \/ Clear

Next == Disk \/ Thread \/ Callback \/ Delete \/ Create \/ Apart

Spec == Init /\ [][Next]_vars

-----------------------------------------------------------------------------
(* Properties. *)

\* The explorer over the threaded watcher does what Explorer says, so what is
\* shown there of the list, the flag and the watcher holds here.
ImplementsExplorer == View!Spec
=============================================================================
