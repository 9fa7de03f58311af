----------------------------- MODULE FileWatch ------------------------------
(***************************************************************************)
(* filewatch::FileWatch<std::string> as the explorer builds it on Linux:   *)
(* an owner (the update thread) that constructs and deletes the watcher, a *)
(* watch thread that reads inotify records, and a callback thread that     *)
(* takes them over through a mutex, a condition variable and a vector.     *)
(* The kernel's inotify queue and the directory are the environment.       *)
(*                                                                         *)
(* Every step of a thread is one access to shared state, except the two    *)
(* critical sections of _callback_mutex that contain a single access.      *)
(***************************************************************************)
EXTENDS Naturals, Sequences

CONSTANTS
  Events,        \* changes in the mask IN_MODIFY | IN_CREATE | IN_DELETE
  MaxQueued,     \* records the kernel's queue holds (max_queued_events)
  MaxEvents,     \* bound: changes recorded in one behaviour
  MaxMoves       \* bound: renames, which are outside the mask

ASSUME FileWatchAssumption ==
  /\ MaxQueued \in Nat \ {0}
  /\ MaxEvents \in Nat
  /\ MaxMoves \in Nat

VARIABLES
  posted,                \* history: changes recorded by the kernel, in order
  moves,                 \* history: number of renames in the directory
  unseen,                \* history: changed since the callback was last entered
  queue,                 \* the records the watch thread has not read yet
  nameless,              \* IN_IGNORED or IN_Q_OVERFLOW follows those in queue
  watched,               \* the kernel still has the inotify watch
  running,               \* the promise _running has its value
  _destory,              \* the flag of that name
  mutex,                 \* who holds _callback_mutex
  _callback_information, \* changes handed over to the callback thread
  parsed,                \* parsed_information, local to the watch thread
  batch,                 \* callback_information, local to the callback thread
  delivered,             \* history: changes the callback was called with
  owner,                 \* program counter of the thread that owns the object
  wpc,                   \* program counter of the watch thread
  cpc                    \* program counter of the callback thread

kernel     == <<posted, moves, unseen, queue, nameless, watched>>
shared     == <<running, _destory, mutex, _callback_information>>
watchVars  == <<parsed, wpc>>
callVars   == <<batch, delivered, cpc>>
vars       == <<kernel, shared, watchVars, callVars, owner>>

Owner == {"construct", "live", "flagged", "removed", "joinWatch",
          "joinCallback", "destroyed"}
WatchPc == {"start", "check", "read", "insert", "notify", "done"}
CallPc == {"check", "lock", "pred", "gap", "blocked", "woken", "swap",
           "call", "done"}

\* The constructor has added the inotify watch and started both threads.
Init ==
  /\ posted = << >> /\ moves = 0 /\ unseen = FALSE
  /\ queue = << >> /\ nameless = FALSE /\ watched = TRUE
  /\ running = FALSE /\ _destory = FALSE /\ mutex = "free"
  /\ _callback_information = << >> /\ parsed = << >> /\ batch = << >>
  /\ delivered = << >>
  /\ owner = "construct" /\ wpc = "start" /\ cpc = "check"

-----------------------------------------------------------------------------
(* The directory and the kernel. *)

\* The kernel merges a change with the newest unread record if that says the
\* same, and drops it if its queue is full, with one record without a name to
\* say so.
Record(e) ==
  \/ /\ Len(queue) >= MaxQueued
     /\ nameless' = TRUE
     /\ UNCHANGED <<posted, queue>>
  \/ /\ Len(queue) < MaxQueued
     /\ queue # << >> /\ queue[Len(queue)] = e /\ ~nameless
     /\ UNCHANGED <<posted, queue, nameless>>
  \/ /\ Len(queue) < MaxQueued
     /\ queue # << >> => queue[Len(queue)] # e \/ nameless
     /\ Len(posted) < MaxEvents
     /\ posted' = Append(posted, e)
     /\ queue' = Append(queue, e)
     /\ UNCHANGED nameless

\* An entry is created, deleted or written: in the mask.
Change(e) ==
  /\ watched
  /\ Record(e)
  /\ unseen' = TRUE
  /\ UNCHANGED <<moves, watched, shared, watchVars, callVars, owner>>

\* An entry is moved in, out or to another name: not in the mask.
Move ==
  /\ watched
  /\ moves < MaxMoves
  /\ moves' = moves + 1
  /\ UNCHANGED <<posted, unseen, queue, nameless, watched, shared, watchVars,
                 callVars, owner>>

\* The watched directory itself is removed: the kernel drops the watch and
\* queues a nameless IN_IGNORED record.
DirectoryDeleted ==
  /\ watched
  /\ watched' = FALSE
  /\ nameless' = TRUE
  /\ UNCHANGED <<posted, moves, unseen, queue, shared, watchVars, callVars,
                 owner>>

-----------------------------------------------------------------------------
(* The owner: the end of the constructor, then destroy().                  *)

\* _cv.notify_all() moves a blocked callback thread on; it is lost if the
\* thread is not blocked.
NotifyAll == cpc' = IF cpc = "blocked" THEN "woken" ELSE cpc

Constructed ==
  /\ owner = "construct"
  /\ running
  /\ owner' = "live"
  /\ UNCHANGED <<kernel, shared, watchVars, callVars>>

SetDestroy ==
  /\ owner = "live"
  /\ _destory' = TRUE
  /\ owner' = "flagged"
  /\ UNCHANGED <<kernel, running, mutex, _callback_information, watchVars,
                 callVars>>

\* Mutant: destroy() leaves the inotify watch in place.
RemoveWatch_Kept ==
  /\ owner = "flagged"
  /\ owner' = "removed"
  /\ UNCHANGED <<kernel, shared, watchVars, callVars>>

\* inotify_rm_watch queues IN_IGNORED; for a watch that is already gone it
\* fails and queues nothing, and the result is not looked at.
RemoveWatch ==
  /\ owner = "flagged"
  /\ nameless' = (nameless \/ watched)
  /\ watched' = FALSE
  /\ owner' = "removed"
  /\ UNCHANGED <<posted, moves, unseen, queue, shared, watchVars, callVars>>

NotifyDestroy ==
  /\ owner = "removed"
  /\ NotifyAll
  /\ owner' = "joinWatch"
  /\ UNCHANGED <<kernel, shared, watchVars, batch, delivered>>

JoinWatch ==
  /\ owner = "joinWatch"
  /\ wpc = "done"
  /\ owner' = "joinCallback"
  /\ UNCHANGED <<kernel, shared, watchVars, callVars>>

\* Mutant: the callback thread is detached, not joined.
JoinCallback_Detached ==
  /\ owner = "joinCallback"
  /\ owner' = "destroyed"
  /\ UNCHANGED <<kernel, shared, watchVars, callVars>>

JoinCallback ==
  /\ owner = "joinCallback"
  /\ cpc = "done"
  /\ owner' = "destroyed"
  /\ UNCHANGED <<kernel, shared, watchVars, callVars>>

-----------------------------------------------------------------------------
(* The watch thread: monitor_directory().                                  *)

WatchStart ==
  /\ wpc = "start"
  /\ running' = TRUE
  /\ wpc' = "check"
  /\ UNCHANGED <<kernel, _destory, mutex, _callback_information, parsed,
                 callVars, owner>>

WatchCheck ==
  /\ wpc = "check"
  /\ wpc' = IF _destory THEN "done" ELSE "read"
  /\ UNCHANGED <<kernel, shared, parsed, callVars, owner>>

\* Mutant: a record without a name ends the parsing loop.
WatchRead_Breaks ==
  /\ wpc = "read"
  /\ \E n \in 0..Len(queue), last \in BOOLEAN :
       /\ last => nameless /\ n = Len(queue)
       /\ n > 0 \/ last
       /\ parsed' = IF last THEN << >> ELSE SubSeq(queue, 1, n)
       /\ queue' = SubSeq(queue, n + 1, Len(queue))
       /\ nameless' = (nameless /\ ~last)
  /\ wpc' = "insert"
  /\ UNCHANGED <<posted, moves, unseen, watched, shared, callVars, owner>>

\* read() blocks until there is a record and returns as many as its buffer
\* holds. A record without a name is dropped by the parsing loop.
WatchRead ==
  /\ wpc = "read"
  /\ \E n \in 0..Len(queue), last \in BOOLEAN :
       /\ last => nameless /\ n = Len(queue)
       /\ n > 0 \/ last
       /\ parsed' = SubSeq(queue, 1, n)
       /\ queue' = SubSeq(queue, n + 1, Len(queue))
       /\ nameless' = (nameless /\ ~last)
  /\ wpc' = "insert"
  /\ UNCHANGED <<posted, moves, unseen, watched, shared, callVars, owner>>

\* Mutant: the lock outlives its block.
WatchInsert_KeepsLock ==
  /\ wpc = "insert"
  /\ mutex = "free"
  /\ mutex' = "watch"
  /\ _callback_information' = _callback_information \o parsed
  /\ parsed' = << >>
  /\ wpc' = "notify"
  /\ UNCHANGED <<kernel, running, _destory, callVars, owner>>

WatchInsert ==
  /\ wpc = "insert"
  /\ mutex = "free"
  /\ _callback_information' = _callback_information \o parsed
  /\ parsed' = << >>
  /\ wpc' = "notify"
  /\ UNCHANGED <<kernel, running, _destory, mutex, callVars, owner>>

\* Mutant: the callback thread is not notified.
WatchNotify_Silent ==
  /\ wpc = "notify"
  /\ wpc' = "check"
  /\ UNCHANGED <<kernel, shared, parsed, callVars, owner>>

WatchNotify ==
  /\ wpc = "notify"
  /\ NotifyAll
  /\ wpc' = "check"
  /\ UNCHANGED <<kernel, shared, parsed, batch, delivered, owner>>

-----------------------------------------------------------------------------
(* The callback thread: callback_thread().                                 *)

CallCheck ==
  /\ cpc = "check"
  /\ cpc' = IF _destory THEN "done" ELSE "lock"
  /\ UNCHANGED <<kernel, shared, watchVars, batch, delivered, owner>>

\* Mutant: the wait has no predicate and is not skipped.
CallLock_AlwaysWaits ==
  /\ cpc = "lock"
  /\ mutex = "free"
  /\ mutex' = "callback"
  /\ cpc' = "gap"
  /\ UNCHANGED <<kernel, running, _destory, _callback_information, watchVars,
                 batch, delivered, owner>>

CallLock ==
  /\ cpc = "lock"
  /\ mutex = "free"
  /\ mutex' = "callback"
  /\ cpc' = IF _callback_information = << >> /\ ~_destory
            THEN "pred" ELSE "swap"
  /\ UNCHANGED <<kernel, running, _destory, _callback_information, watchVars,
                 batch, delivered, owner>>

\* The predicate of _cv.wait, evaluated with the mutex held.
CallPredicate ==
  /\ cpc = "pred"
  /\ cpc' = IF _callback_information # << >> \/ _destory
            THEN "swap" ELSE "gap"
  /\ UNCHANGED <<kernel, shared, watchVars, batch, delivered, owner>>

\* The wait releases the mutex and blocks in one step.
CallBlock ==
  /\ cpc = "gap"
  /\ mutex' = "free"
  /\ cpc' = "blocked"
  /\ UNCHANGED <<kernel, running, _destory, _callback_information, watchVars,
                 batch, delivered, owner>>

SpuriousWakeup ==
  /\ cpc = "blocked"
  /\ cpc' = "woken"
  /\ UNCHANGED <<kernel, shared, watchVars, batch, delivered, owner>>

CallRelock ==
  /\ cpc = "woken"
  /\ mutex = "free"
  /\ mutex' = "callback"
  /\ cpc' = "pred"
  /\ UNCHANGED <<kernel, running, _destory, _callback_information, watchVars,
                 batch, delivered, owner>>

\* Mutant: the vector is copied, not swapped.
CallSwap_Copies ==
  /\ cpc = "swap"
  /\ batch' = _callback_information
  /\ mutex' = "free"
  /\ cpc' = "call"
  /\ UNCHANGED <<kernel, running, _destory, _callback_information, watchVars,
                 delivered, owner>>

CallSwap ==
  /\ cpc = "swap"
  /\ batch' = _callback_information
  /\ _callback_information' = << >>
  /\ mutex' = "free"
  /\ cpc' = "call"
  /\ UNCHANGED <<kernel, running, _destory, watchVars, delivered, owner>>

\* Mutant: the batch is walked from its end.
CallCallback_Reversed ==
  /\ cpc = "call"
  /\ batch # << >>
  /\ delivered' = Append(delivered, batch[Len(batch)])
  /\ batch' = SubSeq(batch, 1, Len(batch) - 1)
  /\ unseen' = FALSE
  /\ UNCHANGED <<posted, moves, queue, nameless, watched, shared, watchVars,
                 cpc, owner>>

CallCallback ==
  /\ cpc = "call"
  /\ batch # << >>
  /\ delivered' = Append(delivered, Head(batch))
  /\ batch' = Tail(batch)
  /\ unseen' = FALSE
  /\ UNCHANGED <<posted, moves, queue, nameless, watched, shared, watchVars,
                 cpc, owner>>

CallEndBatch ==
  /\ cpc = "call"
  /\ batch = << >>
  /\ cpc' = "check"
  /\ UNCHANGED <<kernel, shared, watchVars, batch, delivered, owner>>

-----------------------------------------------------------------------------
Environment ==
  \/ \E e \in Events : Change(e)
  \/ Move
  \/ DirectoryDeleted

OwnerStep ==
  \/ Constructed \/ SetDestroy \/ RemoveWatch \/ NotifyDestroy
  \/ JoinWatch \/ JoinCallback

WatchStep ==
  \/ WatchStart \/ WatchCheck \/ WatchRead \/ WatchInsert \/ WatchNotify

CallStep ==
  \/ CallCheck \/ CallLock \/ CallPredicate \/ CallBlock \/ CallRelock
  \/ CallSwap \/ CallCallback \/ CallEndBatch

Next ==
  \/ Environment
  \/ OwnerStep
  \/ WatchStep
  \/ CallStep
  \/ SpuriousWakeup

Spec == Init /\ [][Next]_vars

Destroying == RemoveWatch \/ NotifyDestroy \/ JoinWatch \/ JoinCallback

\* The scheduler runs both threads and the constructor, and destroy(), once
\* called, runs on; a thread that waits for _callback_mutex is not overtaken
\* forever. Nobody has to delete the watcher, to touch the directory, or to
\* wake a condition variable spuriously.
Fairness ==
  /\ WF_vars(WatchStep) /\ SF_vars(WatchInsert)
  /\ WF_vars(CallStep) /\ SF_vars(CallLock) /\ SF_vars(CallRelock)
  /\ WF_vars(Constructed)
  /\ WF_vars(Destroying)

FairSpec == Spec /\ Fairness

-----------------------------------------------------------------------------
(* Properties. *)

TypeOK ==
  /\ posted \in Seq(Events) /\ queue \in Seq(Events)
  /\ parsed \in Seq(Events) /\ batch \in Seq(Events)
  /\ _callback_information \in Seq(Events) /\ delivered \in Seq(Events)
  /\ moves \in Nat
  /\ unseen \in BOOLEAN /\ nameless \in BOOLEAN /\ watched \in BOOLEAN
  /\ running \in BOOLEAN /\ _destory \in BOOLEAN
  /\ mutex \in {"free", "callback"}
  /\ owner \in Owner /\ wpc \in WatchPc /\ cpc \in CallPc

\* No change is lost, duplicated or reordered on its way from the kernel
\* through the two threads to the callback: what was recorded is, in order,
\* what was delivered followed by what each stage still holds.
Conserved ==
  posted = delivered \o batch \o _callback_information \o parsed \o queue

\* A change that the kernel merges or drops has a record before it still to be
\* delivered: the callback is never entered for the last time before the last
\* change in the mask, however full the queue is.
NeverSilent ==
  unseen => batch \o _callback_information \o parsed \o queue # << >>

\* _callback_information is only touched by the thread that holds
\* _callback_mutex, and the callback is never entered with it held: a callback
\* that blocks cannot keep the watch thread from its queue.
MutexHeld == mutex = "callback" <=> cpc \in {"pred", "gap", "swap"}

\* A callback thread that sleeps although changes have been handed over is
\* about to be notified: the condition variable loses no change.
NoLostChange ==
  cpc = "blocked" /\ _callback_information # << >> => wpc = "notify"

\* Once the destructor has returned neither thread exists any more, so neither
\* can touch the freed object or call back into the explorer.
Joined == owner = "destroyed" => wpc = "done" /\ cpc = "done"

\* A thread leaves its loop only because destroy() asked for it.
StopsOnlyOnDestroy ==
  /\ wpc = "done" \/ cpc = "done" => _destory
  /\ _destory <=> owner \notin {"construct", "live"}

\* The watcher implements DirectoryWatch: seen from outside the threads, the
\* callback gets the recorded changes in order and never after the destructor.
Watch == INSTANCE DirectoryWatch WITH live <- owner # "destroyed"
ImplementsDirectoryWatch == Watch!Spec

\* Every recorded change reaches the callback unless the watcher is deleted
\* first.
Reaches(n) == Len(posted) >= n ~> Len(delivered) >= n \/ _destory
EveryChangeDelivered == \A n \in 1..MaxEvents : Reaches(n)

\* The watch thread comes out of its blocking read() when the watcher is
\* destroyed, as long as the IN_IGNORED record has not been eaten before.
WatchThreadStops ==
  _destory /\ (watched \/ nameless) ~> wpc = "done"

\* Every change of the directory is notified: with nothing left in the
\* pipeline, the callback was called as often as the directory changed.
EveryChangeNotified ==
  (cpc = "blocked" /\ wpc = "read" /\ queue = << >>)
     => Len(delivered) = Len(posted) + moves

\* destroy() returns.
DestroyReturns == _destory ~> owner = "destroyed"
=============================================================================
