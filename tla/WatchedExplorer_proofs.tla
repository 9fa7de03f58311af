------------------------ MODULE WatchedExplorer_proofs -----------------------
(***************************************************************************)
(* The explorer over the threaded watcher implements Explorer, for every   *)
(* set of changes and any number of changes and inputs: what is proved of  *)
(* Explorer's watcher holds of FileWatch.                                  *)
(***************************************************************************)
EXTENDS WatchedExplorer, SequenceTheorems, TLAPS

\* The watcher and what is proved of it.
Threads ==
  INSTANCE FileWatch_proofs WITH MaxEvents <- MaxChanges, MaxMoves <- 0

\* How the object and its threads follow the steps of Update.
OwnerOK ==
  /\ "none" \notin exists
  /\ watch = "none" => owner = "destroyed"
  /\ pc = "create" => watch = "none"
  /\ pc = "join" => owner \notin {"construct", "live"}

IInv == Threads!IInv /\ OwnerOK

LEMMA Assumed == Threads!FileWatchAssumption
<1> QED
  BY WatchedExplorerAssumption DEF Threads!FileWatchAssumption

LEMMA InitIInv == Init => IInv
<1> SUFFICES ASSUME Init PROVE IInv
  OBVIOUS
<1> USE DEF Init
<1>1. Threads!TypeOK
  <2>1. << >> \in Seq(Events) /\ 0 \in Nat
    OBVIOUS
  <2> QED
    BY <2>1, Zenon DEF Threads!TypeOK, Threads!Owner, Threads!WatchPc,
       Threads!CallPc
<1>2. Threads!Conserved
  <2>1. << >> \o << >> = << >>
    OBVIOUS
  <2> QED
    BY <2>1 DEF Threads!Conserved
<1>3. OwnerOK
  BY DEF OwnerOK, View!Init, View!Dirs
<1> QED
  BY <1>1, <1>2, <1>3 DEF IInv, Threads!IInv, Threads!MutexHeld,
     Threads!StopsOnlyOnDestroy, Threads!OwnerJoins, Threads!LocalsEmpty,
     Threads!GapEmpty, Threads!NoLostChange, Threads!StillComing

\* The constructor makes a watcher as FileWatch has it at first.
LEMMA NewIInv == New => Threads!IInv'
<1>1. New => Threads!Init'
  BY DEF New, Threads!Init
<1>2. Threads!Init => Threads!IInv
  BY Assumed, Threads!InitIInv
<1> QED
  BY <1>1, <1>2, PTL

LEMMA ThreadsStep ==
  ASSUME Threads!IInv, Threads!Next \/ UNCHANGED watcher
  PROVE  Threads!IInv'
<1>1. UNCHANGED watcher => UNCHANGED Threads!vars
  BY DEF watcher, Threads!vars, Threads!kernel, Threads!shared,
     Threads!watchVars, Threads!callVars
<1> QED
  BY <1>1, Assumed, Threads!NextIInv

\* Whatever happens in the process, the watcher does a step of its own, or
\* none, or is made anew, by an Update that makes one.
LEMMA StepsOfWatcher ==
  [Next]_vars => Threads!Next \/ UNCHANGED watcher \/ (New /\ pc = "create")
<1> SUFFICES ASSUME [Next]_vars
             PROVE  Threads!Next \/ UNCHANGED watcher \/ (New /\ pc = "create")
  OBVIOUS
<1> USE DEF Watcher!kernel, Watcher!shared, Watcher!watchVars, Watcher!callVars,
            Threads!kernel, Threads!shared, Threads!watchVars, Threads!callVars
<1>1. CASE Disk
  <2>1. ASSUME NEW d, Records(d) PROVE Threads!Next \/ UNCHANGED watcher
    <3>1. ASSUME NEW e \in Events, Watcher!Change(e) PROVE Threads!Change(e)
      BY <3>1 DEF Watcher!Change, Watcher!Record, Threads!Change, Threads!Record
    <3> QED
      BY <2>1, <3>1 DEF Records, Threads!Next, Threads!Environment
  <2>2. Watcher!DirectoryDeleted => Threads!Next
    BY DEF Watcher!DirectoryDeleted, Threads!DirectoryDeleted, Threads!Next,
       Threads!Environment
  <2> QED
    BY <1>1, <2>1, <2>2 DEF Disk, Change, Rename, Make, Remove, Alter
<1>2. CASE Thread
  <2>1. Watcher!WatchStep => Threads!Next
    BY DEF Watcher!WatchStep, Watcher!WatchStart, Watcher!WatchCheck,
       Watcher!WatchRead, Watcher!WatchInsert, Watcher!WatchNotify,
       Watcher!NotifyAll, Threads!WatchStep, Threads!WatchStart,
       Threads!WatchCheck, Threads!WatchRead, Threads!WatchInsert,
       Threads!WatchNotify, Threads!NotifyAll, Threads!Next
  <2>2. Watcher!SpuriousWakeup => Threads!Next
    BY DEF Watcher!SpuriousWakeup, Threads!SpuriousWakeup, Threads!Next
  <2>3. Watcher!CallCheck \/ Watcher!CallLock \/ Watcher!CallPredicate
        \/ Watcher!CallBlock => Threads!Next
    BY DEF Watcher!CallCheck, Watcher!CallLock, Watcher!CallPredicate,
       Watcher!CallBlock, Threads!CallCheck, Threads!CallLock,
       Threads!CallPredicate, Threads!CallBlock, Threads!CallStep, Threads!Next
  <2>4. Watcher!CallRelock \/ Watcher!CallSwap \/ Watcher!CallEndBatch
          => Threads!Next
    BY DEF Watcher!CallRelock, Watcher!CallSwap, Watcher!CallEndBatch,
       Threads!CallRelock, Threads!CallSwap, Threads!CallEndBatch,
       Threads!CallStep, Threads!Next
  <2> QED
    BY <1>2, <2>1, <2>2, <2>3, <2>4 DEF Thread
<1>3. CASE Callback
  BY <1>3 DEF Callback, Watcher!CallCallback, Threads!CallCallback,
     Threads!CallStep, Threads!Next
<1>4. CASE Delete
  <2>1. Watcher!SetDestroy \/ Watcher!RemoveWatch => Threads!Next
    BY DEF Watcher!SetDestroy, Watcher!RemoveWatch, Threads!SetDestroy,
       Threads!RemoveWatch, Threads!OwnerStep, Threads!Next
  <2>2. Watcher!NotifyDestroy \/ Watcher!JoinWatch \/ Watcher!JoinCallback
          => Threads!Next
    BY DEF Watcher!NotifyDestroy, Watcher!JoinWatch, Watcher!JoinCallback,
       Watcher!NotifyAll, Threads!NotifyDestroy, Threads!JoinWatch,
       Threads!JoinCallback, Threads!NotifyAll, Threads!OwnerStep, Threads!Next
  <2> QED
    BY <1>4, <2>1, <2>2 DEF Delete, NoWatcher, SetDestroy, RemoveWatch, Join,
       Deleted
<1>5. CASE Create
  <2>1. Watcher!Constructed => Threads!Next
    BY DEF Watcher!Constructed, Threads!Constructed, Threads!OwnerStep,
       Threads!Next
  <2> QED
    BY <1>5, <2>1 DEF Create, Construct, Constructed, Clear
<1>6. CASE Apart \/ UNCHANGED vars
  BY <1>6 DEF Apart, vars
<1> QED
  BY <1>1, <1>2, <1>3, <1>4, <1>5, <1>6 DEF Next

LEMMA WatcherStep == Threads!IInv /\ [Next]_vars => Threads!IInv'
<1> QED
  BY StepsOfWatcher, ThreadsStep, NewIInv

\* What the threads of the watcher do leaves its owner where it is.
LEMMA OwnerWaits ==
  Thread \/ Callback \/ Disk => owner' = owner /\ watch' = watch
<1> USE DEF Watcher!kernel, Watcher!shared, Watcher!watchVars, Watcher!callVars
<1>1. ASSUME NEW d, Records(d) PROVE owner' = owner
  BY <1>1 DEF Records, Watcher!Change, watcher
<1>2. Watcher!DirectoryDeleted => owner' = owner
  BY DEF Watcher!DirectoryDeleted
<1>3. Disk => owner' = owner /\ watch' = watch
  BY <1>1, <1>2 DEF Disk, Change, Rename, Make, Remove, Alter, watcher
<1>4. Watcher!WatchStep \/ Watcher!SpuriousWakeup => owner' = owner
  BY DEF Watcher!WatchStep, Watcher!WatchStart, Watcher!WatchCheck,
     Watcher!WatchRead, Watcher!WatchInsert, Watcher!WatchNotify,
     Watcher!SpuriousWakeup
<1>5. Watcher!CallCheck \/ Watcher!CallLock \/ Watcher!CallPredicate
      \/ Watcher!CallBlock \/ Watcher!CallRelock \/ Watcher!CallSwap
      \/ Watcher!CallEndBatch \/ Watcher!CallCallback => owner' = owner
  BY DEF Watcher!CallCheck, Watcher!CallLock, Watcher!CallPredicate,
     Watcher!CallBlock, Watcher!CallRelock, Watcher!CallSwap,
     Watcher!CallEndBatch, Watcher!CallCallback
<1> QED
  BY <1>3, <1>4, <1>5 DEF Thread, Callback

\* What is apart from the watcher leaves its directory alone and neither makes
\* nor deletes a watcher.
LEMMA ApartQuiet ==
  Apart => /\ UNCHANGED <<exists, watch, owner>>
           /\ pc' = pc \/ pc' \notin {"create", "join"}
<1> USE DEF View!disk, View!watcher, View!field, View!update, View!ghosts
<1>1. View!Check \/ View!TestProject \/ View!ReadPath \/ View!TestPath
        => /\ UNCHANGED <<exists, watch>>
           /\ pc' \notin {"create", "join"}
  BY DEF View!Check, View!TestProject, View!ReadPath, View!TestPath
<1>2. View!FetchBegin \/ View!FetchEnd \/ View!Reset
        => /\ UNCHANGED <<exists, watch>>
           /\ pc' \notin {"create", "join"}
  BY DEF View!FetchBegin, View!FetchEnd, View!Reset
<1>3. View!Draw => /\ UNCHANGED <<exists, watch>>
                   /\ pc' = pc \/ pc' \notin {"create", "join"}
  BY DEF View!Draw, View!FirstFrame, View!DrawBegin, View!DrawThrows,
     View!DrawEnd
<1>4. View!User => UNCHANGED <<exists, watch, pc>>
  BY DEF View!User, View!Enter, View!Blur, View!Type
<1> QED
  BY <1>1, <1>2, <1>3, <1>4 DEF Apart, watcher

LEMMA OwnerStep == IInv /\ [Next]_vars => OwnerOK'
<1> SUFFICES ASSUME IInv, [Next]_vars PROVE OwnerOK'
  OBVIOUS
<1> USE DEF IInv, OwnerOK, Watcher!kernel, Watcher!shared, Watcher!watchVars,
            Watcher!callVars
<1>1. CASE Disk
  <2>1. "none" \notin exists' /\ pc' = pc
    BY <1>1 DEF Disk, Change, Rename, Make, Remove, Alter, view
  <2> QED
    BY <1>1, <2>1, OwnerWaits
<1>2. CASE Thread \/ Callback
  <2>1. exists' = exists /\ pc' = pc
    BY <1>2 DEF Thread, Callback, disk
  <2> QED
    BY <1>2, <2>1, OwnerWaits
<1>3. CASE Delete
  <2>1. CASE NoWatcher
    BY <2>1 DEF NoWatcher, View!RemoveWatch, View!disk, watcher
  <2>2. CASE SetDestroy
    BY <2>2 DEF SetDestroy, Watcher!SetDestroy, disk
  <2>3. CASE RemoveWatch
    BY <2>3 DEF RemoveWatch, Watcher!RemoveWatch, disk
  <2>4. CASE Join
    BY <2>4 DEF Join, Watcher!NotifyDestroy, Watcher!JoinWatch,
       Watcher!JoinCallback, disk
  <2>5. CASE Deleted
    BY <2>5 DEF Deleted, watcher, disk
  <2> QED
    BY <1>3, <2>1, <2>2, <2>3, <2>4, <2>5 DEF Delete
<1>4. CASE Create
  <2>1. CASE Construct
    BY <2>1 DEF Construct, New, View!Exists, disk, watcher
  <2>2. CASE Constructed
    BY <2>2 DEF Constructed, Watcher!Constructed, disk
  <2>3. CASE Clear
    BY <2>3 DEF Clear, View!Clear, View!disk, View!watcher, watcher
  <2> QED
    BY <1>4, <2>1, <2>2, <2>3 DEF Create
<1>5. CASE Apart
  BY <1>5, ApartQuiet
<1>6. CASE UNCHANGED vars
  BY <1>6 DEF vars, disk, watcher
<1> QED
  BY <1>1, <1>2, <1>3, <1>4, <1>5, <1>6 DEF Next

\* At every time the watcher is as FileWatch proves it, and there for as long
\* as Update takes it to be.
THEOREM Inductive == Spec => []IInv
<1>1. IInv /\ [Next]_vars => IInv'
  BY WatcherStep, OwnerStep DEF IInv
<1> QED
  BY InitIInv, <1>1, PTL DEF Spec

\* When Update makes a watcher no thread of the one before is left, which could
\* touch the new object or raise the flag for the old directory.
THEOREM NoThreadLeft ==
  Spec => [](watch = "none" => wpc = "done" /\ cpc = "done")
<1>1. IInv => (watch = "none" => wpc = "done" /\ cpc = "done")
  BY DEF IInv, OwnerOK, Threads!IInv, Threads!OwnerJoins
<1> QED
  BY <1>1, Inductive, PTL

-----------------------------------------------------------------------------
(* How Update waits for the threads.                                       *)

\* From inotify_rm_watch to the second join Update is with the destructor,
\* unless the process has ended meanwhile.
JoinOK ==
  /\ owner \in {"removed", "joinWatch", "joinCallback"}
       => pc \in {"join", "crashed"}
  /\ pc = "join" => owner \notin {"construct", "live", "flagged"}

\* What is apart from the watcher leaves the destructor only with the process.
LEMMA ApartJoins ==
  Apart => /\ owner' = owner
           /\ pc = "join" => pc' \in {"join", "crashed"}
           /\ pc = "crashed" => pc' = "crashed"
           /\ pc # "join" => pc' # "join"
<1> SUFFICES ASSUME Apart
             PROVE  /\ owner' = owner
                    /\ pc = "join" => pc' \in {"join", "crashed"}
                    /\ pc = "crashed" => pc' = "crashed"
                    /\ pc # "join" => pc' # "join"
  OBVIOUS
<1>1. owner' = owner
  BY DEF Apart, watcher
<1>2. CASE View!Check \/ View!TestProject \/ View!ReadPath \/ View!TestPath
  <2>1. pc \notin {"join", "crashed"} /\ pc' # "join"
    BY <1>2 DEF View!Check, View!TestProject, View!ReadPath, View!TestPath
  <2> QED
    BY <1>1, <2>1
<1>3. CASE View!FetchBegin \/ View!FetchEnd \/ View!Reset
  <2>1. pc \notin {"join", "crashed"} /\ pc' # "join"
    BY <1>3 DEF View!FetchBegin, View!FetchEnd, View!Reset
  <2> QED
    BY <1>1, <2>1
<1>4. CASE View!Draw
  <2>1. pc # "crashed" /\ pc' \in {pc, "crashed"}
    BY <1>4 DEF View!Draw, View!FirstFrame, View!DrawBegin, View!DrawThrows,
       View!DrawEnd, View!Running, View!InField, View!disk, View!watcher, View!field,
       View!update, View!ghosts
  <2> QED
    BY <1>1, <2>1
<1>5. CASE View!User
  <2>1. pc' = pc
    BY <1>5 DEF View!User, View!Enter, View!Blur, View!Type, View!disk,
       View!watcher, View!field, View!update, View!ghosts
  <2> QED
    BY <1>1, <2>1
<1> QED
  BY <1>2, <1>3, <1>4, <1>5 DEF Apart

LEMMA JoinStep == IInv /\ JoinOK /\ [Next]_vars => JoinOK'
<1> SUFFICES ASSUME IInv, JoinOK, [Next]_vars PROVE JoinOK'
  OBVIOUS
<1> USE DEF JoinOK, Watcher!kernel, Watcher!shared, Watcher!watchVars,
            Watcher!callVars
<1>1. CASE Disk
  <2>1. pc' = pc
    BY <1>1 DEF Disk, Change, Rename, Make, Remove, Alter, view
  <2> QED
    BY <1>1, <2>1, OwnerWaits
<1>2. CASE Thread \/ Callback
  <2>1. pc' = pc
    BY <1>2 DEF Thread, Callback
  <2> QED
    BY <1>2, <2>1, OwnerWaits
<1>3. CASE Delete
  <2>1. CASE NoWatcher
    <3>1. owner = "destroyed" /\ owner' = owner
      BY <2>1 DEF NoWatcher, watcher, IInv, OwnerOK
    <3> QED
      BY <3>1
  <2>2. CASE SetDestroy
    BY <2>2 DEF SetDestroy, Watcher!SetDestroy
  <2>3. CASE RemoveWatch
    BY <2>3 DEF RemoveWatch, Watcher!RemoveWatch
  <2>4. CASE Join
    BY <2>4 DEF Join, Watcher!NotifyDestroy, Watcher!JoinWatch,
       Watcher!JoinCallback
  <2>5. CASE Deleted
    BY <2>5 DEF Deleted, watcher
  <2> QED
    BY <1>3, <2>1, <2>2, <2>3, <2>4, <2>5 DEF Delete
<1>4. CASE Create
  <2>1. CASE Construct
    BY <2>1 DEF Construct, New, watcher
  <2>2. CASE Constructed
    BY <2>2 DEF Constructed, Watcher!Constructed
  <2>3. CASE Clear
    BY <2>3 DEF Clear, View!Clear, watcher
  <2> QED
    BY <1>4, <2>1, <2>2, <2>3 DEF Create
<1>5. CASE Apart
  BY <1>5, ApartJoins
<1>6. CASE UNCHANGED vars
  BY <1>6 DEF vars, watcher
<1> QED
  BY <1>1, <1>2, <1>3, <1>4, <1>5, <1>6 DEF Next

\* The kernel's watch is gone once the destructor has removed it.
LEMMA UnwatchedStep ==
  Threads!Unwatched /\ [Next]_vars => Threads!Unwatched'
<1> SUFFICES ASSUME Threads!Unwatched, [Next]_vars PROVE Threads!Unwatched'
  OBVIOUS
<1>1. CASE Threads!Next
  BY <1>1, Assumed, Threads!UnwatchedStep
<1>2. CASE UNCHANGED watcher
  BY <1>2 DEF Threads!Unwatched, watcher
<1>3. CASE New
  BY <1>3 DEF Threads!Unwatched, New
<1> QED
  BY <1>1, <1>2, <1>3, StepsOfWatcher

LEMMA Joins == Spec => [](IInv /\ JoinOK /\ Threads!Unwatched)
<1>1. Init => JoinOK /\ Threads!Unwatched
  BY DEF Init, JoinOK, Threads!Unwatched, View!Init
<1> QED
  BY <1>1, JoinStep, UnwatchedStep, Inductive, PTL DEF Spec

\* An Update that deletes a watcher blocks for ever in the two ways FileWatch
\* has and no third: on a watch thread whose IN_IGNORED has been eaten, as
\* Explorer has it, or on a callback thread that has missed the notification.
\* And nowhere but there does it wait for the watcher's threads.
THEOREM UpdateBlocksInTwoWays ==
  Spec => []( Threads!Stuck
                => pc \in {"join", "crashed"} /\ (Eaten \/ Threads!NotWoken) )
<1>1. IInv /\ JoinOK /\ Threads!Unwatched
        => ( Threads!Stuck
               => pc \in {"join", "crashed"} /\ (Eaten \/ Threads!NotWoken) )
  <2> SUFFICES ASSUME IInv, JoinOK, Threads!Unwatched, Threads!Stuck
               PROVE  pc \in {"join", "crashed"} /\ (Eaten \/ Threads!NotWoken)
    OBVIOUS
  <2>1. Threads!NothingToRead \/ Threads!NotWoken
    BY Assumed, Threads!StuckInTwoWays DEF IInv
  <2>2. owner \in {"joinWatch", "joinCallback"}
    BY <2>1 DEF Threads!NothingToRead, Threads!NotWoken
  <2>3. Threads!NothingToRead => Eaten
    BY DEF Threads!NothingToRead, Eaten, IInv, OwnerOK
  <2> QED
    BY <2>1, <2>2, <2>3 DEF JoinOK
<1> QED
  BY <1>1, Joins, PTL

\* An Update that joins a watch thread without a record to read is lost: it never makes
\* another watcher or lists another directory.
THEOREM UpdateLost ==
  Spec => []( Threads!NothingToRead
                => [](Threads!NothingToRead /\ pc \in {"join", "crashed"}) )
<1>1. IInv /\ JoinOK /\ Threads!NothingToRead => pc \in {"join", "crashed"}
  BY DEF JoinOK, Threads!NothingToRead
<1>2. IInv /\ Threads!NothingToRead /\ [Next]_vars => Threads!NothingToRead'
  <2> SUFFICES ASSUME IInv, Threads!NothingToRead, [Next]_vars
               PROVE  Threads!NothingToRead'
    OBVIOUS
  <2>1. CASE Threads!Next
    BY <2>1, Assumed, Threads!StaysStuck DEF IInv
  <2>2. CASE UNCHANGED watcher
    BY <2>2 DEF Threads!NothingToRead, watcher
  <2>3. CASE pc = "create"
    BY <2>3 DEF IInv, OwnerOK, Threads!NothingToRead
  <2> QED
    BY <2>1, <2>2, <2>3, StepsOfWatcher
<1> QED
  BY <1>1, <1>2, Joins, PTL DEF Spec

\* While Update joins, whatever the watcher does in between the steps of the
\* draw thread, the user and the file system counts down to the end of the
\* join: no change in any directory can draw it out.
THEOREM JoinCountsDown ==
  Spec => [][ pc = "join" /\ watcher' # watcher
                => Threads!StepsLeft' < Threads!StepsLeft ]_vars
<1>1. IInv /\ JoinOK /\ Threads!Unwatched /\ [Next]_vars
        => [ pc = "join" /\ watcher' # watcher
               => Threads!StepsLeft' < Threads!StepsLeft ]_vars
  <2> SUFFICES ASSUME IInv, JoinOK, Threads!Unwatched, Next, pc = "join",
                      watcher' # watcher
               PROVE  Threads!StepsLeft' < Threads!StepsLeft
    OBVIOUS
  <2>1. Threads!Next
    BY StepsOfWatcher
  <2>2. owner \notin {"construct", "live", "flagged"} /\ Threads!IInv
    BY DEF JoinOK, IInv
  <2>3. _destory
    BY <2>2 DEF Threads!IInv, Threads!StopsOnlyOnDestroy
  <2>4. ~watched
    BY <2>2 DEF Threads!Unwatched, Threads!IInv, Threads!TypeOK, Threads!Owner
  <2> QED
    BY <2>1, <2>2, <2>3, <2>4, Assumed, Threads!StepCounts
<1> QED
  BY <1>1, Joins, PTL DEF Spec

-----------------------------------------------------------------------------
(* The refinement. *)

\* A change still in the kernel's queue or in a batch has yet to be delivered.
LEMMA Undelivered ==
  IInv => /\ Len(posted) \in Nat /\ Len(delivered) \in Nat
          /\ Len(posted) - Len(delivered) \in Nat
          /\ Len(queue) > 0 \/ batch # << >>
               => Len(posted) - Len(delivered) > 0
<1> SUFFICES ASSUME IInv
             PROVE  /\ Len(posted) \in Nat /\ Len(delivered) \in Nat
                    /\ Len(posted) - Len(delivered) \in Nat
                    /\ Len(queue) > 0 \/ batch # << >>
                         => Len(posted) - Len(delivered) > 0
  OBVIOUS
<1>1. /\ Len(posted) \in Nat /\ Len(delivered) \in Nat
      /\ Len(posted) - Len(delivered)
           = Len(batch) + Len(_callback_information) + Len(parsed) + Len(queue)
  BY Assumed, Threads!PipelineLength DEF IInv, Threads!IInv
<1>2. /\ Len(batch) \in Nat /\ Len(_callback_information) \in Nat
      /\ Len(parsed) \in Nat /\ Len(queue) \in Nat
      /\ batch # << >> => Len(batch) > 0
  <2>1. /\ batch \in Seq(Events) /\ _callback_information \in Seq(Events)
        /\ parsed \in Seq(Events) /\ queue \in Seq(Events)
    BY DEF IInv, Threads!IInv, Threads!TypeOK
  <2> QED
    BY <2>1
<1> QED
  BY <1>1, <1>2

\* A change of the watched directory is recorded, or is merged with or dropped
\* behind one that is still to be delivered.
LEMMA RecordsTouch ==
  ASSUME IInv, NEW d, d # "none", Records(d), View!Content(d, TRUE),
         watch' = watch
  PROVE  View!Touch(d, TRUE) /\ Eaten' = Eaten /\ watched' = watched
<1>1. CASE watch = d /\ watched
  <2>1. PICK e \in Events : Watcher!Change(e)
    BY <1>1 DEF Records
  <2>2. /\ watched' = watched /\ delivered' = delivered
        /\ \/ posted' = posted /\ Len(queue) >= MaxQueued
           \/ posted' = posted /\ queue # << >>
           \/ posted' = Append(posted, e)
    BY <2>1 DEF Watcher!Change, Watcher!Record, Watcher!callVars
  <2>3. Eaten' = Eaten
    <3>1. watched /\ watched'
      BY <1>1, <2>2
    <3> QED
      BY <3>1 DEF Eaten
  <2>4. /\ posted \in Seq(Events) /\ queue \in Seq(Events)
        /\ Len(posted) \in Nat /\ Len(delivered) \in Nat
        /\ Len(queue) > 0 => Len(posted) - Len(delivered) > 0
    BY Undelivered DEF IInv, Threads!IInv, Threads!TypeOK
  <2>5. \/ Len(posted') - Len(delivered') = Len(posted) - Len(delivered) + 1
        \/ /\ Len(posted) - Len(delivered) > 0
           /\ Len(posted') - Len(delivered') = Len(posted) - Len(delivered)
    <3>1. CASE posted' = Append(posted, e)
      <4>1. Len(posted') = Len(posted) + 1
        BY <2>4, <3>1, AppendProperties
      <4> QED
        BY <2>2, <2>4, <4>1
    <3>2. CASE posted' = posted /\ (Len(queue) >= MaxQueued \/ queue # << >>)
      <4>1. Len(queue) > 0
        BY <2>4, <3>2, WatchedExplorerAssumption
      <4> QED
        BY <2>2, <2>4, <3>2, <4>1
    <3> QED
      BY <2>2, <3>1, <3>2
  <2> QED
    BY <1>1, <2>2, <2>3, <2>5 DEF View!Touch
<1>2. CASE ~(watch = d /\ watched)
  <2>1. UNCHANGED watcher
    BY <1>2 DEF Records
  <2>2. Eaten' = Eaten
    BY <2>1 DEF Eaten, watcher
  <2> QED
    BY <1>2, <2>1, <2>2 DEF View!Touch, watcher
<1> QED
  BY <1>1, <1>2

\* A step of the watcher that nobody outside of it can see.
LEMMA Unseen ==
  ASSUME UNCHANGED <<disk, view, flags, missed, watch, pc, posted, delivered,
                     watched>>,
         Eaten' = Eaten
  PROVE  UNCHANGED View!vars
<1> QED
  BY DEF disk, view, flags, View!vars, View!disk, View!watcher, View!field,
     View!update, View!ghosts

LEMMA DiskSimulation ==
  ASSUME IInv, Disk
  PROVE  View!Next
<1> USE DEF view, flags, View!field, View!update
<1>1. ASSUME UNCHANGED watcher, watch' = watch
      PROVE  /\ Eaten' = Eaten /\ watched' = watched /\ posted' = posted
             /\ delivered' = delivered
  BY <1>1 DEF watcher, Eaten
<1>2. \A d \in exists : d # "none"
  BY DEF IInv, OwnerOK
<1>3. ASSUME NEW d \in View!Dirs, Change(d)
      PROVE  View!Change(d)
  <2>1. View!Touch(d, TRUE) /\ Eaten' = Eaten /\ watched' = watched
    BY <1>2, <1>3, RecordsTouch DEF Change
  <2> QED
    BY <1>3, <2>1 DEF Change, View!Change
<1>4. ASSUME NEW d \in View!Dirs, Rename(d)
      PROVE  View!Rename(d)
  BY <1>1, <1>4 DEF Rename, View!Rename, View!Touch
<1>5. ASSUME NEW d \in {"project", "sub"}, Make(d)
      PROVE  View!Make(d)
  <2>1. View!Touch("project", TRUE) /\ Eaten' = Eaten /\ watched' = watched
    BY <1>5, RecordsTouch DEF Make
  <2> QED
    BY <1>5, <2>1 DEF Make, View!Make
<1>6. ASSUME NEW d \in {"project", "sub"}, Remove(d)
      PROVE  View!Remove(d)
  <2> SUFFICES /\ Eaten' = Eaten
               /\ watched' = (watched /\ watch # d)
               /\ IF d = "sub" THEN View!Touch("project", TRUE)
                               ELSE UNCHANGED <<version, missed, posted, delivered>>
    BY <1>6 DEF Remove, View!Remove
  <2>1. watched \in BOOLEAN
    BY DEF IInv, Threads!IInv, Threads!TypeOK
  <2>2. CASE watch = d /\ watched
    <3>1. /\ watched' = FALSE /\ nameless' = TRUE
          /\ posted' = posted /\ delivered' = delivered
      BY <1>6, <2>2 DEF Remove, Watcher!DirectoryDeleted, Watcher!callVars
    <3>2. Eaten' = Eaten
      BY <2>2, <3>1 DEF Eaten
    <3>3. d = "sub" => View!Touch("project", TRUE)
      BY <1>6, <2>2, <3>1 DEF Remove, View!Touch
    <3> QED
      BY <1>6, <2>2, <3>1, <3>2, <3>3 DEF Remove
  <2>3. CASE ~(watch = d /\ watched) /\ d = "sub"
    <3>1. View!Touch("project", TRUE) /\ Eaten' = Eaten /\ watched' = watched
      BY <1>6, <2>3, RecordsTouch DEF Remove
    <3> QED
      BY <2>1, <2>3, <3>1
  <2>4. CASE ~(watch = d /\ watched) /\ d # "sub"
    <3>1. UNCHANGED watcher
      BY <1>6, <2>4 DEF Remove
    <3> QED
      BY <1>1, <1>6, <2>1, <2>4, <3>1 DEF Remove
  <2> QED
    BY <2>2, <2>3, <2>4
<1>7. ASSUME Alter
      PROVE  View!Alter
  BY <1>1, <1>7 DEF Alter, View!Alter, View!watcher, View!ghosts
<1> QED
  BY <1>3, <1>4, <1>5, <1>6, <1>7 DEF Disk, View!Disk, View!Next

\* The watch thread may go back to a read() without an end, but not once the
\* destructor has raised its flag; a callback takes a change that is pending.
LEMMA ThreadSimulation ==
  ASSUME IInv, Thread \/ Callback
  PROVE  View!Next \/ UNCHANGED View!vars
<1> USE DEF Watcher!kernel, Watcher!shared, Watcher!watchVars, Watcher!callVars
<1>1. CASE Thread /\ ~Watcher!WatchCheck
  <2>1. UNCHANGED <<disk, view, flags, missed, watch, pc>>
    BY <1>1 DEF Thread
  <2>2. CASE Watcher!WatchStep
    <3>1. UNCHANGED <<posted, delivered, watched>>
      BY <1>1, <2>2 DEF Watcher!WatchStep, Watcher!WatchStart,
         Watcher!WatchRead, Watcher!WatchInsert, Watcher!WatchNotify
    <3>2. wpc' # "read"
      BY <1>1, <2>2 DEF Watcher!WatchStep, Watcher!WatchStart,
         Watcher!WatchRead, Watcher!WatchInsert, Watcher!WatchNotify
    <3>3. wpc # "read" \/ nameless \/ queue # << >>
      <4>1. CASE Watcher!WatchRead
        <5>1. PICK n \in 0..Len(queue), last \in BOOLEAN :
                (last => nameless) /\ (n > 0 \/ last)
          BY <4>1 DEF Watcher!WatchRead
        <5>2. queue = << >> => Len(queue) = 0
          BY EmptySeq
        <5> QED
          BY <5>1, <5>2
      <4>2. CASE ~Watcher!WatchRead
        BY <1>1, <2>2, <4>2 DEF Watcher!WatchStep, Watcher!WatchStart,
           Watcher!WatchInsert, Watcher!WatchNotify
      <4> QED
        BY <4>1, <4>2
    <3>4. Eaten' = Eaten
      BY <3>2, <3>3 DEF Eaten
    <3> QED
      BY <2>1, <3>1, <3>4, Unseen
  <2>3. CASE ~Watcher!WatchStep
    <3>1. UNCHANGED <<posted, delivered, watched, nameless, queue, wpc>>
      BY <1>1, <2>3 DEF Thread, Watcher!SpuriousWakeup, Watcher!CallCheck,
         Watcher!CallLock, Watcher!CallPredicate, Watcher!CallBlock,
         Watcher!CallRelock, Watcher!CallSwap, Watcher!CallEndBatch
    <3>2. Eaten' = Eaten
      BY <2>1, <3>1 DEF Eaten
    <3> QED
      BY <2>1, <3>1, <3>2, Unseen
  <2> QED
    BY <2>2, <2>3
<1>2. CASE Thread /\ Watcher!WatchCheck
  <2>1. /\ UNCHANGED <<disk, view, flags, missed, watch, pc>>
        /\ UNCHANGED <<posted, delivered, watched, nameless, queue>>
        /\ wpc = "check" /\ wpc' = IF _destory THEN "done" ELSE "read"
        /\ pc # "crashed"
    BY <1>2 DEF Thread, Watcher!WatchCheck, View!Running
  <2>2. ~Eaten
    BY <2>1 DEF Eaten
  <2>3. CASE Eaten'
    <3>1. watch # "none" /\ ~watched /\ ~_destory
      BY <2>1, <2>3 DEF Eaten
    <3>2. pc # "join"
      BY <3>1 DEF IInv, OwnerOK, Threads!IInv, Threads!StopsOnlyOnDestroy,
         Threads!TypeOK, Threads!Owner
    <3>3. Eaten' = TRUE
      BY <2>3 DEF Eaten
    <3>4. View!EatIgnored
      BY <2>1, <2>2, <3>1, <3>2, <3>3 DEF View!EatIgnored, View!Running, disk, view,
         flags, View!disk, View!field, View!update, View!ghosts
    <3> QED
      BY <3>4 DEF View!Next
  <2>4. CASE ~Eaten'
    <3>1. Eaten' = Eaten
      BY <2>2, <2>4 DEF Eaten
    <3> QED
      BY <2>1, <3>1, Unseen
  <2> QED
    BY <2>3, <2>4
<1>3. CASE Callback
  <2>1. /\ cpc = "call" /\ batch # << >>
        /\ delivered' = Append(delivered, Head(batch))
        /\ UNCHANGED <<posted, watched, nameless, queue, wpc, watch>>
    BY <1>3 DEF Callback, Watcher!CallCallback
  <2>2. watch # "none"
    BY <2>1 DEF IInv, OwnerOK, Threads!IInv, Threads!OwnerJoins
  <2>3. /\ Len(posted) - Len(delivered) > 0
        /\ Len(posted') - Len(delivered') = Len(posted) - Len(delivered) - 1
    <3>1. delivered \in Seq(Events) /\ Head(batch) \in Events
      BY <2>1, HeadTailProperties DEF IInv, Threads!IInv, Threads!TypeOK
    <3>2. Len(delivered') = Len(delivered) + 1
      BY <2>1, <3>1, AppendProperties
    <3> QED
      BY <2>1, <3>2, Undelivered
  <2>4. Eaten' = Eaten
    BY <2>1 DEF Eaten
  <2>5. View!Callback
    BY <1>3, <2>1, <2>2, <2>3, <2>4 DEF Callback, View!Callback, View!Running, disk,
       view, View!disk, View!field, View!update
  <2> QED
    BY <2>5 DEF View!Next
<1> QED
  BY <1>1, <1>2, <1>3

\* The steps of a destructor are one when it removes the kernel's watch and one
\* when it has joined both threads; that one needs a thread that can be joined.
LEMMA DeleteSimulation ==
  ASSUME IInv, Delete
  PROVE  View!Next \/ UNCHANGED View!vars
<1> USE DEF Watcher!kernel, Watcher!shared, Watcher!watchVars, Watcher!callVars
<1>1. CASE NoWatcher
  BY <1>1 DEF NoWatcher, View!Update, View!Next
<1>2. CASE SetDestroy \/ Join
  <2>1. UNCHANGED <<disk, view, flags, missed, watch, pc>>
    BY <1>2 DEF SetDestroy, Join
  <2>2. UNCHANGED <<posted, delivered, watched, nameless, queue, wpc>>
    BY <1>2 DEF SetDestroy, Join, Watcher!SetDestroy, Watcher!NotifyDestroy,
       Watcher!JoinWatch, Watcher!JoinCallback
  <2>3. Eaten' = Eaten
    BY <2>1, <2>2 DEF Eaten
  <2> QED
    BY <2>1, <2>2, <2>3, Unseen
<1>3. CASE RemoveWatch
  <2>1. /\ owner = "flagged" /\ pc = "delete" /\ pc' = "join"
        /\ nameless' = (nameless \/ watched) /\ watched' = FALSE
        /\ UNCHANGED <<posted, delivered, queue, wpc, watch>>
    BY <1>3 DEF RemoveWatch, Watcher!RemoveWatch
  <2>2. watch # "none"
    BY <2>1 DEF IInv, OwnerOK
  <2>3. Eaten' = Eaten
    BY <2>1 DEF Eaten
  <2>4. View!RemoveWatch
    BY <1>3, <2>1, <2>2, <2>3 DEF RemoveWatch, View!RemoveWatch, disk, view, flags,
       View!disk, View!field, View!ghosts
  <2> QED
    BY <2>4 DEF View!Update, View!Next
<1>4. CASE Deleted
  <2>1. wpc # "read"
    BY <1>4 DEF Deleted, IInv, Threads!IInv, Threads!OwnerJoins
  <2>2. ~Eaten /\ Eaten' = Eaten
    BY <1>4, <2>1 DEF Deleted, watcher, Eaten
  <2>3. View!DeleteWatcher
    BY <1>4, <2>2 DEF Deleted, View!DeleteWatcher, disk, view, flags, watcher,
       View!disk, View!field, View!ghosts
  <2> QED
    BY <2>3 DEF View!Update, View!Next
<1> QED
  BY <1>1, <1>2, <1>3, <1>4 DEF Delete

LEMMA CreateSimulation ==
  ASSUME IInv, Create
  PROVE  View!Next \/ UNCHANGED View!vars
<1>1. CASE Construct
  <2>1. watch = "none" /\ ~Eaten
    BY <1>1 DEF Construct, IInv, OwnerOK, Eaten
  <2>2. CASE View!Exists(pp) /\ New /\ watch' = pp /\ pc' = "clear"
    <3>1. /\ watched' = TRUE /\ posted' = << >> /\ delivered' = << >>
          /\ watch' = pp /\ pc' = "clear"
      BY <2>2 DEF New
    <3>2. Eaten' = Eaten
      BY <2>1, <3>1 DEF Eaten
    <3>3. Len(posted') - Len(delivered') = 0
      BY <3>1, EmptySeq
    <3>4. View!CreateWatcher
      BY <1>1, <2>1, <2>2, <3>1, <3>2, <3>3 DEF Construct, View!CreateWatcher,
         disk, view, flags, View!disk, View!field
    <3> QED
      BY <3>4 DEF View!Update, View!Next
  <2>3. CASE /\ ~View!Exists(pp) \/ View!Troubled(pp)
             /\ pc' = "crashed" /\ UNCHANGED <<watch, watcher>>
    <3>1. UNCHANGED <<watch, watcher>> /\ pc' = "crashed"
      BY <2>3
    <3>2. Eaten' = Eaten
      BY <3>1 DEF watcher, Eaten
    <3>3. View!CreateWatcher
      BY <1>1, <2>3, <3>1, <3>2 DEF Construct, View!CreateWatcher, disk, view,
         flags, watcher, View!disk, View!field
    <3> QED
      BY <3>3 DEF View!Update, View!Next
  <2> QED
    BY <1>1, <2>2, <2>3 DEF Construct
<1>2. CASE Constructed
  <2>1. UNCHANGED <<disk, view, flags, missed, watch, pc>>
    BY <1>2 DEF Constructed
  <2>2. UNCHANGED <<posted, delivered, watched, nameless, queue, wpc>>
    BY <1>2 DEF Constructed, Watcher!Constructed, Watcher!kernel,
       Watcher!watchVars, Watcher!callVars
  <2>3. Eaten' = Eaten
    BY <2>1, <2>2 DEF Eaten
  <2> QED
    BY <2>1, <2>2, <2>3, Unseen
<1>3. CASE Clear
  BY <1>3 DEF Clear, View!Update, View!Next
<1> QED
  BY <1>1, <1>2, <1>3 DEF Create

LEMMA StepSimulation ==
  IInv /\ [Next]_vars => [View!Next]_(View!vars)
<1> SUFFICES ASSUME IInv, [Next]_vars
             PROVE  View!Next \/ UNCHANGED View!vars
  OBVIOUS
<1>1. CASE Disk
  BY <1>1, DiskSimulation
<1>2. CASE Thread \/ Callback
  BY <1>2, ThreadSimulation
<1>3. CASE Delete
  BY <1>3, DeleteSimulation
<1>4. CASE Create
  BY <1>4, CreateSimulation
<1>5. CASE Apart
  BY <1>5 DEF Apart, View!Update, View!Next
<1>6. CASE UNCHANGED vars
  <2>1. Eaten' = Eaten
    BY <1>6 DEF vars, watcher, Eaten
  <2> QED
    BY <1>6, <2>1, Unseen DEF vars, watcher
<1> QED
  BY <1>1, <1>2, <1>3, <1>4, <1>5, <1>6 DEF Next

\* Explorer over the threaded watcher implements Explorer over the promise: the
\* records, the callbacks and the destructor of FileWatch do nothing that
\* Explorer's watcher does not do.
THEOREM Refinement == Spec => ImplementsExplorer
<1>1. Init => View!Init
  <2> SUFFICES ASSUME Init PROVE View!Init
    OBVIOUS
  <2>1. watched = FALSE /\ watch = "none"
    BY DEF Init, View!Init
  <2>2. Eaten = FALSE
    BY <2>1 DEF Eaten
  <2> QED
    BY <2>1, <2>2 DEF Init
<1> QED
  BY <1>1, Inductive, StepSimulation, PTL
     DEF Spec, ImplementsExplorer, View!Spec

-----------------------------------------------------------------------------
(* What is proved of Explorer holds over the threads.                      *)

\* The explorer and what is proved of it.
Shown == INSTANCE Explorer_proofs WITH
  alive <- watched, eaten <- Eaten,
  pending <- IF watch = "none" THEN 0 ELSE Len(posted) - Len(delivered)

LEMMA ShownInit == View!Init => Shown!Init
<1> QED
  BY DEF View!Init, View!Dirs, View!NoFiles, Shown!Init, Shown!Dirs, Shown!NoFiles

LEMMA ShownStep == [View!Next]_(View!vars) => [Shown!Next]_(Shown!vars)
<1> USE DEF View!disk, View!watcher, View!field, View!update, View!ghosts,
            Shown!disk, Shown!watcher, Shown!field, Shown!update, Shown!ghosts
<1>1. ASSUME NEW d, View!Change(d) PROVE Shown!Change(d)
  BY <1>1 DEF View!Change, View!Touch, View!Content, View!Step, View!Running,
     Shown!Change, Shown!Touch, Shown!Content, Shown!Step, Shown!Running
<1>2. ASSUME NEW d, View!Rename(d) PROVE Shown!Rename(d)
  BY <1>2 DEF View!Rename, View!Touch, View!Content, View!Step, View!Running,
     Shown!Rename, Shown!Touch, Shown!Content, Shown!Step, Shown!Running
<1>3. ASSUME NEW d, View!Remove(d) PROVE Shown!Remove(d)
  BY <1>3 DEF View!Remove, View!Touch, View!Content, View!Step, View!Running,
     Shown!Remove, Shown!Touch, Shown!Content, Shown!Step, Shown!Running
<1>4. ASSUME NEW d, View!Make(d) PROVE Shown!Make(d)
  BY <1>4 DEF View!Make, View!Touch, View!Content, View!Step, View!Running,
     Shown!Make, Shown!Touch, Shown!Content, Shown!Step, Shown!Running
<1>11. View!Alter => Shown!Alter
  BY DEF View!Alter, View!Step, View!Running, Shown!Alter, Shown!Step,
     Shown!Running
<1>5. View!Disk => Shown!Disk
  BY <1>1, <1>2, <1>3, <1>4, <1>11
     DEF View!Disk, View!Dirs, Shown!Disk, Shown!Dirs
<1>6. View!EatIgnored \/ View!Callback => Shown!EatIgnored \/ Shown!Callback
  BY DEF View!EatIgnored, View!Callback, View!Raise, View!Running,
     Shown!EatIgnored, Shown!Callback, Shown!Raise, Shown!Running
<1>7. View!Update => Shown!Update
  <2>1. View!Check \/ View!TestProject \/ View!ReadPath
          => Shown!Check \/ Shown!TestProject \/ Shown!ReadPath
    BY DEF View!Check, View!TestProject, View!ReadPath, View!Exists,
       View!Troubled, View!Resolve, Shown!Check, Shown!TestProject,
       Shown!ReadPath, Shown!Exists, Shown!Troubled, Shown!Resolve
  <2>2. View!TestPath \/ View!RemoveWatch => Shown!TestPath \/ Shown!RemoveWatch
    BY DEF View!TestPath, View!RemoveWatch, View!Exists, View!Troubled,
       Shown!TestPath, Shown!RemoveWatch, Shown!Exists, Shown!Troubled
  <2>3. View!DeleteWatcher \/ View!DeleteHangs
          => Shown!DeleteWatcher \/ Shown!DeleteHangs
    BY DEF View!DeleteWatcher, View!DeleteHangs,
       Shown!DeleteWatcher, Shown!DeleteHangs
  <2>4. View!CreateWatcher \/ View!Clear => Shown!CreateWatcher \/ Shown!Clear
    BY DEF View!CreateWatcher, View!Clear, View!Exists, View!Troubled,
       View!NoFiles, View!Tear, Shown!CreateWatcher, Shown!Clear, Shown!Exists,
       Shown!Troubled, Shown!NoFiles, Shown!Tear
  <2>5. View!FetchBegin \/ View!FetchEnd \/ View!Reset
          => Shown!FetchBegin \/ Shown!FetchEnd \/ Shown!Reset
    BY DEF View!FetchBegin, View!FetchEnd, View!Reset, View!Tear, View!Troubled,
       Shown!FetchBegin, Shown!FetchEnd, Shown!Reset, Shown!Tear, Shown!Troubled
  <2> QED
    BY <2>1, <2>2, <2>3, <2>4, <2>5 DEF View!Update, Shown!Update
<1>8. View!Draw => Shown!Draw
  BY DEF View!Draw, View!FirstFrame, View!DrawBegin, View!DrawThrows,
     View!DrawEnd, View!InField, View!Exists, View!Troubled, View!Raise,
     View!Running, Shown!Draw, Shown!FirstFrame, Shown!DrawBegin,
     Shown!DrawThrows, Shown!DrawEnd, Shown!InField, Shown!Exists,
     Shown!Troubled, Shown!Raise, Shown!Running
<1>9. View!User => Shown!User
  BY DEF View!User, View!Enter, View!Blur, View!Type, View!Input, View!InField,
     View!Exists, View!Raise, View!Running, Shown!User, Shown!Enter, Shown!Blur,
     Shown!Type, Shown!Input, Shown!InField, Shown!Exists, Shown!Raise,
     Shown!Running
<1>10. UNCHANGED View!vars => UNCHANGED Shown!vars
  BY DEF View!vars, Shown!vars
<1> QED
  BY <1>5, <1>6, <1>7, <1>8, <1>9, <1>10 DEF View!Next, Shown!Next

\* Over the watcher with its threads too, a list at rest is fresh but for the
\* reasons Fresh names, only the watched directory is shown, no Enter loses its
\* flag unnoticed, and a refresh that nobody disturbs ends the process only over
\* what SurvivesUndisturbed names.
THEOREM ShownOverThreads ==
  Spec => []( View!Fresh /\ View!ShowsWatched /\ View!EnterKeepsFlag
                /\ View!SurvivesUndisturbed )
<1>1. Shown!ExplorerAssumption
  BY WatchedExplorerAssumption DEF Shown!ExplorerAssumption
<1>2. Spec => Shown!Spec
  BY Refinement, ShownInit, ShownStep, PTL
     DEF ImplementsExplorer, View!Spec, Shown!Spec
<1>3. Shown!Fresh => View!Fresh
  BY DEF Shown!Fresh, Shown!Resting, View!Fresh, View!Resting
<1>4. Shown!ShowsWatched => View!ShowsWatched
  BY DEF Shown!ShowsWatched, View!ShowsWatched
<1>5. Shown!EnterKeepsFlag => View!EnterKeepsFlag
  BY DEF Shown!EnterKeepsFlag, Shown!Stopped, View!EnterKeepsFlag, View!Stopped
<1>6. Shown!SurvivesUndisturbed => View!SurvivesUndisturbed
  BY DEF Shown!SurvivesUndisturbed, Shown!Troubled, View!SurvivesUndisturbed,
     View!Troubled
<1> QED
  BY <1>1, <1>2, <1>3, <1>4, <1>5, <1>6, Shown!FreshAtRest, Shown!ShownIsWatched,
     Shown!EnterNotForgotten, Shown!SurvivesStill, PTL
=============================================================================
