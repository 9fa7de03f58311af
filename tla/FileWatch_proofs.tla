-------------------------- MODULE FileWatch_proofs --------------------------
(***************************************************************************)
(* Proofs, for any set of changes and any number of them, that the watcher *)
(* loses and reorders nothing, that its threads are gone when it is, and   *)
(* that it implements DirectoryWatch.                                      *)
(***************************************************************************)
EXTENDS FileWatch, SequenceTheorems, TLAPS

-----------------------------------------------------------------------------
(* Sequences: how each hand-over rewrites the pipeline. *)

\* read() splits the kernel's queue without losing a record.
LEMMA SplitSeq ==
  ASSUME NEW S, NEW q \in Seq(S), NEW n \in 0..Len(q)
  PROVE  /\ SubSeq(q, 1, n) \in Seq(S)
         /\ SubSeq(q, n + 1, Len(q)) \in Seq(S)
         /\ SubSeq(q, 1, n) \o SubSeq(q, n + 1, Len(q)) = q
<1>1. SubSeq(q, 1, n) \in Seq(S) /\ SubSeq(q, n + 1, Len(q)) \in Seq(S)
  OBVIOUS
<1>2. SubSeq(q, 1, n) \o SubSeq(q, n + 1, Len(q)) = SubSeq(q, 1, Len(q))
  <2>1. /\ 1 \in 1..(Len(q) + 1) /\ n \in (1 - 1)..Len(q)
        /\ Len(q) \in n..Len(q)
    OBVIOUS
  <2> QED
    BY <2>1, ConcatAdjacentSubSeq
<1>3. SubSeq(q, 1, Len(q)) = q
  BY SubSeqFull
<1> QED
  BY <1>1, <1>2, <1>3

\* The stages of the pipeline may be joined in any order.
Regroup(s, t, u) == (s \o t) \o u = s \o (t \o u)

LEMMA Regrouped ==
  ASSUME NEW s \in Seq(Events), NEW t \in Seq(Events), NEW u \in Seq(Events)
  PROVE  Regroup(s, t, u)
  BY ConcatAssociative DEF Regroup

\* A record queued by the kernel is appended to the whole pipeline.
AppendTo(s, q, e) == Append(s \o q, e) = s \o Append(q, e)

LEMMA AppendLast ==
  ASSUME NEW s \in Seq(Events), NEW q \in Seq(Events), NEW e \in Events
  PROVE  AppendTo(s, q, e)
<1>1. s \o q \in Seq(Events) /\ <<e>> \in Seq(Events)
  OBVIOUS
<1>2. Append(s \o q, e) = (s \o q) \o <<e>> /\ Append(q, e) = q \o <<e>>
  BY <1>1, AppendIsConcat
<1>3. (s \o q) \o <<e>> = s \o (q \o <<e>>)
  BY <1>1, ConcatAssociative
<1> QED
  BY <1>2, <1>3 DEF AppendTo

\* A callback takes the first change of the batch.
LEMMA TakeHead ==
  ASSUME NEW S, NEW d \in Seq(S), NEW b \in Seq(S), b # << >>
  PROVE  Append(d, Head(b)) \o Tail(b) = d \o b
<1>1. Head(b) \in S /\ Tail(b) \in Seq(S) /\ <<Head(b)>> \in Seq(S)
  BY HeadTailProperties
<1>2. Append(d, Head(b)) = d \o <<Head(b)>>
  BY <1>1, AppendIsConcat
<1>3. (d \o <<Head(b)>>) \o Tail(b) = d \o (<<Head(b)>> \o Tail(b))
  BY <1>1, ConcatAssociative
<1>4. <<Head(b)>> \o Tail(b) = b
  <2>1. 1 \in 1..Len(b) /\ Len(b) \in 1..Len(b)
    OBVIOUS
  <2>2. SubSeq(b, 1, Len(b)) = <<b[1]>> \o SubSeq(b, 2, Len(b))
    BY <2>1, SubSeqRecursiveFirst
  <2> QED
    BY <2>2, SubSeqFull, TailIsSubSeq
<1> QED
  BY <1>2, <1>3, <1>4

\* Moving all of one stage into the empty stage before it changes nothing.
LEMMA MoveAll ==
  ASSUME NEW S, NEW s \in Seq(S), NEW t \in Seq(S)
  PROVE  /\ (s \o << >>) \o t = s \o t
         /\ (s \o t) \o << >> = s \o t
<1>1. s \o t \in Seq(S)
  OBVIOUS
<1> QED
  BY <1>1, ConcatEmptySeq

-----------------------------------------------------------------------------
(* The inductive invariant. *)

\* The locals of a thread are empty except where its loop fills them.
LocalsEmpty ==
  /\ wpc # "insert" => parsed = << >>
  /\ cpc # "call" => batch = << >>

\* The owner has passed a join only if the thread is done.
OwnerJoins ==
  /\ owner \in {"joinCallback", "destroyed"} => wpc = "done"
  /\ owner = "destroyed" => cpc = "done"

\* Between the test of the predicate and the sleep nothing is handed over.
GapEmpty == cpc = "gap" => _callback_information = << >>

\* NeverSilent, stage by stage.
StillComing ==
  unseen => \/ batch # << >> \/ _callback_information # << >>
            \/ parsed # << >> \/ queue # << >>

IInv ==
  /\ TypeOK
  /\ MutexHeld
  /\ StopsOnlyOnDestroy
  /\ OwnerJoins
  /\ LocalsEmpty
  /\ GapEmpty
  /\ NoLostChange
  /\ Conserved
  /\ StillComing

LEMMA InitIInv == Init => IInv
<1> SUFFICES ASSUME Init PROVE IInv
  OBVIOUS
<1> USE DEF Init
<1>1. TypeOK
  <2>1. << >> \in Seq(Events) /\ 0 \in Nat
    OBVIOUS
  <2> QED
    BY <2>1, Zenon DEF TypeOK, Owner, WatchPc, CallPc
<1>2. Conserved
  <2>1. << >> \in Seq(Events)
    OBVIOUS
  <2>2. << >> \o << >> = << >>
    BY <2>1, ConcatEmptySeq
  <2> QED
    BY <2>2 DEF Conserved
<1> QED
  BY <1>1, <1>2 DEF IInv, MutexHeld, StopsOnlyOnDestroy, OwnerJoins,
     LocalsEmpty, GapEmpty, NoLostChange, StillComing

\* Every variable keeps its type.
LEMMA TypeStep == TypeOK /\ [Next]_vars => TypeOK'
<1> SUFFICES ASSUME TypeOK, [Next]_vars PROVE TypeOK'
  OBVIOUS
<1> USE DEF TypeOK, Owner, WatchPc, CallPc, kernel, shared, watchVars, callVars
<1>1. CASE Environment
  <2>1. ASSUME NEW e \in Events, Change(e) PROVE TypeOK'
    <3>1. CASE UNCHANGED <<posted, queue>>
      <4>1. nameless' \in BOOLEAN
        BY <2>1, Zenon DEF Change, Record
      <4> QED
        BY <2>1, <3>1, <4>1 DEF Change
    <3>2. CASE posted' = Append(posted, e) /\ queue' = Append(queue, e)
      <4>1. posted' \in Seq(Events) /\ queue' \in Seq(Events)
        BY <3>2
      <4> QED
        BY <2>1, <3>2, <4>1 DEF Change, Record
    <3> QED
      BY <2>1, <3>1, <3>2 DEF Change, Record
  <2>2. CASE Move
    BY <2>2 DEF Move
  <2>3. CASE DirectoryDeleted
    <3>1. /\ watched' = FALSE /\ nameless' = TRUE
          /\ UNCHANGED <<posted, moves, unseen, queue, shared, watchVars, callVars,
                         owner>>
      BY <2>3 DEF DirectoryDeleted
    <3>2. watched' \in BOOLEAN /\ nameless' \in BOOLEAN
      BY <3>1, Zenon
    <3>3. /\ posted' \in Seq(Events) /\ queue' \in Seq(Events)
          /\ parsed' \in Seq(Events) /\ batch' \in Seq(Events)
          /\ _callback_information' \in Seq(Events) /\ delivered' \in Seq(Events)
          /\ moves' \in Nat /\ unseen' \in BOOLEAN
      BY <3>1, Zenon
    <3>4. /\ running' \in BOOLEAN /\ _destory' \in BOOLEAN
          /\ mutex' \in {"free", "callback"}
          /\ owner' \in Owner /\ wpc' \in WatchPc /\ cpc' \in CallPc
      BY <3>1, Zenon
    <3> QED
      BY <3>2, <3>3, <3>4, Zenon
  <2> HIDE DEF TypeOK
  <2> QED
    BY <1>1, <2>1, <2>2, <2>3 DEF Environment
<1>2. CASE OwnerStep
  <2>1. CASE Constructed
    BY <2>1 DEF Constructed
  <2>2. CASE SetDestroy
    BY <2>2 DEF SetDestroy
  <2>3. CASE RemoveWatch
    BY <2>3 DEF RemoveWatch
  <2>4. CASE NotifyDestroy
    BY <2>4 DEF NotifyDestroy, NotifyAll
  <2>5. CASE JoinWatch
    BY <2>5 DEF JoinWatch
  <2>6. CASE JoinCallback
    BY <2>6 DEF JoinCallback
  <2> QED
    BY <1>2, <2>1, <2>2, <2>3, <2>4, <2>5, <2>6 DEF OwnerStep
<1>3. CASE WatchStep
  <2>1. CASE WatchStart
    BY <2>1 DEF WatchStart
  <2>2. CASE WatchCheck
    BY <2>2 DEF WatchCheck
  <2>3. CASE WatchRead
    <3>1. PICK n \in 0..Len(queue), last \in BOOLEAN :
            /\ parsed' = SubSeq(queue, 1, n)
            /\ queue' = SubSeq(queue, n + 1, Len(queue))
            /\ nameless' = (nameless /\ ~last)
      BY <2>3 DEF WatchRead
    <3>2. parsed' \in Seq(Events) /\ queue' \in Seq(Events)
      BY <3>1, SplitSeq
    <3>3. nameless' \in BOOLEAN
      BY <3>1
    <3> QED
      BY <2>3, <3>2, <3>3 DEF WatchRead
  <2>4. CASE WatchInsert
    BY <2>4 DEF WatchInsert
  <2>5. CASE WatchNotify
    BY <2>5 DEF WatchNotify, NotifyAll
  <2> QED
    BY <1>3, <2>1, <2>2, <2>3, <2>4, <2>5 DEF WatchStep
<1>4. CASE CallStep
  <2>1. CASE CallCheck
    BY <2>1 DEF CallCheck
  <2>2. CASE CallLock
    BY <2>2 DEF CallLock
  <2>3. CASE CallPredicate
    BY <2>3 DEF CallPredicate
  <2>4. CASE CallBlock
    BY <2>4 DEF CallBlock
  <2>5. CASE CallRelock
    BY <2>5 DEF CallRelock
  <2>6. CASE CallSwap
    BY <2>6 DEF CallSwap
  <2>7. CASE CallCallback
    <3>1. batch' \in Seq(Events) /\ delivered' \in Seq(Events)
      BY <2>7, HeadTailProperties DEF CallCallback
    <3>2. /\ unseen' = FALSE
          /\ UNCHANGED <<posted, moves, queue, nameless, watched, shared,
                         watchVars, cpc, owner>>
      BY <2>7 DEF CallCallback
    <3>3. /\ posted' \in Seq(Events) /\ queue' \in Seq(Events)
          /\ parsed' \in Seq(Events) /\ _callback_information' \in Seq(Events)
          /\ moves' \in Nat /\ unseen' \in BOOLEAN
          /\ nameless' \in BOOLEAN /\ watched' \in BOOLEAN
      BY <3>2, Zenon
    <3>4. /\ running' \in BOOLEAN /\ _destory' \in BOOLEAN
          /\ mutex' \in {"free", "callback"}
          /\ owner' \in Owner /\ wpc' \in WatchPc /\ cpc' \in CallPc
      BY <3>2, Zenon
    <3> QED
      BY <3>1, <3>3, <3>4, Zenon
  <2>8. CASE CallEndBatch
    BY <2>8 DEF CallEndBatch
  <2> QED
    BY <1>4, <2>1, <2>2, <2>3, <2>4, <2>5, <2>6, <2>7, <2>8 DEF CallStep
<1>5. CASE SpuriousWakeup
  BY <1>5 DEF SpuriousWakeup
<1>6. CASE UNCHANGED vars
  BY <1>6 DEF vars
<1> QED
  BY <1>1, <1>2, <1>3, <1>4, <1>5, <1>6 DEF Next

\* The program counters, the mutex and the flag of destroy() stay in step.
LEMMA ControlStep ==
  TypeOK /\ MutexHeld /\ StopsOnlyOnDestroy /\ OwnerJoins /\ [Next]_vars
    => MutexHeld' /\ StopsOnlyOnDestroy' /\ OwnerJoins'
<1> SUFFICES ASSUME TypeOK, MutexHeld, StopsOnlyOnDestroy, OwnerJoins,
                    [Next]_vars
             PROVE  MutexHeld' /\ StopsOnlyOnDestroy' /\ OwnerJoins'
  OBVIOUS
<1> USE DEF TypeOK, MutexHeld, StopsOnlyOnDestroy, OwnerJoins,
            Owner, WatchPc, CallPc, kernel, shared, watchVars, callVars
<1>1. CASE Environment
  BY <1>1 DEF Environment, Change, Record, Move, DirectoryDeleted
<1>2. CASE OwnerStep
  <2>1. CASE Constructed
    BY <2>1 DEF Constructed
  <2>2. CASE SetDestroy
    BY <2>2 DEF SetDestroy
  <2>3. CASE RemoveWatch
    BY <2>3 DEF RemoveWatch
  <2>4. CASE NotifyDestroy
    BY <2>4 DEF NotifyDestroy, NotifyAll
  <2>5. CASE JoinWatch
    BY <2>5 DEF JoinWatch
  <2>6. CASE JoinCallback
    BY <2>6 DEF JoinCallback
  <2> QED
    BY <1>2, <2>1, <2>2, <2>3, <2>4, <2>5, <2>6 DEF OwnerStep
<1>3. CASE WatchStep
  <2>1. CASE WatchStart
    BY <2>1 DEF WatchStart
  <2>2. CASE WatchCheck
    BY <2>2 DEF WatchCheck
  <2>3. CASE WatchRead
    BY <2>3 DEF WatchRead
  <2>4. CASE WatchInsert
    BY <2>4 DEF WatchInsert
  <2>5. CASE WatchNotify
    BY <2>5 DEF WatchNotify, NotifyAll
  <2> QED
    BY <1>3, <2>1, <2>2, <2>3, <2>4, <2>5 DEF WatchStep
<1>4. CASE CallStep
  <2>1. CASE CallCheck
    BY <2>1 DEF CallCheck
  <2>2. CASE CallLock
    BY <2>2 DEF CallLock
  <2>3. CASE CallPredicate
    BY <2>3 DEF CallPredicate
  <2>4. CASE CallBlock
    BY <2>4 DEF CallBlock
  <2>5. CASE CallRelock
    BY <2>5 DEF CallRelock
  <2>6. CASE CallSwap
    BY <2>6 DEF CallSwap
  <2>7. CASE CallCallback
    BY <2>7 DEF CallCallback
  <2>8. CASE CallEndBatch
    BY <2>8 DEF CallEndBatch
  <2> QED
    BY <1>4, <2>1, <2>2, <2>3, <2>4, <2>5, <2>6, <2>7, <2>8 DEF CallStep
<1>5. CASE SpuriousWakeup
  BY <1>5 DEF SpuriousWakeup
<1>6. CASE UNCHANGED vars
  BY <1>6 DEF vars
<1> QED
  BY <1>1, <1>2, <1>3, <1>4, <1>5, <1>6 DEF Next

\* What each thread holds agrees with where it is, and a sleeping callback
\* thread with something to do has a notification coming: the watch thread
\* inserts with the mutex free, so never in the gap before the sleep.
LEMMA WaitStep ==
  TypeOK /\ MutexHeld /\ LocalsEmpty /\ GapEmpty /\ NoLostChange /\ [Next]_vars
    => LocalsEmpty' /\ GapEmpty' /\ NoLostChange'
<1> SUFFICES ASSUME TypeOK, MutexHeld, LocalsEmpty, GapEmpty, NoLostChange,
                    [Next]_vars
             PROVE  LocalsEmpty' /\ GapEmpty' /\ NoLostChange'
  OBVIOUS
<1> USE DEF LocalsEmpty, GapEmpty, NoLostChange, MutexHeld,
            kernel, shared, watchVars, callVars
<1>1. CASE Environment
  BY <1>1 DEF Environment, Change, Record, Move, DirectoryDeleted
<1>2. CASE OwnerStep
  BY <1>2 DEF OwnerStep, Constructed, SetDestroy, RemoveWatch, NotifyDestroy,
     NotifyAll, JoinWatch, JoinCallback
<1>3. CASE WatchStep
  <2>1. CASE WatchStart \/ WatchCheck
    BY <2>1 DEF WatchStart, WatchCheck
  <2>2. CASE WatchRead
    BY <2>2 DEF WatchRead
  <2>3. CASE WatchInsert
    BY <2>3 DEF WatchInsert
  <2>4. CASE WatchNotify
    BY <2>4 DEF WatchNotify, NotifyAll
  <2> QED
    BY <1>3, <2>1, <2>2, <2>3, <2>4 DEF WatchStep
<1>4. CASE CallStep
  <2>1. CASE CallCheck \/ CallLock
    BY <2>1 DEF CallCheck, CallLock
  <2>2. CASE CallPredicate
    BY <2>2 DEF CallPredicate
  <2>3. CASE CallBlock \/ CallRelock
    BY <2>3 DEF CallBlock, CallRelock
  <2>4. CASE CallSwap
    BY <2>4 DEF CallSwap
  <2>5. CASE CallCallback
    BY <2>5 DEF CallCallback
  <2>6. CASE CallEndBatch
    BY <2>6 DEF CallEndBatch
  <2> QED
    BY <1>4, <2>1, <2>2, <2>3, <2>4, <2>5, <2>6 DEF CallStep
<1>5. CASE SpuriousWakeup
  BY <1>5 DEF SpuriousWakeup
<1>6. CASE UNCHANGED vars
  BY <1>6 DEF vars
<1> QED
  BY <1>1, <1>2, <1>3, <1>4, <1>5, <1>6 DEF Next

\* No step loses, repeats or reorders a change: the kernel appends at one end
\* of the pipeline, the callback takes from the other, and the hand-overs in
\* between move a whole stage at a time.
LEMMA ConservedStep ==
  TypeOK /\ LocalsEmpty /\ Conserved /\ [Next]_vars => Conserved'
<1> SUFFICES ASSUME TypeOK, LocalsEmpty, Conserved, [Next]_vars
             PROVE  Conserved'
  OBVIOUS
<1> USE DEF kernel, shared, watchVars, callVars
<1> DEFINE db   == delivered \o batch
           dbi  == db \o _callback_information
           dbip == dbi \o parsed
<1>0. /\ delivered \in Seq(Events) /\ batch \in Seq(Events)
      /\ _callback_information \in Seq(Events) /\ parsed \in Seq(Events)
      /\ queue \in Seq(Events)
  BY DEF TypeOK
<1>t. db \in Seq(Events) /\ dbi \in Seq(Events) /\ dbip \in Seq(Events)
  BY <1>0, ConcatProperties
<1>p. posted = dbip \o queue
  BY DEF Conserved
<1>u. ASSUME UNCHANGED <<posted, delivered, batch, _callback_information,
                         parsed, queue>>
      PROVE  Conserved'
  BY <1>u DEF Conserved
<1>1. CASE Environment
  <2>1. ASSUME NEW e \in Events, Change(e) PROVE Conserved'
    <3>1. UNCHANGED <<delivered, batch, _callback_information, parsed>>
      BY <2>1 DEF Change
    <3>2. CASE UNCHANGED <<posted, queue>>
      BY <3>1, <3>2, <1>u
    <3>3. CASE posted' = Append(posted, e) /\ queue' = Append(queue, e)
      <4>1. Append(dbip \o queue, e) = dbip \o Append(queue, e)
        <5>1. AppendTo(dbip, queue, e)
          BY <1>0, <1>t, AppendLast
        <5> QED
          BY <5>1 DEF AppendTo
      <4> QED
        BY <1>p, <3>1, <3>3, <4>1 DEF Conserved
    <3> QED
      BY <2>1, <3>2, <3>3 DEF Change, Record
  <2>2. CASE Move \/ DirectoryDeleted
    BY <2>2, <1>u DEF Move, DirectoryDeleted
  <2> QED
    BY <1>1, <2>1, <2>2 DEF Environment
<1>2. CASE OwnerStep
  BY <1>2, <1>u DEF OwnerStep, Constructed, SetDestroy, RemoveWatch,
     NotifyDestroy, JoinWatch, JoinCallback
<1>3. CASE WatchStep
  <2>1. CASE WatchRead
    <3>1. PICK n \in 0..Len(queue) :
            /\ parsed' = SubSeq(queue, 1, n)
            /\ queue' = SubSeq(queue, n + 1, Len(queue))
      BY <2>1 DEF WatchRead
    <3>2. /\ UNCHANGED <<posted, delivered, batch, _callback_information>>
          /\ wpc = "read"
      BY <2>1 DEF WatchRead
    <3>3. parsed = << >>
      BY <3>2 DEF LocalsEmpty
    <3>4. /\ parsed' \in Seq(Events) /\ queue' \in Seq(Events)
          /\ parsed' \o queue' = queue
      BY <1>0, <3>1, SplitSeq
    <3>5. (dbi \o parsed') \o queue' = dbi \o (parsed' \o queue')
      <4>1. Regroup(dbi, parsed', queue')
        BY <1>t, <3>4, Regrouped
      <4> QED
        BY <4>1 DEF Regroup
    <3>6. dbip = dbi
      BY <1>t, <3>3, ConcatEmptySeq
    <3> QED
      BY <1>p, <3>2, <3>4, <3>5, <3>6 DEF Conserved
  <2>2. CASE WatchInsert
    <3>1. /\ _callback_information' = _callback_information \o parsed
          /\ parsed' = << >>
          /\ UNCHANGED <<posted, delivered, batch, queue>>
      BY <2>2 DEF WatchInsert
    <3>2. (db \o _callback_information) \o parsed
            = db \o (_callback_information \o parsed)
      <4>1. Regroup(db, _callback_information, parsed)
        BY <1>0, <1>t, Regrouped
      <4> QED
        BY <4>1 DEF Regroup
    <3>3. dbip \o << >> = dbip
      BY <1>t, ConcatEmptySeq
    <3> QED
      BY <1>p, <3>1, <3>2, <3>3 DEF Conserved
  <2>3. CASE WatchStart \/ WatchCheck \/ WatchNotify
    BY <2>3, <1>u DEF WatchStart, WatchCheck, WatchNotify
  <2> QED
    BY <1>3, <2>1, <2>2, <2>3 DEF WatchStep
<1>4. CASE CallStep
  <2>1. CASE CallSwap
    <3>1. /\ batch' = _callback_information
          /\ _callback_information' = << >>
          /\ UNCHANGED <<posted, delivered, parsed, queue>>
          /\ cpc = "swap"
      BY <2>1 DEF CallSwap
    <3>2. batch = << >>
      BY <3>1 DEF LocalsEmpty
    <3>3. (delivered \o _callback_information) \o << >> = dbi
      BY <1>0, <3>2, MoveAll
    <3> QED
      BY <1>p, <3>1, <3>3 DEF Conserved
  <2>2. CASE CallCallback
    <3>1. /\ batch # << >>
          /\ delivered' = Append(delivered, Head(batch))
          /\ batch' = Tail(batch)
          /\ UNCHANGED <<posted, _callback_information, parsed, queue>>
      BY <2>2 DEF CallCallback
    <3>2. Append(delivered, Head(batch)) \o Tail(batch) = db
      BY <1>0, <3>1, TakeHead
    <3> QED
      BY <1>p, <3>1, <3>2 DEF Conserved
  <2>3. CASE \/ CallCheck \/ CallLock \/ CallPredicate \/ CallBlock
             \/ CallRelock \/ CallEndBatch
    BY <2>3, <1>u DEF CallCheck, CallLock, CallPredicate, CallBlock,
       CallRelock, CallEndBatch
  <2> QED
    BY <1>4, <2>1, <2>2, <2>3 DEF CallStep
<1>5. CASE SpuriousWakeup
  BY <1>5, <1>u DEF SpuriousWakeup
<1>6. CASE UNCHANGED vars
  BY <1>6, <1>u DEF vars
<1> QED
  BY <1>1, <1>2, <1>3, <1>4, <1>5, <1>6 DEF Next

\* The kernel merges or drops a change only behind a record that is still in
\* its queue, and a stage is emptied into the next one or by a callback.
LEMMA SilentStep ==
  TypeOK /\ LocalsEmpty /\ StillComing /\ [Next]_vars => StillComing'
<1> SUFFICES ASSUME TypeOK, LocalsEmpty, StillComing, [Next]_vars
             PROVE  StillComing'
  OBVIOUS
<1> USE DEF kernel, shared, watchVars, callVars
<1>0. /\ batch \in Seq(Events) /\ _callback_information \in Seq(Events)
      /\ parsed \in Seq(Events) /\ queue \in Seq(Events)
  BY DEF TypeOK
<1>u. ASSUME UNCHANGED <<unseen, batch, _callback_information, parsed, queue>>
      PROVE  StillComing'
  BY <1>u DEF StillComing
<1>1. CASE Environment
  <2>1. ASSUME NEW e \in Events, Change(e) PROVE StillComing'
    <3>1. queue' # << >>
      <4>1. CASE Len(queue) >= MaxQueued /\ UNCHANGED queue
        BY <1>0, <4>1, FileWatchAssumption
      <4>2. CASE queue # << >> /\ UNCHANGED queue
        BY <4>2
      <4>3. CASE queue' = Append(queue, e)
        BY <1>0, <4>3
      <4> QED
        BY <2>1, <4>1, <4>2, <4>3 DEF Change, Record
    <3> QED
      BY <3>1 DEF StillComing
  <2>2. CASE Move \/ DirectoryDeleted
    BY <2>2, <1>u DEF Move, DirectoryDeleted
  <2> QED
    BY <1>1, <2>1, <2>2 DEF Environment
<1>2. CASE OwnerStep
  BY <1>2, <1>u DEF OwnerStep, Constructed, SetDestroy, RemoveWatch,
     NotifyDestroy, JoinWatch, JoinCallback
<1>3. CASE WatchStep
  <2>1. CASE WatchRead
    <3>1. PICK n \in 0..Len(queue) :
            /\ parsed' = SubSeq(queue, 1, n)
            /\ queue' = SubSeq(queue, n + 1, Len(queue))
      BY <2>1 DEF WatchRead
    <3>2. parsed = << >> /\ UNCHANGED <<unseen, batch, _callback_information>>
      BY <2>1 DEF WatchRead, LocalsEmpty
    <3>3. parsed' \o queue' = queue
      BY <1>0, <3>1, SplitSeq
    <3>4. << >> \o << >> = << >>
      <4>1. << >> \in Seq(Events)
        OBVIOUS
      <4> QED
        BY <4>1, ConcatEmptySeq
    <3> QED
      BY <3>2, <3>3, <3>4 DEF StillComing
  <2>2. CASE WatchInsert
    <3>1. /\ _callback_information' = _callback_information \o parsed
          /\ UNCHANGED <<unseen, batch, queue>>
      BY <2>2 DEF WatchInsert
    <3>2. _callback_information # << >> \/ parsed # << >>
            => _callback_information' # << >>
      <4>1. Len(_callback_information')
              = Len(_callback_information) + Len(parsed)
        BY <1>0, <3>1
      <4> QED
        BY <1>0, <4>1
    <3> QED
      BY <3>1, <3>2 DEF StillComing
  <2>3. CASE WatchStart \/ WatchCheck \/ WatchNotify
    BY <2>3, <1>u DEF WatchStart, WatchCheck, WatchNotify
  <2> QED
    BY <1>3, <2>1, <2>2, <2>3 DEF WatchStep
<1>4. CASE CallStep
  <2>1. CASE CallSwap
    BY <2>1 DEF CallSwap, LocalsEmpty, StillComing
  <2>2. CASE CallCallback
    BY <2>2 DEF CallCallback, StillComing
  <2>3. CASE \/ CallCheck \/ CallLock \/ CallPredicate \/ CallBlock
             \/ CallRelock \/ CallEndBatch
    BY <2>3, <1>u DEF CallCheck, CallLock, CallPredicate, CallBlock,
       CallRelock, CallEndBatch
  <2> QED
    BY <1>4, <2>1, <2>2, <2>3 DEF CallStep
<1>5. CASE SpuriousWakeup
  BY <1>5, <1>u DEF SpuriousWakeup
<1>6. CASE UNCHANGED vars
  BY <1>6, <1>u DEF vars
<1> QED
  BY <1>1, <1>2, <1>3, <1>4, <1>5, <1>6 DEF Next

LEMMA NextIInv == IInv /\ [Next]_vars => IInv'
<1> QED
  BY TypeStep, ControlStep, WaitStep, ConservedStep, SilentStep DEF IInv

-----------------------------------------------------------------------------
(* The theorems. *)

\* The strengthening of the safety invariants is inductive.
THEOREM Inductive == Spec => []IInv
<1> QED
  BY InitIInv, NextIInv, PTL DEF Spec

\* Every variable of the watcher, its owner and its two threads keeps its type.
THEOREM TypeCorrect == Spec => []TypeOK
<1>1. IInv => TypeOK
  BY DEF IInv
<1> QED
  BY Inductive, <1>1, PTL

\* Whatever the interleaving of kernel, watch thread and callback thread, the
\* recorded changes are the delivered ones followed by those still on the way.
THEOREM NothingLost == Spec => []Conserved
<1>1. IInv => Conserved
  BY DEF IInv
<1> QED
  BY Inductive, <1>1, PTL

\* Merged and dropped changes included, the directory has not changed since the
\* callback was last entered unless a record of a change is still to come.
THEOREM KernelDropsSafely == Spec => []NeverSilent
<1>1. ASSUME NEW s \in Seq(Events), NEW t \in Seq(Events),
             s # << >> \/ t # << >>
      PROVE  s \o t \in Seq(Events) /\ s \o t # << >>
  <2>1. Len(s \o t) = Len(s) + Len(t)
    OBVIOUS
  <2> QED
    BY <1>1, <2>1
<1>2. IInv => NeverSilent
  <2> SUFFICES ASSUME IInv, unseen
               PROVE  batch \o _callback_information \o parsed \o queue # << >>
    BY DEF NeverSilent
  <2> DEFINE bi  == batch \o _callback_information
             bip == bi \o parsed
  <2>1. /\ batch \in Seq(Events) /\ _callback_information \in Seq(Events)
        /\ parsed \in Seq(Events) /\ queue \in Seq(Events)
    BY DEF IInv, TypeOK
  <2>2. /\ bi \in Seq(Events)
        /\ batch # << >> \/ _callback_information # << >> => bi # << >>
    BY <2>1, <1>1
  <2>3. bip \in Seq(Events) /\ (bi # << >> \/ parsed # << >> => bip # << >>)
    BY <2>1, <2>2, <1>1
  <2>4. bip # << >> \/ queue # << >>
    BY <2>2, <2>3 DEF IInv, StillComing
  <2> QED
    BY <2>1, <2>3, <2>4, <1>1
<1> QED
  BY Inductive, <1>2, PTL

\* A thread leaves its loop only because destroy() asked for it.
THEOREM ThreadsStay == Spec => []StopsOnlyOnDestroy
<1>1. IInv => StopsOnlyOnDestroy
  BY DEF IInv
<1> QED
  BY Inductive, <1>1, PTL

\* A callback thread that sleeps on a non-empty vector is about to be notified.
THEOREM NoLostWakeup == Spec => []NoLostChange
<1>1. IInv => NoLostChange
  BY DEF IInv
<1> QED
  BY Inductive, <1>1, PTL

\* The mutex is held exactly in the two critical sections of the callback
\* thread, never around a callback.
THEOREM MutexCorrect == Spec => []MutexHeld
<1>1. IInv => MutexHeld
  BY DEF IInv
<1> QED
  BY Inductive, <1>1, PTL

\* When the destructor has returned, both threads have.
THEOREM ThreadsJoined == Spec => []Joined
<1>1. IInv => Joined
  BY DEF IInv, OwnerJoins, Joined
<1> QED
  BY Inductive, <1>1, PTL

-----------------------------------------------------------------------------
(* How the destructor may block. *)

\* Where each thread stands at a step it can take by itself.
MayWatch ==
  \/ wpc \in {"start", "check", "notify"}
  \/ wpc = "read" /\ (queue # << >> \/ nameless)
  \/ wpc = "insert" /\ mutex = "free"

MayCall ==
  \/ cpc \in {"check", "pred", "gap", "swap", "call"}
  \/ cpc \in {"lock", "woken"} /\ mutex = "free"

MayDestroy ==
  \/ owner \in {"flagged", "removed"}
  \/ owner = "joinWatch" /\ wpc = "done"
  \/ owner = "joinCallback" /\ cpc = "done"

\* destroy() has begun and not ended, and nothing moves it on.
Stuck ==
  _destory /\ owner # "destroyed" /\ ~(MayDestroy \/ MayWatch \/ MayCall)

\* The watch thread sits in read(), and no record is left or to come.
NothingToRead ==
  owner = "joinWatch" /\ wpc = "read" /\ queue = << >> /\ ~nameless /\ ~watched

\* The callback thread sleeps with nothing handed over to it.
NotWoken ==
  owner = "joinCallback" /\ cpc = "blocked" /\ _callback_information = << >>

\* After inotify_rm_watch there is no watch.
Unwatched ==
  owner \in {"removed", "joinWatch", "joinCallback", "destroyed"} => ~watched

LEMMA UnwatchedStep == Unwatched /\ [Next]_vars => Unwatched'
<1> SUFFICES ASSUME Unwatched, [Next]_vars PROVE Unwatched'
  OBVIOUS
<1> USE DEF Unwatched, kernel, shared, watchVars, callVars
<1>1. CASE Environment
  BY <1>1 DEF Environment, Change, Move, DirectoryDeleted
<1>2. CASE OwnerStep
  BY <1>2 DEF OwnerStep, Constructed, SetDestroy, RemoveWatch, NotifyDestroy,
     JoinWatch, JoinCallback
<1>3. CASE WatchStep
  BY <1>3 DEF WatchStep, WatchStart, WatchCheck, WatchRead, WatchInsert,
     WatchNotify
<1>4. CASE CallStep \/ SpuriousWakeup
  BY <1>4 DEF CallStep, CallCheck, CallLock, CallPredicate, CallBlock,
     CallRelock, CallSwap, CallCallback, CallEndBatch, SpuriousWakeup
<1>5. CASE UNCHANGED vars
  BY <1>5 DEF vars
<1> QED
  BY <1>1, <1>2, <1>3, <1>4, <1>5 DEF Next

\* Before it is removed the kernel has the watch.
LEMMA UnwatchedInit == Init => Unwatched
  BY DEF Init, Unwatched

\* Where neither thread nor destroy() can do anything, it is for one of the two
\* reasons: the mutex is never what a thread waits for in vain.
LEMMA StuckInTwoWays ==
  IInv /\ Unwatched => (Stuck => NothingToRead \/ NotWoken)
<1> SUFFICES ASSUME IInv, Unwatched, Stuck
             PROVE  NothingToRead \/ NotWoken
  OBVIOUS
<1>1. owner \in {"joinWatch", "joinCallback"} /\ ~watched
  BY DEF Stuck, MayDestroy, IInv, StopsOnlyOnDestroy, TypeOK, Owner, Unwatched
<1>2. mutex = "free"
  BY DEF Stuck, MayCall, IInv, TypeOK, MutexHeld
<1>3. wpc = "done" \/ (wpc = "read" /\ queue = << >> /\ ~nameless)
  BY <1>2 DEF Stuck, MayWatch, IInv, TypeOK, WatchPc
<1>4. cpc \in {"done", "blocked"}
  BY <1>2 DEF Stuck, MayCall, IInv, TypeOK, CallPc
<1>5. CASE owner = "joinWatch"
  BY <1>1, <1>3, <1>5 DEF Stuck, MayDestroy, NothingToRead
<1>6. CASE owner = "joinCallback"
  <2>1. wpc = "done" /\ cpc = "blocked"
    BY <1>4, <1>6 DEF Stuck, MayDestroy, IInv, OwnerJoins
  <2> QED
    BY <1>6, <2>1 DEF IInv, NoLostChange, NotWoken
<1> QED
  BY <1>1, <1>5, <1>6

\* The destructor blocks for ever in two ways and no third: on the watch
\* thread, when IN_IGNORED has been read before, and on a callback thread that
\* its own notification has missed. It is never the watch thread's that is
\* missed, and the mutex is never what a thread waits for in vain.
THEOREM BlocksInTwoWays == Spec => [](Stuck => NothingToRead \/ NotWoken)
<1> QED
  BY UnwatchedInit, UnwatchedStep, Inductive, StuckInTwoWays, PTL DEF Spec

\* While the directory is there the kernel has the watch until it is removed,
\* and the record of its removal is there for a thread that reads.
RecordComes ==
  /\ owner \in {"construct", "live", "flagged"} => watched
  /\ owner \in {"removed", "joinWatch"} /\ wpc = "read" => nameless

LEMMA RecordStep ==
  IInv /\ RecordComes /\ [Next]_vars /\ ~DirectoryDeleted => RecordComes'
<1> SUFFICES ASSUME IInv, RecordComes, [Next]_vars, ~DirectoryDeleted
             PROVE  RecordComes'
  OBVIOUS
<1> USE DEF RecordComes, kernel, shared, watchVars, callVars
<1>1. CASE Environment
  <2>1. ASSUME NEW e \in Events, Change(e) PROVE RecordComes'
    <3>1. watched' = watched /\ owner' = owner /\ wpc' = wpc
          /\ (nameless => nameless')
      BY <2>1 DEF Change, Record
    <3> QED
      BY <3>1
  <2>2. CASE Move
    BY <2>2 DEF Move
  <2> QED
    BY <1>1, <2>1, <2>2 DEF Environment
<1>2. CASE OwnerStep
  <2>1. CASE RemoveWatch
    <3>1. /\ owner = "flagged" /\ owner' = "removed" /\ watched
          /\ nameless' = (nameless \/ watched)
      BY <2>1 DEF RemoveWatch
    <3> QED
      BY <3>1
  <2>2. CASE ~RemoveWatch
    BY <1>2, <2>2 DEF OwnerStep, Constructed, SetDestroy, NotifyDestroy,
       JoinWatch, JoinCallback
  <2> QED
    BY <2>1, <2>2
<1>3. CASE WatchStep
  <2>1. CASE WatchCheck
    <3>1. /\ wpc' = (IF _destory THEN "done" ELSE "read")
          /\ UNCHANGED <<watched, nameless, owner>>
      BY <2>1 DEF WatchCheck
    <3>2. owner \in {"removed", "joinWatch"} => _destory
      BY DEF IInv, StopsOnlyOnDestroy
    <3> QED
      BY <3>1, <3>2
  <2>2. CASE ~WatchCheck
    <3>1. wpc' # "read" /\ UNCHANGED <<watched, owner>>
      BY <1>3, <2>2 DEF WatchStep, WatchStart, WatchRead, WatchInsert, WatchNotify
    <3> QED
      BY <3>1
  <2> QED
    BY <2>1, <2>2
<1>4. CASE CallStep \/ SpuriousWakeup
  <2>1. UNCHANGED <<watched, nameless, owner, wpc>>
    BY <1>4 DEF CallStep, CallCheck, CallLock, CallPredicate, CallBlock,
       CallRelock, CallSwap, CallCallback, CallEndBatch, SpuriousWakeup
  <2> QED
    BY <2>1
<1>5. CASE UNCHANGED vars
  BY <1>5 DEF vars
<1> QED
  BY <1>1, <1>2, <1>3, <1>4, <1>5 DEF Next

\* The first way takes a directory that is removed while it is watched: without
\* that the destructor blocks for ever only on the callback thread.
THEOREM BlocksAfterRemoval ==
  Spec /\ [][~DirectoryDeleted]_vars => [](Stuck => NotWoken)
<1>1. Init => RecordComes
  BY DEF Init, RecordComes
<1>2. RecordComes => ~NothingToRead
  BY DEF RecordComes, NothingToRead
<1>3. IInv /\ RecordComes /\ [Next]_vars /\ [~DirectoryDeleted]_vars
        => RecordComes'
  <2>1. CASE UNCHANGED vars
    BY <2>1 DEF RecordComes, vars, kernel, shared, watchVars, callVars
  <2> QED
    BY <2>1, RecordStep
<1> QED
  BY <1>1, <1>2, <1>3, UnwatchedInit, UnwatchedStep, Inductive, StuckInTwoWays,
     PTL DEF Spec

\* Once destroy() has notified, the callback thread is neither asleep nor about
\* to be.
Heard ==
  owner \in {"joinWatch", "joinCallback"} => cpc \notin {"gap", "blocked"}

LEMMA HeardStep ==
  IInv /\ Heard /\ [Next]_vars /\ (NotifyDestroy => cpc # "gap") => Heard'
<1> SUFFICES ASSUME IInv, Heard, [Next]_vars, NotifyDestroy => cpc # "gap"
             PROVE  Heard'
  OBVIOUS
<1> USE DEF Heard, kernel, shared, watchVars, callVars
<1>1. CASE Environment
  BY <1>1 DEF Environment, Change, Move, DirectoryDeleted
<1>2. CASE OwnerStep
  <2>1. CASE NotifyDestroy
    BY <2>1 DEF NotifyDestroy, NotifyAll
  <2>2. CASE ~NotifyDestroy
    BY <1>2, <2>2 DEF OwnerStep, Constructed, SetDestroy, RemoveWatch,
       JoinWatch, JoinCallback
  <2> QED
    BY <2>1, <2>2
<1>3. CASE WatchStep
  BY <1>3 DEF WatchStep, WatchStart, WatchCheck, WatchRead, WatchInsert,
     WatchNotify, NotifyAll
<1>4. CASE CallStep \/ SpuriousWakeup
  <2>1. owner \in {"joinWatch", "joinCallback"} => _destory
    BY DEF IInv, StopsOnlyOnDestroy
  <2> QED
    BY <1>4, <2>1 DEF CallStep, CallCheck, CallLock, CallPredicate, CallBlock,
       CallRelock, CallSwap, CallCallback, CallEndBatch, SpuriousWakeup
<1>5. CASE UNCHANGED vars
  BY <1>5 DEF vars
<1> QED
  BY <1>1, <1>2, <1>3, <1>4, <1>5 DEF Next

\* The second way takes a notification that falls between the callback thread's
\* test of the predicate and its sleep, which the mutex would rule out if
\* destroy() took it: without that the destructor blocks for ever only on a
\* read().
THEOREM BlocksAfterGap ==
  Spec /\ [][NotifyDestroy => cpc # "gap"]_vars => [](Stuck => NothingToRead)
<1>1. Init => Heard
  BY DEF Init, Heard
<1>2. Heard => ~NotWoken
  BY DEF Heard, NotWoken
<1>3. IInv /\ Heard /\ [Next]_vars /\ [NotifyDestroy => cpc # "gap"]_vars
        => Heard'
  <2>1. CASE UNCHANGED vars
    BY <2>1 DEF Heard, vars, callVars
  <2> QED
    BY <2>1, HeardStep
<1> QED
  BY <1>1, <1>2, <1>3, UnwatchedInit, UnwatchedStep, Inductive, StuckInTwoWays,
     PTL DEF Spec

\* A destructor that waits for such a read() waits for ever; one that waits for
\* the callback thread waits until that wakes up by itself.
LEMMA StaysStuck ==
  IInv /\ [Next]_vars
    => /\ NothingToRead => NothingToRead'
       /\ NotWoken => NotWoken' \/ SpuriousWakeup
<1> SUFFICES ASSUME IInv, Next
             PROVE  /\ NothingToRead => NothingToRead'
                    /\ NotWoken => NotWoken' \/ SpuriousWakeup
  BY DEF NothingToRead, NotWoken, vars, kernel, shared, watchVars, callVars
<1> USE DEF NothingToRead, NotWoken, kernel, shared, watchVars, callVars
<1>1. NotWoken => wpc = "done"
  BY DEF IInv, OwnerJoins
<1>2. CASE Environment
  BY <1>1, <1>2 DEF Environment, Change, Move, DirectoryDeleted
<1>3. CASE OwnerStep
  BY <1>3 DEF OwnerStep, Constructed, SetDestroy, RemoveWatch, NotifyDestroy,
     JoinWatch, JoinCallback
<1>4. CASE WatchStep
  <2>1. NothingToRead => ~WatchRead
    <3> SUFFICES ASSUME queue = << >>, ~nameless, WatchRead PROVE FALSE
      OBVIOUS
    <3>1. PICK n \in 0..Len(queue), last \in BOOLEAN :
            (last => nameless) /\ (n > 0 \/ last)
      BY DEF WatchRead
    <3>2. Len(queue) = 0
      BY EmptySeq
    <3> QED
      BY <3>1, <3>2
  <2> QED
    BY <1>1, <1>4, <2>1 DEF WatchStep, WatchStart, WatchCheck, WatchInsert,
       WatchNotify, WatchRead
<1>5. CASE CallStep
  BY <1>5 DEF CallStep, CallCheck, CallLock, CallPredicate, CallBlock,
     CallRelock, CallSwap, CallCallback, CallEndBatch
<1>6. CASE SpuriousWakeup
  BY <1>6 DEF SpuriousWakeup
<1> QED
  BY <1>2, <1>3, <1>4, <1>5, <1>6 DEF Next

\* A read() after IN_IGNORED is never returned from, whatever happens to the
\* directory: the destructor that joins its thread does not end.
THEOREM ReadNeverReturns == Spec => [](NothingToRead => []NothingToRead)
<1> QED
  BY StaysStuck, Inductive, PTL DEF Spec

\* The destructor that has missed the callback thread is let go by nothing but
\* a spurious wake-up.
THEOREM OnlySpuriousWakes ==
  Spec => [][NotWoken => NotWoken' \/ SpuriousWakeup]_vars
<1> QED
  BY StaysStuck, Inductive, PTL DEF Spec

-----------------------------------------------------------------------------
(* The watcher implements DirectoryWatch.                                  *)

\* The changes recorded and not delivered are counted by the stages.
LEMMA PipelineLength ==
  TypeOK /\ Conserved
    => /\ Len(posted) \in Nat /\ Len(delivered) \in Nat
       /\ Len(posted) - Len(delivered)
            = Len(batch) + Len(_callback_information) + Len(parsed) + Len(queue)
<1> SUFFICES ASSUME TypeOK, Conserved
             PROVE  /\ Len(posted) \in Nat /\ Len(delivered) \in Nat
                    /\ Len(posted) - Len(delivered)
                         = Len(batch) + Len(_callback_information)
                             + Len(parsed) + Len(queue)
  OBVIOUS
<1> DEFINE db   == delivered \o batch
           dbi  == db \o _callback_information
           dbip == dbi \o parsed
<1>1. /\ delivered \in Seq(Events) /\ batch \in Seq(Events)
      /\ _callback_information \in Seq(Events) /\ parsed \in Seq(Events)
      /\ queue \in Seq(Events)
  BY DEF TypeOK
<1>2. db \in Seq(Events) /\ Len(db) = Len(delivered) + Len(batch)
  BY <1>1, ConcatProperties
<1>3. /\ dbi \in Seq(Events)
      /\ Len(dbi) = Len(db) + Len(_callback_information)
  BY <1>1, <1>2, ConcatProperties
<1>4. dbip \in Seq(Events) /\ Len(dbip) = Len(dbi) + Len(parsed)
  BY <1>1, <1>3, ConcatProperties
<1>5. Len(posted) = Len(dbip) + Len(queue)
  BY <1>1, <1>4, ConcatProperties DEF Conserved
<1>6. /\ Len(delivered) \in Nat /\ Len(batch) \in Nat
      /\ Len(_callback_information) \in Nat /\ Len(parsed) \in Nat
      /\ Len(queue) \in Nat
  BY <1>1
<1> QED
  BY <1>2, <1>3, <1>4, <1>5, <1>6

\* The change the next callback is entered with is the first one recorded
\* after those delivered.
LEMMA PipelineHead ==
  TypeOK /\ Conserved /\ batch # << >>
    => Len(delivered) < Len(posted) /\ posted[Len(delivered) + 1] = Head(batch)
<1> SUFFICES ASSUME TypeOK, Conserved, batch # << >>
             PROVE  /\ Len(delivered) < Len(posted)
                    /\ posted[Len(delivered) + 1] = Head(batch)
  OBVIOUS
<1> DEFINE db   == delivered \o batch
           dbi  == db \o _callback_information
           dbip == dbi \o parsed
<1>0. /\ delivered \in Seq(Events) /\ batch \in Seq(Events)
      /\ _callback_information \in Seq(Events) /\ parsed \in Seq(Events)
      /\ queue \in Seq(Events)
  BY DEF TypeOK
<1>1. /\ Len(batch) > 0 /\ Head(batch) = batch[1]
      /\ Len(delivered) \in Nat /\ Len(batch) \in Nat
      /\ Len(_callback_information) \in Nat
      /\ Len(parsed) \in Nat /\ Len(queue) \in Nat
  BY <1>0
<1>2. /\ db \in Seq(Events) /\ Len(db) = Len(delivered) + Len(batch)
      /\ db[Len(delivered) + 1] = batch[1]
  BY <1>0, <1>1, ConcatProperties
<1>3. /\ dbi \in Seq(Events) /\ Len(dbi) = Len(db) + Len(_callback_information)
      /\ dbi[Len(delivered) + 1] = db[Len(delivered) + 1]
  BY <1>0, <1>1, <1>2, ConcatProperties
<1>4. /\ dbip \in Seq(Events) /\ Len(dbip) = Len(dbi) + Len(parsed)
      /\ dbip[Len(delivered) + 1] = dbi[Len(delivered) + 1]
  BY <1>0, <1>1, <1>2, <1>3, ConcatProperties
<1>5. /\ Len(dbip \o queue) = Len(dbip) + Len(queue)
      /\ (dbip \o queue)[Len(delivered) + 1] = dbip[Len(delivered) + 1]
  BY <1>0, <1>1, <1>2, <1>3, <1>4, ConcatProperties
<1>6. posted = dbip \o queue
  BY DEF Conserved
<1> QED
  BY <1>1, <1>2, <1>3, <1>4, <1>5, <1>6

\* A callback is entered with the oldest change it has not seen, because the
\* pipeline is a suffix of what was recorded; a change is recorded by one step
\* of the kernel; joining the callback thread ends the watcher; every other
\* step is invisible.
LEMMA StepSimulation ==
  IInv /\ [Next]_vars => [Watch!Next]_(Watch!vars)
<1> SUFFICES ASSUME IInv, [Next]_vars
             PROVE  Watch!Next \/ UNCHANGED Watch!vars
  OBVIOUS
<1> USE DEF kernel, shared, watchVars, callVars
<1>u. ASSUME UNCHANGED <<posted, delivered, owner>>
      PROVE  UNCHANGED Watch!vars
  BY <1>u DEF Watch!vars
<1>1. CASE Environment
  <2>1. ASSUME NEW e \in Events, Change(e)
        PROVE  Watch!Record(e) \/ UNCHANGED Watch!vars
    BY <2>1 DEF Change, Record, Watch!Record, Watch!vars
  <2>2. CASE Move \/ DirectoryDeleted
    BY <2>2, <1>u DEF Move, DirectoryDeleted
  <2> QED
    BY <1>1, <2>1, <2>2 DEF Environment, Watch!Next
<1>2. CASE OwnerStep
  <2>1. CASE JoinCallback
    BY <2>1 DEF JoinCallback, Watch!Destroy, Watch!Next
  <2>2. CASE \/ Constructed \/ SetDestroy \/ RemoveWatch \/ NotifyDestroy
             \/ JoinWatch
    <3>1. UNCHANGED <<posted, delivered>>
      BY <2>2 DEF Constructed, SetDestroy, RemoveWatch, NotifyDestroy,
         JoinWatch
    <3>2. owner # "destroyed" /\ owner' # "destroyed"
      BY <2>2 DEF Constructed, SetDestroy, RemoveWatch, NotifyDestroy,
         JoinWatch
    <3> QED
      BY <3>1, <3>2 DEF Watch!vars
  <2> QED
    BY <1>2, <2>1, <2>2 DEF OwnerStep
<1>3. CASE WatchStep
  BY <1>3, <1>u DEF WatchStep, WatchStart, WatchCheck, WatchRead, WatchInsert,
     WatchNotify
<1>4. CASE CallStep
  <2>1. CASE CallCallback
    <3>1. /\ cpc = "call" /\ batch # << >>
          /\ delivered' = Append(delivered, Head(batch))
          /\ UNCHANGED <<posted, owner>>
      BY <2>1 DEF CallCallback
    <3>2. owner # "destroyed"
      BY <3>1 DEF IInv, OwnerJoins
    <3>3. /\ Len(delivered) < Len(posted)
          /\ posted[Len(delivered) + 1] = Head(batch)
      BY <3>1, PipelineHead DEF IInv
    <3> QED
      BY <3>1, <3>2, <3>3 DEF Watch!Deliver, Watch!Next
  <2>2. CASE \/ CallCheck \/ CallLock \/ CallPredicate \/ CallBlock
             \/ CallRelock \/ CallSwap \/ CallEndBatch
    BY <2>2, <1>u DEF CallCheck, CallLock, CallPredicate, CallBlock,
       CallRelock, CallSwap, CallEndBatch
  <2> QED
    BY <1>4, <2>1, <2>2 DEF CallStep
<1>5. CASE SpuriousWakeup
  BY <1>5, <1>u DEF SpuriousWakeup
<1>6. CASE UNCHANGED vars
  BY <1>6, <1>u DEF vars
<1> QED
  BY <1>1, <1>2, <1>3, <1>4, <1>5, <1>6 DEF Next

\* The detailed watcher, with its threads, queue, mutex and vector, implements
\* the ordered, destroy-safe delivery DirectoryWatch promises.
THEOREM Refinement == Spec => ImplementsDirectoryWatch
<1>1. Init => Watch!Init
  BY DEF Init, Watch!Init
<1> QED
  BY <1>1, Inductive, StepSimulation, PTL
     DEF Spec, ImplementsDirectoryWatch, Watch!Spec
-----------------------------------------------------------------------------
(* The destructor ends otherwise.                                          *)

\* How far each of the three has to go at most, once _destory is set, and the
\* changes the callback has yet to be entered with.
OwnerLeft ==
  CASE owner = "flagged"      -> 4
    [] owner = "removed"      -> 3
    [] owner = "joinWatch"    -> 2
    [] owner = "joinCallback" -> 1
    [] OTHER                  -> 0

WatchLeft ==
  CASE wpc = "read"               -> 4
    [] wpc = "insert"             -> 3
    [] wpc \in {"notify", "start"} -> 2
    [] wpc = "check"              -> 1
    [] OTHER                      -> 0

CallLeft ==
  CASE cpc = "gap"             -> 7
    [] cpc = "blocked"         -> 6
    [] cpc = "woken"           -> 5
    [] cpc \in {"pred", "lock"} -> 4
    [] cpc = "swap"            -> 3
    [] cpc = "call"            -> 2
    [] cpc = "check"           -> 1
    [] OTHER                   -> 0

Undelivered == Len(posted) - Len(delivered)

StepsLeft == OwnerLeft + WatchLeft + CallLeft + Undelivered

CountsOK == OwnerLeft \in 0..4 /\ WatchLeft \in 0..4 /\ CallLeft \in 0..7

\* The counts are numbers, before a step and after it.
LEMMA CountsTyped == (TypeOK => CountsOK) /\ (TypeOK' => CountsOK')
<1>1. TypeOK => CountsOK
  <2> SUFFICES ASSUME TypeOK PROVE CountsOK
    OBVIOUS
  <2>1. OwnerLeft \in 0..4
    BY DEF TypeOK, Owner, OwnerLeft
  <2>2. WatchLeft \in 0..4
    BY DEF TypeOK, WatchPc, WatchLeft
  <2>3. CallLeft \in 0..7
    BY DEF TypeOK, CallPc, CallLeft
  <2> QED
    BY <2>1, <2>2, <2>3 DEF CountsOK
<1> QED
  BY <1>1, PTL

\* If one of the counts goes down and none up, so does their sum.
LEMMA SumDown ==
  ASSUME NEW o \in 0..4, NEW w \in 0..4, NEW c \in 0..7, NEW u \in Nat,
         NEW o2 \in 0..4, NEW w2 \in 0..4, NEW c2 \in 0..7, NEW u2 \in Int,
         o2 <= o, w2 <= w, c2 <= c, u2 <= u,
         o2 < o \/ w2 < w \/ c2 < c \/ u2 < u
  PROVE  o2 + w2 + c2 + u2 < o + w + c + u
  OBVIOUS

LEMMA SumBound ==
  ASSUME NEW o \in 0..4, NEW w \in 0..4, NEW c \in 0..7, NEW u \in Nat
  PROVE  o + w + c + u \in 0..15 + u
  OBVIOUS

\* What the watch thread does brings it nearer to its end, and never the
\* callback thread further from its own.
LEMMA WatchCounts ==
  ASSUME TypeOK, _destory, WatchStep
  PROVE  /\ WatchLeft' < WatchLeft /\ CallLeft' <= CallLeft
         /\ UNCHANGED <<owner, posted, delivered>>
<1> USE DEF kernel, shared, watchVars, callVars, WatchLeft
<1>1. UNCHANGED <<owner, posted, delivered>>
  BY DEF WatchStep, WatchStart, WatchCheck, WatchRead, WatchInsert, WatchNotify
<1>2. CASE WatchNotify
  <2>1. /\ wpc = "notify" /\ wpc' = "check"
        /\ cpc' = IF cpc = "blocked" THEN "woken" ELSE cpc
    BY <1>2 DEF WatchNotify, NotifyAll
  <2>2. CallLeft' <= CallLeft
    <3>1. CallLeft \in 0..7
      BY CountsTyped DEF CountsOK
    <3>2. CASE cpc = "blocked"
      BY <2>1, <3>2 DEF CallLeft
    <3>3. CASE cpc # "blocked"
      <4>1. CallLeft' = CallLeft
        BY <2>1, <3>3 DEF CallLeft
      <4> QED
        BY <3>1, <4>1
    <3> QED
      BY <3>2, <3>3
  <2> QED
    BY <1>1, <2>1, <2>2
<1>3. CASE ~WatchNotify
  <2>1. WatchLeft' < WatchLeft
    <3>1. CASE WatchStart
      BY <3>1 DEF WatchStart
    <3>2. CASE WatchCheck
      BY <3>2 DEF WatchCheck
    <3>3. CASE WatchRead
      <4>1. wpc = "read" /\ wpc' = "insert"
        BY <3>3 DEF WatchRead
      <4> QED
        BY <4>1
    <3>4. CASE WatchInsert
      BY <3>4 DEF WatchInsert
    <3> QED
      BY <1>3, <3>1, <3>2, <3>3, <3>4 DEF WatchStep
  <2>2. cpc' = cpc
    BY <1>3 DEF WatchStep, WatchStart, WatchCheck, WatchRead, WatchInsert
  <2>3. CallLeft' = CallLeft /\ CallLeft \in 0..7
    BY <2>2, CountsTyped DEF CountsOK, CallLeft
  <2> QED
    BY <1>1, <2>1, <2>3
<1> QED
  BY <1>2, <1>3

\* What the callback thread does brings it nearer to its end, or is a callback.
LEMMA CallCounts ==
  ASSUME TypeOK, _destory, CallStep \/ SpuriousWakeup
  PROVE  /\ UNCHANGED <<owner, wpc, posted>>
         /\ \/ CallLeft' < CallLeft /\ delivered' = delivered
            \/ CallLeft' = CallLeft /\ Len(delivered') = Len(delivered) + 1
<1> USE DEF kernel, shared, watchVars, callVars, CallLeft
<1>1. UNCHANGED <<owner, wpc, posted>>
  BY DEF CallStep, CallCheck, CallLock, CallPredicate, CallBlock, CallRelock,
     CallSwap, CallCallback, CallEndBatch, SpuriousWakeup
<1>2. CASE CallCallback
  <2>1. /\ cpc' = cpc /\ batch # << >>
        /\ delivered' = Append(delivered, Head(batch))
    BY <1>2 DEF CallCallback
  <2>2. delivered \in Seq(Events) /\ Head(batch) \in Events
    BY <2>1, HeadTailProperties DEF TypeOK
  <2>3. Len(delivered') = Len(delivered) + 1
    BY <2>1, <2>2, AppendProperties
  <2> QED
    BY <1>1, <2>1, <2>3
<1>3. CASE ~CallCallback
  <2>1. delivered' = delivered
    BY <1>3 DEF CallStep, CallCheck, CallLock, CallPredicate, CallBlock,
       CallRelock, CallSwap, CallEndBatch, SpuriousWakeup
  <2>2. CallLeft' < CallLeft
    <3>1. CASE CallCheck \/ CallLock \/ CallPredicate
      <4>1. \/ cpc = "check" /\ cpc' = "done"
            \/ cpc = "lock" /\ cpc' = "swap"
            \/ cpc = "pred" /\ cpc' = "swap"
        BY <3>1 DEF CallCheck, CallLock, CallPredicate
      <4> QED
        BY <4>1
    <3>2. CASE CallBlock \/ CallRelock \/ SpuriousWakeup
      <4>1. \/ cpc = "gap" /\ cpc' = "blocked"
            \/ cpc = "woken" /\ cpc' = "pred"
            \/ cpc = "blocked" /\ cpc' = "woken"
        BY <3>2 DEF CallBlock, CallRelock, SpuriousWakeup
      <4> QED
        BY <4>1
    <3>3. CASE CallSwap \/ CallEndBatch
      <4>1. \/ cpc = "swap" /\ cpc' = "call"
            \/ cpc = "call" /\ cpc' = "check"
        BY <3>3 DEF CallSwap, CallEndBatch
      <4> QED
        BY <4>1
    <3> QED
      BY <1>3, <3>1, <3>2, <3>3 DEF CallStep
  <2> QED
    BY <1>1, <2>1, <2>2
<1> QED
  BY <1>2, <1>3

\* destroy() itself only goes on, and wakes the callback thread at most.
LEMMA OwnerCounts ==
  ASSUME TypeOK, _destory, StopsOnlyOnDestroy, OwnerStep
  PROVE  /\ OwnerLeft' < OwnerLeft /\ CallLeft' <= CallLeft
         /\ UNCHANGED <<wpc, posted, delivered>>
<1> USE DEF kernel, shared, watchVars, callVars
<1>1. owner \notin {"construct", "live"}
  BY DEF StopsOnlyOnDestroy
<1>2. UNCHANGED <<wpc, posted, delivered>>
  BY DEF OwnerStep, Constructed, SetDestroy, RemoveWatch, NotifyDestroy,
     JoinWatch, JoinCallback
<1>3. OwnerLeft' < OwnerLeft
  <2>1. \/ owner = "flagged" /\ owner' = "removed"
        \/ owner = "removed" /\ owner' = "joinWatch"
        \/ owner = "joinWatch" /\ owner' = "joinCallback"
        \/ owner = "joinCallback" /\ owner' = "destroyed"
    BY <1>1 DEF OwnerStep, Constructed, SetDestroy, RemoveWatch, NotifyDestroy,
       JoinWatch, JoinCallback
  <2> QED
    BY <2>1 DEF OwnerLeft
<1>4. cpc' = cpc \/ (cpc = "blocked" /\ cpc' = "woken")
  BY DEF OwnerStep, Constructed, SetDestroy, RemoveWatch, NotifyDestroy,
     JoinWatch, JoinCallback, NotifyAll
<1>5. CallLeft' <= CallLeft
  <2>1. CASE cpc' = cpc
    BY <2>1, CountsTyped DEF CountsOK, CallLeft
  <2>2. CASE cpc = "blocked" /\ cpc' = "woken"
    BY <2>2 DEF CallLeft
  <2> QED
    BY <1>4, <2>1, <2>2
<1> QED
  BY <1>2, <1>3, <1>5

\* What is left is a number of steps, and whatever the watcher does, a spurious
\* wake-up included, takes one off.
LEMMA StepsTyped ==
  IInv => /\ Len(posted) \in Nat /\ Len(delivered) \in Nat
          /\ Undelivered \in Nat
          /\ StepsLeft \in 0..15 + Undelivered
<1> SUFFICES ASSUME IInv
             PROVE  /\ Len(posted) \in Nat /\ Len(delivered) \in Nat
                    /\ Undelivered \in Nat
                    /\ StepsLeft \in 0..15 + Undelivered
  OBVIOUS
<1>1. /\ Len(posted) \in Nat /\ Len(delivered) \in Nat
      /\ Undelivered
           = Len(batch) + Len(_callback_information) + Len(parsed) + Len(queue)
  BY PipelineLength DEF IInv, Undelivered
<1>2. /\ Len(batch) \in Nat /\ Len(_callback_information) \in Nat
      /\ Len(parsed) \in Nat /\ Len(queue) \in Nat
  BY LenProperties DEF IInv, TypeOK
<1>3. Undelivered \in Nat
  BY <1>1, <1>2
<1>4. OwnerLeft \in 0..4 /\ WatchLeft \in 0..4 /\ CallLeft \in 0..7
  BY CountsTyped DEF IInv, CountsOK
<1> QED
  BY <1>1, <1>3, <1>4, SumBound DEF StepsLeft

LEMMA StepCounts ==
  ASSUME IInv, Next, _destory, ~watched
  PROVE  StepsLeft' < StepsLeft
<1>1. TypeOK /\ TypeOK' /\ StopsOnlyOnDestroy
  BY TypeStep DEF IInv
<1>2. /\ OwnerLeft \in 0..4 /\ WatchLeft \in 0..4 /\ CallLeft \in 0..7
      /\ OwnerLeft' \in 0..4 /\ WatchLeft' \in 0..4 /\ CallLeft' \in 0..7
  BY <1>1, CountsTyped DEF CountsOK
<1>3. Len(posted) \in Nat /\ Len(delivered) \in Nat /\ Undelivered \in Nat
  BY StepsTyped
<1>4. ASSUME OwnerLeft' <= OwnerLeft, WatchLeft' <= WatchLeft,
             CallLeft' <= CallLeft,
             Undelivered' = Undelivered \/ Undelivered' = Undelivered - 1,
             \/ OwnerLeft' < OwnerLeft \/ WatchLeft' < WatchLeft
             \/ CallLeft' < CallLeft \/ Undelivered' = Undelivered - 1
      PROVE  StepsLeft' < StepsLeft
  <2>1. /\ Undelivered' \in Int /\ Undelivered' <= Undelivered
        /\ Undelivered' = Undelivered - 1 => Undelivered' < Undelivered
    BY <1>3, <1>4
  <2> QED
    BY <1>2, <1>3, <1>4, <2>1, SumDown DEF StepsLeft
<1>5. \A n \in Nat : n <= n
  OBVIOUS
<1>6. OwnerLeft \in Nat /\ WatchLeft \in Nat /\ CallLeft \in Nat
  BY <1>2
<1>7. CASE OwnerStep
  <2>1. OwnerLeft' < OwnerLeft /\ CallLeft' <= CallLeft
        /\ UNCHANGED <<wpc, posted, delivered>>
    BY <1>1, <1>7, OwnerCounts
  <2>2. WatchLeft' = WatchLeft /\ Undelivered' = Undelivered
    BY <2>1 DEF WatchLeft, Undelivered
  <2>3. OwnerLeft' <= OwnerLeft
    BY <1>2, <2>1
  <2> QED
    BY <1>4, <1>5, <1>6, <2>1, <2>2, <2>3
<1>8. CASE WatchStep
  <2>1. WatchLeft' < WatchLeft /\ CallLeft' <= CallLeft
        /\ UNCHANGED <<owner, posted, delivered>>
    BY <1>1, <1>8, WatchCounts
  <2>2. OwnerLeft' = OwnerLeft /\ Undelivered' = Undelivered
    BY <2>1 DEF OwnerLeft, Undelivered
  <2>3. WatchLeft' <= WatchLeft
    BY <1>2, <2>1
  <2> QED
    BY <1>4, <1>5, <1>6, <2>1, <2>2, <2>3
<1>9. CASE CallStep \/ SpuriousWakeup
  <2>1. /\ UNCHANGED <<owner, wpc, posted>>
        /\ \/ CallLeft' < CallLeft /\ delivered' = delivered
           \/ CallLeft' = CallLeft /\ Len(delivered') = Len(delivered) + 1
    BY <1>1, <1>9, CallCounts
  <2>2. OwnerLeft' = OwnerLeft /\ WatchLeft' = WatchLeft
    BY <2>1 DEF OwnerLeft, WatchLeft
  <2>3. CASE CallLeft' < CallLeft /\ delivered' = delivered
    <3>1. Undelivered' = Undelivered
      BY <2>1, <2>3 DEF Undelivered
    <3>2. CallLeft' <= CallLeft
      BY <1>2, <2>3
    <3> QED
      BY <1>4, <1>5, <1>6, <2>2, <2>3, <3>1, <3>2
  <2>4. CASE CallLeft' = CallLeft /\ Len(delivered') = Len(delivered) + 1
    <3>1. Undelivered' = Undelivered - 1
      BY <1>3, <2>1, <2>4 DEF Undelivered
    <3> QED
      BY <1>4, <1>5, <1>6, <2>2, <2>4, <3>1
  <2> QED
    BY <2>1, <2>3, <2>4
<1>10. CASE Environment
  BY <1>10 DEF Environment, Change, Move, DirectoryDeleted
<1> QED
  BY <1>7, <1>8, <1>9, <1>10 DEF Next

\* From inotify_rm_watch on only so many steps are left to threads and
\* destructor together, and not one of them is lost in a loop: 15, and a
\* callback for each change on its way. So the destructor ends within them or is stuck,
\* in one of the two ways.
THEOREM DestructorCountsDown ==
  Spec => /\ [](StepsLeft \in 0..15 + Undelivered)
          /\ [][_destory /\ ~watched => StepsLeft' < StepsLeft]_vars
<1>1. IInv => StepsLeft \in 0..15 + Undelivered
  BY StepsTyped
<1>2. IInv /\ [Next]_vars => [_destory /\ ~watched => StepsLeft' < StepsLeft]_vars
  BY StepCounts
<1> QED
  BY <1>1, <1>2, Inductive, PTL DEF Spec
=============================================================================
