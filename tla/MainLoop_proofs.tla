-------------------------- MODULE MainLoop_proofs ---------------------------
(***************************************************************************)
(* Proof that the loops and the GPU never use what main has not made yet   *)
(* or has released, whether the watcher's destructor blocks or not, and    *)
(* that nothing outlives what it was made from.                            *)
(***************************************************************************)
EXTENDS MainLoop, TLAPS

\* JInit acquires a thing after what it needs.
LEMMA AcquiredInOrder ==
  ASSUME NEW i \in 1..Len(JInitOrder)
  PROVE  /\ JInitOrder[i] \in Resources
         /\ Needs(JInitOrder[i]) \subseteq {JInitOrder[j] : j \in 1..i - 1}
<1>1. Len(JInitOrder) = 11
  BY DEF JInitOrder
<1>2. JInitOrder[i] \in Resources
  BY DEF Resources
<1>3. CASE i \in 1..4
  <2>1. JInitOrder[1] = "sdl" /\ JInitOrder[2] = "window"
        /\ JInitOrder[3] = "instance" /\ JInitOrder[4] = "device"
    BY DEF JInitOrder
  <2> QED
    BY <1>2, <1>3, <2>1 DEF Needs
<1>4. CASE i \in 5..7
  <2>1. JInitOrder[2] = "window" /\ JInitOrder[3] = "instance"
        /\ JInitOrder[4] = "device" /\ JInitOrder[5] = "pool"
        /\ JInitOrder[6] = "surface" /\ JInitOrder[7] = "swapchain"
    BY DEF JInitOrder
  <2> QED
    BY <1>2, <1>4, <2>1 DEF Needs
<1>5. CASE i \in 8..11
  <2>1. JInitOrder[2] = "window" /\ JInitOrder[4] = "device"
        /\ JInitOrder[5] = "pool" /\ JInitOrder[8] = "context"
        /\ JInitOrder[9] = "platform" /\ JInitOrder[10] = "renderer"
        /\ JInitOrder[11] = "views"
    BY DEF JInitOrder
  <2> QED
    BY <1>2, <1>5, <2>1 DEF Needs
<1> QED
  BY <1>1, <1>3, <1>4, <1>5

\* What JDeInit releases is needed by nothing that it releases later.
LEMMA ReleasedInOrder ==
  ASSUME NEW i \in 1..Len(JDeInitOrder),
         NEW r \in Resources \ {JDeInitOrder[j] : j \in 1..i}
  PROVE  JDeInitOrder[i] \notin Needs(r)
<1>1. Len(JDeInitOrder) = 10
  BY DEF JDeInitOrder
<1>2. JDeInitOrder[1] = "renderer" /\ JDeInitOrder[2] = "platform"
      /\ JDeInitOrder[3] = "context" /\ JDeInitOrder[4] = "swapchain"
      /\ JDeInitOrder[5] = "surface" /\ JDeInitOrder[6] = "pool"
      /\ JDeInitOrder[7] = "device" /\ JDeInitOrder[8] = "instance"
      /\ JDeInitOrder[9] = "window" /\ JDeInitOrder[10] = "sdl"
  BY DEF JDeInitOrder
<1>3. \A j \in 1..i : r # JDeInitOrder[j]
  OBVIOUS
<1>4. CASE i \in 1..5
  BY <1>2, <1>3, <1>4 DEF Needs
<1>5. CASE i \in 6..10
  <2>1. r \notin {"renderer", "platform", "context", "swapchain", "surface"}
    BY <1>2, <1>3, <1>5
  <2> QED
    BY <1>2, <1>3, <1>5, <2>1 DEF Needs
<1> QED
  BY <1>1, <1>4, <1>5

\* JDeInit and the destructors release all there is.
LEMMA AllReleased ==
  Resources \ {JDeInitOrder[j] : j \in 1..Len(JDeInitOrder)} = {"views"}
<1>1. Resources = {"sdl", "window", "instance", "device", "pool", "surface",
                   "swapchain", "context", "platform", "renderer", "views"}
  <2>1. Len(JInitOrder) = 11
    BY DEF JInitOrder
  <2> QED
    BY <2>1 DEF Resources, JInitOrder
<1>2. {JDeInitOrder[j] : j \in 1..Len(JDeInitOrder)}
        = {"sdl", "window", "instance", "device", "pool", "surface",
           "swapchain", "context", "platform", "renderer"}
  <2>1. Len(JDeInitOrder) = 10
    BY DEF JDeInitOrder
  <2> QED
    BY <2>1 DEF JDeInitOrder
<1> QED
  BY <1>1, <1>2

\* The joins keep main from releasing before the loops have ended, and the
\* spawns keep the loops from starting before JInit has returned.
Ordered ==
  /\ main \in {"init", "spawn_draw"} => draw = "none" /\ ~busy
  /\ main \in {"init", "spawn_draw", "spawn_update"} => update = "none"
  /\ main \in {"join_update", "release", "released", "exiting"}
       => draw = "ended"
  /\ main \in {"release", "released", "exiting"} => update = "ended"
  /\ main \in {"released", "exiting"} => ~busy

\* What exists at each place of main.
Staged ==
  /\ main = "init" => live = {JInitOrder[j] : j \in 1..step - 1}
  /\ main \in {"spawn_draw", "spawn_update", "join_draw", "join_update",
               "release"} => live = Resources
  /\ main = "released"
       => /\ step <= Len(JDeInitOrder) + 1
          /\ live = Resources \ {JDeInitOrder[j] : j \in 1..step - 1}

IInv == TypeOK /\ Ordered /\ Staged /\ LiveOnWhatItNeeds

LEMMA InitIInv == Init => IInv
<1> SUFFICES ASSUME Init PROVE IInv
  OBVIOUS
<1> USE DEF Init
<1>1. Len(JInitOrder) = 11
  BY DEF JInitOrder
<1>2. TypeOK
  <2>1. step \in 1..Len(JInitOrder) + 1 /\ live \subseteq Resources
    BY <1>1
  <2> QED
    BY <2>1 DEF TypeOK
<1>5. Ordered /\ LiveOnWhatItNeeds
  BY DEF Ordered, LiveOnWhatItNeeds
<1>3. 1..step - 1 = {}
  OBVIOUS
<1>4. Staged
  BY <1>3 DEF Staged
<1> QED
  BY <1>2, <1>4, <1>5 DEF IInv

\* A step of main, of a loop or of the callback that acquires and releases
\* nothing.
LEMMA Keeps ==
  LiveOnWhatItNeeds /\ UNCHANGED live => LiveOnWhatItNeeds'
BY DEF LiveOnWhatItNeeds

\* Every step of JInit adds a thing whose needs are met.
LEMMA JInitStep == IInv /\ JInit => IInv'
<1> SUFFICES ASSUME IInv, JInit PROVE IInv'
  OBVIOUS
<1> USE DEF JInit
<1>1. step \in 1..Len(JInitOrder) /\ Len(JInitOrder) = 11
  BY DEF IInv, TypeOK, JInitOrder
<1>2. /\ JInitOrder[step] \in Resources
      /\ Needs(JInitOrder[step]) \subseteq {JInitOrder[j] : j \in 1..step - 1}
  BY <1>1, AcquiredInOrder
<1>3. live = {JInitOrder[j] : j \in 1..step - 1}
  BY DEF IInv, Staged
<1>4. live' = {JInitOrder[j] : j \in 1..step' - 1}
  <2>1. 1..step' - 1 = (1..step - 1) \cup {step}
    BY <1>1
  <2> QED
    BY <1>3, <2>1
<1>5. TypeOK'
  BY <1>1, <1>2 DEF IInv, TypeOK, threads
<1>6. Ordered' /\ Staged'
  BY <1>4 DEF IInv, Ordered, Staged, threads
<1>7. LiveOnWhatItNeeds'
  BY <1>2, <1>3 DEF IInv, LiveOnWhatItNeeds
<1> QED
  BY <1>5, <1>6, <1>7 DEF IInv

\* Every step of JDeInit takes away a thing that nothing left needs.
LEMMA JDeInitStep == IInv /\ JDeInit => IInv'
<1> SUFFICES ASSUME IInv, JDeInit PROVE IInv'
  OBVIOUS
<1> USE DEF JDeInit
<1>1. step \in 1..Len(JDeInitOrder) /\ Len(JDeInitOrder) = 10
      /\ Len(JInitOrder) = 11
  BY DEF IInv, TypeOK, JDeInitOrder, JInitOrder
<1>2. live = Resources \ {JDeInitOrder[j] : j \in 1..step - 1}
  BY DEF IInv, Staged
<1>3. live' = Resources \ {JDeInitOrder[j] : j \in 1..step' - 1}
      /\ live' = Resources \ {JDeInitOrder[j] : j \in 1..step}
  <2>1. 1..step' - 1 = (1..step - 1) \cup {step} /\ step' - 1 = step
    BY <1>1
  <2> QED
    BY <1>2, <2>1
<1>4. TypeOK'
  BY <1>1, <1>3 DEF IInv, TypeOK, threads
<1>5. Ordered' /\ Staged'
  BY <1>1, <1>3 DEF IInv, Ordered, Staged, threads
<1>6. LiveOnWhatItNeeds'
  BY <1>1, <1>3, ReleasedInOrder DEF IInv, LiveOnWhatItNeeds
<1> QED
  BY <1>4, <1>5, <1>6 DEF IInv

LEMMA StepIInv == IInv /\ [Next]_vars => IInv'
<1> SUFFICES ASSUME IInv, [Next]_vars PROVE IInv'
  OBVIOUS
<1> USE Keeps DEF IInv, TypeOK, Ordered, Staged, resources, threads
<1>0. Len(JInitOrder) = 11 /\ Len(JDeInitOrder) = 10
  BY DEF JInitOrder, JDeInitOrder
<1>1. CASE Main
  <2>1. CASE JInit
    BY <2>1, JInitStep
  <2>2. CASE JInitFails
    BY <2>2 DEF JInitFails
  <2>3. CASE JInitDone
    <3>1. step = 12
      BY <1>0, <2>3 DEF JInitDone
    <3>2. live = Resources
      BY <1>0, <2>3, <3>1 DEF JInitDone, Resources
    <3> QED
      BY <2>3, <3>2 DEF JInitDone
  <2>4. CASE SpawnDraw
    BY <2>4 DEF SpawnDraw
  <2>5. CASE SpawnUpdate
    BY <2>5 DEF SpawnUpdate
  <2>6. CASE JoinDraw
    BY <2>6 DEF JoinDraw
  <2>7. CASE JoinUpdate
    BY <2>7 DEF JoinUpdate
  <2>8. CASE WaitIdle
    <3>1. CASE main' = "released"
      <4>1. step' = 1 /\ live' = live /\ live = Resources
        BY <2>8, <3>1 DEF WaitIdle
      <4>2. live' = Resources \ {JDeInitOrder[j] : j \in 1..step' - 1}
        BY <4>1
      <4> QED
        BY <1>0, <2>8, <3>1, <4>1, <4>2 DEF WaitIdle
    <3>2. CASE main' = "terminated"
      BY <2>8, <3>2 DEF WaitIdle
    <3> QED
      BY <2>8, <3>1, <3>2 DEF WaitIdle
  <2>9. CASE JDeInit
    BY <2>9, JDeInitStep
  <2>10. CASE Statics
    <3>1. step = 11
      BY <1>0, <2>10 DEF Statics
    <3>2. live = {"views"}
      BY <1>0, <2>10, <3>1, AllReleased DEF Statics
    <3>3. live' = {}
      BY <2>10, <3>2 DEF Statics
    <3> QED
      BY <2>10, <3>3 DEF Statics, LiveOnWhatItNeeds
  <2>11. CASE Exit
    BY <2>11 DEF Exit
  <2> QED
    BY <1>1, <2>1, <2>2, <2>3, <2>4, <2>5, <2>6, <2>7, <2>8, <2>9, <2>10,
       <2>11 DEF Main
<1>2. CASE DrawLoop
  <2>1. CASE DrawTest
    BY <2>1 DEF DrawTest
  <2>2. CASE DrawEvents
    BY <2>2 DEF DrawEvents
  <2>3. CASE DrawFrame
    BY <2>3 DEF DrawFrame
  <2> QED
    BY <1>2, <2>1, <2>2, <2>3 DEF DrawLoop
<1>3. CASE GpuDone
  <2>1. busy' = FALSE /\ UNCHANGED <<threads, step, live, g_done, callback>>
    BY <1>3 DEF GpuDone
  <2>2. TypeOK'
    BY <2>1
  <2>3. Ordered' /\ Staged'
    BY <2>1
  <2>4. LiveOnWhatItNeeds'
    BY <2>1 DEF LiveOnWhatItNeeds
  <2> QED
    BY <2>2, <2>3, <2>4
<1>4. CASE UpdateLoop
  <2>1. CASE UpdateTest
    BY <2>1 DEF UpdateTest
  <2>2. CASE UpdateTime
    BY <2>2 DEF UpdateTime
  <2>3. CASE UpdateIdle
    BY <2>3 DEF UpdateIdle
  <2>4. CASE DeleteWatcher
    BY <2>4 DEF DeleteWatcher
  <2>5. CASE CreateWatcher
    BY <2>5 DEF CreateWatcher
  <2> QED
    BY <1>4, <2>1, <2>2, <2>3, <2>4, <2>5 DEF UpdateLoop
<1>5. CASE CallbackBegin \/ CallbackEnd
  BY <1>5 DEF CallbackBegin, CallbackEnd
<1>6. CASE UNCHANGED vars
  BY <1>6 DEF vars
<1> QED
  BY <1>1, <1>2, <1>3, <1>4, <1>5, <1>6 DEF Next

\* Every thread is at one of its places: main.cpp, DrawLoop, UpdateLoop.
THEOREM TypeCorrect == Spec => []TypeOK
<1>1. IInv => TypeOK
  BY DEF IInv
<1> QED
  BY <1>1, InitIInv, StepIInv, PTL DEF Spec

\* JMainloop's joins, and the wait for the device, keep JDeInit and the
\* destructors that follow main from taking away what DrawLoop, UpdateLoop and
\* the GPU use.
THEOREM LoopsUseWhatExists == Spec => []NoUseAfterRelease
<1>1. IInv => NoUseAfterRelease
  <2> SUFFICES ASSUME IInv, Running PROVE InUse \subseteq live
    BY DEF NoUseAfterRelease
  <2>1. CASE live = Resources
    BY <2>1, AllReleased DEF InUse, Resources, JInitOrder
  <2>2. CASE live # Resources
    <3>1. main \in {"init", "released", "exiting"}
      BY <2>2 DEF IInv, TypeOK, Staged, Running
    <3>2. draw \in {"none", "ended"} /\ update \in {"none", "ended"} /\ ~busy
      BY <3>1 DEF IInv, Ordered
    <3> QED
      BY <3>2 DEF InUse
  <2> QED
    BY <2>1, <2>2
<1> QED
  BY <1>1, InitIInv, StepIInv, PTL DEF Spec

\* JInit acquires and JDeInit, with what follows main, releases in an order in
\* which nothing ever outlives what it was made from.
THEOREM SoundLifetimes == Spec => []LiveOnWhatItNeeds
<1>1. IInv => LiveOnWhatItNeeds
  BY DEF IInv
<1> QED
  BY <1>1, InitIInv, StepIInv, PTL DEF Spec
-----------------------------------------------------------------------------
(* How the process ends once the window is closed.                         *)

\* The draw thread is there to set g_done, and is past the test when it does.
Closed == g_done => draw \in {"frame", "test", "ended"}

LEMMA ClosedStep == IInv /\ Closed /\ [Next]_vars => Closed'
<1> SUFFICES ASSUME IInv, Closed, [Next]_vars PROVE Closed'
  OBVIOUS
<1> USE DEF Closed, threads, resources
<1>1. CASE Main
  <2>1. CASE SpawnDraw
    BY <2>1 DEF SpawnDraw, IInv, Ordered
  <2>2. CASE ~SpawnDraw
    <3>1. UNCHANGED <<draw, g_done>>
      BY <1>1, <2>2 DEF Main, JInit, JInitFails, JInitDone, SpawnUpdate,
         JoinDraw, JoinUpdate, WaitIdle, JDeInit, Statics, Exit
    <3> QED
      BY <3>1
  <2> QED
    BY <2>1, <2>2
<1>2. CASE DrawLoop
  BY <1>2 DEF DrawLoop, DrawTest, DrawEvents, DrawFrame
<1>3. CASE UpdateLoop \/ GpuDone \/ CallbackBegin \/ CallbackEnd
  <2>1. UNCHANGED <<draw, g_done>>
    BY <1>3 DEF UpdateLoop, UpdateTest, UpdateTime, UpdateIdle,
       DeleteWatcher, CreateWatcher, GpuDone, CallbackBegin, CallbackEnd
  <2> QED
    BY <2>1
<1>4. CASE UNCHANGED vars
  BY <1>4 DEF vars
<1> QED
  BY <1>1, <1>2, <1>3, <1>4 DEF Next

\* The steps that each thread has before it, at most, when g_done is set.
MainLeft ==
  CASE main = "spawn_update" -> 16
    [] main = "join_draw"    -> 15
    [] main = "join_update"  -> 14
    [] main = "release"      -> 13
    [] main = "released"     -> 13 - step
    [] main = "exiting"      -> 1
    [] OTHER                 -> 0

DrawLeft ==
  CASE draw = "frame" -> 2 [] draw = "test" -> 1 [] OTHER -> 0

UpdateLeft ==
  CASE update = "time"  -> 4
    [] update = "views" -> 3
    [] update \in {"watch", "none"} -> 2
    [] update = "test"  -> 1
    [] OTHER            -> 0

StepsLeft == MainLeft + DrawLeft + UpdateLeft

CountsDown ==
  g_done /\ (Main \/ DrawLoop \/ UpdateLoop) => StepsLeft' < StepsLeft

LeftOK == MainLeft \in 0..16 /\ DrawLeft \in 0..2 /\ UpdateLeft \in 0..4

LEMMA LeftTyped == (IInv => LeftOK) /\ (IInv' => LeftOK')
<1>1. IInv => LeftOK
  <2> SUFFICES ASSUME IInv PROVE LeftOK
    OBVIOUS
  <2>1. main = "released" => step \in 1..11
    BY DEF IInv, TypeOK, Staged, JInitOrder, JDeInitOrder
  <2>2. MainLeft \in 0..16
    BY <2>1 DEF MainLeft
  <2>3. DrawLeft \in 0..2 /\ UpdateLeft \in 0..4
    BY DEF DrawLeft, UpdateLeft
  <2> QED
    BY <2>2, <2>3 DEF LeftOK
<1> QED
  BY <1>1, PTL

\* main goes down its list; what it waits for does not change with it, but for
\* the update thread that it makes.
LEMMA MainCounts ==
  IInv /\ Closed /\ g_done /\ Main
    => MainLeft' < MainLeft /\ DrawLeft' = DrawLeft
       /\ UpdateLeft' <= UpdateLeft
<1> SUFFICES ASSUME IInv, Closed, g_done, Main
             PROVE  MainLeft' < MainLeft /\ DrawLeft' = DrawLeft
                    /\ UpdateLeft' <= UpdateLeft
  OBVIOUS
<1>1. main \notin {"init", "spawn_draw"}
  BY DEF Closed, IInv, Ordered
<1>2. UpdateLeft \in 0..4
  BY LeftTyped DEF LeftOK
<1>3. Len(JDeInitOrder) = 10 /\ step \in Nat
      /\ (main = "released" => step \in 1..11)
  BY DEF IInv, TypeOK, Staged, JInitOrder, JDeInitOrder
<1>4. CASE SpawnUpdate
  BY <1>4 DEF SpawnUpdate, MainLeft, DrawLeft, UpdateLeft, IInv, Ordered
<1>5. CASE ~SpawnUpdate
  <2>1. UNCHANGED <<draw, update>>
    BY <1>1, <1>5 DEF Main, JInit, JInitFails, JInitDone, SpawnDraw,
       JoinDraw, JoinUpdate, WaitIdle, JDeInit, Statics, Exit, threads
  <2>2. DrawLeft' = DrawLeft /\ UpdateLeft' = UpdateLeft
    BY <2>1 DEF DrawLeft, UpdateLeft
  <2>3. MainLeft' < MainLeft
    <3>1. CASE JoinDraw \/ JoinUpdate \/ WaitIdle
      <4>1. \/ main = "join_draw" /\ main' = "join_update"
            \/ main = "join_update" /\ main' = "release"
            \/ main = "release" /\ main' = "released" /\ step' = 1
            \/ main = "release" /\ main' = "terminated"
        BY <3>1 DEF JoinDraw, JoinUpdate, WaitIdle
      <4> QED
        BY <4>1 DEF MainLeft
    <3>2. CASE JDeInit
      BY <3>2, <1>3 DEF JDeInit, MainLeft, threads
    <3>3. CASE Statics
      <4>1. step = 11 /\ main = "released" /\ main' = "exiting"
        BY <3>3, <1>3 DEF Statics
      <4> QED
        BY <4>1 DEF MainLeft
    <3>4. CASE Exit
      BY <3>4 DEF Exit, MainLeft
    <3> QED
      BY <1>1, <1>5, <3>1, <3>2, <3>3, <3>4
      DEF Main, JInit, JInitFails, JInitDone, SpawnDraw
  <2> QED
    BY <1>2, <2>2, <2>3
<1> QED
  BY <1>4, <1>5

\* A turn of a loop goes on, or the process ends where it is.
LEMMA LoopsCount ==
  IInv /\ Closed /\ g_done /\ (DrawLoop \/ UpdateLoop)
    => \/ /\ MainLeft' = MainLeft
          /\ \/ DrawLeft' < DrawLeft /\ UpdateLeft' = UpdateLeft
             \/ DrawLeft' = DrawLeft /\ UpdateLeft' < UpdateLeft
       \/ MainLeft' = 0 /\ MainLeft > 0 /\ UNCHANGED <<DrawLeft, UpdateLeft>>
<1> SUFFICES ASSUME IInv, Closed, g_done, DrawLoop \/ UpdateLoop
             PROVE  \/ /\ MainLeft' = MainLeft
                       /\ \/ DrawLeft' < DrawLeft /\ UpdateLeft' = UpdateLeft
                          \/ DrawLeft' = DrawLeft /\ UpdateLeft' < UpdateLeft
                    \/ /\ MainLeft' = 0 /\ MainLeft > 0
                       /\ UNCHANGED <<DrawLeft, UpdateLeft>>
  OBVIOUS
<1> USE DEF resources
<1>1. CASE UNCHANGED main
  <2>1. step' = step
    BY DEF DrawLoop, DrawTest, DrawEvents, DrawFrame, UpdateLoop,
       UpdateTest, UpdateTime, UpdateIdle, DeleteWatcher, CreateWatcher
  <2>2. MainLeft' = MainLeft
    BY <1>1, <2>1 DEF MainLeft
  <2>3. CASE DrawLoop
    <3>1. update' = update
      BY <2>3 DEF DrawLoop, DrawTest, DrawEvents, DrawFrame
    <3>2. \/ draw = "test" /\ draw' = "ended"
          \/ draw = "frame" /\ draw' = "test"
      BY <1>1, <2>3 DEF DrawLoop, DrawTest, DrawEvents, DrawFrame, Closed,
         Running
    <3> QED
      BY <2>2, <3>1, <3>2 DEF DrawLeft, UpdateLeft
  <2>4. CASE UpdateLoop
    <3>1. draw' = draw
      BY <2>4 DEF UpdateLoop, UpdateTest, UpdateTime, UpdateIdle,
         DeleteWatcher, CreateWatcher
    <3>2. \/ update = "test" /\ update' = "ended"
          \/ update = "time" /\ update' = "views"
          \/ update = "views" /\ update' \in {"test", "watch", "blocked"}
          \/ update = "watch" /\ update' = "test"
      BY <1>1, <2>4 DEF UpdateLoop, UpdateTest, UpdateTime, UpdateIdle,
         DeleteWatcher, CreateWatcher, Running
    <3> QED
      BY <2>2, <3>1, <3>2 DEF DrawLeft, UpdateLeft
  <2> QED
    BY <2>3, <2>4
<1>2. CASE ~UNCHANGED main
  <2>1. main' = "terminated" /\ UNCHANGED <<draw, update>>
        /\ Running /\ (draw = "frame" \/ update \in {"views", "watch"})
    BY <1>2 DEF DrawLoop, DrawTest, DrawEvents, DrawFrame, UpdateLoop,
       UpdateTest, UpdateTime, UpdateIdle, DeleteWatcher, CreateWatcher
  <2>2. main \in {"spawn_update", "join_draw", "join_update"}
    BY <2>1 DEF IInv, TypeOK, Ordered, Closed, Running
  <2> QED
    BY <2>1, <2>2 DEF MainLeft, DrawLeft, UpdateLeft
<1> QED
  BY <1>1, <1>2

LEMMA LowerSum ==
  ASSUME NEW a \in 0..16, NEW b \in 0..2, NEW c \in 0..4,
         NEW p \in 0..16, NEW q \in 0..2, NEW r \in 0..4,
         \/ p < a /\ q <= b /\ r <= c
         \/ p <= a /\ q < b /\ r <= c
         \/ p <= a /\ q <= b /\ r < c
  PROVE  p + q + r < a + b + c
OBVIOUS

LEMMA QuitCounts == IInv /\ Closed /\ [Next]_vars => CountsDown
<1> SUFFICES ASSUME IInv, Closed, [Next]_vars, g_done,
                    Main \/ DrawLoop \/ UpdateLoop
             PROVE  StepsLeft' < StepsLeft
  BY DEF CountsDown
<1>1. MainLeft \in 0..16 /\ DrawLeft \in 0..2 /\ UpdateLeft \in 0..4
  BY LeftTyped DEF LeftOK
<1>2. MainLeft' \in 0..16 /\ DrawLeft' \in 0..2 /\ UpdateLeft' \in 0..4
  <2>1. IInv'
    BY StepIInv
  <2> QED
    BY <2>1, LeftTyped DEF LeftOK
<1>3. \/ MainLeft' < MainLeft /\ DrawLeft' <= DrawLeft
         /\ UpdateLeft' <= UpdateLeft
      \/ MainLeft' <= MainLeft /\ DrawLeft' < DrawLeft
         /\ UpdateLeft' <= UpdateLeft
      \/ MainLeft' <= MainLeft /\ DrawLeft' <= DrawLeft
         /\ UpdateLeft' < UpdateLeft
  <2>1. CASE Main
    BY <1>1, <1>2, <2>1, MainCounts
  <2>2. CASE DrawLoop \/ UpdateLoop
    BY <1>1, <1>2, <2>2, LoopsCount
  <2> QED
    BY <2>1, <2>2
<1>4. MainLeft' + DrawLeft' + UpdateLeft' < MainLeft + DrawLeft + UpdateLeft
  BY <1>1, <1>2, <1>3, LowerSum
<1> QED
  BY <1>4 DEF StepsLeft

\* Once the window is closed, main and the two loops take at most 21 steps
\* more between them, whatever the GPU and the callbacks do: no loop goes
\* round again, and JMainloop cannot wait for a loop that runs on.
THEOREM QuitCountsDown ==
  Spec => [](g_done => StepsLeft \in 0..21) /\ [][CountsDown]_vars
<1>1. Init => Closed
  BY DEF Init, Closed
<1>2. IInv /\ Closed => (g_done => StepsLeft \in 0..21)
  <2> SUFFICES ASSUME IInv, Closed, g_done PROVE StepsLeft \in 0..21
    OBVIOUS
  <2>1. MainLeft \in 0..16 /\ DrawLeft \in 0..2 /\ UpdateLeft \in 0..4
    BY LeftTyped DEF LeftOK
  <2>2. MainLeft + DrawLeft + UpdateLeft \in 0..21
    <3>1. CASE main = "spawn_update"
      <4>1. MainLeft = 16 /\ UpdateLeft = 2
        BY <3>1 DEF IInv, Ordered, MainLeft, UpdateLeft
      <4> QED
        BY <2>1, <4>1
    <3>2. CASE main # "spawn_update"
      <4>1. MainLeft \in 0..15
        <5>1. main = "released" => step \in 1..11
          BY DEF IInv, TypeOK, Staged, JInitOrder, JDeInitOrder
        <5> QED
          BY <3>2, <5>1 DEF MainLeft
      <4> QED
        BY <2>1, <4>1
    <3> QED
      BY <3>1, <3>2
  <2> QED
    BY <2>2 DEF StepsLeft
<1> QED
  BY <1>1, <1>2, InitIInv, StepIInv, ClosedStep, QuitCounts, PTL DEF Spec
=============================================================================
