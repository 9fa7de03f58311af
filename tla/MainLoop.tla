------------------------------ MODULE MainLoop ------------------------------
(***************************************************************************)
(* The life of the process: main, which acquires what the program uses one *)
(* thing after another and releases it again, its draw and update threads, *)
(* the GPU, and the watcher that the explorer's Update creates, whose      *)
(* callback writes to the explorer.  What the threads do with what they    *)
(* share is in FrameLoop, Explorer and FileWatch.                          *)
(***************************************************************************)
EXTENDS Naturals, Sequences

VARIABLES
  main,       \* where main is
  step,       \* how far JInit, and then JDeInit, has got
  live,       \* what has been acquired and not released
  busy,       \* the GPU works on what a frame has submitted
  draw,       \* where the draw thread is, or "none" or "ended"
  update,     \* where the update thread is, or "none" or "ended"
  g_done,     \* jwindow.g_done
  callback    \* the watcher's callback thread: none, idle, or in the callback

threads   == <<main, draw, update>>
resources == <<step, live, busy>>
vars      == <<threads, resources, g_done, callback>>

\* What JInit, with SetupVulkan and SetupVulkanWindow, acquires: the views and
\* the configuration last, in EngineInit.
JInitOrder == <<"sdl", "window", "instance", "device", "pool", "surface",
                "swapchain", "context", "platform", "renderer", "views">>

Resources == {JInitOrder[i] : i \in 1..Len(JInitOrder)}

\* What has to exist as long as a resource does, up to the end of the call
\* that releases it: what it was made from, and where it is registered.
Needs(r) ==
  CASE r = "window"    -> {"sdl"}
    [] r = "instance"  -> {"window"}
    [] r = "device"    -> {"instance"}
    [] r = "pool"      -> {"device"}
    [] r = "surface"   -> {"window", "instance"}
    [] r = "swapchain" -> {"device", "surface"}
    [] r = "platform"  -> {"window", "context"}
    [] r = "renderer"  -> {"device", "pool", "context"}
    [] OTHER           -> {}

\* Mutant: the Vulkan objects go before the backend that uses them.
JDeInitOrder_VulkanFirst ==
  <<"swapchain", "surface", "pool", "device", "instance", "renderer",
    "platform", "context", "window", "sdl">>

\* JDeInit, with CleanupVulkanWindow and CleanupVulkan. EngineDeInit is not
\* called: the views and the watcher stay.
JDeInitOrder ==
  <<"renderer", "platform", "context", "swapchain", "surface", "pool",
    "device", "instance", "window", "sdl">>

Init ==
  /\ main = "init" /\ step = 1 /\ live = {} /\ busy = FALSE
  /\ draw = "none" /\ update = "none" /\ g_done = FALSE /\ callback = "none"

Running == main \notin {"exited", "terminated"}

-----------------------------------------------------------------------------
(* main: JInit, JMainloop, JDeInit, and what follows main.                 *)

JInit ==
  /\ main = "init"
  /\ step <= Len(JInitOrder)
  /\ step' = step + 1
  /\ live' = live \cup {JInitOrder[step]}
  /\ UNCHANGED <<threads, busy, g_done, callback>>

\* A step throws, aborts or exits, and nothing is released.
JInitFails ==
  /\ main = "init"
  /\ step <= Len(JInitOrder) /\ JInitOrder[step] # "context"
  /\ main' = "terminated"
  /\ UNCHANGED <<draw, update, resources, g_done, callback>>

JInitDone ==
  /\ main = "init"
  /\ step > Len(JInitOrder)
  /\ main' = "spawn_draw"
  /\ UNCHANGED <<draw, update, resources, g_done, callback>>

SpawnDraw ==
  /\ main = "spawn_draw"
  /\ main' = "spawn_update"
  /\ draw' = "test"
  /\ UNCHANGED <<update, g_done, resources, callback>>

SpawnUpdate ==
  /\ main = "spawn_update"
  /\ main' = "join_draw"
  /\ update' = "test"
  /\ UNCHANGED <<draw, g_done, resources, callback>>

JoinDraw ==
  /\ main = "join_draw"
  /\ draw = "ended"
  /\ main' = "join_update"
  /\ UNCHANGED <<draw, update, g_done, resources, callback>>

JoinUpdate ==
  /\ main = "join_update"
  /\ update = "ended"
  /\ main' = "release"
  /\ UNCHANGED <<draw, update, g_done, resources, callback>>

\* Mutant: JDeInit does not wait for the device.
WaitIdle_Skipped ==
  /\ main = "release"
  /\ main' = "released" /\ step' = 1
  /\ UNCHANGED <<draw, update, live, busy, g_done, callback>>

\* vkDeviceWaitIdle, or the loss of the device.
WaitIdle ==
  /\ main = "release"
  /\ \/ ~busy /\ main' = "released" /\ step' = 1
     \/ main' = "terminated" /\ UNCHANGED step
  /\ UNCHANGED <<draw, update, live, busy, g_done, callback>>

JDeInit ==
  /\ main = "released"
  /\ step <= Len(JDeInitOrder)
  /\ step' = step + 1
  /\ live' = live \ {JDeInitOrder[step]}
  /\ UNCHANGED <<threads, busy, g_done, callback>>

\* main has returned: the destructor of jengine frees the views, that of the
\* explorer does not delete the watcher.
Statics ==
  /\ main = "released"
  /\ step > Len(JDeInitOrder)
  /\ main' = "exiting"
  /\ live' = live \ {"views"}
  /\ UNCHANGED <<draw, update, step, busy, g_done, callback>>

Exit ==
  /\ main = "exiting"
  /\ main' = "exited"
  /\ callback' = "none"
  /\ UNCHANGED <<draw, update, g_done, resources>>

-----------------------------------------------------------------------------
(* DrawLoop. *)

DrawTest ==
  /\ Running
  /\ draw = "test"
  /\ draw' = IF g_done THEN "ended" ELSE "events"
  /\ UNCHANGED <<main, update, g_done, resources, callback>>

\* The window may be closed in any frame.
DrawEvents ==
  /\ Running
  /\ draw = "events"
  /\ g_done' \in {g_done, TRUE}
  /\ draw' = "frame"
  /\ UNCHANGED <<main, update, resources, callback>>

\* EngineDraw and the submission of what it has drawn; a minimized window is
\* not drawn, and a lost device ends the process.
DrawFrame ==
  /\ Running
  /\ draw = "frame"
  /\ \/ busy' \in {busy, TRUE} /\ draw' = "test" /\ UNCHANGED main
     \/ main' = "terminated" /\ UNCHANGED <<draw, busy>>
  /\ UNCHANGED <<update, step, live, g_done, callback>>

GpuDone ==
  /\ busy
  /\ busy' = FALSE
  /\ UNCHANGED <<threads, step, live, g_done, callback>>

-----------------------------------------------------------------------------
(* UpdateLoop and EngineUpdate. *)

\* Mutant: the loop does not look at g_done.
UpdateTest_Endless ==
  /\ Running
  /\ update = "test"
  /\ update' = "time"
  /\ UNCHANGED <<main, draw, g_done, resources, callback>>

UpdateTest ==
  /\ Running
  /\ update = "test"
  /\ update' = IF g_done THEN "ended" ELSE "time"
  /\ UNCHANGED <<main, draw, g_done, resources, callback>>

UpdateTime ==
  /\ Running
  /\ update = "time"
  /\ update' = "views"
  /\ UNCHANGED <<main, draw, g_done, resources, callback>>

\* The explorer's Update has nothing to do, or its tests of the path throw.
UpdateIdle ==
  /\ Running
  /\ update = "views"
  /\ \/ update' = "test" /\ UNCHANGED main
     \/ main' = "terminated" /\ UNCHANGED update
  /\ UNCHANGED <<draw, g_done, resources, callback>>

\* It begins a refresh: the destructor of the old watcher joins its threads,
\* and may not return (FileWatch: DestroyReturns).
DeleteWatcher ==
  /\ Running
  /\ update = "views"
  /\ callback # "inside"
  /\ \/ update' = "watch" /\ callback' = "none"
     \/ callback # "none" /\ update' = "blocked" /\ UNCHANGED callback
  /\ UNCHANGED <<main, draw, g_done, resources>>

\* A new watcher, and the listing; either may throw.
CreateWatcher ==
  /\ Running
  /\ update = "watch"
  /\ \/ update' = "test" /\ callback' = "idle" /\ UNCHANGED main
     \/ main' = "terminated" /\ UNCHANGED <<update, callback>>
  /\ UNCHANGED <<draw, g_done, resources>>

-----------------------------------------------------------------------------
(* The callback: a change in the watched directory. *)

CallbackBegin ==
  /\ Running
  /\ callback = "idle"
  /\ callback' = "inside"
  /\ UNCHANGED <<threads, g_done, resources>>

\* Mutant: the callback thread ends after its first delivery.
CallbackEnd_Once ==
  /\ Running
  /\ callback = "inside"
  /\ callback' = "ended"
  /\ UNCHANGED <<threads, g_done, resources>>

CallbackEnd ==
  /\ Running
  /\ callback = "inside"
  /\ callback' = "idle"
  /\ UNCHANGED <<threads, g_done, resources>>

-----------------------------------------------------------------------------
Main ==
  \/ JInit \/ JInitFails \/ JInitDone
  \/ SpawnDraw \/ SpawnUpdate \/ JoinDraw \/ JoinUpdate
  \/ WaitIdle \/ JDeInit \/ Statics \/ Exit

DrawLoop == DrawTest \/ DrawEvents \/ DrawFrame

UpdateLoop ==
  UpdateTest \/ UpdateTime \/ UpdateIdle \/ DeleteWatcher \/ CreateWatcher

Next ==
  Main \/ DrawLoop \/ GpuDone \/ UpdateLoop \/ CallbackBegin \/ CallbackEnd

Spec == Init /\ [][Next]_vars

\* The threads are scheduled, the GPU ends its work, the callback returns.
Fairness ==
  /\ WF_vars(Main) /\ WF_vars(DrawLoop) /\ WF_vars(UpdateLoop)
  /\ WF_vars(GpuDone) /\ WF_vars(CallbackEnd)

FairSpec == Spec /\ Fairness

-----------------------------------------------------------------------------
(* Properties. *)

TypeOK ==
  /\ main \in {"init", "spawn_draw", "spawn_update", "join_draw",
               "join_update", "release", "released", "exiting", "exited",
               "terminated"}
  /\ step \in 1..Len(JInitOrder) + 1 /\ live \subseteq Resources
  /\ busy \in BOOLEAN
  /\ draw \in {"none", "test", "events", "frame", "ended"}
  /\ update \in {"none", "test", "time", "views", "watch", "blocked", "ended"}
  /\ g_done \in BOOLEAN /\ callback \in {"none", "idle", "inside"}

\* What the two loops and the GPU use where they are.
InUse ==
  (IF draw \in {"events", "frame"} THEN Resources ELSE {})
  \cup (IF update \in {"time", "views", "watch", "blocked"}
       THEN {"context", "views"} ELSE {})
  \cup (IF busy THEN {"device", "pool", "swapchain", "renderer"} ELSE {})

\* No loop, and no frame that the GPU still works on, uses what JInit has not
\* acquired yet or what JDeInit or the end of main has released.
NoUseAfterRelease == Running => InUse \subseteq live

\* Nothing outlives what it was made from or is registered with: JDeInit takes
\* apart in an order that is not the reverse of JInit's.
LiveOnWhatItNeeds == \A r \in live : Needs(r) \subseteq live

\* Closing the window ends the process, wherever the two loops are; the only
\* thing that can keep it is an update thread that waits for a watcher's.
QuitExits ==
  g_done ~> main \in {"exited", "terminated"} \/ update = "blocked"

\* "Escape the mainloop, release resource": when JDeInit has returned, no
\* thread is left that could use what the process frees next.
Released == main = "exiting" => callback = "none"
=============================================================================
