----------------------------- MODULE FrameLoop ------------------------------
(***************************************************************************)
(* DrawLoop with FrameRender and FramePresent (window.cpp), and the swap   *)
(* chain, fences and semaphores they share with the GPU and the display    *)
(* (ImGui_ImplVulkanH_CreateOrResizeWindow).                               *)
(*                                                                         *)
(* A frame acquires an image, waits for the fence of that image's previous *)
(* frame, submits a job that waits for the image to be released by the     *)
(* display, and queues the image for presentation once the job is done.    *)
(* The two semaphores of a frame are taken in turn from a ring that is     *)
(* one longer than the number of images.  GPU and display run on their     *)
(* own: jobs are done in order, images are shown in order (FIFO), and the  *)
(* display may grant an image before it has released it.  The renderer     *)
(* writes a frame's vertices to a buffer of a second ring, which is as     *)
(* long as the first swap chain had images (ImGui_ImplVulkan_Init).  A     *)
(* pixel is a unit of window size: the density of the display is 1.        *)
(***************************************************************************)
EXTENDS Naturals, Sequences

CONSTANTS
  ImageCounts,   \* the numbers of images the driver may give a swap chain
  Sizes,         \* the sizes of the window, besides 0 (minimized, no area)
  Dictated,      \* the surface prescribes the extent (currentExtent is set)
  MaxResizes     \* bound: changes of the window's size in one behaviour

ASSUME FrameLoopAssumption ==
  /\ ImageCounts \subseteq 2 .. 15
  /\ Sizes \subseteq Nat \ {0}
  /\ Dictated \in BOOLEAN
  /\ MaxResizes \in Nat

VARIABLES
  pc,                \* DrawLoop's program counter
  g_done, g_SwapChainRebuild,
  surface,           \* the size the window has
  window,            \* the size SDL knew when it was last polled
  resizes,           \* history: number of changes of surface
  Width,             \* the extent of the swap chain
  ImageCount, FrameIndex, SemaphoreIndex,
  fence,             \* image -> its fence is signaled
  held,              \* images acquired and not presented
  grants,            \* acquired images the display has yet to release
  ready,             \* ring positions with a signaled image-acquired semaphore
  jobs,              \* submissions the GPU has not finished
  complete,          \* ring positions with a signaled render-complete semaphore
  Count,             \* the length of the renderer's ring of vertex buffers
  queue,             \* presentations the display has not begun
  display            \* the image on display, or none

loop      == <<pc, g_done, g_SwapChainRebuild, FrameIndex, SemaphoreIndex>>
size      == <<surface, window, resizes>>
chain     == <<Width, ImageCount>>
device    == <<fence, held, grants, ready, jobs, complete, queue, display>>
vars      == <<loop, size, chain, Count, device>>

\* No image: the helper asserts that there are fewer than 16.
None == 16

Images == 0 .. ImageCount - 1

\* Mutant: the ring has a position for each image and no more.
SemaphoreCount_Images == ImageCount

\* The length of the ring of semaphores (FrameSemaphores).
SemaphoreCount == ImageCount + 1

\* A frame on its way: its image and its position in the ring.
Frame == [image |-> FrameIndex, sem |-> SemaphoreIndex]

\* The swap chain has the extent the surface wants.
Fits == Dictated => Width = surface

\* vkDeviceWaitIdle returns.
Idle == jobs = <<>> /\ queue = <<>>

\* What the display shows last, once it has shown what is queued.
LastShown == IF queue = <<>> THEN display ELSE queue[Len(queue)].image

Entries(s) == {s[k] : k \in DOMAIN s}

Extent(w) == IF Dictated THEN surface ELSE w

\* JInit has returned. The window may have another size by now than it had
\* when its swap chain was made.
Init ==
  /\ pc = "poll" /\ g_done = FALSE /\ g_SwapChainRebuild = FALSE
  /\ surface \in Sizes /\ window = surface /\ resizes = 0
  /\ Width \in Sizes
  /\ ImageCount \in ImageCounts /\ FrameIndex = 0 /\ SemaphoreIndex = 0
  /\ Count = ImageCount
  /\ fence = [i \in Images |-> TRUE]
  /\ held = {} /\ grants = {} /\ ready = {} /\ jobs = <<>>
  /\ complete = {} /\ queue = <<>> /\ display = None

-----------------------------------------------------------------------------
(* The window, the GPU and the display. *)

Resize ==
  /\ resizes < MaxResizes
  /\ surface' \in Sizes \cup {0}
  /\ resizes' = resizes + 1
  /\ UNCHANGED <<loop, window, chain, Count, device>>

\* Nothing of a granted image is shown or queued but the frame the grant is for.
\* That frame is told by its semaphore, which an older one of the same image has
\* too if it is a whole turn of the ring behind: the release may come a little
\* earlier than a real one, never later.
Releasable(g) ==
  /\ display # g.image
  /\ \A q \in Entries(queue) : q.image = g.image => q.sem = g.sem

\* The display releases a granted image.
Grant ==
  \E g \in grants :
    /\ Releasable(g)
    /\ grants' = grants \ {g}
    /\ ready' = ready \cup {g.sem}
    /\ UNCHANGED <<loop, size, chain, Count, fence, held, jobs, complete,
                   queue, display>>

\* The GPU finishes its oldest job, if that has its image.
MayRender == jobs # <<>> /\ Head(jobs).sem \in ready
Render ==
  /\ MayRender
  /\ ready' = ready \ {Head(jobs).sem}
  /\ complete' = complete \cup {Head(jobs).sem}
  /\ fence' = [fence EXCEPT ![Head(jobs).image] = TRUE]
  /\ jobs' = Tail(jobs)
  /\ UNCHANGED <<loop, size, chain, Count, held, grants, queue, display>>

\* The display shows the oldest image queued, if that is finished, and so
\* releases the one before.
MayShow == queue # <<>> /\ Head(queue).sem \in complete
Show ==
  /\ MayShow
  /\ complete' = complete \ {Head(queue).sem}
  /\ display' = Head(queue).image
  /\ queue' = Tail(queue)
  /\ UNCHANGED <<loop, size, chain, Count, fence, held, grants, ready, jobs>>

-----------------------------------------------------------------------------
(* DrawLoop. *)

\* Mutant: the flag is asked only when there is something to draw to.
Leave_Drawable ==
  /\ pc = "poll"
  /\ g_done /\ surface # 0
  /\ pc' = "left"
  /\ UNCHANGED <<g_done, g_SwapChainRebuild, FrameIndex, SemaphoreIndex, size,
                 chain, Count, device>>

Leave ==
  /\ pc = "poll"
  /\ g_done
  /\ pc' = "left"
  /\ UNCHANGED <<g_done, g_SwapChainRebuild, FrameIndex, SemaphoreIndex, size,
                 chain, Count, device>>

\* Without an area the iteration ends before (minimized) or does nothing to
\* the swap chain, neither resizing, rendering nor presenting.
Poll ==
  /\ pc = "poll"
  /\ ~g_done
  /\ g_done' \in BOOLEAN
  /\ window' = surface
  /\ pc' = IF surface = 0 THEN "poll" ELSE "size"
  /\ UNCHANGED <<g_SwapChainRebuild, FrameIndex, SemaphoreIndex, surface,
                 resizes, chain, Count, device>>

\* Mutant: the flag is not asked.
Stale_SizeOnly == Width # window
Stale == g_SwapChainRebuild \/ Width # window

Keep ==
  /\ pc = "size"
  /\ ~Stale
  /\ pc' = "acquire"
  /\ UNCHANGED <<g_done, g_SwapChainRebuild, FrameIndex, SemaphoreIndex, size,
                 chain, Count, device>>

\* A new swap chain: all that belongs to the old one is destroyed when the
\* device is idle.
NewChain(signaled) ==
  /\ ImageCount' \in ImageCounts
  /\ fence' = [i \in 0 .. ImageCount' - 1 |-> signaled]
  /\ held' = {} /\ grants' = {} /\ ready' = {} /\ complete' = {}
  /\ display' = None
  /\ UNCHANGED <<Count, jobs, queue>>

\* Mutant: the fences are created unsignaled.
Rebuild_Unsignaled ==
  /\ pc = "size"
  /\ Stale
  /\ Idle
  /\ Extent(window) # 0
  /\ NewChain(FALSE)
  /\ Width' = Extent(window)
  /\ FrameIndex' = 0
  /\ g_SwapChainRebuild' = FALSE
  /\ pc' = "acquire"
  /\ UNCHANGED <<g_done, SemaphoreIndex, size>>

\* Mutant: FrameIndex survives as well.
Rebuild_KeepsFrame ==
  /\ pc = "size"
  /\ Stale
  /\ Idle
  /\ Extent(window) # 0
  /\ NewChain(TRUE)
  /\ Width' = Extent(window)
  /\ g_SwapChainRebuild' = FALSE
  /\ pc' = "acquire"
  /\ UNCHANGED <<g_done, FrameIndex, SemaphoreIndex, size>>

\* Mutant: the flag is not reset.
Rebuild_KeepsFlag ==
  /\ pc = "size"
  /\ Stale
  /\ Idle
  /\ Extent(window) # 0
  /\ NewChain(TRUE)
  /\ Width' = Extent(window)
  /\ FrameIndex' = 0
  /\ pc' = "acquire"
  /\ UNCHANGED <<g_done, g_SwapChainRebuild, SemaphoreIndex, size>>

\* SemaphoreIndex stays as it is.
Rebuild ==
  /\ pc = "size"
  /\ Stale
  /\ Idle
  /\ Extent(window) # 0
  /\ NewChain(TRUE)
  /\ Width' = Extent(window)
  /\ FrameIndex' = 0
  /\ g_SwapChainRebuild' = FALSE
  /\ pc' = "acquire"
  /\ UNCHANGED <<g_done, SemaphoreIndex, size>>

\* The process ends: the surface has lost its area since it was polled and
\* no swap chain can be made, or the assertion in ImVector fails.
Abort ==
  /\ \/ pc = "size" /\ Stale /\ Idle /\ Extent(window) = 0
     \/ pc = "acquire" /\ SemaphoreIndex >= SemaphoreCount
  /\ pc' = "aborted"
  /\ UNCHANGED <<g_done, g_SwapChainRebuild, FrameIndex, SemaphoreIndex, size,
                 chain, Count, device>>

\* The display grants no image it would have to show for ever.
Acquirable == {i \in Images : i \notin held /\ i # LastShown}

\* Mutant: the index of the image is not stored.
Acquire_Discards ==
  /\ pc = "acquire"
  /\ SemaphoreIndex < SemaphoreCount
  /\ \E i \in Acquirable :
       /\ UNCHANGED FrameIndex
       /\ held' = held \cup {i}
       /\ grants' = grants \cup {[image |-> i, sem |-> SemaphoreIndex]}
  /\ g_SwapChainRebuild' \in {g_SwapChainRebuild, ~Fits}
  /\ pc' = "fence"
  /\ UNCHANGED <<g_done, SemaphoreIndex, size, chain, Count, fence, ready,
                 jobs, complete, queue, display>>

\* An image, perhaps with VK_SUBOPTIMAL_KHR.
Acquire ==
  /\ pc = "acquire"
  /\ SemaphoreIndex < SemaphoreCount
  /\ \E i \in Acquirable :
       /\ FrameIndex' = i
       /\ held' = held \cup {i}
       /\ grants' = grants \cup {[image |-> i, sem |-> SemaphoreIndex]}
  /\ g_SwapChainRebuild' \in {g_SwapChainRebuild, ~Fits}
  /\ pc' = "fence"
  /\ UNCHANGED <<g_done, SemaphoreIndex, size, chain, Count, fence, ready,
                 jobs, complete, queue, display>>

\* VK_ERROR_OUT_OF_DATE_KHR: FrameRender returns.
AcquireOutOfDate ==
  /\ pc = "acquire"
  /\ SemaphoreIndex < SemaphoreCount
  /\ ~Fits
  /\ g_SwapChainRebuild' = TRUE
  /\ pc' = "present"
  /\ UNCHANGED <<g_done, FrameIndex, SemaphoreIndex, size, chain, Count,
                 device>>

\* Mutant: the fence is reset without waiting for it.
WaitFence_Impatient ==
  /\ pc = "fence"
  /\ fence' = [fence EXCEPT ![FrameIndex] = FALSE]
  /\ pc' = "submit"
  /\ UNCHANGED <<g_done, g_SwapChainRebuild, FrameIndex, SemaphoreIndex, size,
                 chain, Count, held, grants, ready, jobs, complete, queue,
                 display>>

\* The image's command pool is reset and its command buffer recorded, which
\* writes to the vertex buffer after the last frame's.
WaitFence ==
  /\ pc = "fence"
  /\ fence[FrameIndex]
  /\ fence' = [fence EXCEPT ![FrameIndex] = FALSE]
  /\ pc' = "submit"
  /\ UNCHANGED <<g_done, g_SwapChainRebuild, FrameIndex, SemaphoreIndex, size,
                 chain, Count, held, grants, ready, jobs, complete, queue,
                 display>>

\* Mutant: a suboptimal frame is dropped.
Submit_Drops ==
  /\ pc = "submit"
  /\ jobs' = IF g_SwapChainRebuild THEN jobs ELSE Append(jobs, Frame)
  /\ pc' = "present"
  /\ UNCHANGED <<g_done, g_SwapChainRebuild, FrameIndex, SemaphoreIndex, size,
                 chain, Count, fence, held, grants, ready, complete, queue,
                 display>>

Submit ==
  /\ pc = "submit"
  /\ jobs' = Append(jobs, Frame)
  /\ pc' = "present"
  /\ UNCHANGED <<g_done, g_SwapChainRebuild, FrameIndex, SemaphoreIndex, size,
                 chain, Count, fence, held, grants, ready, complete, queue,
                 display>>

\* FramePresent returns: the image, if one was acquired, stays acquired.
SkipPresent ==
  /\ pc = "present"
  /\ g_SwapChainRebuild
  /\ pc' = "poll"
  /\ UNCHANGED <<g_done, g_SwapChainRebuild, FrameIndex, SemaphoreIndex, size,
                 chain, Count, device>>

\* Mutants: the frame's semaphores are not left, or the last ones missed.
Advance_Stays == SemaphoreIndex
Advance_Unwrapped == SemaphoreIndex + 1
Advance == (SemaphoreIndex + 1) % SemaphoreCount

\* Present, perhaps with VK_SUBOPTIMAL_KHR, or with VK_ERROR_OUT_OF_DATE_KHR,
\* which waits for the semaphore all the same.
Present ==
  /\ pc = "present"
  /\ ~g_SwapChainRebuild
  /\ queue' = Append(queue, Frame)
  /\ held' = held \ {FrameIndex}
  /\ \/ /\ SemaphoreIndex' = Advance
        /\ g_SwapChainRebuild' \in {FALSE, ~Fits}
     \/ /\ ~Fits
        /\ g_SwapChainRebuild' = TRUE
        /\ UNCHANGED SemaphoreIndex
  /\ pc' = "poll"
  /\ UNCHANGED <<g_done, FrameIndex, size, chain, Count, fence, grants,
                 ready, jobs, complete, display>>

\* JDeInit, on the main thread when the loops have ended.
Cleanup ==
  /\ pc = "left"
  /\ Idle
  /\ pc' = "released"
  /\ held' = {} /\ grants' = {} /\ ready' = {} /\ complete' = {}
  /\ display' = None
  /\ UNCHANGED <<g_done, g_SwapChainRebuild, FrameIndex, SemaphoreIndex, size,
                 chain, Count, fence, jobs, queue>>

-----------------------------------------------------------------------------
DrawLoop ==
  \/ Leave \/ Poll \/ Keep \/ Rebuild \/ Abort
  \/ Acquire \/ AcquireOutOfDate \/ WaitFence \/ Submit
  \/ SkipPresent \/ Present

Next == Resize \/ Grant \/ Render \/ Show \/ DrawLoop \/ Cleanup

Spec == Init /\ [][Next]_vars

\* The threads are scheduled, the GPU works and the display goes on.
Fairness ==
  /\ WF_vars(DrawLoop) /\ WF_vars(Cleanup)
  /\ WF_vars(Grant) /\ WF_vars(Render) /\ WF_vars(Show)

FairSpec == Spec /\ Fairness

-----------------------------------------------------------------------------
(* Properties. *)

LoopPc == {"poll", "size", "acquire", "fence", "submit", "present", "left",
           "released", "aborted"}

FrameOK == [image : Images, sem : 0 .. SemaphoreCount - 1]

TypeOK ==
  /\ pc \in LoopPc /\ g_done \in BOOLEAN /\ g_SwapChainRebuild \in BOOLEAN
  /\ surface \in Sizes \cup {0} /\ window \in Sizes \cup {0}
  /\ resizes \in 0 .. MaxResizes /\ Width \in Nat \ {0}
  /\ ImageCount \in ImageCounts /\ FrameIndex \in Images
  /\ SemaphoreIndex \in Nat
  /\ fence \in [Images -> BOOLEAN] /\ held \subseteq Images
  /\ grants \subseteq FrameOK
  /\ ready \subseteq 0 .. SemaphoreCount - 1
  /\ complete \subseteq 0 .. SemaphoreCount - 1
  /\ Count \in ImageCounts
  /\ jobs \in Seq(FrameOK) /\ queue \in Seq(FrameOK)
  /\ display \in Images \cup {None}

Uses(frames) == {f.sem : f \in frames}

\* When a frame hands its image-acquired semaphore to vkAcquireNextImageKHR
\* nothing is left of the frame that used it before: no signal to come, no
\* signal not taken, no job waiting for it.
AcquiredFree ==
  pc = "acquire" /\ SemaphoreIndex < SemaphoreCount =>
    SemaphoreIndex \notin ready \cup Uses(grants) \cup Uses(Entries(jobs))

\* When a job is about to signal its render-complete semaphore, the signal of
\* the frame that used it before has been taken by its presentation.
RenderedFree == MayRender => Head(jobs).sem \notin complete

\* A fence that is not signaled will be: the wait on it has no time limit.
FenceSignals ==
  \A i \in Images :
    \/ fence[i]
    \/ pc = "submit" /\ i = FrameIndex
    \/ \E j \in Entries(jobs) : j.image = i

\* The command pool that is reset has no command buffer in flight.
PoolIdle ==
  pc = "submit" => \A j \in Entries(jobs) : j.image # FrameIndex

\* The vertex buffer that is written is read by no frame in flight, as long as
\* no swap chain has more images than the first one had: only the fences of
\* the images, which know nothing of the buffers, keep the renderer from it.
\* Every submission takes the next buffer of the ring, so those in flight are
\* the last Len(jobs).
BufferFree == pc = "submit" /\ ImageCount <= Count => Len(jobs) < Count

\* vkAcquireNextImageKHR, which has no time limit either, has an image to give.
CanAcquire == pc = "acquire" => Acquirable # {}

\* The loop waits for a fence, or for the device to be idle.
Waits ==
  \/ pc = "fence" /\ ~fence[FrameIndex]
  \/ pc = "size" /\ Stale /\ ~Idle
  \/ pc = "left" /\ ~Idle

\* Loop, GPU and display never all wait for each other: the loop gets an image,
\* and whenever it waits for something else the GPU or the display has a step
\* to take.
NoStall ==
  /\ CanAcquire
  /\ Waits => MayRender \/ MayShow \/ (\E g \in grants : Releasable(g))

\* The GPU never draws into the image on display.
NoTornImage == MayRender => Head(jobs).image # display

\* The loop comes round for ever, unless it ends.
Over == pc \in {"left", "released", "aborted"}
LoopRuns == []<>(pc = "poll" \/ Over)

\* Closing the window ends the loop and releases the device's objects, in
\* whatever state the frame and the swap chain are.
QuitReleases == g_done ~> pc \in {"released", "aborted"}

\* When the window keeps its size the swap chain is left alone.
RebuildingEnds == <>[][~Rebuild]_vars

\* SemaphoreIndex leaves the ring it indexes only when a new swap chain has
\* fewer images than the old one.
IndexLeavesRange ==
  [][ SemaphoreIndex < SemaphoreCount /\ SemaphoreIndex' >= SemaphoreCount'
        => ImageCount' < ImageCount ]_vars
=============================================================================
