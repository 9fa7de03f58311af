---------------------- MODULE FrameLoopProgress_proofs -----------------------
(***************************************************************************)
(* Loop, GPU and display never all wait for each other, for every number   *)
(* of images, any sizes and any number of resizes: the safety that the     *)
(* liveness of FrameLoop rests on.                                         *)
(*                                                                         *)
(* The oldest frame drawn and not shown always gets on.  If the GPU has    *)
(* finished it the display may show it, else it has its image or a grant   *)
(* that nothing stands in the way of: it follows directly on the image on  *)
(* display, and no two frames that follow each other have the same image.  *)
(***************************************************************************)
EXTENDS FrameLoop_proofs

\* A frame that waits for its image has it or has been granted it.
Promised == \A f : Waiting(f) => f \in grants \/ f.sem \in ready

\* The finished frames have signaled their render-complete semaphores, and the
\* display has taken none of the signals.
Finished == \A k \in 1..DoneLen : Drawn(k).sem \in complete

\* The image on display before frame k.
Before(k) == IF k = 1 THEN display ELSE Drawn(k - 1).image

\* No image follows on itself.
Alternating ==
  /\ \A k \in 1..DrawnLen : Drawn(k).image # Before(k)
  /\ pc \in {"fence", "submit"} => FrameIndex # LastShown

Served == Promised /\ Finished /\ Alternating

PInv == IInv /\ Served

-----------------------------------------------------------------------------
(* One lemma per kind of step. *)

LEMMA InitServed == Init => Served
<1> SUFFICES ASSUME Init PROVE Served
  OBVIOUS
<1>1. Len(queue) = 0 /\ Len(jobs) = 0 /\ DrawnLen = 0 /\ DoneLen = 0
  BY EmptySeq DEF Init, DrawnLen, DoneLen, Unpresented
<1> QED
  BY <1>1 DEF Init, Served, Promised, Finished, Alternating, Waiting

\* Steps of the loop between its calls, and the wait for a fence.
LEMMA QuietStep ==
  ASSUME Served,
         UNCHANGED <<FrameIndex, SemaphoreIndex, held, grants, ready, jobs,
                     complete, queue, display>>,
         pc' \in {"fence", "submit"} <=> pc \in {"fence", "submit"}
  PROVE  Served'
<1>1. DrawnLen' = DrawnLen /\ DoneLen' = DoneLen /\ Frame' = Frame
  BY DEF DrawnLen, DoneLen, Unpresented, Frame
<1>2. \A k : Drawn(k)' = Drawn(k)
  BY <1>1 DEF Drawn
<1>3. \A k : Before(k)' = Before(k)
  BY <1>2 DEF Before
<1>4. \A f : Waiting(f)' <=> Waiting(f)
  BY <1>1 DEF Waiting
<1>5. Promised' /\ Finished'
  BY <1>1, <1>2, <1>4 DEF Served, Promised, Finished
<1>6. Alternating'
  BY <1>1, <1>2, <1>3 DEF Served, Alternating, LastShown
<1> QED
  BY <1>5, <1>6 DEF Served

\* A grant turns into a signal.
LEMMA GrantServed ==
  ASSUME Served, Grant
  PROVE  Served'
<1>1. PICK g \in grants : grants' = grants \ {g} /\ ready' = ready \cup {g.sem}
  BY DEF Grant
<1>2. /\ pc' = pc /\ FrameIndex' = FrameIndex /\ SemaphoreIndex' = SemaphoreIndex
      /\ jobs' = jobs /\ queue' = queue /\ held' = held
      /\ complete' = complete /\ display' = display
  BY DEF Grant, loop
<1>3. DrawnLen' = DrawnLen /\ DoneLen' = DoneLen /\ Frame' = Frame
  BY <1>2 DEF DrawnLen, DoneLen, Unpresented, Frame
<1>4. \A k : Drawn(k)' = Drawn(k)
  BY <1>2, <1>3 DEF Drawn
<1>5. \A k : Before(k)' = Before(k)
  BY <1>2, <1>4 DEF Before
<1>6. \A f : Waiting(f)' <=> Waiting(f)
  BY <1>2, <1>3 DEF Waiting
<1>7. Promised'
  BY <1>1, <1>6 DEF Served, Promised
<1>8. Finished' /\ Alternating'
  BY <1>2, <1>3, <1>4, <1>5 DEF Served, Finished, Alternating, LastShown
<1> QED
  BY <1>7, <1>8 DEF Served

\* The GPU takes the signal of its oldest job only.
LEMMA RenderServed ==
  ASSUME IInv, Typed, Served, Render
  PROVE  Served'
<1> USE DEF IInv, FramesOK
<1> DEFINE h == Head(jobs)
<1>1. /\ pc' = pc /\ FrameIndex' = FrameIndex /\ SemaphoreIndex' = SemaphoreIndex
      /\ queue' = queue /\ held' = held /\ grants' = grants /\ display' = display
      /\ ready' = ready \ {h.sem} /\ complete' = complete \cup {h.sem}
      /\ jobs' = Tail(jobs) /\ jobs # << >> /\ h.sem \in ready
  BY DEF Render, MayRender, loop
<1>2. /\ h = jobs[1] /\ Len(jobs) \in Nat \ {0} /\ Len(jobs') = Len(jobs) - 1
      /\ \A k \in 1..Len(jobs') : jobs'[k] = jobs[k + 1]
  BY <1>1, Popped DEF TypeOK
<1>3. h = Drawn(DoneLen + 1) /\ DoneLen \in Nat
  BY <1>1, OldestJob, DoneFew
<1>4. DrawnLen' = DrawnLen /\ DoneLen' = DoneLen + 1 /\ Frame' = Frame
  BY <1>1, <1>2 DEF DrawnLen, DoneLen, Unpresented, Frame, Typed
<1>5. \A k : Drawn(k)' = Drawn(k)
  BY <1>1, <1>4 DEF Drawn
<1>6. \A k : Before(k)' = Before(k)
  BY <1>1, <1>5 DEF Before
<1>7. ASSUME NEW f, Waiting(f)'
      PROVE  Waiting(f) /\ f.sem # h.sem
  <2>1. CASE \E k \in 1..Len(jobs') : f = jobs'[k]
    <3>1. PICK k \in 1..Len(jobs') : f = jobs'[k]
      BY <2>1
    <3>2. k + 1 \in 1..Len(jobs) /\ 1 \in 1..Len(jobs) /\ 1 < k + 1
          /\ f = jobs[k + 1]
      BY <1>2, <3>1
    <3>3. f # h
      BY <1>2, <3>2 DEF JobsApart
    <3>4. Waiting(f) /\ Waiting(h)
      BY <1>2, <3>2 DEF Waiting
    <3> QED
      BY <3>3, <3>4, WaitingApart
  <2>2. CASE pc \in {"fence", "submit"} /\ f = Frame
    <3>1. Turn(1)
      BY <2>2 DEF TurnOK
    <3>2. h.sem # SemaphoreIndex
      BY <1>2, <3>1, JobsElsewhere
    <3> QED
      BY <2>2, <3>2 DEF Waiting, Frame
  <2> QED
    BY <1>1, <1>4, <1>7, <2>1, <2>2 DEF Waiting
<1>8. Promised'
  BY <1>1, <1>7 DEF Served, Promised
<1>9. Finished'
  BY <1>1, <1>3, <1>4, <1>5 DEF Served, Finished
<1>10. Alternating'
  BY <1>1, <1>4, <1>5, <1>6 DEF Served, Alternating, LastShown
<1> QED
  BY <1>8, <1>9, <1>10 DEF Served

\* The display takes the signal of the oldest frame only, which becomes the one
\* before the next.
LEMMA ShowServed ==
  ASSUME IInv, Typed, Served, Show
  PROVE  Served'
<1> USE DEF IInv, FramesOK
<1> DEFINE h == Head(queue)
<1>1. /\ pc' = pc /\ FrameIndex' = FrameIndex /\ SemaphoreIndex' = SemaphoreIndex
      /\ jobs' = jobs /\ held' = held /\ grants' = grants
      /\ ready' = ready /\ complete' = complete \ {h.sem} /\ h.sem \in complete
      /\ display' = h.image /\ queue' = Tail(queue) /\ queue # << >>
  BY DEF Show, MayShow, loop
<1>2. /\ h = queue[1] /\ Len(queue) \in Nat \ {0}
      /\ Len(queue') = Len(queue) - 1
      /\ \A k \in 1..Len(queue) - 1 : queue'[k] = queue[k + 1]
  BY <1>1, Popped DEF TypeOK
<1>3. /\ Frame' = Frame /\ DrawnLen' = DrawnLen - 1 /\ DoneLen' = DoneLen - 1
      /\ DrawnLen \in Nat \ {0} /\ DoneLen \in Nat
      /\ DoneLen <= ImageCount /\ DoneLen <= DrawnLen
  BY <1>1, <1>2, DoneFew DEF DrawnLen, DoneLen, Unpresented, Frame, Typed
<1>4. \A k \in 1..DrawnLen' : Drawn(k)' = Drawn(k + 1)
  BY <1>2, <1>3 DEF Drawn, DrawnLen
<1>5. Drawn(1) = h
  BY <1>2 DEF Drawn
<1>6. Promised'
  <2>1. \A f : Waiting(f)' <=> Waiting(f)
    BY <1>1, <1>3 DEF Waiting
  <2> QED
    BY <1>1, <2>1 DEF Served, Promised
<1>7. Finished'
  <2> SUFFICES ASSUME NEW k \in 1..DoneLen - 1
               PROVE  Drawn(k)'.sem \in complete \ {h.sem}
    BY <1>1, <1>3 DEF Finished
  <2>1. /\ k + 1 \in 1..DoneLen /\ k \in 1..DrawnLen' /\ 1 < k + 1
        /\ k + 1 \in 1..DrawnLen /\ 1 \in 1..DrawnLen
        /\ (k + 1) - 1 < SemaphoreCount
    BY <1>3 DEF Typed
  <2>2. Drawn(k + 1).sem # h.sem
    BY <1>5, <2>1 DEF PositionsApart
  <2> QED
    BY <1>4, <2>1, <2>2 DEF Served, Finished
<1>8. Alternating'
  <2>1. ASSUME NEW k \in 1..DrawnLen'
        PROVE  Drawn(k)'.image # Before(k)'
    <3>1. k + 1 \in 1..DrawnLen /\ Drawn(k)' = Drawn(k + 1)
      BY <1>3, <1>4
    <3>2. Before(k)' = Before(k + 1)
      <4>1. CASE k = 1
        BY <1>1, <1>5, <4>1 DEF Before
      <4>2. CASE k # 1
        <5>1. k - 1 \in 1..DrawnLen' /\ (k - 1) + 1 = (k + 1) - 1 /\ k + 1 # 1
          BY <1>3, <4>2
        <5>2. Drawn(k - 1)' = Drawn((k + 1) - 1)
          BY <1>4, <5>1
        <5> QED
          BY <4>2, <5>1, <5>2 DEF Before
      <4> QED
        BY <4>1, <4>2
    <3> QED
      BY <3>1, <3>2 DEF Served, Alternating
  <2>2. LastShown' = LastShown
    <3>1. CASE Len(queue) = 1
      <4>1. queue' = << >>
        BY <1>1, <1>2, <3>1, HeadTailProperties, EmptySeq DEF TypeOK
      <4> QED
        BY <1>1, <1>2, <3>1, <4>1 DEF LastShown
    <3>2. CASE Len(queue) # 1
      <4>1. queue' # << >> /\ queue'[Len(queue')] = queue[Len(queue)]
        <5>1. Len(queue) - 1 \in 1..Len(queue) - 1
              /\ (Len(queue) - 1) + 1 = Len(queue)
          BY <1>2, <3>2
        <5>2. queue' # << >>
          BY <1>2, <3>2, EmptySeq
        <5> QED
          BY <1>2, <5>1, <5>2
      <4> QED
        BY <1>1, <4>1 DEF LastShown
    <3> QED
      BY <3>1, <3>2
  <2> QED
    BY <1>1, <2>1, <2>2 DEF Served, Alternating
<1> QED
  BY <1>6, <1>7, <1>8 DEF Served

\* The frame to come is promised an image, another than the last one's.
LEMMA AcquireServed ==
  ASSUME IInv, Typed, Served, Acquire
  PROVE  Served'
<1> USE DEF IInv, FramesOK
<1>1. /\ pc = "acquire" /\ pc' = "fence" /\ SemaphoreIndex' = SemaphoreIndex
      /\ held = {} /\ ready' = ready /\ jobs' = jobs /\ complete' = complete
      /\ queue' = queue /\ display' = display
  BY DEF Acquire, HeldOK
<1>2. PICK i \in Acquirable :
        /\ FrameIndex' = i
        /\ grants' = grants \cup {[image |-> i, sem |-> SemaphoreIndex]}
  BY DEF Acquire
<1>3. /\ DrawnLen' = DrawnLen /\ DoneLen' = DoneLen
      /\ DrawnLen = Len(queue) /\ Len(queue) \in Nat /\ DoneLen <= DrawnLen
      /\ DoneLen \in Int
  BY <1>1 DEF DrawnLen, DoneLen, Unpresented, Typed
<1>4. \A k \in 1..DrawnLen : Drawn(k)' = Drawn(k)
  BY <1>1, <1>3 DEF Drawn
<1>5. \A k \in 1..DrawnLen : Before(k)' = Before(k)
  BY <1>1, <1>3, <1>4 DEF Before
<1>6. Promised'
  <2> SUFFICES ASSUME NEW f, Waiting(f)'
               PROVE  f \in grants' \/ f.sem \in ready
    BY <1>1 DEF Promised
  <2>1. CASE f = Frame'
    BY <1>1, <1>2, <2>1 DEF Frame
  <2>2. CASE f # Frame'
    BY <1>1, <1>2, <2>2 DEF Waiting, Served, Promised
  <2> QED
    BY <2>1, <2>2
<1>7. Finished'
  <2>1. \A k \in 1..DoneLen : k \in 1..DrawnLen
    BY <1>3
  <2> QED
    BY <1>1, <1>3, <1>4, <2>1 DEF Served, Finished
<1>8. Alternating'
  BY <1>1, <1>2, <1>3, <1>4, <1>5 DEF Served, Alternating, LastShown, Acquirable
<1> QED
  BY <1>6, <1>7, <1>8 DEF Served

\* The frame at hand becomes the newest drawn, and the newest job.
LEMMA SubmitServed ==
  ASSUME IInv, Typed, Served, Submit
  PROVE  Served'
<1> USE DEF IInv, FramesOK
<1>1. /\ pc = "submit" /\ pc' = "present" /\ held # {}
      /\ jobs' = Append(jobs, Frame) /\ SemaphoreIndex < SemaphoreCount
      /\ FrameIndex' = FrameIndex /\ SemaphoreIndex' = SemaphoreIndex
      /\ held' = held /\ grants' = grants /\ ready' = ready
      /\ complete' = complete /\ queue' = queue /\ display' = display
  BY DEF Submit, HeldOK, IndexOK
<1>2. /\ Frame \in FrameOK /\ Frame.image = FrameIndex /\ Frame' = Frame
  BY <1>1 DEF Typed, Frame
<1>3. /\ Len(jobs) \in Nat /\ Len(jobs') = Len(jobs) + 1
      /\ jobs'[Len(jobs) + 1] = Frame
      /\ \A k \in 1..Len(jobs) : jobs'[k] = jobs[k]
  BY <1>1, <1>2, AppendProperties DEF Typed, TypeOK
<1>4. /\ DrawnLen = Len(queue) /\ DrawnLen \in Nat /\ DrawnLen' = DrawnLen + 1
  BY <1>1 DEF DrawnLen, Unpresented, Typed
<1>5. DoneLen' = DoneLen /\ DoneLen <= DrawnLen /\ DoneLen \in Int
  BY <1>3, <1>4 DEF DoneLen, Typed
<1>6. /\ \A k \in 1..DrawnLen : Drawn(k)' = Drawn(k)
      /\ \A k : k = DrawnLen + 1 => Drawn(k)' = Frame
  BY <1>1, <1>2, <1>4 DEF Drawn
<1>7. Promised'
  <2>1. ASSUME NEW f, Waiting(f)' PROVE Waiting(f)
    <3>1. PICK k \in 1..Len(jobs) + 1 : f = jobs'[k]
      BY <1>1, <1>3, <2>1 DEF Waiting
    <3>2. k \in 1..Len(jobs) \/ k = Len(jobs) + 1
      BY <1>3
    <3> QED
      BY <1>1, <1>3, <3>1, <3>2 DEF Waiting
  <2> QED
    BY <1>1, <2>1 DEF Served, Promised
<1>8. Finished'
  <2>1. \A k \in 1..DoneLen : k \in 1..DrawnLen
    BY <1>4, <1>5
  <2> QED
    BY <1>1, <1>5, <1>6, <2>1 DEF Served, Finished
<1>9. Alternating'
  <2> SUFFICES ASSUME NEW k \in 1..DrawnLen + 1
               PROVE  Drawn(k)'.image # Before(k)'
    BY <1>1, <1>4 DEF Alternating
  <2>1. k = 1 \/ k - 1 \in 1..DrawnLen
    BY <1>4
  <2>2. Before(k)' = Before(k)
    BY <1>1, <1>6, <2>1 DEF Before
  <2>3. CASE k \in 1..DrawnLen
    BY <1>6, <2>2, <2>3 DEF Served, Alternating
  <2>4. CASE k = DrawnLen + 1
    <3>1. Before(k) = LastShown
      <4>1. CASE queue = << >>
        BY <1>4, <2>4, <4>1, EmptySeq DEF Before, LastShown
      <4>2. CASE queue # << >>
        <5>1. Len(queue) \in Nat \ {0}
          BY <4>2, Popped DEF TypeOK
        <5>2. k - 1 = Len(queue) /\ k # 1
          BY <1>4, <2>4, <5>1
        <5> QED
          BY <4>2, <5>1, <5>2 DEF Before, Drawn, LastShown
      <4> QED
        BY <4>1, <4>2
    <3> QED
      BY <1>1, <1>2, <1>6, <2>2, <2>4, <3>1 DEF Served, Alternating
  <2> QED
    BY <1>4, <2>3, <2>4
<1> QED
  BY <1>7, <1>8, <1>9 DEF Served

\* Presenting the frame at hand leaves the frames drawn as they are.
LEMMA PresentServed ==
  ASSUME IInv, Typed, Served, Present
  PROVE  Served'
<1> USE DEF IInv, FramesOK
<1>1. /\ pc = "present" /\ pc' = "poll"
      /\ held # {} /\ held' = {} /\ queue' = Append(queue, Frame)
      /\ SemaphoreIndex < SemaphoreCount
      /\ jobs' = jobs /\ grants' = grants
      /\ ready' = ready /\ complete' = complete /\ display' = display
  BY DEF Present, HeldOK, IndexOK
<1>2. Frame \in FrameOK
  BY <1>1 DEF Typed
<1>3. /\ Len(queue) \in Nat /\ Len(queue') = Len(queue) + 1
      /\ queue'[Len(queue) + 1] = Frame
      /\ \A k \in 1..Len(queue) : queue'[k] = queue[k]
  BY <1>1, <1>2, AppendProperties DEF Typed, TypeOK
<1>4. DrawnLen = Len(queue) + 1 /\ DrawnLen' = DrawnLen
  BY <1>1, <1>3 DEF DrawnLen, Unpresented
<1>5. DoneLen' = DoneLen /\ DoneLen <= DrawnLen /\ DoneLen \in Int
  BY <1>1, <1>3, <1>4 DEF DoneLen, Typed
<1>6. \A k \in 1..DrawnLen : Drawn(k)' = Drawn(k)
  BY <1>1, <1>3, <1>4 DEF Drawn
<1>7. \A k \in 1..DrawnLen : Before(k)' = Before(k)
  <2>1. \A k \in 1..DrawnLen : k = 1 \/ k - 1 \in 1..DrawnLen
    BY <1>3, <1>4
  <2> QED
    BY <1>1, <1>6, <2>1 DEF Before
<1>8. Promised'
  <2>1. \A f : Waiting(f)' <=> Waiting(f)
    BY <1>1 DEF Waiting
  <2> QED
    BY <1>1, <2>1 DEF Served, Promised
<1>9. Finished'
  <2>1. \A k \in 1..DoneLen : k \in 1..DrawnLen
    BY <1>3, <1>4, <1>5
  <2> QED
    BY <1>1, <1>5, <1>6, <2>1 DEF Served, Finished
<1>10. Alternating'
  BY <1>1, <1>4, <1>6, <1>7 DEF Served, Alternating
<1> QED
  BY <1>8, <1>9, <1>10 DEF Served

LEMMA EmptiedServed ==
  ASSUME Rebuild \/ Cleanup
  PROVE  Served'
<1>1. /\ jobs' = << >> /\ queue' = << >> /\ held' = {}
      /\ pc' \in {"acquire", "released"}
  BY DEF Rebuild, Cleanup, NewChain, Idle
<1>2. Len(jobs') = 0 /\ DrawnLen' = 0 /\ DoneLen' = 0
  BY <1>1, EmptySeq DEF DrawnLen, DoneLen, Unpresented
<1> QED
  BY <1>1, <1>2 DEF Served, Promised, Finished, Alternating, Waiting

LEMMA NextServed == IInv /\ Served /\ [Next]_vars => Served'
<1> SUFFICES ASSUME IInv, Served, [Next]_vars PROVE Served'
  OBVIOUS
<1>1. Typed
  BY TypedFrames DEF IInv
<1>2. CASE Resize \/ Leave \/ Poll \/ Keep \/ Abort \/ AcquireOutOfDate
           \/ WaitFence \/ SkipPresent \/ UNCHANGED vars
  <2>1. UNCHANGED <<FrameIndex, SemaphoreIndex, held, grants, ready, jobs,
                    complete, queue, display>>
    BY <1>2 DEF Resize, Leave, Poll, Keep, Abort, AcquireOutOfDate, WaitFence,
       SkipPresent, vars, loop, device
  <2>2. pc' \in {"fence", "submit"} <=> pc \in {"fence", "submit"}
    BY <1>2 DEF Resize, Leave, Poll, Keep, Abort, AcquireOutOfDate, WaitFence,
       SkipPresent, vars, loop
  <2> QED
    BY <2>1, <2>2, QuietStep
<1>3. CASE Grant \/ Render \/ Show
  BY <1>1, <1>3, GrantServed, RenderServed, ShowServed
<1>4. CASE Acquire \/ Submit \/ Present
  BY <1>1, <1>4, AcquireServed, SubmitServed, PresentServed
<1>5. CASE Rebuild \/ Cleanup
  BY <1>5, EmptiedServed
<1> QED
  BY <1>2, <1>3, <1>4, <1>5 DEF Next, DrawLoop

\* Whatever is drawn and not shown gets on.
LEMMA DeviceGoesOn ==
  ASSUME IInv, Served, jobs # << >> \/ queue # << >>
  PROVE  MayRender \/ MayShow \/ (\E g \in grants : Releasable(g))
<1> USE DEF IInv, FramesOK
<1>1. Typed /\ DoneLen \in Nat
  BY TypedFrames, DoneFew
<1>2. CASE DoneLen # 0
  <2>1. Drawn(1).sem \in complete
    BY <1>1, <1>2 DEF Served, Finished
  <2>2. queue # << >>
    <3> SUFFICES ASSUME queue = << >> PROVE FALSE
      OBVIOUS
    <3>1. Len(queue) = 0 /\ Len(jobs) \in Nat \ {0}
      BY Popped, EmptySeq DEF TypeOK
    <3>2. DrawnLen = 0 \/ DrawnLen = 1
      BY <3>1 DEF DrawnLen
    <3>3. DoneLen = DrawnLen - Len(jobs)
      BY DEF DoneLen
    <3> QED
      BY <1>1, <1>2, <3>1, <3>2, <3>3
  <2>3. Head(queue) = queue[1] /\ Len(queue) \in Nat \ {0}
    BY <2>2, Popped DEF TypeOK
  <2> QED
    BY <2>1, <2>2, <2>3 DEF MayShow, Drawn
<1>3. CASE DoneLen = 0
  <2>1. Len(jobs) = DrawnLen /\ Len(queue) <= DrawnLen /\ Len(queue) \in Nat
    BY <1>1, <1>3 DEF DoneLen, DrawnLen, Typed
  <2>2. jobs # << >>
    <3> SUFFICES ASSUME jobs = << >> PROVE FALSE
      OBVIOUS
    <3>1. Len(jobs) = 0 /\ Len(queue) \in Nat \ {0}
      BY Popped, EmptySeq DEF TypeOK
    <3> QED
      BY <2>1, <3>1
  <2> DEFINE h == Head(jobs)
  <2>3. h = jobs[1] /\ Len(jobs) \in Nat \ {0}
    BY <2>2, Popped DEF TypeOK
  <2>4. \A k \in 1..Len(jobs) : jobs[k] = Drawn(k)
    BY <1>3 DEF JobsDrawn
  <2>5. h.image # display
    BY <2>1, <2>3, <2>4 DEF Served, Alternating, Before
  <2>6. ASSUME NEW q \in Entries(queue), q.image = h.image
        PROVE  q = h
    <3>1. PICK k \in 1..Len(queue) : q = queue[k]
      BY LenProperties DEF Entries, TypeOK
    <3>2. k \in 1..Len(jobs) /\ q = jobs[k]
      BY <2>1, <2>4, <3>1 DEF Drawn
    <3>3. ~(1 < k)
      BY <2>3, <2>6, <3>2 DEF JobsApart
    <3> QED
      BY <2>3, <3>2, <3>3
  <2>7. Waiting(h)
    BY <2>3 DEF Waiting
  <2>8. h.sem \in ready => MayRender
    BY <2>2 DEF MayRender
  <2>9. h \in grants => Releasable(h)
    BY <2>5, <2>6 DEF Releasable
  <2> QED
    BY <2>7, <2>8, <2>9 DEF Served, Promised
<1> QED
  BY <1>2, <1>3

-----------------------------------------------------------------------------
(* The theorems. *)

\* The loop's waits for an image, for a fence and for the device to be idle,
\* none of which has a time limit, are never part of a circle.
THEOREM NeverStalls == Spec => []NoStall
<1>1. Init => PInv
  BY InitIInv, InitServed DEF PInv
<1>2. PInv /\ [Next]_vars => PInv'
  BY NextIInv, NextServed DEF PInv
<1>3. PInv /\ CanAcquire => NoStall
  <2> SUFFICES ASSUME PInv, Waits
               PROVE  MayRender \/ MayShow \/ (\E g \in grants : Releasable(g))
    BY DEF NoStall
  <2>1. CASE pc = "fence" /\ ~fence[FrameIndex]
    <3>1. FrameIndex \in Images
      BY DEF PInv, IInv, TypeOK
    <3>2. PICK k \in 1..Len(jobs) : jobs[k].image = FrameIndex
      BY <2>1, <3>1 DEF PInv, IInv, FramesOK, FencesOK
    <3>3. jobs # << >>
      BY <3>2, EmptySeq
    <3> QED
      BY <3>3, DeviceGoesOn DEF PInv
  <2>2. CASE ~Idle
    BY <2>2, DeviceGoesOn DEF PInv, Idle
  <2> QED
    BY <2>1, <2>2 DEF Waits
<1> QED
  BY <1>1, <1>2, <1>3, ImageToAcquire, PTL DEF Spec

\* Of two frames that reach the display one after the other the second never has
\* the image of the first: the display need not release what it goes on showing.
THEOREM ImagesAlternate == Spec => []Alternating
<1>1. Init => PInv
  BY InitIInv, InitServed DEF PInv
<1>2. PInv /\ [Next]_vars => PInv'
  BY NextIInv, NextServed DEF PInv
<1>3. PInv => Alternating
  BY DEF PInv, Served
<1> QED
  BY <1>1, <1>2, <1>3, PTL DEF Spec
-----------------------------------------------------------------------------
(* How far it is to the next poll of the window.                           *)

PlaceLeft ==
  CASE pc = "size"    -> 10
    [] pc = "acquire" -> 9
    [] pc = "fence"   -> 7
    [] pc = "submit"  -> 6
    [] pc = "present" -> 4
    [] pc = "poll"    -> 2
    [] pc = "left"    -> 1
    [] OTHER          -> 0

\* What the loop has put before the GPU and the display: a grant to give, a
\* job to finish, an image to show.
StepsLeft == PlaceLeft + Cardinality(grants) + Len(jobs) + Len(queue)

GrantsFinite == IsFiniteSet(grants)

CountsDown == ~Poll /\ ~Resize => StepsLeft' < StepsLeft

LEMMA FiniteStep == GrantsFinite /\ [Next]_vars => GrantsFinite'
<1> SUFFICES ASSUME GrantsFinite, [Next]_vars PROVE GrantsFinite'
  OBVIOUS
<1> USE DEF GrantsFinite
<1>1. CASE Grant
  <2>1. PICK g \in grants : grants' = grants \ {g}
    BY <1>1 DEF Grant
  <2> QED
    BY <2>1, FS_RemoveElement
<1>2. CASE Acquire
  <2>1. PICK i \in Acquirable :
          grants' = grants \cup {[image |-> i, sem |-> SemaphoreIndex]}
    BY <1>2 DEF Acquire
  <2> QED
    BY <2>1, FS_AddElement
<1>3. CASE Rebuild \/ Cleanup
  <2>1. grants' = {}
    BY <1>3 DEF Rebuild, NewChain, Cleanup
  <2> QED
    BY <2>1, FS_EmptySet
<1>4. CASE ~(Grant \/ Acquire \/ Rebuild \/ Cleanup)
  <2>1. grants' = grants
    BY <1>4 DEF Next, Resize, Render, Show, DrawLoop, Leave, Poll, Keep,
       Abort, AcquireOutOfDate, WaitFence, Submit, SkipPresent, Present,
       vars, device
  <2> QED
    BY <2>1
<1> QED
  BY <1>1, <1>2, <1>3, <1>4

\* The terms of the count are numbers, before a step and after it.
CountsOK ==
  /\ PlaceLeft \in 0..10 /\ Cardinality(grants) \in Nat
  /\ Len(jobs) \in Nat /\ Len(queue) \in Nat

LEMMA CountsTyped ==
  /\ TypeOK /\ GrantsFinite => CountsOK
  /\ TypeOK' /\ GrantsFinite' => CountsOK'
<1>1. TypeOK /\ GrantsFinite => CountsOK
  <2> SUFFICES ASSUME TypeOK, GrantsFinite PROVE CountsOK
    OBVIOUS
  <2>1. PlaceLeft \in 0..10
    BY DEF PlaceLeft
  <2>2. Cardinality(grants) \in Nat
    BY FS_CardinalityType DEF GrantsFinite
  <2>3. Len(jobs) \in Nat /\ Len(queue) \in Nat
    BY DEF TypeOK
  <2> QED
    BY <2>1, <2>2, <2>3 DEF CountsOK
<1> QED
  BY <1>1, PTL

\* A step of the GPU or the display does one thing that the loop has asked for.
LEMMA DeviceCounts ==
  ASSUME TypeOK, GrantsFinite, Grant \/ Render \/ Show
  PROVE  /\ PlaceLeft' = PlaceLeft
         /\ Cardinality(grants') + Len(jobs') + Len(queue') + 1
              = Cardinality(grants) + Len(jobs) + Len(queue)
<1> USE CountsTyped DEF CountsOK
<1>1. PlaceLeft' = PlaceLeft
  <2>1. pc' = pc
    BY DEF Grant, Render, Show, loop
  <2> QED
    BY <2>1 DEF PlaceLeft
<1>2. CASE Grant
  <2>1. PICK g \in grants : grants' = grants \ {g}
    BY <1>2 DEF Grant
  <2>2. Cardinality(grants') = Cardinality(grants) - 1
    BY <2>1, FS_RemoveElement DEF GrantsFinite
  <2>3. UNCHANGED <<jobs, queue>>
    BY <1>2 DEF Grant
  <2> QED
    BY <1>1, <2>2, <2>3
<1>3. CASE Render
  <2>1. Len(jobs') = Len(jobs) - 1
    BY <1>3, Popped DEF Render, MayRender, TypeOK
  <2>2. UNCHANGED <<grants, queue>>
    BY <1>3 DEF Render
  <2> QED
    BY <1>1, <2>1, <2>2
<1>4. CASE Show
  <2>1. Len(queue') = Len(queue) - 1
    BY <1>4, Popped DEF Show, MayShow, TypeOK
  <2>2. UNCHANGED <<grants, jobs>>
    BY <1>4 DEF Show
  <2> QED
    BY <1>1, <2>1, <2>2
<1> QED
  BY <1>2, <1>3, <1>4

\* A step of the loop goes on by more than it asks for.
LEMMA LoopCounts ==
  ASSUME TypeOK, GrantsFinite, DrawLoop \/ Cleanup, ~Poll
  PROVE  \/ /\ PlaceLeft' + 1 <= PlaceLeft
            /\ Cardinality(grants') <= Cardinality(grants)
            /\ Len(jobs') = Len(jobs) /\ Len(queue') = Len(queue)
         \/ /\ PlaceLeft' + 2 <= PlaceLeft
            /\ Cardinality(grants') <= Cardinality(grants) + 1
            /\ Len(jobs') = Len(jobs) /\ Len(queue') = Len(queue)
         \/ /\ PlaceLeft' + 2 <= PlaceLeft
            /\ Cardinality(grants') = Cardinality(grants)
            /\ Len(jobs') = Len(jobs) + 1 /\ Len(queue') = Len(queue)
         \/ /\ PlaceLeft' + 2 <= PlaceLeft
            /\ Cardinality(grants') = Cardinality(grants)
            /\ Len(jobs') = Len(jobs) /\ Len(queue') = Len(queue) + 1
<1>0. Cardinality(grants) \in Nat
  BY CountsTyped DEF CountsOK
<1>1. CASE Leave \/ Keep \/ Abort \/ AcquireOutOfDate \/ WaitFence
           \/ SkipPresent
  <2>1. UNCHANGED <<grants, jobs, queue>>
    BY <1>1 DEF Leave, Keep, Abort, AcquireOutOfDate, WaitFence, SkipPresent,
       device
  <2>2. \/ pc = "poll" /\ pc' = "left"
        \/ pc = "size" /\ pc' = "acquire"
        \/ pc \in {"size", "acquire"} /\ pc' = "aborted"
        \/ pc = "acquire" /\ pc' = "present"
        \/ pc = "fence" /\ pc' = "submit"
        \/ pc = "present" /\ pc' = "poll"
    BY <1>1 DEF Leave, Keep, Abort, AcquireOutOfDate, WaitFence, SkipPresent
  <2>3. PlaceLeft' + 1 <= PlaceLeft
    BY <2>2 DEF PlaceLeft
  <2> QED
    BY <1>0, <2>1, <2>3
<1>2. CASE Rebuild \/ Cleanup
  <2>1. grants' = {} /\ UNCHANGED <<jobs, queue>>
    BY <1>2 DEF Rebuild, NewChain, Cleanup
  <2>2. \/ pc = "size" /\ pc' = "acquire"
        \/ pc = "left" /\ pc' = "released"
    BY <1>2 DEF Rebuild, Cleanup
  <2>3. PlaceLeft' + 1 <= PlaceLeft
    BY <2>2 DEF PlaceLeft
  <2> QED
    <3>1. Cardinality(grants') <= Cardinality(grants)
      BY <1>0, <2>1, FS_EmptySet
    <3> QED
      BY <2>1, <2>3, <3>1
<1>3. CASE Acquire
  <2>1. PICK i \in Acquirable :
          grants' = grants \cup {[image |-> i, sem |-> SemaphoreIndex]}
    BY <1>3 DEF Acquire
  <2>2. Cardinality(grants') <= Cardinality(grants) + 1
    <3>1. PICK g : grants' = grants \cup {g}
      BY <2>1
    <3>2. \/ Cardinality(grants') = Cardinality(grants)
          \/ Cardinality(grants') = Cardinality(grants) + 1
      BY <3>1, FS_AddElement DEF GrantsFinite
    <3> QED
      BY <1>0, <3>2
  <2>3. pc = "acquire" /\ pc' = "fence" /\ UNCHANGED <<jobs, queue>>
    BY <1>3 DEF Acquire
  <2>4. PlaceLeft' + 2 <= PlaceLeft
    BY <2>3 DEF PlaceLeft
  <2> QED
    BY <2>2, <2>3, <2>4
<1>4. CASE Submit
  <2>1. Len(jobs') = Len(jobs) + 1
    BY <1>4, AppendProperties DEF Submit, TypeOK
  <2>2. pc = "submit" /\ pc' = "present" /\ UNCHANGED <<grants, queue>>
    BY <1>4 DEF Submit
  <2>3. PlaceLeft' + 2 <= PlaceLeft
    BY <2>2 DEF PlaceLeft
  <2> QED
    BY <2>1, <2>2, <2>3
<1>5. CASE Present
  <2>1. Len(queue') = Len(queue) + 1
    BY <1>5, AppendProperties DEF Present, TypeOK
  <2>2. pc = "present" /\ pc' = "poll" /\ UNCHANGED <<grants, jobs>>
    BY <1>5 DEF Present
  <2>3. PlaceLeft' + 2 <= PlaceLeft
    BY <2>2 DEF PlaceLeft
  <2> QED
    BY <2>1, <2>2, <2>3
<1> QED
  BY <1>1, <1>2, <1>3, <1>4, <1>5 DEF DrawLoop

LEMMA LowerSum ==
  ASSUME NEW a \in Nat, NEW b \in Nat, NEW c \in Nat, NEW d \in Nat,
         NEW p \in Nat, NEW q \in Nat, NEW r \in Nat, NEW s \in Nat,
         \/ p = a /\ q + r + s + 1 = b + c + d
         \/ p + 1 <= a /\ q <= b /\ r = c /\ s = d
         \/ p + 2 <= a /\ q <= b + 1 /\ r = c /\ s = d
         \/ p + 2 <= a /\ q = b /\ r = c + 1 /\ s = d
         \/ p + 2 <= a /\ q = b /\ r = c /\ s = d + 1
  PROVE  p + q + r + s < a + b + c + d
OBVIOUS

LEMMA StepCounts ==
  TypeOK /\ TypeOK' /\ GrantsFinite /\ [Next]_vars => [CountsDown]_vars
<1> SUFFICES ASSUME TypeOK, TypeOK', GrantsFinite, Next, ~Poll, ~Resize
             PROVE  StepsLeft' < StepsLeft
  BY DEF CountsDown
<1>1. GrantsFinite'
  BY FiniteStep
<1>2. /\ PlaceLeft \in Nat /\ Cardinality(grants) \in Nat
      /\ Len(jobs) \in Nat /\ Len(queue) \in Nat
  BY CountsTyped DEF CountsOK
<1>3. /\ PlaceLeft' \in Nat /\ Cardinality(grants') \in Nat
      /\ Len(jobs') \in Nat /\ Len(queue') \in Nat
  BY <1>1, CountsTyped DEF CountsOK
<1>4. PlaceLeft' + Cardinality(grants') + Len(jobs') + Len(queue')
        < PlaceLeft + Cardinality(grants) + Len(jobs) + Len(queue)
  <2>1. CASE Grant \/ Render \/ Show
    BY <1>2, <1>3, <2>1, DeviceCounts, LowerSum
  <2>2. CASE DrawLoop \/ Cleanup
    BY <1>2, <1>3, <2>2, LoopCounts, LowerSum
  <2> QED
    BY <2>1, <2>2 DEF Next
<1> QED
  BY <1>4 DEF StepsLeft

\* From one poll of the window to the next, and from the last one to the end,
\* each step of the loop, the GPU and the display is one of a number that
\* only goes down: a frame asks the device for a fixed amount of work, and no
\* wait of the loop can be drawn out by work that goes on for ever.
THEOREM FrameCountsDown ==
  Spec => [](StepsLeft \in Nat) /\ [][CountsDown]_vars
<1>1. Init => GrantsFinite
  BY FS_EmptySet DEF Init, GrantsFinite
<1>2. TypeOK /\ GrantsFinite => StepsLeft \in Nat
  <2> SUFFICES ASSUME TypeOK, GrantsFinite PROVE StepsLeft \in Nat
    OBVIOUS
  <2>1. /\ PlaceLeft \in Nat /\ Cardinality(grants) \in Nat
        /\ Len(jobs) \in Nat /\ Len(queue) \in Nat
    BY CountsTyped DEF CountsOK
  <2> QED
    BY <2>1 DEF StepsLeft
<1> QED
  BY <1>1, <1>2, TypeCorrect, FiniteStep, StepCounts, PTL DEF Spec
=============================================================================
