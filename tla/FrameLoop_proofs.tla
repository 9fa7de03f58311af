-------------------------- MODULE FrameLoop_proofs ---------------------------
(***************************************************************************)
(* The theorems of FrameLoop: nothing that CPU, GPU and display share is   *)
(* reused while one of them has it, for every number of images, any sizes  *)
(* and any number of resizes.                                              *)
(*                                                                         *)
(* The argument follows the frames that have been drawn and not been       *)
(* shown, in their order: a front part the GPU has finished, whose images  *)
(* are different from each other and from the one on display, and a back   *)
(* part of jobs, whose images are different because each waited for its    *)
(* image's fence.  So either part is no longer than there are images, and  *)
(* the ring of semaphores is one longer than that.                         *)
(***************************************************************************)
EXTENDS FrameLoop, FiniteSetTheorems, SequenceTheorems, TLAPS

\* The frame at hand has been submitted and not presented.
Unpresented == held # {} /\ pc \notin {"fence", "submit"}

\* The frames drawn and not shown: those in the queue and the unpresented one.
DrawnLen == Len(queue) + (IF Unpresented THEN 1 ELSE 0)
Drawn(k) == IF k <= Len(queue) THEN queue[k] ELSE Frame

\* How many of them the GPU has finished.
DoneLen == DrawnLen - Len(jobs)

\* A frame that holds on to its image-acquired semaphore.
Waiting(f) ==
  \/ \E k \in 1..Len(jobs) : f = jobs[k]
  \/ pc \in {"fence", "submit"} /\ f = Frame

\* The position d before SemaphoreIndex, going round the ring.
Back(d) == IF d <= SemaphoreIndex THEN SemaphoreIndex - d
                                  ELSE SemaphoreIndex + SemaphoreCount - d

-----------------------------------------------------------------------------
(* The inductive invariant. *)

\* Only a new swap chain can put SemaphoreIndex outside the ring.
IndexOK ==
  \/ SemaphoreIndex < SemaphoreCount
  \/ pc \in {"acquire", "aborted"} /\ held = {}

\* An image is held by the frame at hand, or has been skipped: then the swap
\* chain is rebuilt before another frame.
HeldOK ==
  /\ held \subseteq {FrameIndex}
  /\ pc \in {"fence", "submit"} => held # {}
  /\ pc = "acquire" => ~g_SwapChainRebuild
  /\ pc \notin {"fence", "submit"} /\ ~(pc = "present" /\ held # {})
     /\ ~g_SwapChainRebuild => held = {}
  /\ pc = "present" /\ held = {} => g_SwapChainRebuild

\* The GPU's jobs are the newest of the frames drawn.
JobsDrawn ==
  /\ Len(jobs) <= DrawnLen
  /\ \A k \in 1..Len(jobs) : jobs[k] = Drawn(DoneLen + k)

\* Counted back from SemaphoreIndex, or from the position before it, the frames
\* drawn have taken one position each, up to once round the ring.
Turn(e) ==
  \A k \in 1..DrawnLen :
    DrawnLen - k + e < SemaphoreCount => Drawn(k).sem = Back(DrawnLen - k + e)

TurnOK ==
  /\ \/ pc \in {"acquire", "fence", "submit"}
     \/ pc \in {"poll", "size"} /\ ~g_SwapChainRebuild
     => Turn(1)
  /\ pc = "present" /\ ~g_SwapChainRebuild => Turn(0)

\* Less than once round the ring no position is taken twice.
PositionsApart ==
  \A a, b \in 1..DrawnLen :
    a < b /\ b - a < SemaphoreCount => Drawn(a).sem # Drawn(b).sem

\* A fence is unsignaled exactly for the images the GPU works on or is about to.
FencesOK ==
  \A i \in Images :
    fence[i] <=> /\ ~(pc = "submit" /\ i = FrameIndex)
                 /\ \A k \in 1..Len(jobs) : jobs[k].image # i

\* The GPU never has two jobs for an image.
JobsApart ==
  /\ \A a, b \in 1..Len(jobs) : a < b => jobs[a].image # jobs[b].image
  /\ pc = "submit" => \A k \in 1..Len(jobs) : jobs[k].image # FrameIndex

\* An image-acquired semaphore is signaled or about to be only for a frame that
\* will take the signal, and never both.
AcquiredOK ==
  /\ \A g \in grants : Waiting(g) /\ g.sem \notin ready
  /\ \A s \in ready : \E f \in FrameOK : Waiting(f) /\ f.sem = s

\* Once the display has released an image to a frame, the frames of that image
\* that are still queued are this one, or a whole turn of the ring older.
ReleasedOK ==
  /\ \A k \in 1..Len(jobs) : jobs[k].sem \in ready =>
       \A q \in 1..Len(queue) :
         queue[q].image = jobs[k].image => queue[q].sem = jobs[k].sem
  /\ pc \in {"fence", "submit"} /\ SemaphoreIndex \in ready =>
       \A q \in 1..Len(queue) :
         queue[q].image = FrameIndex => queue[q].sem = SemaphoreIndex

\* The image on display was released to a frame only if that frame comes a
\* whole turn of the ring later.
DisplayOK ==
  /\ \A k \in 1..Len(jobs) :
       jobs[k].sem \in ready /\ display = jobs[k].image
         => DoneLen + k >= SemaphoreCount
  /\ /\ pc \in {"fence", "submit"}
     /\ SemaphoreIndex \in ready /\ display = FrameIndex
     => DrawnLen + 1 >= SemaphoreCount

\* A render-complete semaphore is signaled only for a finished frame.
CompleteOK == \A s \in complete : \E k \in 1..DoneLen : Drawn(k).sem = s

\* The finished frames and the one on display all have images of their own.
DoneApart ==
  /\ \A a, b \in 1..DoneLen : a < b => Drawn(a).image # Drawn(b).image
  /\ \A a \in 1..DoneLen : Drawn(a).image # display

FramesOK ==
  /\ JobsDrawn /\ TurnOK /\ PositionsApart /\ FencesOK /\ JobsApart
  /\ AcquiredOK /\ ReleasedOK /\ DisplayOK /\ CompleteOK /\ DoneApart

IInv == TypeOK /\ IndexOK /\ HeldOK /\ FramesOK

-----------------------------------------------------------------------------
(* Counting, going round the ring, and the types of what is drawn. *)

\* A function without repetitions is no larger than its range.
LEMMA Few ==
  ASSUME NEW m \in Nat, NEW T, IsFiniteSet(T), NEW f \in [1..m -> T],
         \A a, b \in 1..m : a < b => f[a] # f[b]
  PROVE  m <= Cardinality(T)
<1>1. IsFiniteSet(1..m) /\ Cardinality(1..m) = m
  BY FS_Interval
<1>2. Cardinality(T) \in Nat
  BY FS_CardinalityType
<1>3. ASSUME Cardinality(T) < m
      PROVE  FALSE
  <2>1. PICK x, y \in 1..m : x # y /\ f[x] = f[y]
    BY <1>1, <1>3, FS_PigeonHole
  <2>2. x < y \/ y < x
    BY <2>1
  <2> QED
    BY <2>1, <2>2
<1> QED
  BY <1>2, <1>3

\* There are as many images as ImageCount says.
LEMMA CountImages ==
  ASSUME ImageCount \in Nat
  PROVE  /\ IsFiniteSet(Images) /\ Cardinality(Images) = ImageCount
         /\ \A i \in Images : /\ IsFiniteSet(Images \ {i})
                               /\ Cardinality(Images \ {i}) = ImageCount - 1
<1>1. IsFiniteSet(Images) /\ Cardinality(Images) = ImageCount
  BY FS_Interval DEF Images
<1> QED
  BY <1>1, FS_RemoveElement

\* Two images or more are number 0, number 1 and so on.
LEMMA FirstTwo ==
  ASSUME NEW n \in 2..15
  PROVE  0 \in 0..n - 1 /\ 1 \in 0..n - 1
  OBVIOUS

\* Without its first element a range is counted from the second on.
LEMMA CountedDown ==
  ASSUME NEW n \in Nat, NEW k \in 1..n, k # 1
  PROVE  k - 1 \in 1..n - 1 /\ (k - 1) + 1 = k
  OBVIOUS

\* Advance goes one position round the ring.
LEMMA Wraps ==
  ASSUME NEW r \in Nat \ {0}, NEW s \in 0..r - 1
  PROVE  (s + 1) % r = IF s + 1 = r THEN 0 ELSE s + 1
<1>1. CASE s + 1 = r
  <2>1. r % r = 0
    OBVIOUS
  <2> QED
    BY <1>1, <2>1
<1>2. CASE s + 1 # r
  <2>1. s + 1 \in 0..r - 1
    BY <1>2
  <2> QED
    BY <1>2, <2>1
<1> QED
  BY <1>1, <1>2

\* What the types say of sequences and their frames.
Typed ==
  /\ ImageCount \in 2..15 /\ SemaphoreCount = ImageCount + 1
  /\ Images = 0..ImageCount - 1
  /\ FrameIndex \in Images /\ SemaphoreIndex \in Nat
  /\ Len(queue) \in Nat /\ Len(jobs) \in Nat /\ DrawnLen \in Nat
  /\ DoneLen \in Int
  /\ \A k \in 1..Len(jobs) : jobs[k] \in FrameOK
  /\ \A k \in 1..Len(queue) : queue[k] \in FrameOK
  /\ \A k \in 1..DrawnLen : Drawn(k) \in FrameOK
  /\ \A f \in FrameOK : f.image \in Images /\ f.sem \in 0..ImageCount
  /\ SemaphoreIndex < SemaphoreCount => Frame \in FrameOK

LEMMA TypedFrames == TypeOK /\ IndexOK => Typed
<1> SUFFICES ASSUME TypeOK, IndexOK PROVE Typed
  OBVIOUS
<1>1. /\ ImageCount \in 2..15 /\ SemaphoreCount = ImageCount + 1
      /\ Images = 0..ImageCount - 1
      /\ FrameIndex \in Images /\ SemaphoreIndex \in Nat
  BY FrameLoopAssumption DEF TypeOK, SemaphoreCount, Images
<1>2. Len(queue) \in Nat /\ Len(jobs) \in Nat
  BY LenProperties DEF TypeOK
<1>3. DrawnLen \in Nat /\ DoneLen \in Int
  BY <1>2 DEF DrawnLen, DoneLen
<1>4. /\ \A k \in 1..Len(jobs) : jobs[k] \in FrameOK
      /\ \A k \in 1..Len(queue) : queue[k] \in FrameOK
  BY ElementOfSeq DEF TypeOK
<1>5. \A f \in FrameOK : f.image \in Images /\ f.sem \in 0..ImageCount
  BY <1>1 DEF FrameOK
<1>6. SemaphoreIndex < SemaphoreCount => Frame \in FrameOK
  BY <1>1 DEF FrameOK, Frame
<1>7. \A k \in 1..DrawnLen : Drawn(k) \in FrameOK
  <2> SUFFICES ASSUME NEW k \in 1..DrawnLen PROVE Drawn(k) \in FrameOK
    OBVIOUS
  <2>1. CASE k <= Len(queue)
    BY <1>2, <1>4, <2>1 DEF Drawn
  <2>2. CASE ~(k <= Len(queue))
    <3>1. Unpresented
      BY <1>2, <2>2 DEF DrawnLen
    <3>2. SemaphoreIndex < SemaphoreCount
      BY <3>1 DEF Unpresented, IndexOK
    <3> QED
      BY <1>6, <2>2, <3>2 DEF Drawn
  <2> QED
    BY <2>1, <2>2
<1> QED
  BY <1>1, <1>2, <1>3, <1>4, <1>5, <1>6, <1>7 DEF Typed

\* The jobs are no more than the images: each has an image of its own.
LEMMA JobsFew ==
  Typed /\ JobsApart
    => /\ Len(jobs) <= ImageCount
       /\ pc = "submit" => Len(jobs) < ImageCount
<1> SUFFICES ASSUME Typed, JobsApart
             PROVE  /\ Len(jobs) <= ImageCount
                    /\ pc = "submit" => Len(jobs) < ImageCount
  OBVIOUS
<1> DEFINE f == [k \in 1..Len(jobs) |-> jobs[k].image]
<1>1. Len(jobs) \in Nat /\ ImageCount \in Nat /\ FrameIndex \in Images
  BY DEF Typed
<1>2. f \in [1..Len(jobs) -> Images]
  BY DEF Typed
<1>3. \A a, b \in 1..Len(jobs) : a < b => f[a] # f[b]
  BY DEF JobsApart
<1>4. Len(jobs) <= ImageCount
  <2> HIDE DEF f
  <2> QED
    BY <1>1, <1>2, <1>3, Few, CountImages
<1>5. ASSUME pc = "submit" PROVE Len(jobs) < ImageCount
  <2>1. f \in [1..Len(jobs) -> Images \ {FrameIndex}]
    BY <1>2, <1>5 DEF JobsApart
  <2> HIDE DEF f
  <2>2. Len(jobs) <= Cardinality(Images \ {FrameIndex})
    BY <1>1, <1>3, <2>1, Few, CountImages
  <2>3. Cardinality(Images \ {FrameIndex}) = ImageCount - 1
    BY <1>1, CountImages
  <2> QED
    BY <1>1, <2>2, <2>3
<1> QED
  BY <1>4, <1>5

\* The finished frames leave an image to the display.
LEMMA DoneFew ==
  Typed /\ JobsDrawn /\ DoneApart
    => /\ DoneLen \in Nat /\ DoneLen <= ImageCount
       /\ display \in Images => DoneLen < ImageCount
<1> SUFFICES ASSUME Typed, JobsDrawn, DoneApart
             PROVE  /\ DoneLen \in Nat /\ DoneLen <= ImageCount
                    /\ display \in Images => DoneLen < ImageCount
  OBVIOUS
<1> DEFINE f == [k \in 1..DoneLen |-> Drawn(k).image]
<1>1. DoneLen \in Nat /\ ImageCount \in Nat /\ DoneLen <= DrawnLen
      /\ DrawnLen \in Nat
  BY DEF Typed, JobsDrawn, DoneLen
<1>2. f \in [1..DoneLen -> Images]
  BY <1>1 DEF Typed
<1>3. \A a, b \in 1..DoneLen : a < b => f[a] # f[b]
  BY DEF DoneApart
<1>4. DoneLen <= ImageCount
  <2> HIDE DEF f
  <2> QED
    BY <1>1, <1>2, <1>3, Few, CountImages
<1>5. ASSUME display \in Images PROVE DoneLen < ImageCount
  <2>1. f \in [1..DoneLen -> Images \ {display}]
    BY <1>2 DEF DoneApart
  <2> HIDE DEF f
  <2>2. DoneLen <= Cardinality(Images \ {display})
    BY <1>1, <1>3, <1>5, <2>1, Few, CountImages
  <2>3. Cardinality(Images \ {display}) = ImageCount - 1
    BY <1>1, <1>5, CountImages
  <2> QED
    BY <1>1, <2>2, <2>3
<1> QED
  BY <1>1, <1>4, <1>5

\* Once round the ring comes back to SemaphoreIndex, and less does not.
LEMMA BackApart == Typed => \A d \in 1..ImageCount : Back(d) # SemaphoreIndex
<1> QED
  BY DEF Back, Typed

\* The jobs are not so many that one has the position of the frame to come.
LEMMA JobsElsewhere ==
  Typed /\ JobsDrawn /\ JobsApart /\ Turn(1)
    => \A k \in 1..Len(jobs) : jobs[k].sem # SemaphoreIndex
<1> SUFFICES ASSUME Typed, JobsDrawn, JobsApart, Turn(1), NEW k \in 1..Len(jobs)
             PROVE  jobs[k].sem # SemaphoreIndex
  OBVIOUS
<1>1. Len(jobs) <= ImageCount
  BY JobsFew
<1>2. /\ DoneLen + k \in 1..DrawnLen
      /\ DrawnLen - (DoneLen + k) + 1 \in 1..ImageCount
  BY <1>1 DEF Typed, JobsDrawn, DoneLen
<1>3. Drawn(DoneLen + k).sem = Back(DrawnLen - (DoneLen + k) + 1)
  BY <1>2 DEF Typed, Turn
<1>4. jobs[k] = Drawn(DoneLen + k)
  BY DEF JobsDrawn
<1> QED
  BY <1>2, <1>3, <1>4, BackApart

\* A frame that waits for its image is told by its position in the ring.
LEMMA WaitingApart ==
  ASSUME IInv, Typed, NEW f, NEW g, Waiting(f), Waiting(g), f.sem = g.sem
  PROVE  f = g
<1>1. Len(jobs) <= ImageCount
  BY JobsFew DEF IInv, FramesOK
<1>2. \A a, b \in 1..Len(jobs) : a < b => jobs[a].sem # jobs[b].sem
  <2> SUFFICES ASSUME NEW a \in 1..Len(jobs), NEW b \in 1..Len(jobs), a < b
               PROVE  jobs[a].sem # jobs[b].sem
    OBVIOUS
  <2>1. /\ DoneLen + a \in 1..DrawnLen /\ DoneLen + b \in 1..DrawnLen
        /\ DoneLen + a < DoneLen + b
        /\ (DoneLen + b) - (DoneLen + a) < SemaphoreCount
    BY <1>1 DEF IInv, FramesOK, Typed, JobsDrawn, DoneLen
  <2>2. Drawn(DoneLen + a).sem # Drawn(DoneLen + b).sem
    BY <2>1 DEF IInv, FramesOK, PositionsApart
  <2> QED
    BY <2>2 DEF IInv, FramesOK, JobsDrawn
<1>3. pc \in {"fence", "submit"} =>
        \A k \in 1..Len(jobs) : jobs[k].sem # SemaphoreIndex
  BY JobsElsewhere DEF IInv, FramesOK, TurnOK
<1>4. Frame.sem = SemaphoreIndex
  BY DEF Frame
<1>5. CASE \E k \in 1..Len(jobs) : f = jobs[k]
  <2>1. PICK a \in 1..Len(jobs) : f = jobs[a]
    BY <1>5
  <2>2. CASE \E k \in 1..Len(jobs) : g = jobs[k]
    <3>1. PICK b \in 1..Len(jobs) : g = jobs[b]
      BY <2>2
    <3>2. a = b
      <4>1. ~(a < b) /\ ~(b < a)
        BY <1>2, <2>1, <3>1
      <4> QED
        BY <4>1 DEF Typed
    <3> QED
      BY <2>1, <3>1, <3>2
  <2> QED
    BY <1>3, <1>4, <2>1, <2>2 DEF Waiting
<1>6. CASE pc \in {"fence", "submit"} /\ f = Frame
  BY <1>3, <1>4, <1>6 DEF Waiting
<1> QED
  BY <1>5, <1>6 DEF Waiting

-----------------------------------------------------------------------------
(* What a sequence keeps when its head is taken or an element is appended. *)

LEMMA Popped ==
  ASSUME NEW S, NEW s \in Seq(S), s # << >>
  PROVE  /\ Head(s) = s[1] /\ Len(s) \in Nat \ {0}
         /\ Len(Tail(s)) = Len(s) - 1
         /\ \A k \in 1..Len(s) - 1 : Tail(s)[k] = s[k + 1]
<1>1. Head(s) = s[1] /\ Len(s) \in Nat \ {0}
  BY EmptySeq
<1>2. /\ Len(Tail(s)) = Len(s) - 1
      /\ \A k \in 1..Len(Tail(s)) : Tail(s)[k] = s[k + 1]
  BY HeadTailProperties
<1> QED
  BY <1>1, <1>2

-----------------------------------------------------------------------------
(* Types and control. *)

LEMMA InitIInv == Init => IInv
<1> SUFFICES ASSUME Init PROVE IInv
  OBVIOUS
<1> USE DEF Init
<1>1. ImageCount \in 2..15 /\ MaxResizes \in Nat /\ Sizes \subseteq Nat \ {0}
  BY FrameLoopAssumption
<1>2. Len(queue) = 0 /\ Len(jobs) = 0 /\ DrawnLen = 0 /\ DoneLen = 0
  BY EmptySeq DEF DrawnLen, DoneLen, Unpresented
<1>3. TypeOK
  <2>1. jobs \in Seq(FrameOK) /\ queue \in Seq(FrameOK)
    BY EmptySeq
  <2>2. fence \in [Images -> BOOLEAN]
    BY Zenon
  <2>3. /\ FrameIndex \in Images /\ resizes \in 0..MaxResizes
        /\ Width \in Nat \ {0} /\ SemaphoreIndex \in Nat
    BY <1>1 DEF Images
  <2>4. pc \in LoopPc /\ surface \in Sizes \cup {0} /\ window \in Sizes \cup {0}
    BY DEF LoopPc
  <2>5. /\ held = {} /\ grants = {} /\ ready = {} /\ complete = {}
        /\ display = None /\ ImageCount \in ImageCounts /\ Count \in ImageCounts
    OBVIOUS
  <2>6. g_done \in BOOLEAN /\ g_SwapChainRebuild \in BOOLEAN
    BY Zenon
  <2> HIDE DEF Init
  <2> QED
    BY <2>1, <2>2, <2>3, <2>4, <2>5, <2>6 DEF TypeOK
<1>4. IndexOK /\ HeldOK
  BY <1>1 DEF IndexOK, HeldOK, SemaphoreCount
<1>5. JobsDrawn /\ TurnOK /\ PositionsApart /\ JobsApart /\ DoneApart
  BY <1>2 DEF JobsDrawn, TurnOK, Turn, PositionsApart, JobsApart, DoneApart
<1>6. FencesOK
  BY <1>2 DEF FencesOK
<1>7. AcquiredOK /\ ReleasedOK /\ DisplayOK /\ CompleteOK
  BY <1>2 DEF AcquiredOK, ReleasedOK, DisplayOK, CompleteOK
<1> QED
  BY <1>3, <1>4, <1>5, <1>6, <1>7 DEF IInv, FramesOK

LEMMA TypeStep == TypeOK /\ IndexOK /\ HeldOK /\ [Next]_vars => TypeOK'
<1> SUFFICES ASSUME TypeOK, IndexOK, HeldOK, [Next]_vars PROVE TypeOK'
  OBVIOUS
<1>1. Typed
  BY TypedFrames
<1>2. MaxResizes \in Nat /\ Sizes \subseteq Nat \ {0} /\ ImageCounts \subseteq 2..15
  BY FrameLoopAssumption
<1>f. \A f \in FrameOK : f.image \in Images /\ f.sem \in 0..SemaphoreCount - 1
  BY DEF FrameOK
<1> USE DEF TypeOK
<1>3. ASSUME UNCHANGED chain
      PROVE  Images' = Images /\ SemaphoreCount' = SemaphoreCount /\ FrameOK' = FrameOK
  BY <1>3 DEF chain, Images, SemaphoreCount, FrameOK
<1>4. ASSUME UNCHANGED <<size, chain, Count, device>>,
             pc' \in LoopPc, g_done' \in BOOLEAN, g_SwapChainRebuild' \in BOOLEAN,
             UNCHANGED <<FrameIndex, SemaphoreIndex>>
      PROVE  TypeOK'
  BY <1>3, <1>4 DEF size, chain, device
<1>5. CASE UNCHANGED vars
  BY <1>4, <1>5 DEF vars, loop
<1>6. CASE Resize
  BY <1>2, <1>3, <1>6 DEF Resize, loop, chain, device
<1>7. CASE Grant
  <2>1. PICK g \in grants : /\ grants' = grants \ {g}
                            /\ ready' = ready \cup {g.sem}
                            /\ UNCHANGED <<loop, size, chain, Count, fence, held,
                                           jobs, complete, queue, display>>
    BY <1>7 DEF Grant
  <2>2. g.sem \in 0..SemaphoreCount - 1
    BY <1>f, <2>1
  <2> QED
    BY <1>3, <2>1, <2>2 DEF loop, size, chain
<1>8. CASE Render
  <2>1. Head(jobs) \in FrameOK /\ Tail(jobs) \in Seq(FrameOK)
    BY <1>8, HeadTailProperties DEF Render, MayRender
  <2>2. Head(jobs).sem \in 0..SemaphoreCount - 1
    BY <1>f, <2>1
  <2> QED
    BY <1>3, <1>8, <2>1, <2>2 DEF Render, loop, size, chain
<1>9. CASE Show
  <2>1. Head(queue) \in FrameOK /\ Tail(queue) \in Seq(FrameOK)
    BY <1>9, HeadTailProperties DEF Show, MayShow
  <2>2. Head(queue).image \in Images
    BY <1>f, <2>1
  <2> QED
    BY <1>3, <1>9, <2>1, <2>2 DEF Show, loop, size, chain
<1>10. CASE Leave
  BY <1>4, <1>10 DEF Leave, LoopPc
<1>11. CASE Poll
  <2>1. pc' \in LoopPc
    BY <1>11 DEF Poll, LoopPc
  <2> QED
    BY <1>3, <1>11, <2>1 DEF Poll, chain, device
<1>12. CASE Keep
  BY <1>4, <1>12 DEF Keep, LoopPc
<1>13. CASE Rebuild
  <2>1. ImageCount' \in ImageCounts /\ ImageCount' \in 2..15
    BY <1>2, <1>13 DEF Rebuild, NewChain
  <2>2. Images' = 0..ImageCount' - 1
    BY DEF Images
  <2>3. fence' \in [Images' -> BOOLEAN] /\ FrameIndex' \in Images'
    <3>1. fence' = [i \in Images' |-> TRUE]
      BY <1>13, <2>2, Zenon DEF Rebuild, NewChain
    <3>2. 0 \in Images'
      BY <2>1, <2>2, FirstTwo, Zenon
    <3>3. FrameIndex' = 0
      BY <1>13, Zenon DEF Rebuild
    <3> QED
      BY <3>1, <3>2, <3>3, Zenon
  <2>4. jobs' = << >> /\ queue' = << >>
    BY <1>13 DEF Rebuild, NewChain, Idle
  <2>5. jobs' \in Seq(FrameOK') /\ queue' \in Seq(FrameOK')
    BY <2>4, EmptySeq
  <2>6. Width' \in Nat \ {0}
    BY <1>2, <1>13 DEF Rebuild, Extent
  <2> QED
    BY <1>13, <2>1, <2>3, <2>5, <2>6 DEF Rebuild, NewChain, size, LoopPc
<1>14. CASE Abort
  BY <1>4, <1>14 DEF Abort, LoopPc
<1>15. CASE Acquire
  <2>1. PICK i \in Acquirable :
          /\ FrameIndex' = i
          /\ held' = held \cup {i}
          /\ grants' = grants \cup {[image |-> i, sem |-> SemaphoreIndex]}
    BY <1>15 DEF Acquire
  <2>2. i \in Images
    BY DEF Acquirable
  <2>3. [image |-> i, sem |-> SemaphoreIndex] \in FrameOK
    BY <1>1, <1>15, <2>2 DEF Acquire, FrameOK, Typed
  <2>4. pc' \in LoopPc /\ g_SwapChainRebuild' \in BOOLEAN
    BY <1>15 DEF Acquire, LoopPc
  <2> QED
    BY <1>3, <1>15, <2>1, <2>2, <2>3, <2>4 DEF Acquire, size, chain
<1>16. CASE AcquireOutOfDate
  BY <1>4, <1>16 DEF AcquireOutOfDate, LoopPc
<1>17. CASE WaitFence
  <2>1. pc' \in LoopPc
    BY <1>17 DEF WaitFence, LoopPc
  <2> QED
    BY <1>3, <1>17, <2>1 DEF WaitFence, size, chain
<1>18. CASE Submit
  <2>1. Frame \in FrameOK
    BY <1>1, <1>18 DEF Submit, IndexOK, Typed
  <2>2. jobs' \in Seq(FrameOK)
    BY <1>18, <2>1, AppendProperties DEF Submit
  <2>3. pc' \in LoopPc
    BY <1>18 DEF Submit, LoopPc
  <2> QED
    BY <1>3, <1>18, <2>2, <2>3 DEF Submit, size, chain
<1>19. CASE SkipPresent
  BY <1>4, <1>19 DEF SkipPresent, LoopPc
<1>20. CASE Present
  <2>1. Frame \in FrameOK
    BY <1>1, <1>20 DEF Present, IndexOK, Typed
  <2>2. queue' \in Seq(FrameOK)
    BY <1>20, <2>1, AppendProperties DEF Present
  <2>3. SemaphoreIndex' \in Nat
    <3>1. SemaphoreIndex + 1 \in Nat /\ SemaphoreCount \in Nat \ {0}
      BY <1>1 DEF Typed
    <3>2. (SemaphoreIndex + 1) % SemaphoreCount \in Nat
      BY <3>1
    <3> QED
      BY <1>20, <3>2 DEF Present, Advance
  <2>4. pc' \in LoopPc /\ g_SwapChainRebuild' \in BOOLEAN
    BY <1>20 DEF Present, LoopPc
  <2> QED
    BY <1>3, <1>20, <2>2, <2>3, <2>4 DEF Present, size, chain
<1>21. CASE Cleanup
  <2>1. pc' \in LoopPc
    BY <1>21 DEF Cleanup, LoopPc
  <2> QED
    BY <1>3, <1>21, <2>1 DEF Cleanup, size, chain
<1> QED
  BY <1>5, <1>6, <1>7, <1>8, <1>9, <1>10, <1>11, <1>12, <1>13, <1>14, <1>15,
     <1>16, <1>17, <1>18, <1>19, <1>20, <1>21 DEF Next, DrawLoop

LEMMA ControlStep ==
  TypeOK /\ IndexOK /\ HeldOK /\ [Next]_vars => IndexOK' /\ HeldOK'
<1> SUFFICES ASSUME TypeOK, IndexOK, HeldOK, [Next]_vars
             PROVE  IndexOK' /\ HeldOK'
  OBVIOUS
<1>1. Typed
  BY TypedFrames
<1>2. IndexOK'
  <2>1. CASE Present
    <3>1. SemaphoreIndex \in 0..SemaphoreCount - 1 /\ SemaphoreCount \in Nat \ {0}
      BY <1>1, <2>1 DEF Present, IndexOK, Typed
    <3>2. Advance \in 0..SemaphoreCount - 1
      BY <3>1, Wraps DEF Advance
    <3>3. SemaphoreCount' = SemaphoreCount
      BY <2>1 DEF Present, chain, SemaphoreCount
    <3>4. SemaphoreIndex' = Advance \/ SemaphoreIndex' = SemaphoreIndex
      BY <2>1 DEF Present
    <3> QED
      BY <3>1, <3>2, <3>3, <3>4 DEF IndexOK
  <2>2. CASE Rebuild
    BY <2>2 DEF Rebuild, NewChain, IndexOK
  <2>3. CASE ~Present /\ ~Rebuild
    <3>1. UNCHANGED <<SemaphoreIndex, SemaphoreCount>>
      BY <2>3 DEF Next, vars, loop, chain, SemaphoreCount, Resize, Grant, Render, Show,
         DrawLoop, Leave, Poll, Keep, Abort, Acquire, AcquireOutOfDate,
         WaitFence, Submit, SkipPresent, Cleanup
    <3>2. ASSUME ~(SemaphoreIndex < SemaphoreCount)
          PROVE  pc' \in {pc, "aborted"} /\ held' = held
      <4>1. pc \in {"acquire", "aborted"}
        BY <3>2 DEF IndexOK
      <4>2. ~(Acquire \/ AcquireOutOfDate)
        BY <3>2 DEF Acquire, AcquireOutOfDate
      <4>3. ~(Leave \/ Poll \/ Keep \/ WaitFence \/ Submit \/ SkipPresent \/ Cleanup)
        BY <4>1 DEF Leave, Poll, Keep, WaitFence, Submit, SkipPresent, Cleanup
      <4>4. Resize \/ Grant \/ Render \/ Show \/ Abort \/ UNCHANGED vars
        BY <2>3, <4>2, <4>3 DEF Next, DrawLoop
      <4> QED
        BY <4>4 DEF Resize, Grant, Render, Show, Abort, vars, loop, device
    <3> QED
      BY <3>1, <3>2 DEF IndexOK
  <2> QED
    BY <2>1, <2>2, <2>3
<1>3. HeldOK'
  <2> USE DEF HeldOK
  <2>1. CASE Resize \/ Grant \/ Render \/ Show \/ UNCHANGED vars
    BY <2>1 DEF Resize, Grant, Render, Show, vars, loop, device
  <2>2. CASE Leave \/ Poll \/ Keep \/ Abort
    BY <2>2 DEF Leave, Poll, Keep, Abort, Stale, device
  <2>3. CASE Rebuild \/ Cleanup
    BY <2>3 DEF Rebuild, Cleanup, NewChain
  <2>4. CASE Acquire
    BY <2>4 DEF Acquire
  <2>5. CASE AcquireOutOfDate \/ SkipPresent
    BY <2>5 DEF AcquireOutOfDate, SkipPresent, device
  <2>6. CASE WaitFence \/ Submit
    BY <2>6 DEF WaitFence, Submit
  <2>7. CASE Present
    BY <2>7 DEF Present
  <2> QED
    BY <2>1, <2>2, <2>3, <2>4, <2>5, <2>6, <2>7 DEF Next, DrawLoop
<1> QED
  BY <1>2, <1>3

-----------------------------------------------------------------------------
(* The frames: one lemma per action that touches them. *)

\* A step that leaves the frame at hand, the swap chain and the device alone,
\* outside of the part between acquire and present, or leaves pc alone.
LEMMA CalmStep ==
  ASSUME IInv, Typed,
         UNCHANGED <<FrameIndex, SemaphoreIndex, ImageCount, device>>,
         \/ pc' = pc /\ g_SwapChainRebuild' = g_SwapChainRebuild
         \/ pc' = "size" /\ pc = "poll"
            /\ g_SwapChainRebuild' = g_SwapChainRebuild
         \/ pc' = "acquire" /\ pc = "size" /\ ~g_SwapChainRebuild
         \/ /\ pc \notin {"fence", "submit"}
            /\ pc' \in {"left", "aborted"} \/ g_SwapChainRebuild'
            /\ pc' \in {"left", "aborted", "present", "poll"}
  PROVE  FramesOK'
<1> USE DEF IInv, FramesOK
<1>1. /\ pc' \in {"fence", "submit"} <=> pc \in {"fence", "submit"}
      /\ pc' = "submit" <=> pc = "submit"
  OBVIOUS
<1>2. /\ jobs' = jobs /\ queue' = queue /\ held' = held /\ fence' = fence
      /\ grants' = grants /\ ready' = ready /\ complete' = complete
      /\ display' = display
  BY DEF device
<1>3. Images' = Images /\ FrameOK' = FrameOK /\ SemaphoreCount' = SemaphoreCount
  BY DEF Images, FrameOK, SemaphoreCount
<1>4. DrawnLen' = DrawnLen /\ DoneLen' = DoneLen /\ Frame' = Frame
  BY <1>1, <1>2 DEF DrawnLen, DoneLen, Unpresented, Frame
<1>5. \A k : Drawn(k)' = Drawn(k)
  BY <1>2, <1>4 DEF Drawn
<1>6. \A d : Back(d)' = Back(d)
  BY <1>3 DEF Back
<1>7. \A f : Waiting(f)' = Waiting(f)
  BY <1>1, <1>2, <1>4 DEF Waiting
<1>8. JobsDrawn' /\ PositionsApart' /\ JobsApart' /\ CompleteOK' /\ DoneApart'
  BY <1>1, <1>2, <1>3, <1>4, <1>5 DEF JobsDrawn, PositionsApart, JobsApart, CompleteOK,
     DoneApart
<1>9. TurnOK'
  <2>1. \A e : Turn(e)' <=> Turn(e)
    BY <1>3, <1>4, <1>5, <1>6 DEF Turn
  <2> QED
    BY <2>1 DEF TurnOK
<1>10. FencesOK' /\ AcquiredOK' /\ ReleasedOK' /\ DisplayOK'
  BY <1>1, <1>2, <1>3, <1>4, <1>7 DEF FencesOK, AcquiredOK, ReleasedOK, DisplayOK
<1> QED
  BY <1>8, <1>9, <1>10

LEMMA GrantStep ==
  ASSUME IInv, Typed, Grant
  PROVE  FramesOK'
<1> USE DEF IInv, FramesOK
<1>1. PICK g \in grants :
        /\ display # g.image
        /\ \A q \in Entries(queue) : q.image = g.image => q.sem = g.sem
        /\ grants' = grants \ {g}
        /\ ready' = ready \cup {g.sem}
        /\ UNCHANGED <<loop, size, chain, Count, fence, held, jobs, complete,
                       queue, display>>
  BY DEF Grant, Releasable
<1>2. /\ pc' = pc /\ FrameIndex' = FrameIndex /\ SemaphoreIndex' = SemaphoreIndex
      /\ ImageCount' = ImageCount /\ g_SwapChainRebuild' = g_SwapChainRebuild
      /\ jobs' = jobs /\ queue' = queue /\ held' = held /\ fence' = fence
      /\ complete' = complete /\ display' = display
  BY <1>1 DEF loop, chain
<1>3. Images' = Images /\ FrameOK' = FrameOK /\ SemaphoreCount' = SemaphoreCount
  BY <1>2 DEF Images, FrameOK, SemaphoreCount
<1>4. DrawnLen' = DrawnLen /\ DoneLen' = DoneLen /\ Frame' = Frame
  BY <1>2 DEF DrawnLen, DoneLen, Unpresented, Frame
<1>5. \A k : Drawn(k)' = Drawn(k)
  BY <1>2, <1>4 DEF Drawn
<1>6. \A d : Back(d)' = Back(d)
  BY <1>2, <1>3 DEF Back
<1>7. \A f : Waiting(f)' = Waiting(f)
  BY <1>2, <1>4 DEF Waiting
<1>8. Waiting(g) /\ g \in FrameOK /\ Frame.image = FrameIndex
      /\ Frame.sem = SemaphoreIndex
  BY DEF AcquiredOK, TypeOK, Frame
<1>9. \A q \in 1..Len(queue) : queue[q].image = g.image => queue[q].sem = g.sem
  BY <1>1, LenProperties DEF Entries, TypeOK
<1>10. \A k \in 1..Len(jobs) : jobs[k].sem = g.sem => jobs[k] = g
  <2> SUFFICES ASSUME NEW k \in 1..Len(jobs), jobs[k].sem = g.sem
               PROVE  jobs[k] = g
    OBVIOUS
  <2>1. Waiting(jobs[k])
    BY DEF Waiting
  <2> QED
    BY <1>8, <2>1, WaitingApart
<1>11. pc \in {"fence", "submit"} /\ SemaphoreIndex = g.sem => Frame = g
  <2> SUFFICES ASSUME pc \in {"fence", "submit"}, SemaphoreIndex = g.sem
               PROVE  Frame = g
    OBVIOUS
  <2>1. Waiting(Frame)
    BY DEF Waiting
  <2> QED
    BY <1>8, <2>1, WaitingApart
<1>12. JobsDrawn' /\ PositionsApart' /\ JobsApart' /\ CompleteOK' /\ DoneApart'
  BY <1>2, <1>3, <1>4, <1>5 DEF JobsDrawn, PositionsApart, JobsApart, CompleteOK,
     DoneApart
<1>13. TurnOK' /\ FencesOK'
  <2>1. \A e : Turn(e)' <=> Turn(e)
    BY <1>3, <1>4, <1>5, <1>6 DEF Turn
  <2> QED
    BY <1>2, <1>3, <2>1 DEF TurnOK, FencesOK
<1>14. AcquiredOK'
  <2>1. ASSUME NEW h \in grants'
        PROVE  Waiting(h)' /\ h.sem \notin ready'
    <3>1. Waiting(h) /\ h.sem \notin ready /\ h # g
      BY <1>1, <2>1 DEF AcquiredOK
    <3>2. h.sem # g.sem
      BY <1>8, <3>1, WaitingApart
    <3> QED
      BY <1>1, <1>7, <3>1, <3>2
  <2>2. \A s \in ready' : \E f \in FrameOK' : Waiting(f)' /\ f.sem = s
    BY <1>1, <1>3, <1>7, <1>8 DEF AcquiredOK
  <2> QED
    BY <2>1, <2>2 DEF AcquiredOK
<1>15. ReleasedOK'
  <2>1. ASSUME NEW k \in 1..Len(jobs), jobs[k].sem \in ready',
               NEW q \in 1..Len(queue), queue[q].image = jobs[k].image
        PROVE  queue[q].sem = jobs[k].sem
    BY <1>1, <1>9, <1>10, <2>1 DEF ReleasedOK
  <2>2. ASSUME pc \in {"fence", "submit"}, SemaphoreIndex \in ready',
               NEW q \in 1..Len(queue), queue[q].image = FrameIndex
        PROVE  queue[q].sem = SemaphoreIndex
    BY <1>1, <1>8, <1>9, <1>11, <2>2 DEF ReleasedOK
  <2> QED
    BY <1>2, <2>1, <2>2 DEF ReleasedOK
<1>16. DisplayOK'
  <2>1. ASSUME NEW k \in 1..Len(jobs), jobs[k].sem \in ready',
               display = jobs[k].image
        PROVE  DoneLen + k >= SemaphoreCount
    BY <1>1, <1>10, <2>1 DEF DisplayOK
  <2>2. ASSUME pc \in {"fence", "submit"}, SemaphoreIndex \in ready',
               display = FrameIndex
        PROVE  DrawnLen + 1 >= SemaphoreCount
    BY <1>1, <1>8, <1>11, <2>2 DEF DisplayOK
  <2> QED
    BY <1>2, <1>3, <1>4, <2>1, <2>2 DEF DisplayOK
<1> QED
  BY <1>12, <1>13, <1>14, <1>15, <1>16

\* The oldest job's frame, once its image is acquired: the display has another
\* image, so have the finished frames, and none of them has its semaphores.
LEMMA OldestJob ==
  ASSUME IInv, Typed, jobs # << >>, Head(jobs).sem \in ready
  PROVE  /\ Head(jobs) = Drawn(DoneLen + 1) /\ DoneLen + 1 \in 1..DrawnLen
         /\ Head(jobs).image # display
         /\ \A a \in 1..DoneLen : /\ Drawn(a).image # Head(jobs).image
                                  /\ Drawn(a).sem # Head(jobs).sem
<1> USE DEF IInv, FramesOK
<1> DEFINE h == Head(jobs)
<1>1. h = jobs[1] /\ Len(jobs) \in Nat \ {0}
  BY Popped DEF TypeOK
<1>2. /\ DoneLen \in Nat /\ DoneLen <= ImageCount
      /\ display \in Images => DoneLen < ImageCount
  BY DoneFew
<1>3. h = Drawn(DoneLen + 1) /\ DoneLen + 1 \in 1..DrawnLen
  BY <1>1, <1>2 DEF JobsDrawn, DoneLen, Typed
<1>4. h.image # display
  <2>1. ASSUME h.image = display
        PROVE  DoneLen + 1 >= SemaphoreCount
    BY <1>1, <2>1 DEF DisplayOK
  <2>2. h.image \in Images
    BY <1>1 DEF Typed
  <2> QED
    BY <1>2, <2>1, <2>2 DEF Typed
<1>5. ASSUME NEW a \in 1..DoneLen
      PROVE  Drawn(a).sem # h.sem
  <2>1. /\ a \in 1..DrawnLen /\ a < DoneLen + 1
        /\ (DoneLen + 1) - a < SemaphoreCount
    BY <1>2, <1>3 DEF Typed
  <2> QED
    BY <1>3, <2>1 DEF PositionsApart
<1>6. ASSUME NEW a \in 1..DoneLen, Drawn(a).image = h.image
      PROVE  Drawn(a).sem = h.sem
  <2>1. a \in 1..Len(queue)
    BY <1>2, <1>3 DEF DrawnLen, Typed
  <2>2. Drawn(a) = queue[a]
    BY <2>1 DEF Drawn
  <2> QED
    BY <1>1, <1>6, <2>1, <2>2 DEF ReleasedOK
<1> QED
  BY <1>3, <1>4, <1>5, <1>6

LEMMA RenderStep ==
  ASSUME IInv, Typed, Render
  PROVE  FramesOK'
<1> USE DEF IInv, FramesOK
<1> DEFINE h == Head(jobs)
<1>1. /\ pc' = pc /\ FrameIndex' = FrameIndex /\ SemaphoreIndex' = SemaphoreIndex
      /\ ImageCount' = ImageCount /\ g_SwapChainRebuild' = g_SwapChainRebuild
      /\ queue' = queue /\ held' = held /\ grants' = grants /\ display' = display
      /\ ready' = ready \ {h.sem} /\ complete' = complete \cup {h.sem}
      /\ fence' = [fence EXCEPT ![h.image] = TRUE]
      /\ jobs' = Tail(jobs) /\ jobs # << >> /\ h.sem \in ready
  BY DEF Render, MayRender, loop, chain
<1>2. /\ h = jobs[1] /\ Len(jobs) \in Nat \ {0} /\ Len(jobs') = Len(jobs) - 1
      /\ \A k \in 1..Len(jobs') : jobs'[k] = jobs[k + 1]
  BY <1>1, Popped DEF TypeOK
<1>3. /\ h = Drawn(DoneLen + 1) /\ DoneLen + 1 \in 1..DrawnLen
      /\ h.image # display
      /\ \A a \in 1..DoneLen : Drawn(a).image # h.image
  BY <1>1, OldestJob
<1>4. Images' = Images /\ FrameOK' = FrameOK /\ SemaphoreCount' = SemaphoreCount
  BY <1>1 DEF Images, FrameOK, SemaphoreCount
<1>5. /\ DrawnLen' = DrawnLen /\ DoneLen' = DoneLen + 1 /\ Frame' = Frame
      /\ DoneLen \in Nat /\ DrawnLen \in Nat
  <2>1. DrawnLen' = DrawnLen /\ Frame' = Frame
    BY <1>1 DEF DrawnLen, Unpresented, Frame
  <2>2. DrawnLen \in Nat /\ DoneLen \in Int
    BY DEF Typed
  <2>3. DoneLen' = DoneLen + 1
    BY <1>2, <2>1, <2>2 DEF DoneLen
  <2>4. DoneLen \in Nat
    BY <1>3, <2>2
  <2> QED
    BY <2>1, <2>2, <2>3, <2>4
<1>6. \A k : Drawn(k)' = Drawn(k)
  BY <1>1, <1>5 DEF Drawn
<1>7. \A d : Back(d)' = Back(d)
  BY <1>1, <1>4 DEF Back
<1>8. \A f : Waiting(f) /\ f # h => Waiting(f)'
  <2> SUFFICES ASSUME NEW f, Waiting(f), f # h PROVE Waiting(f)'
    OBVIOUS
  <2>1. CASE \E k \in 1..Len(jobs) : f = jobs[k]
    <3>1. PICK k \in 1..Len(jobs) : f = jobs[k]
      BY <2>1
    <3>2. k - 1 \in 1..Len(jobs') /\ jobs'[k - 1] = f
      BY <1>2, <3>1
    <3> QED
      BY <3>2 DEF Waiting
  <2>2. CASE pc \in {"fence", "submit"} /\ f = Frame
    BY <1>1, <1>5, <2>2 DEF Waiting
  <2> QED
    BY <2>1, <2>2 DEF Waiting
<1>9. JobsDrawn'
  BY <1>2, <1>5, <1>6 DEF JobsDrawn
<1>10. TurnOK' /\ PositionsApart'
  <2>1. \A e : Turn(e)' <=> Turn(e)
    BY <1>4, <1>5, <1>6, <1>7 DEF Turn
  <2> QED
    BY <1>1, <1>4, <1>5, <1>6, <2>1 DEF TurnOK, PositionsApart
<1>11. JobsApart'
  BY <1>1, <1>2 DEF JobsApart
<1>12. FencesOK'
  <2> SUFFICES ASSUME NEW i \in Images
               PROVE  fence'[i] <=> /\ ~(pc = "submit" /\ i = FrameIndex)
                                    /\ \A k \in 1..Len(jobs') : jobs'[k].image # i
    BY <1>1, <1>4 DEF FencesOK
  <2>1. CASE i = h.image
    <3>1. fence'[i]
      BY <1>1, <2>1 DEF TypeOK
    <3>2. ~(pc = "submit" /\ i = FrameIndex)
      BY <1>2, <2>1 DEF JobsApart
    <3>3. \A k \in 1..Len(jobs') : jobs'[k].image # i
      BY <1>2, <2>1 DEF JobsApart
    <3> QED
      BY <3>1, <3>2, <3>3
  <2>2. CASE i # h.image
    <3>1. fence'[i] <=> fence[i]
      BY <1>1, <2>2 DEF TypeOK
    <3>2. (\A k \in 1..Len(jobs') : jobs'[k].image # i)
            <=> (\A k \in 1..Len(jobs) : jobs[k].image # i)
      <4>1. ASSUME NEW k \in 1..Len(jobs'), jobs'[k].image = i
            PROVE  \E l \in 1..Len(jobs) : jobs[l].image = i
        BY <1>2, <4>1
      <4>2. ASSUME NEW k \in 1..Len(jobs), jobs[k].image = i
            PROVE  \E l \in 1..Len(jobs') : jobs'[l].image = i
        <5>1. k - 1 \in 1..Len(jobs') /\ jobs'[k - 1] = jobs[k]
          BY <1>2, <2>2, <4>2
        <5> QED
          BY <4>2, <5>1
      <4> QED
        BY <4>1, <4>2
    <3> QED
      BY <3>1, <3>2 DEF FencesOK
  <2> QED
    BY <2>1, <2>2
<1>13. AcquiredOK'
  <2>1. ASSUME NEW g \in grants'
        PROVE  Waiting(g)' /\ g.sem \notin ready'
    <3>1. Waiting(g) /\ g.sem \notin ready
      BY <1>1, <2>1 DEF AcquiredOK
    <3>2. g # h
      BY <1>1, <3>1
    <3> QED
      BY <1>1, <1>8, <3>1, <3>2
  <2>2. ASSUME NEW s \in ready'
        PROVE  \E f \in FrameOK' : Waiting(f)' /\ f.sem = s
    <3>1. PICK f \in FrameOK : Waiting(f) /\ f.sem = s
      BY <1>1, <2>2 DEF AcquiredOK
    <3>2. f # h
      BY <1>1, <2>2, <3>1
    <3> QED
      BY <1>4, <1>8, <3>1, <3>2
  <2> QED
    BY <2>1, <2>2 DEF AcquiredOK
<1>14. ReleasedOK' /\ DisplayOK'
  <2>1. \A k \in 1..Len(jobs') : /\ k + 1 \in 1..Len(jobs)
                                 /\ jobs'[k] = jobs[k + 1]
    BY <1>2
  <2>2. ReleasedOK'
    BY <1>1, <2>1 DEF ReleasedOK
  <2>3. DisplayOK'
    BY <1>1, <1>4, <1>5, <2>1 DEF DisplayOK
  <2> QED
    BY <2>2, <2>3
<1>15. CompleteOK'
  BY <1>1, <1>3, <1>5, <1>6 DEF CompleteOK
<1>16. DoneApart'
  BY <1>1, <1>3, <1>5, <1>6 DEF DoneApart
<1> QED
  BY <1>9, <1>10, <1>11, <1>12, <1>13, <1>14, <1>15, <1>16

LEMMA ShowStep ==
  ASSUME IInv, Typed, Show
  PROVE  FramesOK'
<1> USE DEF IInv, FramesOK
<1> DEFINE h == Head(queue)
<1>1. /\ pc' = pc /\ FrameIndex' = FrameIndex /\ SemaphoreIndex' = SemaphoreIndex
      /\ ImageCount' = ImageCount /\ g_SwapChainRebuild' = g_SwapChainRebuild
      /\ jobs' = jobs /\ held' = held /\ fence' = fence /\ grants' = grants
      /\ ready' = ready /\ complete' = complete \ {h.sem} /\ h.sem \in complete
      /\ display' = h.image /\ queue' = Tail(queue) /\ queue # << >>
  BY DEF Show, MayShow, loop, chain
<1>2. /\ h = queue[1] /\ Len(queue) \in Nat \ {0}
      /\ Len(queue') = Len(queue) - 1
      /\ \A k \in 1..Len(queue) - 1 : queue'[k] = queue[k + 1]
  BY <1>1, Popped DEF TypeOK
<1>3. /\ Images' = Images /\ FrameOK' = FrameOK /\ SemaphoreCount' = SemaphoreCount
      /\ Frame' = Frame
  BY <1>1 DEF Images, FrameOK, SemaphoreCount, Frame
<1>4. /\ DrawnLen' = DrawnLen - 1 /\ DrawnLen \in Nat \ {0}
      /\ DoneLen' = DoneLen - 1 /\ DoneLen \in Nat \ {0}
  <2>1. DrawnLen' = DrawnLen - 1 /\ DoneLen' = DoneLen - 1
    BY <1>1, <1>2 DEF DrawnLen, DoneLen, Unpresented, Typed
  <2>2. PICK k \in 1..DoneLen : Drawn(k).sem = h.sem
    BY <1>1 DEF CompleteOK
  <2> QED
    BY <2>1, <2>2, DoneFew DEF JobsDrawn, DoneLen, Typed
<1>5. \A k \in 1..DrawnLen' : Drawn(k)' = Drawn(k + 1)
  BY <1>2, <1>3, <1>4 DEF Drawn, DrawnLen
<1>6. Drawn(1) = h
  BY <1>2 DEF Drawn
<1>7. \A d : Back(d)' = Back(d)
  BY <1>1, <1>3 DEF Back
<1>8. \A f : Waiting(f)' = Waiting(f)
  BY <1>1, <1>3 DEF Waiting
<1>9. JobsDrawn'
  <2>1. Len(jobs) <= DrawnLen'
    BY <1>4 DEF DoneLen, Typed
  <2>2. ASSUME NEW k \in 1..Len(jobs)
        PROVE  jobs[k] = Drawn(DoneLen + k)'
    <3>1. DoneLen' + k \in 1..DrawnLen' /\ (DoneLen' + k) + 1 = DoneLen + k
      BY <1>1, <1>4 DEF DoneLen, Typed
    <3> QED
      BY <1>5, <3>1 DEF JobsDrawn
  <2> QED
    BY <1>1, <2>1, <2>2 DEF JobsDrawn
<1>10. TurnOK'
  <2>1. ASSUME NEW e \in {0, 1}, Turn(e)
        PROVE  Turn(e)'
    <3> SUFFICES ASSUME NEW k \in 1..DrawnLen',
                        DrawnLen' - k + e < SemaphoreCount
                 PROVE  Drawn(k)'.sem = Back(DrawnLen' - k + e)
      BY <1>3, <1>7 DEF Turn
    <3>1. /\ k + 1 \in 1..DrawnLen
          /\ DrawnLen - (k + 1) + e = DrawnLen' - k + e
      BY <1>4
    <3>2. Drawn(k + 1).sem = Back(DrawnLen - (k + 1) + e)
      BY <2>1, <3>1 DEF Turn
    <3> QED
      BY <1>5, <3>1, <3>2
  <2> QED
    BY <1>1, <2>1 DEF TurnOK
<1>11. PositionsApart'
  <2> SUFFICES ASSUME NEW a \in 1..DrawnLen', NEW b \in 1..DrawnLen', a < b,
                      b - a < SemaphoreCount
               PROVE  Drawn(a)'.sem # Drawn(b)'.sem
    BY <1>3 DEF PositionsApart
  <2>1. /\ a + 1 \in 1..DrawnLen /\ b + 1 \in 1..DrawnLen /\ a + 1 < b + 1
        /\ (b + 1) - (a + 1) < SemaphoreCount
    BY <1>4 DEF Typed
  <2>2. Drawn(a + 1).sem # Drawn(b + 1).sem
    BY <2>1 DEF PositionsApart
  <2> QED
    BY <1>5, <2>2
<1>12. FencesOK' /\ JobsApart' /\ AcquiredOK'
  BY <1>1, <1>3, <1>8 DEF FencesOK, JobsApart, AcquiredOK
<1>13. ReleasedOK'
  BY <1>1, <1>2 DEF ReleasedOK
<1>14. DisplayOK'
  <2>1. ASSUME NEW k \in 1..Len(jobs), jobs[k].sem \in ready,
               h.image = jobs[k].image
        PROVE  DoneLen' + k >= SemaphoreCount
    <3>1. Drawn(1).sem = jobs[k].sem
      BY <1>2, <1>6, <2>1 DEF ReleasedOK
    <3>2. jobs[k] = Drawn(DoneLen + k)
      BY DEF JobsDrawn
    <3>3. 1 \in 1..DrawnLen /\ DoneLen + k \in 1..DrawnLen /\ 1 < DoneLen + k
      BY <1>4 DEF DoneLen, Typed
    <3>4. ~((DoneLen + k) - 1 < SemaphoreCount)
      BY <3>1, <3>2, <3>3 DEF PositionsApart
    <3> QED
      BY <1>4, <3>4 DEF Typed
  <2>2. ASSUME pc \in {"fence", "submit"}, SemaphoreIndex \in ready,
               h.image = FrameIndex
        PROVE  DrawnLen' + 1 >= SemaphoreCount
    <3>1. Drawn(1).sem = SemaphoreIndex
      BY <1>2, <1>6, <2>2 DEF ReleasedOK
    <3>2. ASSUME DrawnLen < SemaphoreCount
          PROVE  FALSE
      <4>1. 1 \in 1..DrawnLen /\ DrawnLen - 1 + 1 = DrawnLen
            /\ DrawnLen \in 1..ImageCount
        BY <1>4, <3>2 DEF Typed
      <4>2. Drawn(1).sem = Back(DrawnLen - 1 + 1)
        BY <2>2, <3>2, <4>1 DEF TurnOK, Turn
      <4> QED
        BY <3>1, <4>1, <4>2, BackApart
    <3> QED
      BY <1>4, <3>2 DEF Typed
  <2> QED
    BY <1>1, <1>3, <2>1, <2>2 DEF DisplayOK
<1>15. CompleteOK'
  <2> SUFFICES ASSUME NEW s \in complete, s # h.sem
               PROVE  \E k \in 1..DoneLen' : Drawn(k)'.sem = s
    BY <1>1 DEF CompleteOK
  <2>1. PICK k \in 1..DoneLen : Drawn(k).sem = s
    BY DEF CompleteOK
  <2>2. k - 1 \in 1..DoneLen' /\ k - 1 \in 1..DrawnLen' /\ (k - 1) + 1 = k
    <3>1. k # 1
      BY <1>6, <2>1
    <3>2. DoneLen <= DrawnLen
      <4>1. DrawnLen \in Nat /\ Len(jobs) \in Nat
        BY DEF Typed
      <4> QED
        BY <4>1 DEF DoneLen
    <3>3. k \in 1..DrawnLen
      BY <1>4, <3>2
    <3> HIDE DEF IInv, FramesOK
    <3> QED
      BY <1>4, <3>1, <3>3, CountedDown
  <2> QED
    BY <1>5, <2>1, <2>2
<1>16. DoneApart'
  <2>1. \A a \in 1..DoneLen' : /\ a \in 1..DrawnLen' /\ a + 1 \in 1..DoneLen
                               /\ 1 < a + 1
    BY <1>4 DEF DoneLen, Typed
  <2>2. \A a \in 1..DoneLen' : Drawn(a)' = Drawn(a + 1)
    BY <1>5, <2>1
  <2>3. \A a \in 1..DoneLen' : Drawn(a)'.image # h.image
    BY <1>4, <1>6, <2>1, <2>2 DEF DoneApart
  <2>4. ASSUME NEW a \in 1..DoneLen', NEW b \in 1..DoneLen', a < b
        PROVE  Drawn(a)'.image # Drawn(b)'.image
    <3>1. a + 1 \in 1..DoneLen /\ b + 1 \in 1..DoneLen /\ a + 1 < b + 1
      BY <1>4, <2>4
    <3> QED
      BY <2>2, <3>1 DEF DoneApart
  <2> QED
    BY <1>1, <2>3, <2>4 DEF DoneApart
<1> QED
  BY <1>9, <1>10, <1>11, <1>12, <1>13, <1>14, <1>15, <1>16

LEMMA AcquireStep ==
  ASSUME IInv, Typed, Acquire
  PROVE  FramesOK'
<1> USE DEF IInv, FramesOK
<1>1. /\ pc = "acquire" /\ pc' = "fence" /\ held = {}
      /\ SemaphoreIndex < SemaphoreCount /\ SemaphoreIndex' = SemaphoreIndex
      /\ ImageCount' = ImageCount /\ fence' = fence /\ ready' = ready
      /\ jobs' = jobs /\ complete' = complete /\ queue' = queue
      /\ display' = display
  BY DEF Acquire, HeldOK, chain
<1>2. PICK i \in Images :
        /\ FrameIndex' = i
        /\ grants' = grants \cup {[image |-> i, sem |-> SemaphoreIndex]}
  BY DEF Acquire, Acquirable
<1>3. Images' = Images /\ FrameOK' = FrameOK /\ SemaphoreCount' = SemaphoreCount
  BY <1>1 DEF Images, FrameOK, SemaphoreCount
<1>4. /\ DrawnLen' = DrawnLen /\ DoneLen' = DoneLen
      /\ DrawnLen = Len(queue) /\ Len(queue) \in Nat
      /\ DoneLen \in Int /\ DoneLen <= DrawnLen
  BY <1>1 DEF DrawnLen, DoneLen, Unpresented, Typed
<1>5. \A k \in 1..DrawnLen : Drawn(k)' = Drawn(k)
  BY <1>1, <1>4 DEF Drawn
<1>6. \A d : Back(d)' = Back(d)
  BY <1>1, <1>3 DEF Back
<1>7. \A f : Waiting(f) => Waiting(f)'
  BY <1>1 DEF Waiting
<1>8. SemaphoreIndex \notin ready
  <2> SUFFICES ASSUME SemaphoreIndex \in ready PROVE FALSE
    OBVIOUS
  <2>1. PICK f \in FrameOK : Waiting(f) /\ f.sem = SemaphoreIndex
    BY DEF AcquiredOK
  <2>2. PICK k \in 1..Len(jobs) : f = jobs[k]
    BY <1>1, <2>1 DEF Waiting
  <2> QED
    BY <1>1, <2>1, <2>2, JobsElsewhere DEF TurnOK
<1>9. JobsDrawn'
  <2>1. \A k \in 1..Len(jobs) : DoneLen + k \in 1..DrawnLen
    BY <1>4, DoneFew DEF DoneLen
  <2> QED
    BY <1>1, <1>4, <1>5, <2>1 DEF JobsDrawn
<1>10. TurnOK'
  <2>1. Turn(1)'
    BY <1>1, <1>3, <1>4, <1>5, <1>6 DEF TurnOK, Turn
  <2> QED
    BY <1>1, <2>1 DEF TurnOK
<1>11. PositionsApart'
  BY <1>3, <1>4, <1>5 DEF PositionsApart
<1>12. FencesOK' /\ JobsApart'
  BY <1>1, <1>3 DEF FencesOK, JobsApart
<1>13. AcquiredOK'
  <2>1. ASSUME NEW g \in grants'
        PROVE  Waiting(g)' /\ g.sem \notin ready'
    <3>1. CASE g \in grants
      BY <1>1, <1>7, <3>1 DEF AcquiredOK
    <3>2. CASE g = [image |-> i, sem |-> SemaphoreIndex]
      <4>1. g = Frame'
        BY <1>1, <1>2, <3>2 DEF Frame
      <4> QED
        BY <1>1, <1>8, <3>2, <4>1 DEF Waiting
    <3> QED
      BY <1>2, <2>1, <3>1, <3>2
  <2> QED
    BY <1>1, <1>3, <1>7, <2>1 DEF AcquiredOK
<1>14. ReleasedOK' /\ DisplayOK'
  BY <1>1, <1>3, <1>4, <1>8 DEF ReleasedOK, DisplayOK
<1>15. CompleteOK' /\ DoneApart'
  <2>1. \A k \in 1..DoneLen : Drawn(k)' = Drawn(k)
    BY <1>4, <1>5
  <2> QED
    BY <1>1, <1>4, <2>1 DEF CompleteOK, DoneApart
<1> QED
  BY <1>9, <1>10, <1>11, <1>12, <1>13, <1>14, <1>15

LEMMA WaitFenceStep ==
  ASSUME IInv, Typed, WaitFence
  PROVE  FramesOK'
<1> USE DEF IInv, FramesOK
<1>1. /\ pc = "fence" /\ pc' = "submit" /\ fence[FrameIndex]
      /\ fence' = [fence EXCEPT ![FrameIndex] = FALSE]
      /\ FrameIndex' = FrameIndex /\ SemaphoreIndex' = SemaphoreIndex
      /\ ImageCount' = ImageCount /\ held' = held /\ grants' = grants
      /\ ready' = ready /\ jobs' = jobs /\ complete' = complete
      /\ queue' = queue /\ display' = display
  BY DEF WaitFence, chain
<1>2. Images' = Images /\ FrameOK' = FrameOK /\ SemaphoreCount' = SemaphoreCount
  BY <1>1 DEF Images, FrameOK, SemaphoreCount
<1>3. DrawnLen' = DrawnLen /\ DoneLen' = DoneLen /\ Frame' = Frame
  BY <1>1 DEF DrawnLen, DoneLen, Unpresented, Frame
<1>4. \A k : Drawn(k)' = Drawn(k)
  BY <1>1, <1>3 DEF Drawn
<1>5. \A d : Back(d)' = Back(d)
  BY <1>1, <1>2 DEF Back
<1>6. \A f : Waiting(f)' = Waiting(f)
  BY <1>1, <1>3 DEF Waiting
<1>7. JobsDrawn' /\ PositionsApart' /\ CompleteOK' /\ DoneApart'
  BY <1>1, <1>2, <1>3, <1>4 DEF JobsDrawn, PositionsApart, CompleteOK, DoneApart
<1>8. TurnOK'
  <2>1. Turn(1)' <=> Turn(1)
    BY <1>2, <1>3, <1>4, <1>5 DEF Turn
  <2> QED
    BY <1>1, <2>1 DEF TurnOK
<1>9. \A k \in 1..Len(jobs) : jobs[k].image # FrameIndex
  BY <1>1 DEF FencesOK, Typed
<1>10. JobsApart'
  BY <1>1, <1>9 DEF JobsApart
<1>11. FencesOK'
  <2> SUFFICES ASSUME NEW i \in Images
               PROVE  fence'[i] <=> /\ i # FrameIndex
                                    /\ \A k \in 1..Len(jobs) : jobs[k].image # i
    BY <1>1, <1>2 DEF FencesOK
  <2>1. CASE i = FrameIndex
    BY <1>1, <2>1 DEF TypeOK
  <2>2. CASE i # FrameIndex
    <3>1. fence'[i] <=> fence[i]
      BY <1>1, <2>2 DEF TypeOK
    <3> QED
      BY <1>1, <2>2, <3>1 DEF FencesOK
  <2> QED
    BY <2>1, <2>2
<1>12. AcquiredOK' /\ ReleasedOK' /\ DisplayOK'
  BY <1>1, <1>2, <1>3, <1>6 DEF AcquiredOK, ReleasedOK, DisplayOK
<1> QED
  BY <1>7, <1>8, <1>10, <1>11, <1>12

LEMMA SubmitStep ==
  ASSUME IInv, Typed, Submit
  PROVE  FramesOK'
<1> USE DEF IInv, FramesOK
<1> DEFINE n == Len(jobs)
<1>1. /\ pc = "submit" /\ pc' = "present" /\ held # {}
      /\ jobs' = Append(jobs, Frame) /\ SemaphoreIndex < SemaphoreCount
      /\ FrameIndex' = FrameIndex /\ SemaphoreIndex' = SemaphoreIndex
      /\ ImageCount' = ImageCount /\ held' = held /\ grants' = grants
      /\ ready' = ready /\ fence' = fence /\ complete' = complete
      /\ queue' = queue /\ display' = display
  BY DEF Submit, HeldOK, IndexOK, chain
<1>2. /\ Frame \in FrameOK /\ Frame.image = FrameIndex
      /\ Frame.sem = SemaphoreIndex
  BY <1>1 DEF Typed, Frame
<1>3. /\ n \in Nat /\ Len(jobs') = n + 1 /\ jobs'[n + 1] = Frame
      /\ \A k \in 1..n : jobs'[k] = jobs[k]
  BY <1>1, <1>2, AppendProperties DEF Typed, TypeOK
<1>4. /\ Images' = Images /\ FrameOK' = FrameOK /\ SemaphoreCount' = SemaphoreCount
      /\ Frame' = Frame
  BY <1>1 DEF Images, FrameOK, SemaphoreCount, Frame
<1>5. /\ DrawnLen = Len(queue) /\ DrawnLen \in Nat /\ DrawnLen' = DrawnLen + 1
      /\ DoneLen' = DoneLen /\ DoneLen = DrawnLen - n /\ DoneLen \in Nat
  <2>1. DrawnLen = Len(queue) /\ DrawnLen' = Len(queue) + 1
    BY <1>1 DEF DrawnLen, Unpresented, Typed
  <2>2. DoneLen = DrawnLen - n /\ DoneLen' = DrawnLen' - (n + 1)
    BY <1>3 DEF DoneLen
  <2> QED
    BY <1>3, <2>1, <2>2, DoneFew DEF Typed
<1>6. /\ \A k \in 1..DrawnLen : Drawn(k)' = Drawn(k)
      /\ \A k : k = DrawnLen + 1 => Drawn(k)' = Frame
  BY <1>1, <1>4, <1>5 DEF Drawn
<1>7. \A d : Back(d)' = Back(d)
  BY <1>1, <1>4 DEF Back
<1>8. \A f : Waiting(f) => Waiting(f)'
  <2> SUFFICES ASSUME NEW f, Waiting(f)
               PROVE  \E k \in 1..Len(jobs') : f = jobs'[k]
    BY DEF Waiting
  <2> QED
    BY <1>3 DEF Waiting
<1>9. JobsDrawn'
  <2>1. ASSUME NEW k \in 1..n + 1
        PROVE  jobs'[k] = Drawn(DoneLen + k)'
    <3>1. CASE k = n + 1
      <4>1. DoneLen' + k = DrawnLen + 1
        BY <1>3, <1>5, <3>1
      <4> QED
        BY <1>3, <1>6, <3>1, <4>1
    <3>2. CASE k \in 1..n
      <4>1. DoneLen + k \in 1..DrawnLen
        BY <1>3, <1>5, <3>2
      <4> QED
        BY <1>3, <1>5, <1>6, <3>2, <4>1 DEF JobsDrawn
    <3> QED
      BY <1>3, <3>1, <3>2
  <2>2. n + 1 <= DrawnLen'
    BY <1>3, <1>5
  <2> QED
    BY <1>3, <2>1, <2>2 DEF JobsDrawn
<1>10. Turn(1)
  BY <1>1 DEF TurnOK
<1>11. TurnOK'
  <2>1. ASSUME NEW k \in 1..DrawnLen + 1,
               DrawnLen + 1 - k + 0 < SemaphoreCount
        PROVE  Drawn(k)'.sem = Back(DrawnLen + 1 - k + 0)
    <3>1. CASE k = DrawnLen + 1
      <4>1. Back(0) = SemaphoreIndex
        BY DEF Back, Typed
      <4> QED
        BY <1>2, <1>5, <1>6, <3>1, <4>1
    <3>2. CASE k \in 1..DrawnLen
      <4>1. DrawnLen - k + 1 = DrawnLen + 1 - k + 0
        BY <1>5
      <4> QED
        BY <1>6, <1>10, <2>1, <3>2, <4>1 DEF Turn
    <3> QED
      BY <1>5, <3>1, <3>2
  <2>2. Turn(0)'
    BY <1>4, <1>5, <1>7, <2>1 DEF Turn
  <2> QED
    BY <1>1, <2>2 DEF TurnOK
<1>12. PositionsApart'
  <2> SUFFICES ASSUME NEW a \in 1..DrawnLen + 1, NEW b \in 1..DrawnLen + 1,
                      a < b, b - a < SemaphoreCount
               PROVE  Drawn(a)'.sem # Drawn(b)'.sem
    BY <1>4, <1>5 DEF PositionsApart
  <2>1. CASE b = DrawnLen + 1
    <3>1. /\ a \in 1..DrawnLen /\ DrawnLen - a + 1 = b - a
          /\ b - a \in 1..ImageCount
      BY <1>5, <2>1 DEF Typed
    <3>2. Drawn(a).sem = Back(b - a)
      BY <1>10, <3>1 DEF Turn
    <3> QED
      BY <1>2, <1>6, <2>1, <3>1, <3>2, BackApart
  <2>2. CASE b \in 1..DrawnLen
    <3>1. a \in 1..DrawnLen
      BY <1>5, <2>2
    <3> QED
      BY <1>6, <2>2, <3>1 DEF PositionsApart
  <2> QED
    BY <1>5, <2>1, <2>2
<1>13. JobsApart'
  <2>1. ASSUME NEW a \in 1..n + 1, NEW b \in 1..n + 1, a < b
        PROVE  jobs'[a].image # jobs'[b].image
    <3>1. a \in 1..n
      BY <1>3, <2>1
    <3> QED
      BY <1>1, <1>2, <1>3, <2>1, <3>1 DEF JobsApart
  <2> QED
    BY <1>1, <1>3, <2>1 DEF JobsApart
<1>14. FencesOK'
  <2> SUFFICES ASSUME NEW i \in Images
               PROVE  fence[i] <=> \A k \in 1..n + 1 : jobs'[k].image # i
    BY <1>1, <1>3, <1>4 DEF FencesOK
  <2>1. (\A k \in 1..n + 1 : jobs'[k].image # i)
          <=> i # FrameIndex /\ \A k \in 1..n : jobs[k].image # i
    <3>1. \A k \in 1..n + 1 : k = n + 1 \/ k \in 1..n
      BY <1>3
    <3>2. n + 1 \in 1..n + 1 /\ \A k \in 1..n : k \in 1..n + 1
      BY <1>3
    <3> QED
      BY <1>2, <1>3, <3>1, <3>2
  <2> QED
    BY <1>1, <2>1 DEF FencesOK
<1>15. AcquiredOK'
  BY <1>1, <1>4, <1>8 DEF AcquiredOK
<1>16. ReleasedOK' /\ DisplayOK'
  <2>1. ASSUME NEW k \in 1..n + 1, jobs'[k].sem \in ready
        PROVE  /\ \A q \in 1..Len(queue) :
                    queue[q].image = jobs'[k].image => queue[q].sem = jobs'[k].sem
               /\ display = jobs'[k].image => DoneLen + k >= SemaphoreCount
    <3>1. CASE k = n + 1
      <4>1. DoneLen + k = DrawnLen + 1
        BY <1>3, <1>5, <3>1
      <4> QED
        BY <1>1, <1>2, <1>3, <2>1, <3>1, <4>1 DEF ReleasedOK, DisplayOK
    <3>2. CASE k \in 1..n
      BY <1>3, <2>1, <3>2 DEF ReleasedOK, DisplayOK
    <3> QED
      BY <1>3, <3>1, <3>2
  <2>2. ReleasedOK'
    BY <1>1, <1>3, <2>1 DEF ReleasedOK
  <2>3. DisplayOK'
    BY <1>1, <1>3, <1>4, <1>5, <2>1 DEF DisplayOK
  <2> QED
    BY <2>2, <2>3
<1>17. CompleteOK' /\ DoneApart'
  <2>1. \A k \in 1..DoneLen : Drawn(k)' = Drawn(k)
    BY <1>3, <1>5, <1>6
  <2> QED
    BY <1>1, <1>5, <2>1 DEF CompleteOK, DoneApart
<1> QED
  BY <1>9, <1>11, <1>12, <1>13, <1>14, <1>15, <1>16, <1>17

LEMMA PresentStep ==
  ASSUME IInv, Typed, Present
  PROVE  FramesOK'
<1> USE DEF IInv, FramesOK
<1>1. /\ pc = "present" /\ pc' = "poll" /\ ~g_SwapChainRebuild
      /\ held # {} /\ held' = {} /\ queue' = Append(queue, Frame)
      /\ SemaphoreIndex < SemaphoreCount /\ FrameIndex' = FrameIndex
      /\ ImageCount' = ImageCount /\ jobs' = jobs /\ grants' = grants
      /\ ready' = ready /\ fence' = fence /\ complete' = complete
      /\ display' = display
  BY DEF Present, HeldOK, IndexOK, chain
<1>2. /\ Frame \in FrameOK /\ Frame.image = FrameIndex
      /\ Frame.sem = SemaphoreIndex
  BY <1>1 DEF Typed, Frame
<1>3. /\ Len(queue) \in Nat /\ Len(queue') = Len(queue) + 1
      /\ queue'[Len(queue) + 1] = Frame
      /\ \A k \in 1..Len(queue) : queue'[k] = queue[k]
  BY <1>1, <1>2, AppendProperties DEF Typed, TypeOK
<1>4. Images' = Images /\ FrameOK' = FrameOK /\ SemaphoreCount' = SemaphoreCount
  BY <1>1 DEF Images, FrameOK, SemaphoreCount
<1>5. /\ DrawnLen = Len(queue) + 1 /\ DrawnLen' = DrawnLen
      /\ DoneLen' = DoneLen /\ DoneLen \in Nat /\ DoneLen <= DrawnLen
      /\ DoneLen = DrawnLen - Len(jobs) /\ Len(jobs) \in Nat
  <2>1. DrawnLen = Len(queue) + 1 /\ DrawnLen' = DrawnLen
    BY <1>1, <1>3 DEF DrawnLen, Unpresented
  <2>2. DoneLen = DrawnLen - Len(jobs) /\ DoneLen' = DoneLen
    BY <1>1, <2>1 DEF DoneLen
  <2> QED
    BY <2>1, <2>2, DoneFew DEF JobsDrawn, Typed
<1>6. \A k \in 1..DrawnLen : Drawn(k)' = Drawn(k)
  BY <1>1, <1>3, <1>5 DEF Drawn
<1>7. \A f : Waiting(f)' = Waiting(f)
  BY <1>1 DEF Waiting
<1>8. JobsDrawn'
  <2>1. \A k \in 1..Len(jobs) : DoneLen + k \in 1..DrawnLen
    BY <1>5
  <2> QED
    BY <1>1, <1>5, <1>6, <2>1 DEF JobsDrawn
<1>9. TurnOK'
  <2>1. CASE g_SwapChainRebuild'
    BY <1>1, <2>1 DEF TurnOK
  <2>2. CASE ~g_SwapChainRebuild'
    <3>1. SemaphoreIndex' = Advance
      BY <2>2 DEF Present
    <3>2. SemaphoreIndex' = IF SemaphoreIndex + 1 = SemaphoreCount
                              THEN 0 ELSE SemaphoreIndex + 1
      <4>1. SemaphoreCount \in Nat \ {0} /\ SemaphoreIndex \in 0..SemaphoreCount - 1
        BY <1>1 DEF Typed
      <4> QED
        BY <3>1, <4>1, Wraps DEF Advance
    <3>3. \A d \in 0..ImageCount - 1 : \A e : e = d + 1 => Back(e)' = Back(d)
      BY <1>1, <1>4, <3>2 DEF Back, Typed
    <3>4. ASSUME NEW k \in 1..DrawnLen, NEW e, e = DrawnLen - k + 1,
                 e < SemaphoreCount
          PROVE  Drawn(k).sem = Back(e)'
      <4>1. /\ DrawnLen - k \in 0..ImageCount - 1 /\ e = (DrawnLen - k) + 1
            /\ DrawnLen - k + 0 = DrawnLen - k
        BY <1>5, <3>4 DEF Typed
      <4>2. Drawn(k).sem = Back(DrawnLen - k)
        BY <1>1, <4>1 DEF TurnOK, Turn, Typed
      <4> QED
        BY <3>3, <4>1, <4>2
    <3>5. Turn(1)'
      BY <1>4, <1>5, <1>6, <3>4 DEF Turn
    <3> QED
      BY <1>1, <3>5 DEF TurnOK
  <2> QED
    BY <2>1, <2>2
<1>10. PositionsApart'
  BY <1>4, <1>5, <1>6 DEF PositionsApart
<1>11. FencesOK' /\ JobsApart' /\ AcquiredOK' /\ DisplayOK'
  BY <1>1, <1>4, <1>5, <1>7 DEF FencesOK, JobsApart, AcquiredOK, DisplayOK
<1>12. ReleasedOK'
  <2> SUFFICES ASSUME NEW k \in 1..Len(jobs), jobs[k].sem \in ready,
                      NEW q \in 1..Len(queue'), queue'[q].image = jobs[k].image
               PROVE  queue'[q].sem = jobs[k].sem
    BY <1>1 DEF ReleasedOK
  <2>1. CASE q \in 1..Len(queue)
    BY <1>3, <2>1 DEF ReleasedOK
  <2>2. CASE q = Len(queue) + 1
    <3>1. Len(jobs) \in 1..Len(jobs) /\ DoneLen + Len(jobs) = Len(queue) + 1
      BY <1>5
    <3>2. jobs[Len(jobs)] = Frame
      BY <1>3, <3>1 DEF JobsDrawn, Drawn
    <3>3. ~(k < Len(jobs))
      BY <1>3, <2>2, <3>1, <3>2 DEF JobsApart
    <3>4. k = Len(jobs)
      BY <1>5, <3>3
    <3> QED
      BY <1>3, <2>2, <3>2, <3>4
  <2> QED
    BY <1>3, <2>1, <2>2
<1>13. CompleteOK' /\ DoneApart'
  <2>1. \A k \in 1..DoneLen : Drawn(k)' = Drawn(k)
    BY <1>5, <1>6
  <2> QED
    BY <1>1, <1>5, <2>1 DEF CompleteOK, DoneApart
<1> QED
  BY <1>8, <1>9, <1>10, <1>11, <1>12, <1>13

\* A new swap chain, or none: nothing is on its way.
LEMMA EmptiedStep ==
  ASSUME IInv, Typed, Rebuild \/ Cleanup
  PROVE  FramesOK'
<1> USE DEF IInv, FramesOK
<1>1. /\ jobs' = << >> /\ queue' = << >> /\ jobs = << >>
      /\ held' = {} /\ grants' = {} /\ ready' = {} /\ complete' = {}
      /\ pc' \in {"acquire", "released"} /\ pc # "submit"
  BY DEF Rebuild, Cleanup, NewChain, Idle
<1>2. /\ Len(jobs') = 0 /\ Len(queue') = 0 /\ DrawnLen' = 0 /\ DoneLen' = 0
      /\ Len(jobs) = 0
  BY <1>1, EmptySeq DEF DrawnLen, DoneLen, Unpresented
<1>3. JobsDrawn' /\ TurnOK' /\ PositionsApart' /\ JobsApart' /\ DoneApart'
  BY <1>1, <1>2 DEF JobsDrawn, TurnOK, Turn, PositionsApart, JobsApart, DoneApart
<1>4. AcquiredOK' /\ ReleasedOK' /\ DisplayOK' /\ CompleteOK'
  BY <1>1, <1>2 DEF AcquiredOK, ReleasedOK, DisplayOK, CompleteOK
<1>5. FencesOK'
  <2>1. CASE Rebuild
    <3>1. fence' = [i \in Images' |-> TRUE]
      BY <2>1, Zenon DEF Rebuild, NewChain, Images
    <3>2. \A i \in Images' : fence'[i]
      BY <3>1, Zenon
    <3> QED
      BY <1>1, <1>2, <3>2 DEF FencesOK
  <2>2. CASE Cleanup
    <3>1. fence' = fence /\ Images' = Images
      BY <2>2 DEF Cleanup, chain, Images
    <3> QED
      BY <1>1, <1>2, <3>1 DEF FencesOK
  <2> QED
    BY <2>1, <2>2
<1> QED
  BY <1>3, <1>4, <1>5

LEMMA NextIInv == IInv /\ [Next]_vars => IInv'
<1> SUFFICES ASSUME IInv, [Next]_vars PROVE IInv'
  OBVIOUS
<1>1. Typed /\ TypeOK /\ IndexOK /\ HeldOK
  BY TypedFrames DEF IInv
<1>2. TypeOK' /\ IndexOK' /\ HeldOK'
  BY <1>1, TypeStep, ControlStep
<1>3. CASE Resize \/ Leave \/ Poll \/ Keep \/ Abort \/ AcquireOutOfDate
           \/ SkipPresent \/ UNCHANGED vars
  <2>1. UNCHANGED <<FrameIndex, SemaphoreIndex, ImageCount, device>>
    BY <1>3 DEF Resize, Leave, Poll, Keep, Abort, AcquireOutOfDate, SkipPresent,
       vars, loop, chain
  <2>2. \/ pc' = pc /\ g_SwapChainRebuild' = g_SwapChainRebuild
        \/ pc' = "size" /\ pc = "poll"
           /\ g_SwapChainRebuild' = g_SwapChainRebuild
        \/ pc' = "acquire" /\ pc = "size" /\ ~g_SwapChainRebuild
        \/ /\ pc \notin {"fence", "submit"}
           /\ pc' \in {"left", "aborted"} \/ g_SwapChainRebuild'
           /\ pc' \in {"left", "aborted", "present", "poll"}
    BY <1>3 DEF Resize, Leave, Poll, Keep, Stale, Abort, AcquireOutOfDate,
       SkipPresent, vars, loop
  <2> QED
    BY <1>1, <1>2, <2>1, <2>2, CalmStep DEF IInv
<1>4. CASE Grant \/ Render \/ Show
  BY <1>1, <1>2, <1>4, GrantStep, RenderStep, ShowStep DEF IInv
<1>5. CASE Acquire \/ WaitFence \/ Submit \/ Present
  BY <1>1, <1>2, <1>5, AcquireStep, WaitFenceStep, SubmitStep, PresentStep DEF IInv
<1>6. CASE Rebuild \/ Cleanup
  BY <1>1, <1>2, <1>6, EmptiedStep DEF IInv
<1> QED
  BY <1>3, <1>4, <1>5, <1>6 DEF Next, DrawLoop

-----------------------------------------------------------------------------
(* The theorems. *)

\* The inductive invariant holds of every behaviour of the loop, the GPU and
\* the display.
THEOREM Inductive == Spec => []IInv
<1> QED
  BY InitIInv, NextIInv, PTL DEF Spec

\* Every variable of DrawLoop and of what it shares with the device keeps its
\* type; in particular an image index is always one of the present swap chain.
THEOREM TypeCorrect == Spec => []TypeOK
<1>1. IInv => TypeOK
  BY DEF IInv
<1> QED
  BY <1>1, Inductive, PTL

\* FrameRender hands vkAcquireNextImageKHR a semaphore with nothing left of the
\* frame that used it before.
THEOREM AcquiredSemaphoreFree == Spec => []AcquiredFree
<1>1. IInv => AcquiredFree
  <2> SUFFICES ASSUME IInv, pc = "acquire"
               PROVE  /\ \A k \in 1..Len(jobs) : jobs[k].sem # SemaphoreIndex
                      /\ \A f : Waiting(f) => f.sem # SemaphoreIndex
                      /\ SemaphoreIndex \notin
                           ready \cup Uses(grants) \cup Uses(Entries(jobs))
    BY DEF AcquiredFree
  <2>1. Typed
    BY TypedFrames DEF IInv
  <2>2. \A k \in 1..Len(jobs) : jobs[k].sem # SemaphoreIndex
    BY <2>1, JobsElsewhere DEF IInv, FramesOK, TurnOK
  <2>3. \A f : Waiting(f) => f.sem # SemaphoreIndex
    BY <2>2 DEF Waiting
  <2>4. SemaphoreIndex \notin ready /\ SemaphoreIndex \notin Uses(grants)
    BY <2>3 DEF IInv, FramesOK, AcquiredOK, Uses
  <2>5. SemaphoreIndex \notin Uses(Entries(jobs))
    BY <2>2, LenProperties DEF IInv, TypeOK, Uses, Entries
  <2> QED
    BY <2>2, <2>3, <2>4, <2>5
<1> QED
  BY <1>1, Inductive, PTL

\* A job signals its render-complete semaphore only when the presentation of
\* the frame that used it before has taken the last signal.
THEOREM RenderedSemaphoreFree == Spec => []RenderedFree
<1>1. IInv => RenderedFree
  <2> SUFFICES ASSUME IInv, jobs # << >>, Head(jobs).sem \in ready
               PROVE  Head(jobs).sem \notin complete
    BY DEF RenderedFree, MayRender
  <2>1. \A a \in 1..DoneLen : Drawn(a).sem # Head(jobs).sem
    BY OldestJob, TypedFrames DEF IInv
  <2> QED
    BY <2>1 DEF IInv, FramesOK, CompleteOK
<1> QED
  BY <1>1, Inductive, PTL

\* The wait of FrameRender on a fence, which has no time limit, is for a job
\* the GPU has.
THEOREM FencesSignal == Spec => []FenceSignals
<1>1. IInv => FenceSignals
  <2> SUFFICES ASSUME IInv, NEW i \in Images, ~fence[i],
                      ~(pc = "submit" /\ i = FrameIndex)
               PROVE  \E j \in Entries(jobs) : j.image = i
    BY DEF FenceSignals
  <2>1. PICK k \in 1..Len(jobs) : jobs[k].image = i
    BY DEF IInv, FramesOK, FencesOK
  <2>2. DOMAIN jobs = 1..Len(jobs)
    BY LenProperties DEF IInv, TypeOK
  <2> QED
    BY <2>1, <2>2 DEF Entries
<1> QED
  BY <1>1, Inductive, PTL

\* FrameRender resets no command pool whose buffer the GPU still executes.
THEOREM CommandPoolIdle == Spec => []PoolIdle
<1>1. IInv => PoolIdle
  <2> SUFFICES ASSUME IInv, pc = "submit", NEW j \in Entries(jobs)
               PROVE  j.image # FrameIndex
    BY DEF PoolIdle
  <2>1. PICK k \in 1..Len(jobs) : j = jobs[k]
    BY LenProperties DEF IInv, TypeOK, Entries
  <2> QED
    BY <2>1 DEF IInv, FramesOK, JobsApart
<1> QED
  BY <1>1, Inductive, PTL

\* The renderer writes to no vertex buffer that a frame in flight reads, as
\* long as no swap chain has more images than the first.
THEOREM VertexBufferFree == Spec => []BufferFree
<1>1. IInv => BufferFree
  <2> SUFFICES ASSUME IInv, pc = "submit", ImageCount <= Count
               PROVE  Len(jobs) < Count
    BY DEF BufferFree
  <2>1. Typed /\ JobsApart
    BY TypedFrames DEF IInv, FramesOK
  <2>2. Len(jobs) < ImageCount
    BY <2>1, JobsFew
  <2>3. Count \in 2..15
    BY FrameLoopAssumption DEF IInv, TypeOK
  <2> QED
    BY <2>1, <2>2, <2>3 DEF Typed
<1> QED
  BY <1>1, Inductive, PTL

\* Whenever FrameRender asks for an image, for which there is no time limit,
\* the display has one to give: the loop holds none and two are enough.
THEOREM ImageToAcquire == Spec => []CanAcquire
<1>1. IInv => CanAcquire
  <2> SUFFICES ASSUME IInv, pc = "acquire" PROVE Acquirable # {}
    BY DEF CanAcquire
  <2>1. held = {}
    BY DEF IInv, HeldOK
  <2>2. 0 \in Images /\ 1 \in Images
    <3>1. Typed
      BY TypedFrames DEF IInv
    <3>2. ImageCount \in 2..15 /\ Images = 0..ImageCount - 1
      BY <3>1 DEF Typed
    <3> QED
      BY <3>2, FirstTwo, Zenon
  <2>3. 0 # LastShown \/ 1 # LastShown
    OBVIOUS
  <2> QED
    BY <2>1, <2>2, <2>3 DEF Acquirable
<1> QED
  BY <1>1, Inductive, PTL

\* The GPU starts on no frame whose image is on display.
THEOREM NoImageTorn == Spec => []NoTornImage
<1>1. IInv => NoTornImage
  BY OldestJob, TypedFrames DEF IInv, NoTornImage, MayRender
<1> QED
  BY <1>1, Inductive, PTL

\* SemaphoreIndex is left outside of the ring it indexes, where ImVector's
\* assertion ends the process, only by a swap chain with fewer images.
THEOREM OnlyFewerImages == Spec => IndexLeavesRange
<1>1. TypeOK /\ IndexOK /\ [Next]_vars
        => [ SemaphoreIndex < SemaphoreCount /\ SemaphoreIndex' >= SemaphoreCount'
               => ImageCount' < ImageCount ]_vars
  <2>0. SUFFICES ASSUME TypeOK, IndexOK, Next, SemaphoreIndex < SemaphoreCount,
                        SemaphoreIndex' >= SemaphoreCount'
                 PROVE  ImageCount' < ImageCount
    OBVIOUS
  <2>1. /\ SemaphoreIndex \in Nat /\ ImageCount \in Nat
        /\ SemaphoreCount = ImageCount + 1 /\ SemaphoreCount' = ImageCount' + 1
    <3>1. Typed
      BY <2>0, TypedFrames
    <3> QED
      BY <3>1 DEF Typed, SemaphoreCount
  <2>2. CASE Present
    <3>1. SemaphoreIndex \in 0..SemaphoreCount - 1 /\ SemaphoreCount \in Nat \ {0}
      BY <2>0, <2>1
    <3>2. Advance \in 0..SemaphoreCount - 1
      BY <3>1, Wraps DEF Advance
    <3>3. ImageCount' = ImageCount
      BY <2>2 DEF Present, chain
    <3>4. SemaphoreIndex' = Advance \/ SemaphoreIndex' = SemaphoreIndex
      BY <2>2 DEF Present
    <3> QED
      BY <2>0, <2>1, <3>1, <3>2, <3>3, <3>4
  <2>3. CASE Rebuild
    <3>1. SemaphoreIndex' = SemaphoreIndex /\ ImageCount' \in Nat
      BY <2>3, FrameLoopAssumption DEF Rebuild, NewChain
    <3>2. \A n \in Nat : SemaphoreIndex >= n + 1 => n < ImageCount
      BY <2>0, <2>1
    <3>3. SemaphoreIndex >= ImageCount' + 1
      BY <2>0, <2>1, <3>1, Zenon
    <3> QED
      BY <3>1, <3>2, <3>3, Zenon
  <2>4. CASE ~Present /\ ~Rebuild
    <3>1. UNCHANGED <<SemaphoreIndex, ImageCount>>
      BY <2>0, <2>4 DEF Next, loop, chain, Resize, Grant, Render, Show, DrawLoop,
         Leave, Poll, Keep, Abort, Acquire, AcquireOutOfDate, WaitFence, Submit,
         SkipPresent, Cleanup
    <3> QED
      BY <2>0, <2>1, <3>1
  <2> QED
    BY <2>0, <2>2, <2>3, <2>4
<1>2. IInv => TypeOK /\ IndexOK
  BY DEF IInv
<1> QED
  BY <1>1, <1>2, Inductive, PTL DEF Spec, IndexLeavesRange
=============================================================================
