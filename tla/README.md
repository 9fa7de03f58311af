# January in TLA+

A TLA+ model of January (`src/src`), a desktop content-creation tool in C++ on
SDL3, Vulkan and Dear ImGui, with the parts of its vendored libraries whose
behaviour it depends on: the directory watcher `filewatch/FileWatch.hpp`, the
swap-chain helper of `imgui_impl_vulkan.cpp` and the parser
`argh/argh.h`. Other vendored code is external.

## 1. Inventory

`main` parses the command line, opens a window, starts a draw thread and an
update thread, joins them when the window is closed, and releases what it
opened. The draw thread polls events, draws every view and renders a frame; the
update thread updates every view, as fast as it can. The one view that exists
is the explorer, which lists a directory and has a watcher (two more threads)
tell it when the directory changes.

| Component | State | Operations | Talks to |
|---|---|---|---|
| Process, threads, main loop (`main.cpp`, `window.cpp` 310-325, 385-540) | `g_done`, the three threads | `JInit`, `JMainloop`, `JDeInit`, the loops' tests of `g_done` | everything below; joins both loops |
| Vulkan instance and device (`window.cpp` 14-214) | instance, device, descriptor pool, surface, window data | `SetupVulkan`, `SetupVulkanWindow`, `CleanupVulkan`, `CleanupVulkanWindow` | `JInit`, `JDeInit`, the driver |
| Frame loop and swap chain (`window.cpp` 165-383, `imgui_impl_vulkan.cpp` 1587-1921) | `FrameIndex`, `SemaphoreIndex`, `ImageCount`, `g_SwapChainRebuild`, fences, semaphores | `DrawLoop`, `FrameRender`, `FramePresent`, `CreateOrResizeWindow` | GPU and display, asynchronously |
| Explorer view (`explorer.cpp`) | `path`, `changed`, `files`, `init`, `watcher` | `Update` (update thread), `Draw` (draw thread), callback (watcher's thread) | file system, watcher, user |
| Directory watcher (`FileWatch.hpp`) | inotify watch, `_destory`, `_callback_mutex`, `_callback_information`, a condition variable | constructor, watch thread, callback thread, destructor | kernel, explorer |
| Engine dispatch (`engine.cpp` 100-124, `mainframe.cpp` 144-162) | the list of views, a clock | `EngineUpdate`, `EngineDraw` | the views |
| Configuration (`engine.cpp` 22-56, `path.cpp`) | `~/january/config.json` | `LoadAppConfig`; `SaveAppConfig` is empty | file system, other instances |
| Pages and views (`context.h`, `mainframe.cpp` 164-211) | page type, views | `EngineInit`, `UIGenerateViews`, `UILoadPageFromDisk` | configuration |
| Command line (`cli.cpp`, `argh.h`) | argh's flags and parameters, `project_path`, the title | `InitCMD`, `GetCMDFlag`, `GetCMDParam`, `GenerateAppContext` | main, engine |
| Status bar, other views, fonts | none of their own | menu items without effect, empty windows | |

What is hard in it, and what makes each part correct:

* **Directory watcher.** Three threads, a mutex, a condition variable, a read
  without a time limit. No change may be lost, repeated or reordered; a sleeping
  callback thread must not miss changes; the destructor must end both threads
  and return.
* **Explorer.** `changed`, `path` and `files` are shared by three threads without
  protection, and the file system changes under all of them. The list must show
  the watched directory, be refreshed when that changes, answer an Enter, and
  come to rest.
* **Frame loop.** CPU, GPU and display overlap by several frames; fences go by
  image, semaphores by frame. Nothing may be reused while its last user has it,
  and neither wait without a time limit may be for something that cannot come,
  through suboptimal and out-of-date results, resizes and the end.
* **Main loop.** The loops use what `main` releases; closing the window is seen
  by one thread only and must end all of them. `JDeInit` releases ten things in
  an order of its own, partly inside ImGui: nothing may outlive what it needs.
* **Configuration.** A file is created in two steps; a crash or a second
  instance may fall between. A later start must cope.
* **Command line.** What an argument means depends on its neighbours, on the
  parser's mode and on the order of a map. It must not depend on more, and the
  use that the help text describes must work wherever an option stands.
* **Pages.** Sequential; the page tested for and the page loaded are named by two
  different fields.

PROJECT.json lists every hazard at its line with the properties that cover it, or says why
none does.

## 2. Modules

| Module | Models | Extends or instantiates |
|---|---|---|
| `DirectoryWatch` | what a watcher promises: recorded changes are delivered in order while it lives | |
| `FileWatch` | the watcher's threads, step by step | instantiates `DirectoryWatch` |
| `FileWatch_proofs` | its theorems | `FileWatch` |
| `Explorer` | `Update`, `Draw` and the callback over a changing file system | |
| `Explorer_proofs` | its theorems | `Explorer` |
| `WatchedExplorer` | the explorer with the threaded watcher, step by step | instantiates `Explorer` and `FileWatch` |
| `WatchedExplorer_proofs` | its theorems | `WatchedExplorer`; instantiates `FileWatch_proofs` and `Explorer_proofs` |
| `FrameLoop` | frames, swap chain, GPU and display | |
| `FrameLoop_proofs` | its theorems on what is reused | `FrameLoop` |
| `FrameLoopProgress_proofs` | its theorems on what is waited for | `FrameLoop_proofs` |
| `MainLoop` | the life of the process, of its threads and of what they use | |
| `MainLoop_proofs` | its theorems | `MainLoop` |
| `AppConfig` | `EngineInit` of several instances over one `~/january` | |
| `AppConfig_proofs` | its theorems | `AppConfig` |
| `CommandLine` | the parse and what `EngineInit` takes from it | |
| `CommandLine_proofs` | its theorems | `CommandLine` |

The modules meet through promises. `FileWatch` is the detail: it shows what a
watcher delivers and when its destructor blocks. `Explorer` takes from it that
recorded changes are delivered (merged, or dropped behind others that are), that
none is after the deletion, and that the deletion may block after a delivery (a
lost notification) or must block once `IN_IGNORED` has been read.
`WatchedExplorer` puts the two together and shows that `Explorer` has taken no
more than `FileWatch` gives; its theorems carry over what is proved of both.
`MainLoop` takes from `Explorer` that an update may block there or throw, and from
`FrameLoop` that frames end.

Definitions whose name has an underscore and a suffix, marked "Mutant", are not
part of a specification: each is a plausible fault of the definition that
follows it, and shows that a property can tell the difference.

### FileWatch

One variable per field (`running`, `_destory`, `_callback_information`, the mutex
as its holder), the locals that carry changes (`parsed`, `batch`), the kernel's
queue, and a program counter for owner, watch thread and callback thread. A step
is one access to shared state. The wait on the condition variable is split into
predicate, gap, blocked and woken, because the destructor notifies without the
mutex and a notification in the gap is lost; spurious wake-ups are an action. The
kernel merges a record with an equal newest one. Renames (`Move`) are outside the
mask at line 279 and record nothing. A removed directory loses its watch and
queues `IN_IGNORED`, which is what ends the blocking `read()`.

The kernel's queue holds `MaxQueued` records (16384 in Linux). A change behind a
full queue is dropped and a nameless `IN_Q_OVERFLOW` queued; the nameless record
passes through the loop at line 629 without a callback, as `IN_IGNORED` does.
`unseen` remembers that a dropped change has had no delivery after it, which is
what a listing on every callback would need.

Abstractions: a change is a member of `Events`; the regular
expression, single-file and copying features, which `src/src` does not use, and
the Windows and macOS branches are left out.

### Explorer

`Update` is twelve steps between which the draw thread, the callback and other
processes may act: the test of `changed`, the two `exists`, the read of `path`,
deletion and creation of the watcher, `clear`, begin and end of the iteration,
and the assignment `changed = false` that ends it. `Draw` raises the flag in its
first frame, writes the field's text to `path` key by key (InputText is given
`path.data()`) and iterates over `files`. A directory's content is a version
number, so "fresh" is an equality of versions; the file system is a project
directory with one subdirectory and one regular file, and the root. The empty
text is written `"blank"`.

A frame in a window narrower than one button of the grid (375 pixels at the
initial size) divides by zero at `explorer.cpp:132` if a list is shown:
`drawing = "narrow"`. Of the layout this is all that is modelled.

Iterating over `files` while `Update` changes it is undefined; the model lets
such a frame (`drawing = "torn"`) end normally or end the process. The
exceptions that nothing catches end the process: `pc = "crashed"`. Some come of
what other processes do meanwhile (a watcher on a vanished directory, the size of a
vanished entry), one of a regular file in the path field, and some strike with the
file system at rest: `faulty` is the set of directories that are there and on which a
call may throw all the same. Such a directory cannot be reached (`exists` throws when
it cannot tell, also the one in `Draw`: `DrawThrows`), may not be watched or has no watch or
inotify instance left for it (`CreateWatcher`, `FileWatch.hpp` 577-611), may
not be read (`FetchBegin`), or has an entry that is no directory and has no
size, such as a broken link, a socket, a pipe or a device (`FetchEnd`). Which of these
it is is not told apart, so every call on a faulty directory may throw or succeed.
What is in the project directory is reached through it, and so has its faults
(`Troubled`). `Alter` makes directories faulty or sound.

`InputText` is told that `path.data()` holds 512 bytes (`explorer.cpp:93`); the string
holds 15 in itself. A longer text overwrites the fields behind it, which ends the
process or leaves it in any state; this is left out, and every property of the
explorer is for texts that fit.

The variables `raised`, `lost`, `missed`, `entered` and `fell` are history: they
remember that the flag was set since `Update` tested it, that a refresh cleared
it nevertheless, that a rename went unreported, that an Enter has not been read,
and that `path` was set to `"/"` by the fallback.

### WatchedExplorer

The watcher of `Explorer` is replaced by the variables of `FileWatch`. A change
of the file system is one step of both: the version changes and the kernel
records it. The update thread runs through the destructor (`SetDestroy`,
`RemoveWatch`, the two joins) and the constructor step by step, while the old
watcher's threads go on. `View` is `Explorer` with `alive`, `eaten` and `pending`
computed from the watcher's state; `ImplementsExplorer` is `View!Spec`. It is the
safety part: the fairness of `Explorer` does not follow, as a lost notification
can keep a callback for ever (`watch_destroy`).

### FrameLoop

`pc` follows `DrawLoop` through poll, size, acquire, fence, submit and present.
`jobs` are submissions the GPU has not finished, `queue` presentations the
display has not begun, `grants` images that were acquired and that the display
has yet to release; `ready` and `complete` are the ring positions whose two
semaphores are signaled. A job needs `ready`, and signals `complete` and its
image's fence; a presentation takes `complete`. The display works in FIFO order,
the present mode that `SetupVulkanWindow` asks for, and may grant any image that
the program does not hold and that something later will replace.
A grant ends when nothing of the image is shown or queued but the frame the grant is
for, told by its semaphore; a frame of the same image a whole turn of the ring
older has the same one, so that the model's display may release a little earlier
than a real one, and what is shown of it holds of the real one too.
Acquire and present may report that the swap chain no longer fits when its extent
is not the surface's. Assumed of Vulkan: `vkDeviceWaitIdle` waits for
presentations too, and a job waits for its semaphores. The loss of the device,
which ends the process in `check_vk_result`, is left out; so is what is drawn.
Minimized and zero-sized windows are both size 0: neither touches the swap chain.
A window size is a size in pixels: the display has one pixel per unit. (With more,
`SDL_GetWindowSize` at line 336 never equals the swap chain's extent, and every
frame would rebuild it.) ImGui's ring of vertex buffers has the length of the
first swap chain, `Count`, and every submission writes its next buffer, so that the
frames in flight read the last `Len(jobs)` of them.

### MainLoop

A program counter for `main` (from `JInit` to the destructors of static objects),
the draw thread and the update thread, and `g_done`. `JInit` and `JDeInit` are
taken step by step, with `SetupVulkan`, `SetupVulkanWindow` and their
counterparts in them: `live` is what has been acquired and not released, `step`
how far the one or the other has got, `JInitOrder` and `JDeInitOrder` the two
orders, and `Needs` what each thing was made from or is registered with. Each
step of `JInit` may fail, which ends the process. `busy` says that the GPU works
on what a frame has submitted, up to `vkDeviceWaitIdle`. The watcher's destructor
may block.

### AppConfig

`pc[i]` follows instance `i` through `EngineInit`: the directory, the test of
`config.json`, its creation (which empties what is there), its write (at `close`),
or its reading, then the test for the page's file, and the default views or the
page's layout. An instance that finds no home directory stops there (`homeless`); the
others share one. `stream[i]` says whether `i` has the file now at that path open. An
instance may be killed anywhere, a write may fail unnoticed, and the user may
replace, break or remove the configuration and add page files. The three places
that make the directory are one pair of actions with their places as parameter.
Opening and reading are one step; the frame rate, which nothing uses, and
`page_type`, which nothing assigns, are left out.

`had`, `spoiled`, `interrupted` and `overlapped` are history: the file has existed
since an instance started, the user has broken or removed something, a creation was
cut short, two instances were loading at once.

### CommandLine

An argument is an option, a setting (`-n=v`) or a word; how many dashes an option
has makes no difference. `i` is the loop index of `parser::parse`, `flags` and
`params` are its set and its map. `TakeWord`, `TakeSetting`, `TakeFlag` and
`TakeParam` are the ways through the loop's body; `Rejected` is the assertion in
`is_option`, which looks at the next argument too. `asserts` chooses the build.
Then follow `configure_parser`, `GenerateAppContext` and the title.
`registeredParams_` has no counterpart: it is filled after the parse, and the
mode treats every option as registered anyway.

The reference definitions (`Flag`, `Gives`, `FirstGives`, `Unset`) say what a
command line means without a loop, from the arguments and their neighbours.

## 3. Runs

| Run | Question | Bounds | Result |
|---|---|---|---|
| `watch` | Does the watcher keep its promise in every interleaving and with a full kernel queue, do changes arrive, and does `read()` end? | 3 changes of 2 kinds, 1 rename, a queue of 2 | passes, 138 thousand states |
| `watch_rename` | Is every change notified? | 1 rename | **violated**: renames are not in the mask |
| `watch_destroy` | Does the destructor return? | 1 change | **violated**: notification lost in the gap, or no `IN_IGNORED` to come |
| `explorer` | Is the list right when the explorer rests, does it come to rest, is Enter answered, are `Update`'s tests enough for an explorer that nobody disturbs? | 2 inputs, 2 changes, 3 texts, the project directory faulty or not | passes, 1.0 million states |
| `watched_explorer` | Has `Explorer` taken no more from the watcher than `FileWatch` gives? | 1 input, 2 changes of 1 kind, 1 text, a queue of 1, nothing faulty | passes, 2.2 million states |
| `explorer_fallback` | Does the fallback go to the project? | 2 inputs, 2 changes | **violated**: the next refresh lists the root of the file system |
| `frames` | Is anything reused too early, or do loop, GPU and display all wait for each other? | 2 or 3 images, 2 sizes and none, 2 resizes | passes, 2.6 million states |
| `frames_live` | Does the loop go on, rebuild no more than it must, and end? | 2 images, 1 resize | passes, 17 thousand states |
| `main` | Do frames use only what exists, is everything acquired and released in a sound order, and does closing the window end the process? | none | passes, 366 states |
| `main_leak` | Is anything running after `JDeInit`? | none | **violated**: the watcher is never deleted |
| `config` | Can every start read what others leave, and does it keep it? | 3 starts, 1 touch of the user, 3 page types, 2 page names | passes, 712 thousand states |
| `cli` | Is every argument taken as what it means, and is documented use heard? | 4 arguments of 4 names and 3 values, with and without assertions | passes, 2.2 million states |

The destructor that does not return (`watch_destroy`) has two effects further up.
The explorer's fallback from a removed directory deletes a watcher that has
read `IN_IGNORED`, so it never takes place; `Settles` names that
state, `pc = "hung"`. And `JMainloop` joins an update thread that may sit there, so that
closing the window can leave a process without one; `QuitExits` names it.

Why the bounds are enough. *Watcher*: there are four places a change can wait in
(kernel, `parsed`, `_callback_information`, `batch`); three changes of two kinds
fill them with the distinctions order needs, and the queue, which holds two, merges
equal ones and overflows.
*Explorer*: a stale list needs one change before and one during a refresh; a wrong
directory needs a typed text and an Enter, and one change of the directory
between. Both changes may hit any directory, and either may be a rename, a removal
or a creation. A faulty project directory makes what is in it faulty too, so that
every call that may throw does so, on the directory itself and on one below. *Watched
explorer*: one Enter makes the watcher be replaced while
two changes are under way, and the second finds the queue of one full. The watcher's
constructor throws there over a directory that has gone; that it may over a faulty
one is in the proof of the refinement, which is for every `MayFail`.
*Frames*: no counter bounds the number of frames; with two and
three images every filling of the rings is reached, and changes between the two
counts happen. Two resizes let one fall inside the rebuild that another set off.
*Main*: the state is finite. *Config*: two instances overlap while a third comes
after them; a page type of each kind (none tested, explorer, no view). *Command
line*: what an argument means depends on its neighbours; four make two
options with values, in every order, and what is proved holds for any number.

`CHECK_DEADLOCK FALSE` is set because these systems may really stop: a
destroyed watcher, an explorer blocked or crashed with nobody typing any more, a
released device, an ended process, instances that are up, a command line that has
been read. Blocking where the program should go on is what the liveness properties exclude.

Stronger than it looks:

* `Fresh` names every reason for a stale list at rest: the flag cleared at
  `explorer.cpp:71` after it was raised again, a rename, and a removed
  directory. It says there is no other.
* `NeverSilent` is what a listing on every callback needs of a kernel that merges
  and drops: never is the last change dropped with no callback to come.
* `ImplementsExplorer` shows that `alive`, `eaten` and `pending` of `Explorer` are
  no idealisation; with a detached callback thread it fails, as the callback of
  a deleted watcher then refreshes a list that has another.
* `SurvivesUndisturbed` says that what `Update` tests at lines 29 and 31 is enough
  for what it does with the path afterwards, as long as no other process changes the
  file system and calls on a directory that is there succeed. It is no list of all that can end
  the process: it excepts whole directories (`Troubled`), a regular file, the torn
  frame and the narrow window, and does not speak about long texts. So it does not
  catch these; it would catch a test that is missing or comes too late.
* `EnterKeepsFlag` and `EnterAnswered` say the same of an Enter: it is read, or
  it overlapped a refresh.
* `NoStall` is freedom from deadlock of three parties, step by step and without
  fairness; that the display grants an image before it has released it is what makes
  it less than obvious.
* `AcquiredFree` is the reason for the ring being one longer than the number of
  images; the mutant with a ring of `ImageCount` breaks it.
* `NoTornImage` and `RenderedFree` hold although the ring is indexed by frame and
  the display may hand out an image early; they depend on the FIFO order.
* `BufferFree` holds although no fence guards the vertex buffers: the fences of
  the images keep the frames in flight below the ring's length, as long as no swap
  chain has more images than the first.
* `IndexLeavesRange` names the one way in which `SemaphoreIndex` ceases to be an
  index: a new swap chain with fewer images than the old one. The code does not
  reset it, and the next acquire reads beyond the ring.
* `LiveOnWhatItNeeds` relates two orders written far apart, one of them inside
  ImGui and the driver, also for a start that fails half way.
* `ParsedSoFar` compares the loop at every step with definitions that look at an
  argument and its neighbours only; `DocumentedUse` says that the mode in which
  `InitCMD` parses (every option takes the word behind it) is harmless for
  the use the help text describes.
* `Settles` says that refreshing ends; that a read is not reported as a change, on
  which it rests, is the kernel's mask (`FileWatch.hpp:607`) and not in question.
* `ThrowsExplained` lists the ways to a start that fails, and one of them lasts: after
  an interrupted creation `config.json` exists and is empty, so that no later start
  makes a new one and each throws at `engine.cpp:49` until the user removes it.
  The ways are excepted and not caught. So are, in `UntouchedShowsExplorer`, page
  files that the user adds.
* `ExistingKept` is about the test at `engine.cpp:36`, not about the truncation: an
  instance that found no file may still empty one that has appeared since.

## 4. Fairness

No safety property rests on fairness. For the liveness properties the
specification `FairSpec` assumes weak fairness of each thread's
steps, as the operating system schedules every thread that can run, and:

* `FileWatch`: strong fairness of the three acquisitions of the mutex, since two
  threads contend for it and each releases it again. The kernel, renames and
  spurious wake-ups have no fairness; nor has the owner's decision to destroy,
  only what follows it.
* `Explorer`: the update thread, the first frame, the end of a frame and the
  callback. The user and other processes have none: nobody need ever type.
* `FrameLoop`: the draw thread, the GPU, and the display, which shows what is
  queued and releases what it has replaced. Resizing and closing have none.
* `MainLoop`: main, both loops, and the return of a callback, which assigns one
  flag (`explorer.cpp:44`).

## 5. Proofs

All are checked by TLAPS for every value of the constants.

**FileWatch** (`Inductive`, then `TypeCorrect`, `NothingLost`, `NoLostWakeup`,
`KernelDropsSafely`, `MutexCorrect`, `ThreadsJoined`, `ThreadsStay`,
`BlocksInTwoWays`, `BlocksAfterRemoval`, `BlocksAfterGap`, `ReadNeverReturns`,
`OnlySpuriousWakes`, `DestructorCountsDown`, `Refinement`).
`Conserved` alone is not
inductive: moving `parsed` into the shared vector keeps the order only if the
vectors a later stage takes over are empty or appended to, so the invariant adds
which locals are empty at which place, who holds the mutex, that the vector is
empty in the gap between predicate and sleep (hence no lost wake-up), and what
the owner has already joined. `StillComing` is `NeverSilent` stage by stage.
`BlocksInTwoWays` completes what `watch_destroy` finds: the two ways in which the
destructor can wait for ever are the only ones. The mutex is never waited for in vain, and
the notification that is missed is the destructor's own, never one of the watch thread.
Each way has its cause and no other: without the removal of the watched directory the
first never happens (`BlocksAfterRemoval`, since `inotify_rm_watch` then still queues a
record for the read), and without a notification between predicate and sleep the second
does not (`BlocksAfterGap`). The first is for ever (`ReadNeverReturns`), the second
ends only with a spurious wake-up (`OnlySpuriousWakes`). What is left is
`DestructorCountsDown`, the safety half of `DestroyReturns`: from `inotify_rm_watch` on
nothing new is recorded (`Unwatched`), and every step of whatever thread, spurious
wake-ups included, lowers a count that begins at most 15 above the undelivered changes.
So a destructor that is in neither of the two ways returns if the threads are scheduled
and the mutex is granted.
The refinement maps `DirectoryWatch`'s pending
changes to what all the stages hold; the step lemma shows each step is a
recording, a delivery, the destruction or a stutter. Lemmas on sequences
(`AppendLast`, `TakeHead`, `MoveAll`) come first.

**Explorer** (`Inductive`, then `TypeCorrect`, `ShownIsWatched`,
`FreshAtRest`, `EnterNotForgotten`, `SurvivesStill`).
`ShowsWatched` speaks of rest only; `WatchesPP` follows the watcher and the list
through a refresh: no watcher at creation, then a watcher on `pp`, an empty list
until the iteration ends. `Fresh` needs `Accounted`: while the watcher is alive,
has nothing pending and no rename was missed, the version the iteration began
with is still the current one, unless the callback has raised the flag. That is
what the assignment at the end of `Update` would have to preserve and `lost`
records where it does not. `FlagUp` follows an Enter through a refresh in the same
way, and `Undisturbed` what the file system looks like to a refresh that nothing
has disturbed: what was found to exist exists still, and the listing ends at the version at
which it began. `SurvivesStill` is therefore a statement about the tests only, for
texts that fit the string: over a faulty directory it says nothing.

**WatchedExplorer** (`Inductive`, then `NoThreadLeft`, `Refinement`,
`ShownOverThreads`). The invariant is the one of `FileWatch`, taken from
`FileWatch_proofs` by instance, and `OwnerOK`, where `Update` is with the destructor:
every step of the composition is a step of `FileWatch`, none, or the constructor, which
starts from `FileWatch`'s initial state. The refinement has a lemma for each way the
watcher changes under `Explorer`: a record is a touch of the directory, merged or
dropped only behind another delivery; a step of the threads is a callback or a stutter;
the destructor deletes, and ends only once the joins are through. With it the theorems
of `Explorer_proofs`, again by instance, hold over the threads (`ShownOverThreads`).
`JoinOK` ties the destructor to `Update`: from `inotify_rm_watch` to the second join
`Update` is in it unless the process has ended. So the results on the destructor are
results on the update thread. It is stuck only there and in the same two ways
(`UpdateBlocksInTwoWays`), the first of which is the `eaten` of `Explorer`; in that one it
never lists a directory again (`UpdateLost`); and while it joins, nothing that happens in
the file system draws the join out (`JoinCountsDown`).

**FrameLoop** (`Inductive`, then `TypeCorrect`, `AcquiredSemaphoreFree`,
`RenderedSemaphoreFree`, `FencesSignal`, `CommandPoolIdle`, `VertexBufferFree`,
`ImageToAcquire`, `NoImageTorn`, `OnlyFewerImages`), for 2 to 15 images (the helper
asserts fewer than 16), any sizes and any number of resizes. The invariant follows the
frames drawn and not shown, in order (`Drawn`). The back part of them are the GPU's
jobs (`JobsDrawn`), each of an image of its own (`JobsApart`), because each has waited
for its image's fence (`FencesOK`). The front part is finished, and its images differ
from each other and from the one on display (`DoneApart`), because a job starts
only when the display has released its image (`AcquiredOK`, `ReleasedOK`,
`DisplayOK`). So either part is no longer than there are images (lemma `Few`, a
pigeonhole); the ring is one longer, and the drawn frames lie in it one behind the
other (`TurnOK`, `PositionsApart`), so no frame of either part has the position of
another, or of the one to come. Both parts together may be longer than the ring: that is why a
position is told apart only within a turn, and why `AcquiredFree` and `RenderedFree`
each speak of one part. `IndexOK` and `HeldOK` are about the control: the index is
outside the ring, and an image kept, only on the way to an abort or a rebuild.

`FrameLoopProgress_proofs` (`NeverStalls`, `ImagesAlternate`, `FrameCountsDown`) adds what the liveness
properties rest on: none of the loop's three waits without a time limit is ever part of a
circle. The oldest frame drawn and not shown always gets on. If it is finished, its
second semaphore is signaled (`Finished`) and the display may show it. If not, its first
one is signaled or granted (`Promised`), and then nothing stands in the way of the grant:
it comes directly after the image on display, which is another one (`Alternating`), and
all that is queued is jobs, of other images. `FrameLoop`'s invariant alone says only what
signals mean, not that they are there. `FrameCountsDown` is the other half of the
argument: from one poll to the next, and after the last one to the end, every step
of the loop, the GPU and the display lowers a count of the places before the loop and
the work it has asked for. Somebody can always step (`NeverStalls`), and the steps run
out: with fairness, which is TLC's part, that is `LoopRuns` and `QuitReleases`.

**MainLoop** (`TypeCorrect`, `LoopsUseWhatExists`, `SoundLifetimes`, `QuitCountsDown`).
`Ordered`
relates `main` to the two loops: none started before `JInit`, both ended once
joined. `Staged` says what is live at each step of the two orders; the lemmas
`AcquiredInOrder` and `ReleasedInOrder` go through the orders once. `QuitCountsDown` is
the safety half of `QuitExits`: `g_done` is set behind the draw loop's test (`Closed`),
so from then on main and the two loops take at most 21 steps between them: two of the
draw loop, four of the update loop with a watcher deleted and made, and fifteen of main.
TLC reaches a state with all 21 before it, so the number is exact.

**AppConfig** (`Inductive`, then `TypeCorrect`, `EmptyExplained`,
`ReadsWhatItWrites`, `KeepsExisting`, `ExplorerShown`). The invariant ties an
open stream to a file that is empty or default (`StreamOK`), an empty file to an
open stream or an interruption (`EmptyOK`), and two loading instances to an overlap
(`LoadersOK`); an instance that reads what it cannot parse then contradicts one of
them.

**CommandLine** (`Invariant`, then `TypeCorrect`, `ParseRight`, `PathRight`,
`FlagsRight`, `EmptyStops`, `DocumentedWorks`), for command lines of any length.
`ParsedSoFar` is inductive only with `Boundary`, that the loop never stands on an
argument which is the value of the one before, `NoneEmpty`, that it has
passed no empty one if that aborts, and `Whole`, that it is done when it ends. The
lemmas `FlagsBefore` and `ParamsAt` are about turn its quantifiers into one step of
the loop. `DocumentedUse` follows from `Heard` and `PathStated` without a step of its
own.

Assumptions: those named `...Assumption` in the modules, which only say that the
bounds are natural numbers, that texts are of the modelled file system and so on.

`EmptyIsUnfinished`, `MutexHeld`, `Joined`, `StopsOnlyOnDestroy`, `EmptyAborts` and
the statements of `BlocksInTwoWays` and of the five theorems on the destructor that follow
it, of `UpdateBlocksInTwoWays`, `UpdateLost`, `JoinCountsDown`, `NoThreadLeft`,
`ShownOverThreads`, `ImagesAlternate`, `FrameCountsDown` and `QuitCountsDown` are proved
and not given to a run: they are parts of the arguments above, stand behind the liveness
that the runs check, or follow from it (`CanAcquire` of `ImageToAcquire` is a part
of `NoStall`). They and the inductive invariants, of which none is a property of a run,
have been model-checked with the bounds of section 3 before they were proved.

Only model-checked: the liveness properties (`EveryChangeDelivered`,
`WatchThreadStops`, `Settles`, `EnterAnswered`, `LoopRuns`, `QuitReleases`,
`RebuildingEnds`, `QuitExits`), as liveness under fairness is out of the prover's
reach, and everything that is violated. Every other property of a passing run is
stated by a theorem.

## 6. Not modelled

* Status bar and the other views: empty bodies, empty files.
* Fonts and notifications: calls in sequence, without state of the program's own.
* Of pages, `page_type`, which nothing assigns, and `UIUpdate`, which nothing calls.
* `EngineUpdate`'s clock, `EngineDeInit` and `SaveAppConfig`, which are never called
  or empty, the layout of the explorer, wording and logging.
* Texts in the path field beyond the 15 characters a string holds in itself (see
  `Explorer`), and want of memory or of threads.
* Displays with more than one pixel per unit (see `FrameLoop`).
* argh's list of free words, which nothing reads, and its other two modes.
* Data races on `g_done` and `changed` beyond their interleaving: both are single
  bytes written with constants.

## 7. Plan

Done: 1. `DirectoryWatch`, `FileWatch` and proofs, because everything the explorer
shows rests on it. 2. `Explorer` and proofs. 3. `FrameLoop`. 4. `MainLoop` and proofs.
5. `AppConfig` and proofs. 6. `CommandLine` and proofs. 7. `WatchedExplorer`, the
composition of 1 and 2. 8. `FrameLoop_proofs`, every safety property and the action
property of `FrameLoop`; `FrameLoopProgress_proofs`, that nothing there waits in a circle.
9. `WatchedExplorer_proofs`, the refinement and what follows from it.
10. What stands behind liveness, as safety: the two ways of a destructor to block, their
causes and the count that goes down otherwise, in `FileWatch_proofs` and over the
explorer in `WatchedExplorer_proofs`; the same count for `FrameLoop` and `MainLoop`.

Left: `MainLoop` takes from `Explorer` and `FileWatch` that a callback may run at any time
and that the destructor may block; the modules share no state, and no refinement between
them is stated. The step from the counts to the liveness properties, which takes fairness,
stays with TLC.

The project keeps to a dozen runs, one for each question.
