# Electrix-3D: specifications of the graphics path and of the kernel below its application

Electrix-3D is an FPGA system-on-chip: a LoongArch CPU, the *SketchBook* 2D display core with two
page buffers, a *Scene controller* that loads a 3D model, transforms and sorts its triangles and
submits them to SketchBook, and an RT-Thread application (*sk_os*) that drives both. This
directory holds TLA+ models of that path, of sk_os itself and of the kernel sk_os is built with, the
TLC configurations that check them, and proofs about the display core, its driver, its bus wrapper,
the Scene controller, the system they form, sk_os, the kernel's threads and scheduler, and its objects.
All paths below are relative to `src/`.

## 1. The system

| part | code | state | operations |
|---|---|---|---|
| SketchBook registers | `rtl/ip/sketch_book/sketch_book_top.sv` | CMD0..4, push strobe, soft reset strobe, display enable, sticky FRAME_DONE | register writes and reads |
| command processor | `sketch_gru_top.sv` | command FIFO (ring, count), dispatch state, `frame_closed`, `present_req` | push, pop, dispatch, raster steps, PRESENT |
| span writer | `sketch_bram_writer.sv` | active span, beats left, last flag, `cmd_done` | accept a span, write a beat |
| frame control | `sketch_frame_ctrl.sv` | front/back index, `swap_pending`, `swap_done`, error latch | accept PRESENT, swap at the frame boundary |
| AXI wrapper | `sketch_book_axi.sv` | address held, B and R channel | one write and one read outstanding |
| port arbiter | `sketch_mmio_arbiter.sv` | none | gives the port to Scene while `scene_busy` |
| SketchBook driver | `sdk/software/bsp/drivers/sketchbook.c` | none (all in hardware) | submit5, wait_submit_ready, wait_frame_done |
| Scene registers | `rtl/ip/scene_ctrl/scene_ctrl_axi_regs.sv` | command pulses, mode, render bits | LOAD, RENDER, ABORT, SOFT_RESET, CMD_CFG, CMD_PUSH, FRAME_START |
| Scene command FIFO | `scene_cmd_fifo.sv` | queue, lock | push, lock, pop, clear |
| Scene sequencer | `scene_ctrl_pipeline.sv` | `qstate`, packet phase, PRESENT in progress, frame count | executes a locked frame |
| Scene engine | `scene_ctrl_engine.sv` | `state`, model cache, submission | load, render, DRAW, abort |
| UI thread | `sdk/software/examples/sk_os/sketch_os.c` | scene, selection, page shadows, model loaded, robot pose | events, cards, draw, present, render, command frame, stop |
| buttons and switch | `sketch_os.c`, `board.c` | latched edges, pending word, debouncer, event queue | interrupt, poll, post |
| threads, scheduler | `sk_os/src/scheduler.c`, `thread.c`, `clock.c`, `idle.c` | ready lists, bitmap, thread states, timeouts, lock nesting | create ... exit, suspend, resume, sleep, yield, tick, reap |
| IPC | `sk_os/src/ipc.c`, `mempool.c` | value, owner, set, ring or chains, wait lists | take, release, send, recv, urgent, control, detach |
| heaps | `sk_os/src/mem.c`, `memheap.c`, `slab.c` | chain of blocks; rings and free lists; zones and pages | malloc, realloc, free |
| objects | `sk_os/src/object.c`, `components/finsh/cmd.c` | one list per class | init, allocate, detach, delete; list commands |
| timers | `sk_os/src/timer.c` | two skip lists, flags | start, stop, control, hard check, timer thread |
| shell | `components/finsh/shell.c`, `msh.c` | line, cursor, history | keys, history, completion, split, run |

**Interaction.** The CPU and the Scene controller write the same SketchBook registers through the
arbiter. A command is five register writes followed by CMD_PUSH, so a command in the making is shared
state. A PRESENT ends a frame: the FIFO closes, the processor finishes every earlier draw, asks for a
swap, the frame control exchanges the pages at the next video frame boundary, and FRAME_DONE is set
and stays set until somebody clears it. Whoever waits for a frame polls that bit. The Scene sequencer
and engine hand each other one-clock pulses (`cmd_draw_start`, `cmd_draw_done`, `fifo_complete`) that
nobody repeats. Above the registers, a button press travels through the interrupt's pending word, the
input thread and a message queue to the UI thread, which draws on whichever page is the back page and
remembers per page what is on it. All threads run on one processor; the kernel protects its data by
sections with interrupts disabled, and an interrupt, a timeout or a switch may come between any two.

**What is hard.** One-clock pulses and registered strobes; a page swap that happens any time after it
was asked for; sticky completion bits that belong to nobody; readiness that is read several bus
accesses before it is used; two producers, one port and an owner that changes combinationally; a bus
wrapper that does not survive a refused write; an ABORT that reaches one of two cooperating state
machines; spin loops on the CPU that end only if the hardware's pulses are never lost. In the
kernel: operations made of several such sections; a waiter that is served, timed out and deleted in
any order before it runs; list nodes and headers that are found by arithmetic and must be whole.

**What makes each part correct.**

* *Display core*: commands take effect in order and once; a PRESENT is carried out only after every
  earlier draw; the page on display is never written; the processor never waits for a pulse that is past.
* *Driver*: a push it makes is always taken; its wait returns, and for its own frame.
* *AXI wrapper*: an answered write was carried out once; a burst never is, and is refused.
* *Scene controller*: a frame is locked while it is executed and is retired once; a packet is not cut
  in two; each pulse finds its receiver; mode and engine agree.
* *Together*: nobody touches a port he does not own, each producer takes only its own completion, no
  wait lasts for ever, and with two producers the core is still a double buffer.
* *sk_os*: no press is lost before it is posted; a page's shadow is true; what is shown belongs to
  the scene; the model believed loaded is loaded.
* *Kernel*: a thread is on one list; a dead one never runs; tokens, messages and blocks are neither
  lost nor doubled; nobody sleeps while what he waits for is there; the owner of a mutex is raised
  and lowered.
* *Heaps, objects, timers, shell*: regions handed out never overlap and free memory is found again;
  a walk of a list shows what stays; a due timer fires, an early one does not; the line is a text
  with a cursor.

## 2. Modules

```
DoubleBuffer   <--- refined by ---   SketchDriver, SceneSystem
SketchBook     <--- EXTENDS ---      SketchDriver, SketchBookProofs, SceneSystem
SketchDriver, SketchAxi, SketchBookProofs <--- EXTENDS --- SketchDriverProofs
ScenePipeline  <--- EXTENDS ---      SceneSystem
SceneSystem, SketchBookProofs <--- EXTENDS --- SceneSystemProofs
SkUi, SkInput  <--- EXTENDS ---      SkProofs, MCServices
RtKernel       <--- EXTENDS ---      RtIpc
RtIpc          <--- EXTENDS ---      MCRtIpc, RtThreadProofs
RtThreadProofs <--- EXTENDS ---      RtIpcProofs
Allocator      <--- refined by ---   RtMem, RtMemheap, RtSlab (composed in MCHeaps)
RtMem          <--- EXTENDS ---      RtHeapsProofs
LineEditor     <--- refined by ---   RtFinsh
RtObject, RtTimer <--- EXTENDS ---   RtServicesProofs, MCServices
RtObject       <--- EXTENDS ---      MCObjects
RtFinsh        <--- EXTENDS ---      MCServices
```

One step of every RTL module is one rising clock edge. Each register block is one conjunct of the
step, evaluated on the unprimed state, so the latencies between the blocks are those of the RTL.
Names of variables and operators are those of the source.

* **SketchBook** - `sketch_book_top`, `sketch_gru_top`, `sketch_bram_writer`, `sketch_frame_ctrl` and
  the page RAM. `Clock(m, b)` is one clock with register access `m` and, if `b`, a video frame
  boundary. `Regs`, `Fifo`, `Gru`, `Writer`, `FrameCtrl`, `Pages` are the blocks. A draw chooses its
  shape (which raster state) when it is dispatched, and how many raster steps and beats it needs; a
  rejected draw chooses to be rejected. A page records the frame last drawn on it. `frame` and `job`
  are history: the frame a pushed command belongs to, and the frame of the executing draw.
* **DoubleBuffer** - what the display core promises: draw on the hidden page, ask for it to be shown,
  have it shown; nothing is drawn between the last two.
* **SketchDriver** - `sketchbook.c` and `present_wait` on the clocked core. One action per bus access;
  any number of clocks may pass between two.
* **ScenePipeline** - register bank, command FIFO, sequencer and engine. The CPU writes any register
  in any order (`CpuWrites` limits which), and the SketchBook port is an environment that is ready and
  shows FRAME_DONE as it likes. Fetching a model is one state (LOAD) that lasts any time and may fail;
  transforming, culling and sorting is one state (RENDER).
* **SketchAxi** - the AXI4 wrapper with a master that keeps a channel valid until its handshake and
  may delay the data of a write.
* **SceneSystem** - ScenePipeline and SketchBook on one clock, the arbiter, and the UI thread of sk_os:
  `Draws` (driver and `present_wait`), `SetMode`..`Loading` (`scene_load_asset`), `SetCfg`, `Render`,
  `Rendering` (`scene_render_rigid`), `Note` and `CommandFrame` (`robot_walk_step`), `Stopping` and
  `Discard` (`scene_stop`). `Begin` is the choice of the next job: any order is allowed that the scene
  state of sk_os allows (a command-mode card and the UI never present alternately without `scene_stop`).
  A render whose RENDER_CFG is in `Stoppable` may also be stopped half-way (`MayInterrupt`); sk_os waits its
  renders out, so this is more than sk_os does, and what the comment in `scene_stop` foresees.
* **SkUi** - the same thread one level up: scenes, cards and events (`handle_event`), the page
  shadows by which `render_home_frame` redraws in parts, the cached model, the robot's poses, and what
  lies on the two pages. Waits are over when a step ends (SceneSystem shows that they end); a load or a
  render may fail, and after a failed command frame the controller stays busy and the next access of
  the thread is never answered (`stuck`). Whether a period has elapsed is open. Angles of rotation of
  the demo model are left out; those of the robot's limbs are in, modulo 16.
* **SkInput** - confreg's latched edges, the button interrupt in three steps (read, collect,
  acknowledge), the input thread (read and clear in one masked section, post in order, sample), and
  the queue.
* **RtKernel** - threads and scheduler. The kernel's data is a record `k`; each routine is an operator
  on it, so that calls nest as in the code. A section with interrupts disabled is one step, `call[t]`
  says where in a longer call a thread is, and `Tick` may come between any two steps. `rt_thread_suspend`,
  `resume`, `startup` and `delete` look at the status of a thread with interrupts enabled and then change
  it in one section or two; called by a thread they are as many steps (`Suspend` and `SuspendNow`; `Resume`,
  `ResumeTake` and `ResumeInsert`; ...). The objects and `rt_thread_sleep` call the first two with
  interrupts disabled, and there each is one. `Careful` is what the kernel leaves to its callers:
  no two threads handle one thread at a time (`LeftAlone`), no thread exits while it handles another, and no
  timeout runs out of a thread that is just being resumed or deleted (`Taken_off`). sk_os keeps to it: it never
  suspends, resumes or deletes another thread, and starts its threads once; only the timer
  thread suspends itself and is resumed (`timer.c:405`, `:650`), and `rtconfig.h:62` leaves that out.
* **RtIpc** - the five IPC objects and the memory pool over RtKernel. A behaviour is about one kind of
  object; the others cannot touch it but through the threads, which RtKernel has in full. `MpFree` goes by
  the count as the code does: when it counts somebody and nobody is on the list, the thread it takes is
  the list head, and what `rt_thread_resume` reads as its status lies in the pool object or behind it. `Behind`
  says whether that may read as a suspended thread (then something that is no thread becomes ready, `phantom`).
* **Allocator**, **RtMem**, **RtMemheap**, **RtSlab** - what a heap promises (regions within the pool,
  disjoint, until given back) and the three implementations in the source, `mem.c` being the one that
  is built. Units are a header or the smallest chunk. The places where the lock is given back within an
  operation (realloc of mem and memheap; under slab before the page allocator, and again after it) are steps
  of their own.
* **RtObject** - the containers of objects and the sequences that create and delete objects with a
  second block, section by section; the list commands of the shell, which fetch a batch of nodes and
  print it while others create and delete. Where a thread is may be read from `making` and `walk`.
* **RtTimer** - both skip lists, the check in the interrupt, the timer thread and its check, start
  (two sections and the waking of the thread), stop and control. `Careful` restricts programs
  (`MayStart`, `MayStop`, `Disciplined`); what goes wrong otherwise is listed in section 3.
* **LineEditor**, **RtFinsh** - a text with a cursor, and the key decoder, buffer, history, completion
  and word splitter that implement it.
* **MCBlocks**, **MCSystem**, **MCServices**, **MCHeaps**, **MCRtIpc**, **MCObjects** - instances. MCBlocks,
  MCServices and MCHeaps join independent modules, one of them active in each behaviour; MCObjects is RtObject
  alone, for `object_walk`. MCSystem has SceneSystem once in full and once ("returning") with `SystemFairness` and
  the jobs of `FewerJobs`, where `UiReturns` is checked (`WaitsEnd`). In MCBlocks the Scene controller
  comes twice: once with every register write, and once ("retiring") with `SceneFairness` and the writes of `FrameWrites`, where `FrameRetires` is checked (`FramesRetire`).
* **SketchBookProofs**, **SketchDriverProofs** (SketchDriver and SketchAxi), **SceneSystemProofs**
  (ScenePipeline and SceneSystem), **SkProofs** (SkInput and SkUi), **RtServicesProofs** (RtObject and
  RtTimer), **RtThreadProofs** (the threads in RtIpc), **RtIpcProofs** (its objects), **RtHeapsProofs** -
  theorems.

Operators marked `faulty` are not part of a model. Each is a plausible error in one definition
(a missing reset, a dropped guard) and is used to see that a property notices it.

## 3. Runs

| run | module, configuration | shows | distinct states |
|---|---|---|---|
| `blocks` | MCBlocks / Blocks | each hardware block alone: the queue, the raster and the pages of the core under every register access in every clock, soft reset and display off included; the AXI wrapper under every timing; the frame lock, the shared port, the pulses and the mode of the Scene controller under every register write in every clock; and, under the writes that make frames, that a started frame is retired, good or bad | 229 256 |
| `sketchbook_driver` | SketchDriver | the driver never hangs, loses no push, writes nothing while a swap is pending, takes its own completion; `present_wait` returns; the double buffer is implemented | 60 411 |
| `scene_system` | MCSystem / SceneSystem | the ownership protocol of sk_os; the engine's automatic PRESENT takes its own completion; the core is still a double buffer; and, for fewer jobs, every wait of the UI ends | 156 652 |
| `rt_ipc` | MCRtIpc / RtIpc | lists, bitmap and timeouts of the kernel; conservation, order, inheritance and service of six kinds of object under every preemption, timeout and deletion | 762 616 |
| `heaps` | MCHeaps / Heaps | the structure of each heap, the promise of Allocator, and every size below 16K through `zoneindex` | 345 382 |
| `os_services` | MCServices / Services | objects and list commands, timers, the shell against LineEditor, buttons, the UI's pages | 947 952 |

Many properties are conjunctions of named parts, each with its own definition and comment. A run
checks the whole:

| property | parts |
|---|---|
| `QueueSound` | `TypeOK`, `FifoShape`, `FramesInOrder` |
| `RasterSound` | `PortExclusive`, `WaitDoneServed` |
| `PushServed` | `NeverHung`, `NoPushLost` |
| `PresentSound` | `DoneIsOwn`, `NoWriteWhilePending`, `FrontOnlyPresented` |
| `PipelineSound` | `SceneTypeOK`, `ModeStable`, `FrameLocked` |
| `AccessServed` | `UiNeverHung`, `PushTaken` |
| `CompletionsOwn` | `FrameIsOwn`, `UiDoneIsOwn`, `AutoFrameIsOwn` |
| `AnswersSound` | `AxiTypeOK`, `WriteOnce`, `AnswersPaired` |
| `ThreadsSound` | `KTypeOK`, `OneList`, `GroupMatches`, `TimersWait`, `RunsAlive` |
| `NothingLost` | `IpcTypeOK`, `SemConserves`, `MbIsFifo`, `MqChained`, `MpConserves` |
| `MutexSound` | `MutexExclusive`, `PriorityInherited`, `PriorityRestored` |
| `NoneForgotten` | `EventServed`, `NoIdleWaiters` |
| `HeapsSound` | `MemSound`, `MemheapSound`, `SlabSound` (chain tiles the pool, free lists hold what is free, pages and zones counted) and `ZoneIndexFits` |
| `ObjectsSound` | `TypeMeansListed`, `NoBlockLost`, `ListedOnce` |
| `TimersSound` | `TimersSorted`, `LevelsAgree`, `ActiveIsListed`, `ThreadWatches` |
| `TimersFire` | `SuspendsForNone`, `NoneLeftDue`, `FiresActive` |
| `ShellSound` | `FinshTypeOK`, `SplitAgain`, `UpGivesLast`, `ShellIsEditor` |
| `EventsTrue` | `PressesKept`, `Debounced` |
| `BeliefsTrue` | `ShadowTrue`, `CacheTrue` |
| `ShownTrue` | `FrontIsScene`, `DirtyOrShown`, `FeetNeverCross` |
| `StepsShown` | `StepsShowModel`, `StepsSmooth` |

Runs that end in a counterexample, each for one sentence of the documentation or of a comment that
the code does not keep:

* `scene_full_frame`: 32 queued commands do not fit the 5-bit level wires of `scene_ctrl_top` and
  `scene_ctrl_pipeline`; a full FIFO reads as empty and FRAME_START is ignored. The test bench of the
  FIFO says a full frame starts. (`QDepth = LevelMod = 2` stands for
  32 = 2^5; with `LevelMod = 3`, one wire more, the property holds.)
* `system_shell`: the shell command `skstatus` reads SketchBook while the Scene controller owns the
  port; the read is accepted and never answered.
* `object_walk`: `list_get_next` asks the type of the node a command stands at whether it is "in the
  list" (`cmd.c:122`) and then follows its links. Memory that was deleted and is being made an object of
  the same class again has the type, and NULL for its links, until it is linked in a section of its own:
  the command goes on from there (`GoesAstray`). `ShowsAllThatStay` is about the commands that do reach
  the end of their list.
* `pool_count`: `suspend_thread_count` of a memory pool is the "numbers of thread pended on this resource"
  (`rtdef.h:763`). It is counted up by the waiter and down by `rt_mp_free` only, not when a wait times out
  (`mempool.c:357`) or a waiter is deleted; the next free then takes the head of an empty list for a thread.
  `rt_ipc` checks what the count is good for all the same: it never falls below the number of waiters
  (`MpCountCovers`).
* `delete_tick`: a tick between the two sections of `rt_thread_delete` makes the thread ready again that was
  taken off its list (`thread.c:400` says it is removed); it is then closed while it is on a ready list.
* `resume_twice`: two threads resume a third. `rt_thread_resume` tests the status before its first section and
  inserts the thread in its second; the third thread may run and sleep again in between, is then made ready
  with its timer running, and the assertion of `rt_thread_timeout` (`thread.c:739`) fails.

Other disagreements met on the way. They are not runs; the models either leave the case out (named
here and as an assumption of the module) or allow it:

* FRAME_START without a model locks the frame for ever (Q_IDLE waits for `cache_valid`), and BUSY then
  refuses the LOAD that would help; the paper draft (`doc/论文最终稿.md:155`) has the controller end the
  frame with an error. `FrameRetires` starts with a model.
* ABORT in a command-mode DRAW resets the engine while the sequencer waits for `cmd_draw_done` for ever
  (`doc/论文最终稿.md:193`). sk_os waits its frames out.
* A CMD_PUSH that meets SketchBook's full or closed FIFO is lost, with no answer, instead of delayed
  (`doc/论文最终稿.md:161`). The Scene controller's own CMD_PUSH is answered OKAY and dropped when CMD_READY is
  low (`scene_ctrl_axi_regs.sv:54`); `PushKept` is about the pushes it accepts, and `CommandsArrive` says that
  the UI thread's are all accepted.
* `open_selected_card` seeds the pages before it resets the demo model: the label of the last visit is
  shown until the first step. SkUi has labels on its pages and allows it; `StepsShowModel` speaks of the
  frames of a step.
* Releasing a mutex nobody waits for, and every detach, may leave a more urgent thread ready without a
  schedule (exceptions of `RunsHighest`). A mutex whose waiters are kept in order of arrival does not
  raise its new owner (condition of `PriorityInherited`).
* Timers: the timer thread loses the node it has noted when a function stops that timer; a one-shot
  timer restarted by its own function is marked inactive although it is listed (`timer.c:532`, `:616`); a
  timer that the interrupt starts between the two sections of a thread's start (`timer.c:324`) is put in
  twice. `Careful = FALSE` has these cases. Client threads run only while the timer thread waits
  (`ClientMay`), as it has the highest priority, and in a careful program the functions of hard timers
  leave soft timers alone: a start between its look and its suspension would not wake it. A soft timer due
  exactly at tick RT_TICK_MAX is taken for none (exception of `SuspendsForNone`).
* Objects: a variable that was detached and initialised again, but not yet linked, is linked to itself: a
  list command that stood at it shows its row a whole batch long (`RunsOnItself`, the other way to break
  `NodeInList`).
* Shell: an overlong line is dropped by resetting the positions, and its text is still there for Tab
  and for Enter on blanks. `CleanTab = TRUE` leaves these two keys out for such a line.
* `rt_realloc` of `mem.c` that shrinks a block does not lower `lfree`; `LfreeIsFree` says only that it
  is a free block or the end, not the lowest.

**Bounds and why they are enough.** `Depth` (CMD_FIFO_DEPTH) and `QDepth` (32) are 1 to 3: every
pointer wraps, the FIFO is full, empty and in between, and a PRESENT queues behind draws and before
other commands. `MaxSteps` and `MaxBeats` bound the raster steps of a draw and the beats of a span: 2
gives a first and a last that differ, 1 one that is both. `MaxFrames` bounds the PRESENTs of a run. For
the core alone it is 1, one frame shown and the next one being drawn, with every register write in
every clock; what the core does over any number of frames is proved (section 4). The driver and the
system present 2 or 3 times, so that there is an older completion to be mistaken. `CountMod` stands for
the 2^16 at which the frame counter wraps; 2 is the smallest that tells a new frame from the old.
`MaxTris` bounds the commands a render or a DRAW submits: 2, a PRESENT after them and a FIFO of 1 make the
Scene controller wait for room in the middle of a frame. The run `scene_system` was also made with
`MaxTris = 3` (194 047 states), and its safety properties once with `Depth = 2`, `MaxTris = 4`: nothing more
was found, and the smaller bounds are kept for speed. `RenderCfgs` has a configuration with AUTO_PRESENT and
one without; only the latter is in `Stoppable` (`NoAbandonedPresent`, section 4). `WaitsEnd` is checked where the UI
draws nothing itself, stops no render half-way and a render has one triangle (`FewerJobs`): the waits are for a
present, a load, a render, a frame or a swap, all of which are there, and how the UI's draws delay its own present
under fairness is in `sketchbook_driver`. With the draws (199 947 states) it was found to hold too; they
are left out for speed.

The kernel has three threads of two priorities and the idle thread: enough for an owner, a waiter and
one in between. The slice is 1 tick, waits are 0 to 2 ticks or for ever (3), locks nest once, the
semaphore starts with 1 token and is bounded by 2, mailbox and queue hold 2, a mutex is taken up to
twice, a pool has two blocks and counts up to 3 waiters (`MaxPend`: more than there are
threads that can wait, so that counts left over by timeouts add up). Heaps have 7, 12 + 7 and 8 pages' worth of units, in which the first fit,
the exact fit, the split and the merges on both sides all happen; two callers meet where locks are given
back. Objects: two heap blocks and one static object are two of everything a walk and a re-creation
need; a batch holds one (LIST_FIND_OBJ_NR is 8). Timers: the skip list has 2 rows with 1 mask bit (1 and
3 in the code, where it is a plain list), two hard and two soft timers, delays of 1 and 2, a tick
modulo 12 and at most one tick of lateness, so that half the range is never reached. The shell's line has
5 places, one line of history, two words, the characters "a" and blank. The queue of events holds one
(16 in the code) and two of three buttons exist, so that a full queue and the order of two events occur;
the proof has any depth and any buttons.

**Fairness.** A clock never stops. The CPU eventually makes its next access. The video timing is
free-running and reaches a frame boundary again and again while the display is enabled, which the
driver sees to. Fetching a model and rendering take finitely many clocks: the engine's loops run over
bounded counters. The environment of ScenePipeline alone (the SketchBook port) is assumed ready again
and again and to show FRAME_DONE in the end; that assumption is what SceneSystem replaces by the real
core. Nothing is assumed of the kernel's threads: what is checked of them are safety and action properties.

## 4. What is proved

`SketchBookProofs.tla` proves for every FIFO depth, every number of raster steps and beats, and every
number of frames (the only assumption is `SketchBookAssumption`: they are positive naturals,
`MaxFrames` a natural):

| theorem | property |
|---|---|
| `TypeCorrect` | `TypeOK` |
| `FifoConsistent` | `FifoShape`: count = distance of the pointers around the ring |
| `PresentRetires` | `PresentAfterRetire`: a PRESENT request finds processor and writer at rest |
| `PortIsExclusive` | `PortExclusive`: BLIT and the span writer never share the page port |
| `RasterIsSound` | `RasterSound`: that, and the `cmd_done` pulse waited for is still to come |
| `NoTearing` | `FrontUntouched`: no step writes the page on display |
| `Ordered` | `FramesInOrder` |
| `QueueIsSound` | `QueueSound`: types, shape and order of the FIFO |
| `NoCommandLate` | `NoLateCommand`: no command of a frame already due is queued or executing. The core alone lets draws of the *next* frame run while a swap is pending (`pop_fire` does not look at it); that the driver never lets it come to that is `PresentIsSound` |

The argument has two invariants.

`IInv` holds the hand-over between processor and writer. The safety properties are not inductive one
by one. A processor that waits for `cmd_done` is served only if the span it offered last carried the
last flag, and that is true only if a raster state has steps left (`StepsLeft`); the page on display
is safe only because front and back differ (`PagesDiffer`) and the writer uses the back index. The
three properties `PresentAfterRetire`, `PortExclusive` and `WaitDoneServed` support one another: the
processor pops only with the writer at rest. Each action of the processor is one step of the proof.

`FInv` adds the order of the frames. `FramesInOrder` speaks of neighbours in the queue; when a PRESENT
leaves, all that remain must belong to later frames, so the order must be known along the whole queue
(`Sorted`), up to the frame being assembled (`LinedUp`), against the swaps that are due (`HeadOfLine`)
and for the draw already taken out (`JobDue`). `QueueStep` says how the ring moves in one clock,
pushing and popping included, and `DueStep` that at most one swap becomes due.

`SketchDriverProofs.tla` also proves of the AXI wrapper, for every behaviour of the register port
(`AxiAssumption`: it is sometimes free for the CPU):

| theorem | property |
|---|---|
| `AnswersAreSound` | `AnswersSound`: an answered write was carried out once, an answered burst not at all, and no answer comes before its request |

A write passes through phases: not begun, address offered, address held, answered. `WritePhase` says
where the master and the wrapper can be together in each; `Held` that nothing has been carried out
while the address is held, and that the latched burst flag belongs to this write. `WriteOnce` speaks
of the last phase only and follows from `Held` in the clock that ends the write.

`SkProofs.tla` proves of the buttons, for every depth of the queue and every set of buttons (`SkInputAssumption`):

| theorem | property |
|---|---|
| `NoPressLost` | `PressesKept`: a pressed button is latched, pending or in the input thread's hands until it is posted |
| `EventsAreTrue` | `EventsTrue`: that, and the switch is taken to have changed only to a value its last four samples agree on |

`KInv` adds where the two threads of control can be: the handler acknowledges only bits it has collected
(`HandlerKeeps`), and what the thread took and has not posted is still in its hands (`ThreadKeeps`).
For the switch, the counter of the debouncer is tied to the samples it stands for.

`SkProofs.tla` proves of the UI, without any bound and for every failing load and render:

| theorem | property |
|---|---|
| `BeliefsAreTrue` | `BeliefsTrue`: a page whose shadow is valid is a home page with one box, at the card the shadow says; the model believed loaded is in the controller, in its mode |
| `LimbsOpen` | `FeetNeverCross` (a part of `ShownTrue`): in a jump the limbs of the two sides open outward |
| `ShownIsTrue` | `ShownTrue`: what is on display is of the card the thread is in, with one box and one pose, and a selection not on display is dirty |
| `StepsAreShown` | `StepsShown` (action properties): the page a step shows has the present label and one model; no limb turns by more than one step |

`ShadowTrue` needs that a page is drawn for the home screen only at home and that both shadows are
invalid when a card has drawn on the pages (`ValidAtHome`), at every step between two polls;
`CacheTrue` needs that what is loaded is an entry with the mode of that entry (`LoadedIsEntry`).
`ShownTrue` speaks of the front page, but a page comes there by a present only: `ShowInv` says what the
page drawn on holds at each step of a frame (the box at `load`, a clear window at `render`, one pose at
`present`), that both pages are of the scene except while the second one is being seeded (`Own`), and that
a home screen just seeded is dirty. `UInv /\ ShowInv` also gives the action property; for the angles the
two tables of the motions are compared frame by frame (`WalkNear`, `JumpNear`).

`RtServicesProofs.tla` proves for any number of blocks, objects and makers, and any batch (`ObjectAssumption`:
blocks and variables are different memory, a batch holds at least one, NONE is no node and no class):

| theorem | property |
|---|---|
| `ObjectsAreSound` | `ObjectsSound`: types, lists and memory agree; no block is lost, none is two things |
| `EverythingIsShown` | `ShowsAllThatStay` (an action property): a list command that ends has shown all that was there all along |

In the middle of a create or delete the three views of an object differ, so `ObjectInv` says for each stage a
maker can be at what is already and what is still true of the object in its hands (`InHand`), that no two
makers have the same one (`OneMaker`), and that a listed object without a type is in somebody's hands
(`ListMeansType`, the converse of `TypeMeansListed`, which is not inductive without it). `NoBlockLost` needs that a second block is no object and belongs to
one (`Seconds`).

A walk stops between two batches, at a node that may go meanwhile. `WalkInv` says that what is still owed is
shown, in the batch, or behind that node in the list (`Ahead`): nodes enter in front and leave anywhere, which
keeps the order of the others (`InFront`, `TakenOut`), and if the node itself goes its type goes first. If it is
back in the list it is at the head, before all that is owed.

It proves of the timers, for any timers, threads and delays, any number of rows, either mask and any width of the
tick, from `TimerAssumption` and `Careful`:

| theorem | property |
|---|---|
| `TimersAreSound` | `TimersSound`: rows sorted and in agreement, a timer nobody works at active exactly while it is listed, no sleep past the first soft timer |
| `TimersFireInTime` | `TimersFire` (action properties): a function is called for an active timer that is due; after the interrupt's check none is due; the timer thread suspends itself for no listed timer (but one due at RT_TICK_MAX) |

`TimerAssumption` bounds a delay by half the range of the tick (as the code's assertion does, less the lateness),
and has the programs of a careful system keep three rules (`Disciplined`): their functions start no timer that
a thread starts, but a hard one itself; a hard timer that starts itself is periodic and stays so; the functions
of hard timers leave soft timers alone. Section 3 says what the code does to programs that break them. That a
timer is served within `MaxLate` ticks is the guard of the tick (`InTime`).

Order by a difference of words is no order unless all words lie in half the range, so the invariant measures
each timeout by its distance `Until` from the earliest tick that can still matter: on this scale it counts down
with each tick and never wraps (`TickPasses`), the code's comparison is that of the distances (`TickOrder`), and
due is at most `MaxLate + 1` (`DueWhen`). `TimerInv` says that every listed timer is in the window, which a
tick leaves only if the timer is late (`NotLate`) and a start enters (`NewTimeout`); that the lists are in the
order of the distances; and that the rows are without repetition and each is part of the next (`RowsAgree`). The search
that goes down a row at a timer finds in every row the same place as one from its head (`SearchStep`, `DownARow`,
`RowHeads`), whence insertion keeps all of it (`InsertStep`), as does removal (`RemoveStep`). In the middle of calls the flags
and the lists differ: `FlagsTell` names who may be at work (a client that is about to clear the flag, or the
timer thread with the timer whose function runs), `CallSound` what each client in a call relies on, and
`FunctionSound`, `NoteSound` and `SleepSound` what the timer thread does: the timer it has noted is still listed, and was
due when it looked only if it is due now (`EarlierTick`).

`SketchDriverProofs.tla` proves of the driver on the clocked core, from `SketchBookAssumption` alone:

| theorem | property |
|---|---|
| `PushIsServed` | `PushServed`: the CPU never stands in a refused push, and no push strobe meets a closed or full FIFO |
| `PresentIsSound` | `PresentSound`: the completion cleared is one's own, only presented frames are on display, nothing is written while a swap is pending |
| `ImplementsBuffer` | the safety of `DoubleBuffer`: `DSpec => Buffer!Spec` |

None of these is inductive: whether the readiness polled still holds at the push depends on where the
last PRESENT is. The invariant `DInv` therefore says that a PRESENT on its way is in exactly one place
(`Strobed`, `InFifo`, `Requested`, `AtBoundary`), that while there is one the CPU stands in its wait, and
at every other point of the driver nothing is pending and the FRAME_DONE bit is clear (`Knows`). One lemma
per stage (in SketchBookProofs, like `CoreClock` which joins them) shows how a PRESENT moves on or swaps;
`Accessed` what each access leaves in the registers. With
`FInv` this gives that every draw taken from the FIFO is of the frame shown next (`HeadFrame`), hence what
is on the pages, and each clock maps to `Draw`, `Present`, `Show` or a stutter.

`SceneSystemProofs.tla` proves of the Scene controller alone, from `SceneAssumption` alone (any queue depth,
counter widths, set of registers the CPU writes, and any answers of the SketchBook port):

| theorem | property |
|---|---|
| `PipelineIsSound` | `PipelineSound`: a frame is executed only in command mode and under the lock; types |
| `PushesAreKept` | `PushKept`: a push the register bank accepts is stored (one it does not accept is answered OK too, and dropped) |
| `PortIsShared` | `PacketExclusive`: sequencer and engine never stand on the port together |
| `NoDrawLost` | `DrawServed`: the sequencer never waits for a DRAW nobody executes |

The guards of the register bank read BUSY and the lock a clock before the strobe they admit acts, so each
property depends on what cannot happen in that clock. `SInv` says what is still true when a strobe or a
pulse arrives: a load finds no frame (`LoadAlone`), the FIFO is released only by a sequencer that has left
the frame (`Released`), and in command mode the engine renders only while the sequencer waits for that
DRAW, never presents by itself and keeps its model (`EngineServes`, on `EngineTrue`). `RegsStep`,
`LevelStep`, `SequencerStep` and `EngineStep` say what each block's clock tells the others, with one step
per action; the preservation lemmas use only those, and `ResetClock` deals with a clock in reset.

The same module proves of Scene controller, arbiter, display core and UI thread together, from the
assumptions of the two components, `SystemAssumption` and the hypothesis `NoAbandonedPresent` (below), for
every depth of both queues, number of triangles, order of jobs and render configuration:

| theorem | property |
|---|---|
| `AccessIsServed` | `AccessServed`: no access of the UI thread waits for ever; every push strobe is taken |
| `NoPushLost` | `CommandsArrive`: what the UI thread read of CMD_READY still holds at its pushes, and the FIFO takes the command a clock later; no push is dropped with an OK answer |
| `PacketsAreIntact` | `PacketIntact`: a producer about to push finds its own command in the registers |
| `CompletionsAreOwn` | `CompletionsOwn`: UI, sequencer and engine (its automatic PRESENT) each take only the completion of their own PRESENT |
| `ComponentsStaySound` | `PipelineSound`, `PushKept`, `PacketExclusive`, `DrawServed`, `FramesInOrder`, `QueueSound`, `NoLateCommand` hold in the composition |
| `CoreStaysDoubleBuffer` | `StaysDoubleBuffer`: with two producers the core implements `DoubleBuffer` |

No lock protects the port, so the argument is one of phases. `SysInv` has two halves. `SceneSide` says what
the controller is at while the UI thread is at a given place (`Phase`): outside its own waits the thread
finds the controller at rest, while it waits for a load only the engine is at work, and during a command
frame the sequencer goes through a queue of exactly one DRAW and one PRESENT (`Running`); `Assembled` and
`Tied` are what the thread must know for this (which commands it has queued, the mode, the model loaded).
`SketchSide` says where a PRESENT on its way is (the stages of SketchBookProofs): at most one of the three
parties waits for or clears a completion and it is the one whose PRESENT is under way (`Owned`), and whoever
is between its readiness poll and its push finds no other push before it (`Pushes`). A step of the system
is a step of the thread, of one producer on the port, and a clock of the core: `RestBus`, `FrameBus` and
`EngineBus` treat the port's three possible users, `SceneSideStep` and `SketchSideStep` preserve the halves,
and both rest on the invariants `SInv` and `FInv` of the component proofs, reused as they are.

`NoAbandonedPresent` says that the application does not stop a render that presents by itself (or sets no
`AUTO_PRESENT`). It is a condition the code needs: `scene_stop` waits for SWAP_PENDING to fall, and after an
ABORT of the engine's automatic PRESENT the push may not have reached the core yet, so that the thread goes
on, and its next push may meet the closed FIFO. With `RenderCfgs = {{"AUTO_PRESENT"}}` and
`Stoppable` the same set TLC finds that state. sk_os sets no `AUTO_PRESENT` and waits its renders out; the demo
that sets it (`scene_sk3d_demo/main.c:32`) interrupts none. Every configuration run here satisfies it.

`RtThreadProofs.tla` (the first two) and `RtIpcProofs.tla` prove of the kernel and its IPC objects, for any
number of threads, priorities, timeouts and objects, from `KernelAssumption` and `IpcAssumption`, and the hypothesis `Disciplined`
(`Careful /\ ~Behind`):

| theorem | property |
|---|---|
| `KernelIsSound` | `ThreadsSound`: each thread is on the one list its status says, the bitmap names the priorities with a ready thread, a timer belongs to one suspended thread, and no thread that is gone is executed |
| `MostUrgentRuns` | `RunsHighest`: with an object other than a mutex in use, the thread that executes its own code is a most urgent one of those ready |
| `MutexExcludes` | `MutexExclusive`, a conjunct of `MutexSound`: who came back from a take is the owner until its last release, for any number of mutexes |
| `MutexIsSound` | `MutexSound`: with one mutex in use, it also lends its owner the priority of those who wait, and takes it back |
| `NothingIsLost` | `NothingLost`: no token of a semaphore, message of a mailbox, block of a queue or of the pool is lost, doubled or out of order |
| `PoolCoversItsWaiters` | `MpCountCovers`: `suspend_thread_count` is never less than the number of threads that wait for a block, whatever times out and is deleted |
| `NoneIsForgotten` | `NoneForgotten`: nobody sleeps on a semaphore above 0 or on bits that are set, and what a mailbox, queue or pool has while somebody waits has been announced to a thread on its way |

`Disciplined` leaves out what the code does not survive, and the runs `delete_tick`, `resume_twice` and
`pool_count` show that it does not: a timeout that runs out while its thread is being resumed or deleted, two
threads that handle a third at once, and an `rt_mp_free` that reads the status of a suspended thread behind a
pool nobody waits for. What stays in is the tick, every handler and every other thread between the look at the
status and each of the sections. `OneList` counts links;
the invariant `IInv` says the same of sets. `Good(off, reaped, least)` is the set of kernel states that are
well typed and linked: ready and wait lists, list of the dead, timers in order of their ticks and none with
fewer than `least`, bitmap, idle thread. The threads in `off` are being deleted and on no list, those in
`reaped` are being freed; rt_timer_check passes through states with `least = 0`. `CallsOK` adds that nobody
deletes a thread that deletes, or that another one deletes; `RunsWell` that the processor executes a ready
thread or one that is about to reach its rt_schedule with the scheduler unlocked, hence a tick in between cannot
lose it; `WInv` that a thread whose status was looked at (`Handles`) is handled by nobody else, stays suspended
until it is resumed, and is on no list and without a timer between the two sections of `rt_thread_resume`.

Each routine of the kernel has a lemma that takes a good state to a good state and says what it leaves alone
(`Unlinks`, `Enters`, `Starts`, `Suspends`, `Resumes`, `ChangesPriority`, `TimesOut`, `Yields`, `Schedules`,
`Ticks`); the actions on objects use only those. `Schedules` is where the idle thread matters: it is never
suspended, so the bitmap is never empty. The loops (timer check, resuming all waiters, one pass of an event)
are recursive functions; `Folds` shows that such a function exists, by the well-foundedness of the naturals
(`Least`), and `Stays` that what one turn preserves, the loop does.
For `MostUrgentRuns` the lemmas also say that what makes a thread ready has come to the scheduler when it
returns, or left the processor where it was and made nobody ready (`Settled`). `HInv` then distinguishes the
thread that is leaving (it suspends itself, or its call ends in rt_schedule, or it detaches an object) from
one that is a most urgent one (`Top`).

The mutex theorems rest on `XInv`. `rt_mutex_release` names the heir while the heir still sleeps, so exclusion
needs to know what a sleeper will find: `Pend` is who will return from a take with no error, and `Excludes`
says that a listed waiter pends and does not own the mutex, that a thread in a take which is not listed any
more and saw no error owns it (`WokenOwns`), and that an owner whose take has not returned is such an heir
(`HeirComes`). `Lends(m)` says that the owner is as urgent as every waiter and has its own priority if it owns
nothing. Most actions are `Quiet`: they pass no mutex on, and each thread that pended goes on pending, is
refused with an error, or is gone; the `Quiet` lemmas do all of those at once. The takes and releases that
change a mutex are the other cases (`QuietOrLoud`), one lemma each. Inheritance uses that the waiters are
sorted by priority and that a list stays sorted when it gets thinner (`ListedSorted`, `Thinner`).

`NothingIsLost` has one invariant for each kind of object.

* Semaphore: `SemInv`. A release that finds a waiter passes its token on and the value stays; the taker has
  it when it returns from the switch. `InHand` counts those on the way, and `Balanced` says that value, tokens
  on the way and tokens in use are as many as at first. A thread deleted on its way takes its token along
  (`Carried`); the sum is then smaller, never larger. The induction needs that a waiter's call will return
  without an error unless somebody sets one (`Waiting`), and that only calls about semaphores pend.
* Mailbox: `MbInv`. The two offsets are `entry` apart on the ring, and what lies between them is what was
  posted and not fetched (`Turns`, `Posts`, `Fetches`).
* Message queue: `MqInv`. There are two lists without repetition, of messages and of free blocks, whose links
  are those of the code (`Chain`), and with the blocks being copied, each held by one thread, they have every
  block once (`Split`). One lemma per way a block moves: `TakesBlock`, `LinksLast`, `LinksFirst`,
  `TakesMessage`, `Returns`, `QueueReset`. `MessagesFound` and `FreeFound` show that the walks in `MqChained`
  then find these lists, `LongAsMany` that a list is as long as its set is large.
* Pool: `MpInv`. A block that is freed is not on the free list, since only a block that was taken is freed.

`NoneIsForgotten` adds `Serving`, once more with one part for each kind. A sender does not hand its message
over: it puts it into the object and makes the first waiter ready, who looks again after the switch; in
between anybody may come first, and the thread that was told may be deleted. What is invariant is therefore a
comparison of counts: while somebody waits, there are at most as many messages (slots, blocks) as threads on
their way (`Thanked`). `OnTheWay` holds a thread from the wake-up until it looks, and one deleted in between
for ever; `Wants` says that who is on the list has not been told and will look for the same thing again.
A step of one thread, or of a handler, leaves each other thread as it was, refuses it, or tells it
(`GoesOn`), and there is a lemma for each way a step can move one side of an object: `SideMoves` (the general
one), `WakesSide` (one more thing, one thread told), `JoinsSide` (a thread starts to wait, and found nothing),
`QuietSide` and `EmptySide`. Most actions are `Quiet`, as for the mutex (`KernelQuiet`, `ResetQuiet`,
`RefusedQuiet`). The mailbox has two sides. The pool wakes by a count instead of by its list, which is why
`CountsEnough` is part of its invariant: were fewer counted than wait, a free would wake nobody.

`PoolCoversItsWaiters` is `CountsEnough` with the length of the list instead of the size of its set
(`AsLongAsItsSet`): a timeout or a deletion takes a waiter off the list and leaves the count, a free that finds
nobody counts one of those left over away, and never one that still waits.

`IpcAssumption` asks that there is a block and that they are finitely many (`rt_mq_init` cuts them from a pool
of a given size), and that a mutex can be taken at least once.

`Mutexes = {m}` in `MutexIsSound` is a condition the code needs: `rt_mutex_release` restores the priority from
before the take, although the thread may own another mutex whose waiters still lend it theirs
(`ipc.c:829-836`). With two mutexes TLC finds that state; exclusion does not depend on it.

`RtHeapsProofs.tla` proves of the small-memory heap, for any `MemSize` and `MemSizes` of `MemAssumption`, and of
the heap of several pools, for any number and sizes of pools and any callers (`MemheapAssumption`):

| theorem | property |
|---|---|
| `MemIsSound` | `MemSound`, a conjunct of `HeapsSound`: headers tile the heap and know their neighbours, the used blocks are those held, no two free ones touch, `used_mem` and `lfree` are right |
| `MemKeepsItsPromise` | `MemKeepsPromise`: the heap implements `Allocator`, also while rt_realloc has let go of the lock |
| `MemheapIsSound` | `MemheapSound`, a conjunct of `HeapsSound`: rings linked both ways, free lists complete and without repetition, `available_size` right, no two free items touch, the used ones are those held |
| `MemheapKeepsItsPromise` | `HeapKeepsPromise`: the pools together implement `Allocator`, while searches and moves of several callers interleave |

`MemInv` says that there is a set `C` of addresses that are headers (`Books`), of which it can be said locally
what `MemSound` says by walking: each successor in `C` is the next one, and behind it lies the way back
(`Linked`); `ChainFound` shows that the walk from 0 finds `C`. A header that was swallowed is not in `C` but
still leads on, and an address that never had one leads to 0, so a walk from wherever ends; that is why the
recursive functions of the model have a value (`WalkHasValue`, `WalksFall`). Marking, swallowing and cutting
(`Marked`, `Joined`, `CutIn`) are the three ways headers change; `TakesBlock`, `FreesBlock` and `ShrinksBlock`
put them together per operation, with what it does to the extents in use (`TakesKeep`, `FreesKeep`,
`ShrinksKeep`). `used_mem` is a sum over blocks in the code and a cardinality in the property (`ExtentsSum`).
The second conjunct, `Moves`, is that a block rt_realloc is moving is still held. For the refinement each step
trades at most one region for another (`Trades`), and regions of different blocks do not overlap (`RegionsLie`).

`MemheapInv` has the same form per pool: `Works` says that there is a set of items in a ring (`Ringed`; `RingFound`
shows that following `next` passes all of them), of which the used ones are the heads of the regions in the pool
and the idle ones are listed once, counted and not neighbours. In the middle of an operation that is not so: an
item may be idle and not listed, or touch another one. `Shape` therefore names the listed set `L` and the set `X` of
items that may still have an idle one behind them, and one lemma each says what the pieces of the code do to it:
`Listed`, `Unlisted`, `MarkedUsed`, `MarkedFree`, `ShapeJoined`, `ShapeHalved`; at the end `L` is everything idle and `X` is
empty (`Settled`). `AllocatedWorks`, `FreedWorks`, `GrownWorks` and `ShrunkWorks` put them together in the order of
the code. `available_size` is a sum kept by hand in the code and a cardinality in the property (`RoomSum`). `BooksMove`
carries what one pool does over to all pools, which lie apart (`PoolsApart`). `PoolCalls` is needed because the lock is not held
through a call: the block a call is moving is still held, and nobody else's call is moving or freeing it.

Only model-checked: everything under fairness (`PresentReturns`, `FramesRetire`, `WaitsEnd`, the
liveness half of `IsDoubleBuffer`), the refinements of Allocator by slab and of LineEditor, and the
invariants of slab and shell. Beyond the prover's reach and therefore left to TLC: liveness, ENABLED, and what the folds
and recursive functions of RtFinsh and the heaps compute for every input (induction over data).

## 5. Not modelled

* Pixels, geometry, glyphs, clipping, colours, scan-out, performance counters: data that no state of
  the control depends on. The Scene arithmetic (transform, culling, painter order) likewise.
* The AXI reader that fetches a model and the interrupt registers with `scene_ctrl_wait.c`: not yet;
  the hazards list names what they should be checked for. sk_os polls and does not use the latter.
* The asset resolver (a pure check of a catalog) and the standalone multimesh tops (benches).
* GRU, GDU and DDR directories with `blade_os.c`: an earlier system, not instantiated by
  `soc_top_sketch` and not in the Makefile of sk_os. The matrix unit is independent of the graphics path.
* `kservice.c` (formatting, memory copies), `components.c` (order of initialisation), `cpu.c` (the
  multi-core build), `libcpu` (assembly), CPU and interconnect.
* Register writes to the Scene controller's CTRL that set several bits at once: each write of the model
  sets one.
* Of the kernel: hooks, `rt_*_init` parameter checks and assertions, signals, modules; the window in
  `rt_ipc_list_resume_all` between the test of the list and taking its head; realloc of slab.
* Of sk_os: the path through `SCENE_CTRL_STATUS_ERROR` of a command frame is in SkUi (`stuck`) and not
  in SceneSystem, because no DRAW it pushes names a mesh its model lacks.

## 6. Plan

Done: SketchBook, DoubleBuffer, SketchDriver, ScenePipeline, SketchAxi, SceneSystem; RtKernel, RtIpc;
the heaps; objects, timers, shell; SkInput, SkUi; the proofs of section 4.

Left, in this order:

1. SceneWait: interrupt registers, interrupt handler and waiting thread (`scene_ctrl_wait.c`); no
   completion is lost, the sleeping thread is woken.
2. SceneFetch: the AXI reader under ABORT and SOFT_RESET; a stale answer is not taken for a new one.
3. Two mutexes in RtIpc (nested takes released in either order), and the window in
   `rt_ipc_list_resume_all`.
4. SceneCmdFifo: ring pointers refining the queue of ScenePipeline; painter order and culling as pure
   operators; the asset resolver; the standalone sequencer.
5. The legacy command buffer with its driver, the clock-domain FIFO, `gfx_swap`, the matrix unit.

Proofs to come: the zones and pages of slab.
