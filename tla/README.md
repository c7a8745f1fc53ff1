# A TLA+ verification of AzaharPlus (Auto-Nuzlocke)

AzaharPlusAutoNuzlocke is a fork of the Azahar 3DS emulator that adds automatic
rules for Nuzlocke challenges. Its centre is a reimplementation of the 3DS
kernel: threads on up to four emulated cores, synchronization objects, processes
and system calls, driven by an emulation loop. This directory holds TLA+ modules
of the scheduler, the wait objects, the system calls on them, thread and process
termination, the address arbiter, sessions and ports, event timing, the emulation
thread with its signals and savestates, and the rules the fork adds, with TLC runs
on small instances and TLAPS proofs, for all instances, of the safety
properties the passing runs check.
Source paths below are relative to `src/src/` of the repository.

## 1. Inventory

| component | state | operations | interacts with |
|---|---|---|---|
| ready queue, `common/thread_queue_list.h` | a deque per priority, chain of the levels ever prepared | push_front, push_back, move, remove, prepare, pop_first, pop_first_better | owned by the thread manager of a core |
| thread scheduler, `core/hle/kernel/thread.cpp` | status, nominal and current priority, current thread, ready queue, pending wakeups | PopNextReadyThread, SwitchContext, ResumeFromWait, SetPriority, BoostPriority, Stop | wait objects, event timing, emulation loop |
| wait objects, `wait_object.cpp`, `mutex.cpp`, `semaphore.cpp`, `event.cpp` | waiting list per object; lock count, holder, priority; available count; signaled | ShouldWait, Acquire, Add/RemoveWaitingThread, WakeupAllWaitingThreads, Release, Signal, Clear | wake threads, change priorities |
| system calls, `svc.cpp` | none of its own | WaitSynchronization1/N, SleepThread, CreateThread, ExitThread, SetThreadPriority, Release*, Signal/ClearEvent, Terminate/Exit/ControlProcess, ... | everything in the kernel |
| processes, `process.cpp` | status, handle table, TLS slots, memory regions | Run, Exit, TerminateProcess | stop the threads of all cores |
| resource limits, `resource_limit.cpp` | a counter and a limit per resource | Reserve, Release | CreateThread, Run, Stop |
| emulation loop, `core/core.cpp` | pending signal and savestate request, running core | RunLoop, PrepareReschedule, Reschedule, SendSignal | calls the cores, timing, scheduler in turn |
| event timing, `core/core_timing.cpp` | per core a heap of events, a thread-safe queue, the slice | ScheduleEvent, UnscheduleEvent, Advance | wakeup callbacks of threads and arbiters |
| address arbiter, `address_arbiter.cpp` | list of waiting threads | WaitThread, Resume*, ArbitrateAddress | scheduler, timing |
| timers, `timer.cpp` | signaled, intervals | Set, Cancel, Signal | timing, wait objects |
| sessions and ports, `*_session.cpp`, `*_port.cpp` | requests pending and handled, both ends | SendSyncRequest, ReplyAndReceive, close | scheduler, services |
| savestates, `core/savestate.cpp` | files; a request with a start time | SaveState, LoadState | emulation loop |
| anti-ragequit, `core/poke_antirq.cpp` | the savestate file of slot 0 | onStart, onClose | frontend thread, SendSignal |
| Nuzlocke rules, `core/poke_export.cpp`, `poke_capture.cpp`, `poke_reader.cpp` | battle flag, pending deletions, removed pokeballs, captured routes, points | CheckDeadPokemon, ExportParty, OnBattleStarted, OnBattleEnded, RemovePokeballs, RestorePokeballs | guest memory, polled from `core/memory.cpp` |
| thread-safe queues, `common/*queue.h`, `ring_buffer.h` | ring indices | Push, Pop | timing, audio, logging |
| multiplayer room, `network/` | members, addresses, bans | join, leave, relay | own threads |

What is hard here. The kernel itself runs on one host thread and a kernel call is
never interrupted. Its difficulty is of another kind: a call runs nested loops
over state those loops change (waking a thread acquires objects, which changes
priorities, which reorders ready queues; stopping a thread wakes others, which
may be next in line to be stopped), the emulated cores take turns and see each
other's effects only when they are rescheduled, and timeouts race signals. These
are the interleavings the kernel models explore. Around the kernel there are real
host threads: the Qt thread stops, pauses and closes what the emulation thread runs,
other host threads schedule events, and the process can be killed between any two
steps, with a savestate half written. The Nuzlocke rules are a supervisor that
samples a game it does not control. `PROJECT.json` lists each hazard at its line.

What makes each component correct, in short: the ready queue is a FIFO queue per
priority; a thread is ready exactly when it is queued at its priority; waiting
lists and the threads' own wait lists agree; nobody sleeps on something it could
have; the outcome of a wait is decided once; a mutex has one live holder, who is
at least as urgent as its waiters; termination leaves nothing behind; calls and
timed waits end. An event fires on time, and the clocks of the cores stay together
and never go back. An arbiter lists exactly its waiting threads and wakes them in
order. A request is answered once, to the thread that made it, a server never sleeps
on work, a port counts its sessions. Closing the program ends, a savestate that was
seen to appear is complete, a request for one is performed or given up. Items are
conserved, a route gives one capture, and only pokemon that fainted die.

## 2. The modules

    ReadyQueueSpec         what a ready queue promises
    ReadyQueue             Common::ThreadQueueList, refines ReadyQueueSpec
    ReadyQueueProofs       inductive invariant and refinement proof

    KernelThread           state of the kernel; priorities, ready queues, scheduler
      KernelWait           wait objects, acquiring, waking, waiting lists
        KernelSvc          system calls, Stop, TerminateProcess, timer, loop; Spec
          Kernel           fairness and properties
            MCKernel       instances for TLC
            KernelProofs   types, ready queues, cores, timeouts, outcomes, termination,
                           no lost wakeup, mutexes, waiting lists, assertions, limits

    Lists                  what a vector keeps when elements are taken out
      ListProofs           lemmas on Keep, removal and least counterexamples
      Arbiter, MCArbiter   address arbiters
        ArbiterProofs      exact list, wakeups in order (with ListProofs)
      Nuzlocke             the sampled rules of the challenge
        NuzlockeProofs     captures, deaths, items (with ListProofs)
    Session                ports, sessions, requests and replies
      SessionProofs        requests, sleeping servers, session counts
    Timing, MCTiming       event timing and the slices of RunLoop
      TimingProofs         types, punctual events, bounded drift, monotone clocks
    Signals                emulation thread, signals, savestates, anti-ragequit
      SignalsProofs        types, the promise of closing

**ReadyQueue** keeps the representation of the class: the array of levels, the
pointers `first` and `next_nonempty` (an index, `-1` for the "unlinked" tag, `-2` for
null, whose order is that of the addresses compared in the code). The loops of
`link` and of the pops take one step per iteration. Operations are guarded by what
`ThreadManager` guarantees (a level is prepared before it is used); an access
through a null pointer leads to the state `segv`. The kernel modules use the
abstract view, a sequence per priority plus the set `prepared`, and check with
`LevelsPrepared` that the kernel keeps its side of that contract.

**KernelThread, KernelWait, KernelSvc.** The variables have the names of the
fields. A kernel call that is a single assignment or a few is one action; the
loops inside a call are taken one iteration per step, with registers in place of
the call stack:

- `sync`: the innermost loop. `scan` is the head of WakeupAllWaitingThreads,
  `acquire` the Acquire calls for one woken thread (or for a wait that need not
  block), `remove`/`detach` the RemoveWaitingThread calls, `add` the
  AddWaitingThread calls, `update` the mutexes SetThreadPriority recomputes;
- `stop`: Thread::Stop (`detach`, then `mutexes`);
- `term`: TerminateProcess, core by core.

While a register is busy only the innermost loop can move, and the next call,
timeout or reschedule waits until all are idle (`KernelIdle`). `executing[c]` says
that core c may run guest code; PrepareReschedule ends the slice of the core that
made the call and of no other. Assertions of the code add their text to `panic`
and stop the system, as in a debug build. The assertion of CallSVC that the process of
the caller runs (svc.cpp:2396, a DEBUG_ASSERT) is the guard of `Calls`: in a release
build it is compiled out, and a thread that still executes after its process has exited
on another core (section 4) goes on making calls, CreateThread included. On several
cores TerminationIsComplete rests on this guard.

Choices a reader should know:

- Reschedule of a core and timing events may happen whenever no call is under way.
  RunLoop calls them in a fixed order per pass, so the model has more behaviours
  than the code; the counterexamples of section 4 are possible in
  RunLoop's order.
- Guest code may make any call at any time with the objects and lists the
  constants allow. A call that fails without effect is a stuttering step. Handles
  are the objects; permissions and handle lookup are left out.
- `Controllable`, `Terminable`, `StaleHandles`, `TimedThreads`, `ReleaseCounts` and
  `SetPriorities` say what the guest does in an instance. The theorems hold for every
  value of them, including StaleHandles (terminating a process that has already
  exited, which the code answers with an assertion, process.cpp:119).
- A mutex has priority 0 initially in the model; in the code it is uninitialised
  until the first Acquire, and neither reads it before.
- What a kernel instance leaves out, it leaves out by empty constants.
- A thread's core and process are constants, as is its creation priority: a thread
  is created at most once, so there are as many threads as elements of `Thread`.

**Arbiter** takes from the kernel what concerns a thread in WaitArb: the timeout, the
switch that cancels it, priority changes, exits. Which ready thread runs is left to
chance, since KernelThread models the scheduler. `waiting_threads` is the vector with
its reordering: `AfterResumeHighest` is the stable partition followed by the erase of
the minimum. `arrivals` is a history variable, the waiting threads in the order in
which they came, against which the order of wakeups is measured.

**Session** models both kinds of server. A port of a process has `pending_sessions`
and is accepted from; a port in `Hle` connects its sessions to a handler of the
emulator, whose answer comes after a delay (`HleAnswers`, `DelayEnds`) or from an event
(`HleSleeps`, `HleWakes`). `client` and `server` are the two endpoints, `server` ends
with its last reference: the port's queue, a handle, the handler, or the context of a
sleeping request. A session is connected once; four of them bound the run.

**Timing** has one timer per core with `slice_length`, `downcount` and
`executed_ticks` as in the code, so that the time of a core is computed as GetTicks
does. RunLoop is taken in steps: the search for cores that are behind (`sync`), the
callbacks of a core's Advance one by one, the run of the core furthest behind, or the
pass over all cores. What a core executes is a choice of ticks up to `Overshoot` past
its slice. Another host thread schedules in two steps: it reads the ticks, off by up
to a slice when the read races with Advance (`Tears`: the three fields are not
atomic), and pushes the event; `heldUp` marks an event whose thread was held up
between the two until the timer advanced again, for which nothing is promised.

**Signals** has two host threads. `emu` follows EmuThread::run: the condition
variable is split into the test with the mutex held and the sleep, RequestStop into
its store of stop_run and its SetRunning, so a lost wakeup would show. SaveState is
two steps, the truncating open and the write, either of which may fail. `fe` is the Qt
thread: it handles one event at a time and none while onClose polls or ShutdownGame
waits. `ShutdownGame` has the two ways of the code: while a video is dumped it sets
game_shutdown_delayed, queues a task that stops the video (`StopDumping`, then
`OnDumpingStopped` on the Qt thread) and returns to its caller; otherwise it stops and
joins the emulation thread. closeEvent calls it once itself and once for each of the two
windows of the game it closes (`CloseWindow`), and then the program ends (`closed`); Qt
may still handle events that were posted before, which the model leaves out. A video
begins with the game or later (`OnDumpVideo`), one at a time, when `MayDump`; only its
start and end matter here. The message box of `OnCoreError` is taken as its end, when
the game goes on; until then other events may be handled, as in the nested event loop
of the code, and nobody is assumed to dismiss it. The other errors of OnCoreError
(missing system files, a lost Artic server, fatal errors) are left out. So is booting a
game over one that is being recorded, where BootGame replaces an emulation thread that
runs, and starting a video when the guest has shut the system down. DebugModeEntered and DebugModeLeft block the emulation thread until the Qt
thread handles them (BlockingQueuedConnection). Time is counted in ticks; the two five
second limits are `RequestLimit` and `CloseLimit`. `Restarted` ends the process at any
moment and keeps only the files. `promise` remembers that closing an open game found
no file, asked for one and saw it appear.

**Nuzlocke** is the supervisor called from SetCurrentPageTable: `CheckDeadPokemon`
every 100 ms and `ExportParty` every 2 s, each one action, as the game is stopped while
they run. A pokemon is its party slot, `g_battleData` says which party slot the data
last read for a battle slot still matches (a move changes the PP and breaks the match).
The game is external: its actions change its memory between samples. What is assumed
of it is written in its guards: battles last longer than a sample (`Noticed`), the
pocket has a slot for every item, and no ball is found in the moment between the end of
a battle and the sample that notices it. Section 4 tells what happens otherwise. Of the
files it is assumed that they can be read and written, each as a whole: when visRou.bin
cannot be opened (poke_capture.cpp:137), or the process ends in the middle of its write,
the next load forgets the mark and the route gives another capture. `Restarts` is a new
process that loads the savestate of the anti-ragequit. A game stopped and booted again
by the same process keeps the static state of the supervisor (poke_export.cpp:235,
poke_capture.cpp:107), and a start without a savestate goes back to the last save of the
game; neither is modelled.

## 3. Runs that pass

Deadlock is checked except in `arbiter` and `session`, where all threads may wait for
ever or have ended, as they may in the code. Where a type invariant says no more than
the types of the variables it is left to its theorem (section 5).

| run | instance | states | shows |
|---|---|---|---|
| `ready_queue` | 4 levels, 2 threads | 16 thousand | ChainOK, NothingStranded, NoNullDereference; refinement of ReadyQueueSpec; WalksMakeProgress, LoopsTerminate |
| `kernel_mutex` | 1 core, 3 threads of 3 priorities, a recursive mutex, one timed thread, SetThreadPriority | 662 thousand | NoPriorityInversion, MutexOwnership, BoostEnds, ReadyExactlyQueued |
| `kernel_waits` | 2 processes on 2 cores, 3 threads waiting for any or all of a semaphore, a mutex and a one-shot event, each contested by two, a join, timeouts, one process terminated at any time | 986 thousand | NoLostWakeup, WaitListsExact, NoStaleTimeout, NoPanic, ThreadAccounting, TerminationIsComplete; OutcomeIsFinal, CallsMakeProgress |
| `kernel_live` | 2 cores, 2 threads, joins, a mutex, a pulse event, timeout, ControlProcess, termination, with fairness | 107 thousand | TypeOK, ExecutingIsRunning, LevelsPrepared; KernelCallEnds, TimedWaitEnds, SchedulerCatchesUp |
| `arbiter` | 4 threads, 2 addresses, 2 priorities, signals to all, none, one and two | 178 thousand, up to symmetry | ListsExactlyWaiting, WakesInOrder |
| `session` | 3 clients, 2 servers, 4 sessions, a port of a process and one of the emulator, 2 sessions per port | 53 thousand, up to symmetry | RequestsAccounted, SleepsOnlyWhenIdle, ActiveSessionsExact |
| `timing` | 2 cores, slices of 2 ticks, overshoot 1, tolerated delay 1, 2 events, one from another host thread | 1.6 million | TypeOK (positive slices), OnTime, DriftBounded, TicksMonotone |
| `signals_promise` | one asynchronous operation, one onStart timer, videos | 5.7 million | PromiseKept |
| `signals_live` | one asynchronous operation, one onStart timer, no videos, with fairness | 530 thousand | CloseEnds, RequestEnds |
| `nuzlocke` | 2 routes, 2 pokemon, an ordinary ball, the ball 576 and another item, 2 items at once | 2.5 million, up to symmetry | TypeOK, ItemsConserved (with one stack of each item), OneCapturePerRoute, OnlyFaintedDie |

Bounds. Three threads are the least with a holder, a waiter and a bystander that
can come between them; three priorities give an inversion room. Two cores suffice
for one core changing the other's threads. Four levels let `link` insert before,
between and after. `MaxLockCount` (2 where recursion matters) bounds how often a
held mutex is locked again; semaphores count to 1, so that one release is contested.
Kernel threads are created once, which bounds those runs without state constraints,
and no symmetry is used in them: threads differ in priority, core or process.
In `arbiter` four threads leave three on one list while a fourth signals, so that a
reordered list is signalled again. In `session` three clients fill a session's list
while one is handled, and two sessions per port reach the limit. In `timing` a slice
of 2 and `MaxTicks` of 6 give three slices per core; `Drift` and the bounds in OnTime
are formulas over the constants. In the runs of Signals a single asynchronous operation
is enough to hold a request back, and RequestLimit 0 and CloseLimit 1 let each limit be
missed and met; `signals_live` leaves out videos to keep the check of fairness small
(CloseEnds also holds with `MayDump` TRUE and no onStart timer: 964 thousand states). In `nuzlocke` two items at once cover a stack of two and every pair of
items. The symmetry sets of `arbiter`, `session` and
`nuzlocke` are sound, as nothing distinguishes the elements they permute.

Fairness. Kernel (`Fairness`): weak fairness of `KernelStep`, as a call that was
entered runs to its end on the host thread; strong fairness of `Reschedule(c)` for
each core and of `TimeoutFires(t)` for each pending wakeup, as RunLoop visits every
core in every pass, and an idle core advances its timer, so neither can be passed over
for ever, but a call may be under way in between, which disables them
intermittently. Nothing is assumed of guest code. In ReadyQueue the loop steps are
weakly fair. Signals (`FairSpec`): weak fairness of the emulation thread, of the steps
of closing and stopping on the Qt thread, and of the clock, as the host schedules its
threads; strong fairness of `HandlesDebugMode`, as the Qt event queue is first in, first
out and a handler that is busy with something else comes back to it. Nothing is assumed
of the user (who need not resume a paused game or dismiss a message), of the task that
stops a video, or of the guest.

What the liveness properties leave open: CloseEnds allows the mutual wait of
`signals_hang` and an emulation thread that is in StopDumping for ever (section 4) as
the only ways not to end; RequestEnds speaks of a game that goes on running.

## 4. Disagreements and observations

Two runs find a violation of what a comment or an assertion of the code says.

- `kernel_exited_process_runs`: RunLoop runs the slices of all cores in turn. When
  the slice of core 0 exits the process, core 1 still executes its dead current
  thread, against the assertion in CallSVC (svc.cpp:2396).
- `signals_hang`: a game is booted and stopped, or the program closed, at once. The
  emulation thread has looked at stop_run before it was set and, as it was not active
  before, emits DebugModeLeft (bootmanager.cpp:105), which blocks until the Qt thread
  handles it; the Qt thread is in ShutdownGame and waits for the emulation thread
  (citra_qt.cpp:1482). The comment at citra_qt.cpp:1464 orders the steps before that line
  so that `wait()` does not "hang forever". DebugModeEntered (bootmanager.cpp:121), which
  follows a savestate request that fails, leads to the same hang when the Qt thread is in
  onClose or on its way into ShutdownGame; TLC's trace is the shorter one.
Observed with the models, without a run of its own.

Kernel:

- a wait for all of a list that names a one-shot event twice: the first Acquire resets
  it, the second asserts (event.cpp:39), although RemoveWaitingThread provides for
  repeated handles (wait_object.cpp:43);
- a better thread is on the list of a free mutex because it waits for that mutex and an
  event; a worse thread takes the mutex; Acquire sets the mutex priority from the new
  holder alone (mutex.cpp:62) and the waiter is not inherited until a list changes.
  `kernel_mutex` shows that without such wait-all lists inheritance is right;
- a thread holds one mutex and waits for another: a better thread that then waits for the
  first one raises it, but Thread::UpdatePriority goes no further, and the holder of the
  second mutex stays as it was (mutex.cpp:129, thread.cpp:422). `InversionPrevented` in
  section 5 shows that these two are the only ways to lose an inheritance;
- a thread exits on core 0; before core 0 is rescheduled core 1 terminates its process:
  TerminateProcessThreads stops the still current dead thread again (thread.cpp:245)
  and its thread is released twice from the resource limit. ThreadAccounting allows for
  this, once for each core but the caller's, and for nothing else; the limit belongs to
  the exited process alone here, while in the code processes of one category share it;
- a thread that waits on its own handle is terminated: Stop wakes the joiners of the
  now dead thread before taking it off its own list, and the consistency assertion of
  the list fails (wait_object.cpp:55);
- thread.h:216 says BoostPriority boosts "until the next time it is scheduled", while
  the boost lasts until the next UpdatePriority.

Arbiter: Stop does not take a thread off the arbiter's list (thread.cpp:115). With an
arbiter that two processes share, the end of one leaves dead threads on the list and
the next signal asserts; ListsExactlyWaiting is about an arbiter of one process.

Sessions: closing the client end forgets its waiting threads without waking them, so
another thread of the client stays in WaitIPC for ever; closing the server end does
not wake clients (a TODO, server_session.cpp:42); requests and connections are served
last in, first out, so with three clients the first can starve; when several threads
receive on one session, a reply does not wake another of them for the next pending
request.

Timing: an event in the thread-safe queue is not removed by UnscheduleEvent (a TODO,
core_timing.cpp:120) and still fires; an event of a host thread that is held up between
its read and its push is late without bound.

Signals: a paused game stands in the frame limiter, so onClose waits its five seconds
and the game is not saved; closing within two seconds of a start saves the state of the
boot over the state that was to be loaded; a file from an earlier time ends onClose's
wait at once; the request status and the pending signal survive Shutdown and meet the
next game; a process killed while it writes leaves a partial file, and every start
reports an error until it is overwritten; every resume connects OnCoreError to
ErrorThrown once more; a video is being stopped by the task of OnStopVideoDumping when
the emulation thread ends or resets and stops it too: both wait for the one
processing_ended (ffmpeg_backend.cpp:841), one of them for ever, and when that is the
emulation thread stopping the game hangs. When a game is booted with a video being dumped
and the program is closed before the task that stops the video has run, each of the three
ShutdownGame calls returns before the join (citra_qt.cpp:1453), the event loop ends and
the process exits with the emulation thread alive, although closeEvent is to "Shutdown
session if the emu thread is active" (citra_qt.cpp:3631). If the emulation thread is then
writing the savestate of onClose the file is left partial: this is the exception in
PromiseKept, which TLC reaches, and `ClosingKeepsItsPromise` shows it is the only one.

Nuzlocke: balls that are away are lost when the emulator closes during the battle
(the action `Restarts` takes them from the player); the ball 576 alone does not set the
flag that the player has had a ball; ids 16 and 576 share an entry (poke_capture.cpp:377),
which an assumption excludes; two battles within one 2 s sample look like one; a ball
found between the end of a battle and the next sample opens a second stack, and one of
the two is lost at the next removal; a pocket that is full loses its tail when the balls
come back (poke_capture.cpp:470); a heal or a move after the last sample of a battle
leaves a faint unpunished; a dead pokemon that is taken to another battle is converted
again; a failed conversion costs points all the same.

## 5. Proofs

All theorems hold for every value of the constants that satisfies the named
assumptions of the modules; the seven with a further hypothesis say so. Each invariant
below was checked by TLC on the instances of section 3 before it was proved.

**ReadyQueueProofs.** For every number of levels and set of threads.
`ChainAlwaysOK`: the chain links exactly the prepared levels in order. The inductive
invariant adds to ChainOK what the loops need: the cursor of `link` and of a pop
stands on the chain, every level the cursor has passed is empty, and a non-empty
level is linked (`NeverStranded`). `NullNeverDereferenced`: pop_first_better stops at a
linked level, so the walk meets that level before the null at the end. `Refinement`:
Spec implies ImplementsPriorityQueue, with a thread in the middle of a move counted as
already queued; a pop maps to the abstract pop in the step that returns, all other loop
steps stutter. `QueueTyped` is the type of the pointers, loops included. `WalksEnd`, an
action property: every iteration of `link` and of a pop makes WalkLeft, a natural
number, smaller.

**KernelProofs, scheduling.** `TypeCorrect`: Spec implies []TypeOK, for all constants that
satisfy the assumptions of KernelThread and KernelSvc. TypeOK alone is not
inductive: a step of a loop uses the thread and object in its register. PhaseOK adds
that the registers of a running loop are set, that an `add` loop has something left to
do, and that a thread being stopped is dead. The sequence operators (Without,
Reversed, Best) have lemmas of their own.

A second invariant, SchedInv, gives six results: `QueuesAreExact`,
`CoresRunTheirThread`, `TimeoutsAreFresh`, `QueuesArePrepared`, `NothingSurvives` and
`OutcomesAreFinal`. Its parts: the queues hold exactly the ready threads, once, at
their priority (QueueOK); a running thread is current on its core and an executing core
runs one (Placed); a thread not yet created has nothing (Births); a callback belongs to a
wait (Callbacks); the thread in the register of a wakeup loop waits, or runs when the
loop is its own call (Loops); the threads of an exited process are dead on the cores
TerminateProcess has been to (Ends). A step of the kernel then either leaves all
statuses alone while priorities move (lemmas about PrioStep and StillStep) or changes
the status of one thread and its place in a queue (StatusStep); each action is shown to
be one of these. OutcomeIsFinal follows because only a step that finds a thread
waiting writes its result.

**KernelProofs, wait objects.** `NothingLost`: Spec implies []NoLostWakeup. The invariant is
TypeOK /\ PhaseOK /\ Listed /\ Attended:

- Listed: a waiting thread is on the list of each of its objects, unless it is just
  being added or removed;
- Attended: a thread whose wait could end has an object whose wakeup loop is running
  (for a wait for any object: every available one of its objects).

The argument: a step either makes no object available to anyone who had to wait for
it, or the object's own wakeup loop runs afterwards (`Announced`); a thread starts to
wait only for what it cannot have; and the wakeup loop ends only when nobody on the
list could go, which by Listed is nobody at all. When no loop runs Attended is
NoLostWakeup.

Five more invariants rest on the previous ones.

- MutexInv, for `MutexesAreOwned` and `BoostsEnd`: lock count, holder and held_mutexes
  agree except for the thread that is being stopped, which is dead and still holds
  exactly the mutexes it has not come to; and every live thread has the priority
  UpdatePriority would compute for it.
- ListInv, for `WaitListsAreExact`: lists have no repetitions and only name threads that
  wait for the object; while a thread is taken off its lists, the lists it is still on
  are the ones the loop has to come to. With Listed this is the equivalence.
- PanicInv, for `AssertionsHold`: what a loop is about to acquire is still available and
  is not acquired twice. The hypothesis WellBehaved says that guests pass no handle of an
  exited process, no list that names an object twice and no list with the calling thread
  itself. Each of these, without the hypothesis, leads to a failing assertion (the stale
  handle in process.cpp:119, the other two in section 4), so the theorem says that
  there are no others.
- CountInv, for `ThreadsAreAccounted`: the count of a process is the number of its live
  threads, plus one while one of them is being stopped, less what was released too often
  (Missing). That is nothing until the process is terminated, and then at most one for
  every core TerminateProcess is done with, other than its own (Slack): on its own core
  the current thread made the call, runs, and stays alive until its turn (LastAlive), on
  another it may be dead and is stopped again. Threads still to be stopped are alive
  (Victims), so nothing else is stopped twice. The one hypothesis is that there are
  finitely many threads.
- InheritInv, for `InversionPrevented`: the hypothesis []Disciplined says that between
  calls no thread that waits for a mutex holds one, and none waits for all of a mutex and
  other objects. Outside of it NoPriorityInversion fails in two ways:
  Thread::UpdatePriority does not pass a priority on to the holder of another mutex that
  the holder waits for, and Mutex::Acquire does not look at the threads already on the
  list of a mutex that somebody else comes to hold (section 4). The theorem says that
  there is no third way. The invariant: whoever is on the list of a mutex holds none,
  but for what it is just being given (Unnested); whoever waits for a mutex is satisfied
  by it alone (Solo); a mutex has a priority no worse than that of its waiters, unless
  its UpdatePriority is still to come in the same call (Passed). As the hypothesis is only
  about the moments between calls, the invariant excepts a call that is about to break
  it (Straying). With MutexInv, by which a holder has at least the priority of each of its
  mutexes, Passed is NoPriorityInversion.
  `OneMutexSuffices` removes the hypothesis for the case of the run, one mutex that
  guests wait for by itself (OneMutexAlone), with any number of threads, cores,
  priorities and other objects: there a thread that holds the mutex and waits for it
  would have been woken, which is Attended.

`LoopsEnd`: Spec implies CallsMakeProgress, for finitely many threads and mutexes. The
loops of Stop, ReleaseThreadMutexes, TerminateProcess and WakeupAllWaitingThreads are
nested and run over lists, queues and sets that they change themselves. Work
lists what is left to do from the outermost loop to the innermost; every step makes it
smaller in the lexicographic order, or fails an assertion. A woken thread counts as one
sleeper while it is in the register of the wakeup loop, and ListInv says that the lists it
is still on are those the loop has to come to, so that it does not count again when the
loop looks for the next one, with an empty register (Looking). This is the part of
KernelCallEnds that is about the loops; that a step of a call is always possible, and
taken, is left to TLC.

**ArbiterProofs.** `ListIsExact` and `SignalsInOrder`, the latter an action property: of
two threads that wait at an address, the one that is better, or as good and earlier,
is woken no later. The difficulty is that a signal moves the threads of its address to
the end of the list; the invariant is that threads of one address stand in the list
in the order in which they came. Waking several is the iteration of a function, and its
result (SignalledOK) is proved for every count with the least counterexample
(LeastNumber in ListProofs), as there is no induction over naturals. `Keep` is written
without recursion for that reason: it places the k-th kept element by counting, from
which KeepProperties, in ListProofs, derives that it keeps elements, order and
injectivity.

**SessionProofs.** `RequestsAreKnown`, `ServersAreWoken`, `PlacesAreExact`. The
invariant is about where a session is: in the list of its port or with one server
thread (Listed, Accepted), known to the emulator only while connected (Connected), and
which session a waiting client called (Calls) and a busy server handles (Serving).
Counted adds to ActiveSessionsExact that finitely many sessions are referred to, and
follows a session from place to place with the cardinality theorems. Session's
assumption says that clients, servers, sessions and ports are different things.

**SignalsProofs.** `SignalsTyped` and `ClosingKeepsItsPromise`. The invariant Kept says
that while onClose waits the Qt thread does nothing else (Asked), that after the file
was seen the program is on its way to the end (Promised), that nothing that could
remove or tear the file is pending (Guarded: a Load that was pending finds no file, as
a Save is refused until the Load is over), and that the program ends after the
emulation thread, or with its shutdown put off (Ended, Writing). Each step of the emulation thread is shown to be
Harmless; the steps of the Qt thread are few while it closes.

**NuzlockeProofs.** `OneCaptureOnly` and `OnlyTheFaintedDie`, the latter an action
property, need no hypothesis. The invariant says where captures come from: a route with
a capture is in the file of routes, and a player who holds a ball in a noticed battle
is in one the rules allow (Marks), for which the balls kept aside must be balls, each in
the entry of its id, and kept only during a battle (Kept), and the flag of having had a
ball set before the ball 576 is owned (Flagged). For the deaths it says that in a
battle a mark is on a slot whose pokemon fainted, and what was read for a slot is
that slot's pokemon or matches nothing (Fighting); in the moment between the end of a
battle and the sample that notices it the marks that match are still on fainted
pokemon, and after it there are none (Over).
`ItemsAreConserved` and `ChallengeTyped` have the hypothesis RoomForAll, that the
pocket has a slot for every item; section 4 tells what RestorePokeballs does without
it. StockInv adds to the balance of pocket and removed balls that there is one stack
of an item and that no ball is in the pocket while balls are away. The pocket is a
list, so the proof is about what Keep, an append and a prefix do to the stock of
one item, and a pocket with one stack of each item is no longer than the number of
items (an injection into a finite set).

**TimingProofs.** `TimingTyped`, `EventsOnTime`, `CoresStayTogether` and the action
property `ClocksNeverGoBack`, for any number of cores, slice length, tolerated delay and
overshoot, any delays of events and any torn read of up to a slice. Other host threads
have at most one event pending at a time (OneFromHosts), as in the run. The invariant:

- Clocks: a core is never before its slice or more than an overshoot past it, a timer
  that is sane has run nothing of its slice, and which timers are sane and idle at each
  point of RunLoop. So the time a core sees is always executed_ticks + slice_length -
  downcount (TimesAre), and only AddTicks changes it: this is ClocksNeverGoBack.
- Orderly and Timely: the events of a heap differ in their place, so its front is the
  first of them; executed_ticks + slice_length is never past an event of the core, except
  on a core whose events are being fired, and an event of another host thread lies a slice
  after the last Advance of its timer. With Clocks this is OnTime.
- Course: a pass begins with cores that are at most MinDelay apart, and the slice of a core
  is at most what the ones before it have run, and an overshoot for each core between.
- Ranks, for DriftBounded between the passes. That no two cores are further apart than
  Drift is not inductive: the core furthest behind catches up and overshoots, then the
  next one does, and each could leave the others further behind. The invariant is that of
  any k cores one is behind every other core by at most Drift less k - 1 overshoots. A
  pass establishes it (RankedPass): of the cores in the set one is close enough before
  the core that is ahead, or the set would have no room (Pigeonhole). The core that
  catches up goes no further than an overshoot past another core, as the search has given
  it that slice (Prepared). The bound for k of the other cores and this one is an overshoot
  less than the bound for the k alone, and that pays for it (RankedStart, RankedRun).

Only model-checked are the liveness properties (LoopsTerminate, KernelCallEnds,
TimedWaitEnds, SchedulerCatchesUp, CloseEnds, RequestEnds), as fairness and ENABLED are
outside the proof system; of the first two the measure that falls is proved. All other
properties of the runs that pass are theorems.

## 6. Not modelled

- The rest of svc.cpp (memory, handles, debugging), register contexts, TLS, the CPU
  time limit of applications, and timers (timer.cpp).
- In the modelled parts: the translation of command buffers (ipc.cpp), sessions
  without a port, processes that end with requests under way; the clock scale,
  RemoveEvent and the locked event queue of a state being loaded; delays below zero,
  which the interval of a timer may give when it fires late (timer.cpp:97); what a savestate
  contains; movies, breakpoints, single steps and the Android and SDL frontends; the
  layout and encryption of a pokemon, the points and the export files.
- The lock-free queues of common/: their correctness is about memory ordering, which
  interleavings do not show.
- HLE services, memory management, the recompiler, video, audio, the multiplayer room:
  data conversion, numeric code, third-party or I/O. They are most of the repository's
  lines (with the vendored headers and generated archives of externals/).

## 7. Plan

1. Timers as one more wait object; CreateThread that fails after its reservation
   (svc.cpp:1293); 32 bit semaphore counts (semaphore.cpp:54).
