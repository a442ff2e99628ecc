# Verification of the Mini OS Kernel Simulator

TLA+ models of the simulator under `src/` (C++17, Qt 6), the TLC runs that check
them on small instances, and TLAPS proofs of what matters most about its core for
every instance. Paths in this file are relative to the repository root.

## 1. The system

The program simulates a small operating system in discrete time steps ("ticks").
`SimulationController` owns the components and the clock; the Qt GUI drives it.

| Component | State | Operations | Interacts with |
|---|---|---|---|
| `SimulationController` (`src/controllers/SimulationController.cpp`) | clock, running pid, quantum left, `state_`, `should_stop_`, `step_mode_`, thread, `simulation_mutex_` | `initialize`, `start`, `pause`, `resume`, `stop`, `reset`, `executeStep`, `setStepMode`, `setSchedulingAlgorithm`, `addProcess`; the loop of its thread | calls every kernel component; called by the GUI thread |
| `ProcessManager` | process control blocks, next pid | create, change state, decrease remaining time, list by state, reset | read and written by the controller; pointers escape to the GUI |
| `Scheduler` (FCFS, round robin, priority) | the last round-robin index | `selectNextProcess` on the list of ready processes | called once per tick at most |
| `MemoryManager` | frames, page tables, coarse clock, replacement algorithm | `allocatePages`, `deallocatePages`, `handlePageFault`, `accessPage`, `reset` | `addProcess` allocates, completion deallocates |
| `SyncManager` | semaphores and mutexes with FIFO queues, the registry of both | create, remove, wait, signal, lock, unlock, `cleanupProcess`, `detectDeadlock`, `reset` | the controller calls `detectDeadlock` in every tick, `cleanupProcess` at a completion and `reset` in its own; the primitives are for users of `getSyncManager` |
| `MetricsCollector` | tracking entries, finished metrics, CPU time | record creation, state change, execution, completion; averages | the tick and `addProcess` write, the GUI reads |
| `GUIController`, `Dashboard` | which buttons are enabled, refresh timer | one slot per button; `refreshGUI` every 200 ms | calls the controller on the GUI thread |
| `ConfigurationManager`, `InputValidator` | none of their own; the file they write and read | `saveConfiguration`, `loadConfiguration`: writer, line by line parser, range checks | `MainWindow`'s menu sets the controls of `Dashboard`, whose signals reach `SimulationController` |
| `ProcessTableWidget`, `MemoryViewWidget`, `GanttChartWidget`, `MetricsWidget` | copies of processes, frames, page tables and metrics, the highlighted row, the selected process, the list of blocks | update, select, clear | `GUIController` fills them after a slot or on the refresh timer |
| `MainWindow` | none | menu: open and save configurations, export metrics and log | calls `MetricsCollector` on the GUI thread, beside the ticks |
| `ExportController` | presentation | files | reads the above |

What is hard here:

* **Two threads.** `simulationLoop` runs on its own `std::thread` and executes a tick
  under `simulation_mutex_`. The GUI thread tests and writes the atomics `state_`,
  `should_stop_` and `step_mode_` without it, and `addProcess` takes no lock of the
  controller at all: its three calls (create, record, allocate) can fall anywhere in
  a tick.
* **State kept twice.** Who is on the CPU is in the process table and in
  `current_running_process_`; a page's place is in a frame and in a table; waiting
  time is a sum of differences taken at state changes; the quantum is counted in one
  handler and tested in another, a tick later.
* **Orders over time.** Fairness of round robin, service in order under FCFS and
  priority, FIFO eviction and FIFO waking are claims about histories, not states.
* **A file between two programs.** A configuration is written and read by code that does
  not know of each other's order; a write can stop half-way and a user can edit what is
  there; what was read reaches the simulation only through controls and their signals.
* **Copies on the screen.** The widgets keep copies, refreshed by some slots and not by others;
  the Gantt chart infers what was executed from who is RUNNING afterwards. While the thread
  ticks, a timer refreshes them every 200 ms without the controller's lock: one refresh reads
  the table, the clock and the running process at different moments of a tick, or of two.
* **Blocking.** `stop` joins the thread; deadlock detection and the exports take locks; a signal or
  unlock is the only thing that wakes a process, so a lost pid is a lost process.

What makes each component correct: the process table and the controller agree
(`RunningIsCurrent`); the statistics lose no tick (`WaitingTimeIsExact`,
`CPUTimeMatchesWork`, `CountedExactlyOnce`); each algorithm serves in its order
(`ServedInOrder`, `QuantumIsRespected`, `CyclesInOrder`); the
CPU does not idle (`IdleOnlyAfterSoleExpiry`); memory returns (`TerminatedHoldsNoFrames`)
and is one mapping (`FramesAndTablesAgree`, `ImplementsPaging`, `FIFOEvictsFirstIn`); the
two threads never tick together and control calls take effect and return
(`OneTickAtATime`, `QuietAfterStop`, `AtMostOneLateTick`, `HandlersReturn`,
`DashboardNotices`, `NeverTerminates`, `LogIsExported`); the machine is one processor
shared by jobs (`ImplementsProcessor`) and ends by itself (`SimulationFinishes`); exclusion, conservation and service of the primitives
(`MutualExclusion`, `SemaphoreConserves`, `SleepersAreQueuedOnce`, `EveryWaiterServed`);
what is shown is what is (`DisplayIsCurrent`, `PageTableIsTrue`, `ChartMissesOnlyLastUnits`),
also from a timer (`LastStateIsShown`, `ChartShowsWhoRan`);
settings survive saving and loading, no file but an edited one ends the program, and what
the dashboard shows is in force (`SettingsSurvive`, `RoundTrip`, `RoundsDoNotPileUp`,
`OnlyEditsCrash`, `QuantumStaysUsable`, `EngineFollowsDashboard`). `PROJECT.json` lists each hazard at its
line with the properties that guard it.

## 2. Modules

| Module | Models | Uses |
|---|---|---|
| `Scheduler` | the selection rules of `Scheduler.cpp` as predicates on the pid they return | |
| `Kernel` | one simulated machine: tick, process table, frame pool, statistics, `addProcess`, and the handlers that change them | `Scheduler` |
| `KernelFairness` | `Kernel` with a history variable (tick of the last dispatch) | `Kernel` |
| `Processor` | abstract: one processor that does one unit of one job in a tick | |
| `KernelProofs` | types, table and controller, frames, waiting times of `Kernel` | `Kernel`, TLAPS |
| `KernelServiceProofs` | order of service, quantum, idle ticks, counting of reports, CPU time, and that `Kernel` implements `Processor` | `KernelProofs`, `Processor`, `FoldLemmas` |
| `Display` | in step mode, the slots of `GUIController` and what the process table, the memory view, the metrics panel and the Gantt chart show after each | `Kernel` |
| `DisplayProofs` | what the widgets show is the machine | `Display`, `KernelServiceProofs` |
| `SimControl` | the GUI thread, its timer and exports included, against the thread of `simulationLoop` | |
| `Refresh` | `SimControl` around a machine, with the timer's reads of the widgets between the steps of a tick | `SimControl`, `Processor` |
| `SimControlProofs` | theorems about `SimControl`, that `Refresh` is one, and what its refreshes show | `Refresh`, `FoldLemmas`, TLAPS |
| `Paging` | abstract: a bounded set of resident pages | |
| `MemoryManager` | frames, page tables, replacement; refines `Paging` | `Paging` |
| `MemoryManagerProofs` | frames and tables agree, FIFO's order, and that `MemoryManager` implements `Paging` | `MemoryManager`, `FoldLemmas` |
| `SyncManager` | semaphores, mutexes, their registry, `cleanupProcess`, `detectDeadlock`, `reset`, and the processes that use them | |
| `SyncManagerProofs` | theorems about `SyncManager` | `SyncManager`, `FoldLemmas` |
| `ConfigFile` | what the writer writes, what the parser makes of any lines, what validation accepts: operators, no state | |
| `Configuration` | a client of `ConfigurationManager`, the file, and the simulator's menu, controls and settings in force | `ConfigFile` |
| `ConfigurationProofs` | theorems about the writer, the parser and `Configuration` | `Configuration`, `FoldLemmas` |
| `FoldLemmas` | induction, and the sums and folds defined by it: lemmas | TLAPS |
| `MCKernel`, `MCKernelFairness`, `MCDisplay`, `MCRefresh`, `MCSimControl`, `MCSyncManager`, `MCConfiguration` | values of the constants for TLC | |

**Kernel.** A tick is five actions (`BeginTimeStep`, `HandleProcessArrivals`,
`HandleCPUScheduling`, `HandleProcessExecution`, `FinishTimeStep`), one for each part of
`executeTimeStep` that changes what is kept. The handlers that take `simulation_mutex_`
or join the thread act between ticks. `addProcess` is `CreateProcess`,
`RecordProcessCreation`, `AllocatePages`, each atomic because the callee locks; with
`Concurrent = TRUE` they interleave with the phases of the tick, with `FALSE` (step
mode: the GUI thread runs the tick) they do not. A ready list is the set of ready
pids: the code sorts it by pid, so an index into it is the number of smaller pids.
Thread control is reduced to `sim`. Left out of the tick: the touch of page 0 in
`handleMemoryManagement` (access times are in `MemoryManager`), the memory counters, and
`handleSynchronization`, which finds no primitive unless somebody creates one through
`getSyncManager` (that case is `SyncManager`). `admitted` is a history variable. The
dashboard's configurations name no processes, so `StartSimulation` adds none.

**Processor** is what the tick promises without table, queue or quantum: the clock advances,
the processor may be taken from a job and given to a READY one, the job that has it does
one unit, and it is over when its last unit is done. A step of `Kernel` is a step of it or
changes nothing it sees; the refinement maps `state` and `remaining` to `stage` and `left`.

**Display.** In step mode the GUI thread runs everything, so a slot is a block of steps of
`Kernel` that nothing interrupts, ended by what `updateAllWidgets` copies: `shown` holds the
rows, the highlighted row and the owner of every frame, `time_blocks` and `last_gantt_time`
are the chart's. The Step button on a stopped simulation initializes and starts it and then
steps; `stepping` keeps the two together. The refresh timer, which only Start switches on, has
no part. The slots of the controls update nothing, and a slot that resets clears the widgets.
The memory view keeps the page tables by pid (`tables`), rebuilds its selector at every update
and rewrites its rows only for the selected process; the metrics panel shows what
`getSystemMetrics` answers, with sums for the averages. `executed`, every unit of CPU time since
the last reset, is a history variable.

**SimControl.** A handler of the GUI thread is the list of calls its slot makes; a
call is cut where another thread can see or change what it works on (around
`simulation_mutex_`, between the test and the write of `pause`). A tick is one unit with
two outcomes, "go on" and "all completed". A tick records its statistics under
`metrics_mutex_`; the menu's exports take the same mutex on the GUI thread, `generateReport`
twice, and a refresh takes it for the metrics. The dashboard's `running` and the refresh timer
are variables: a refresh is a handler that the timer calls (`RefreshGUI`), and one that finds
the simulation STOPPED turns the timer off and gives the buttons back.
`late_ticks` is a history variable. With `UseDashboard` the client calls only what the dashboard enables; without it, any handler
in any order, as the tests and other users of the API may. A call of `start` over a
joinable thread is `std::terminate`: `crashed`.

**Refresh** puts a machine inside: each tick is the steps of a `Processor` between the taking
and the release of `simulation_mutex_`. That is all that is assumed of `Kernel` here;
`KernelImplementsProcessor` proves it of a kernel whose algorithm is not switched in mid-run. A switch is
possible here (Pause and another choice, or the menu's Open at any moment): `Configure` does what
`setSchedulingAlgorithm` does, takes the CPU from the process that has it and leaves its state
RUNNING (stage `FORGOTTEN`, `ForgetRunning`). The next tick dispatches another one, the table then
has two RUNNING, and nothing but a reset ends the first. A refresh is three reads in the order of
`updateAllWidgets`: the table, the clock, the first in the order of pids who is RUNNING
(`FirstRunning`, the forgotten ones included); ticks go on between them. `ChartShowsWhoRan` says
therefore that a block is of a process that has just run, or is about to in this tick, or was
forgotten; the last is what line 226 of `GUIController.cpp` really draws, for as long as it is the
first. `stale` says that the machine has changed since the last refresh began to read it,
`chart_behind` that the clock is ahead of `last_gantt_time`; `ran` is a history variable: who did
the unit of the last complete tick, if it has the CPU still.

**MemoryManager.** Each public method holds `memory_mutex_` for its whole body, so a call
is an action. The two replacement algorithms differ in the time stamp they compare.
`came_before`, which of two pages in frames was loaded first, is a history variable. The callers' discipline (pages are allocated once per
pid, no fault on a resident page) is a guard, because the class does not check it.

**SyncManager.** What the primitives store (`count`, `owner`, `waiting`) is apart from
what the processes were told (`asleep`, `inside`, `balance`); the properties relate the
two. Primitives are created under new ids, removed and, with the whole simulation, reset at any
moment, and a client looks its pointer up at each call (a pointer kept over a removal would
dangle, and no class of the repository keeps one). The look-up (`getSemaphore`, `getMutex`) locks
`sync_mutex_`, so every operation waits while the detector has that lock and for ever if
it is stuck (`LookUp`). Look-up and operation are one step: after it has its pointer, an
operation touches nothing the detector does, so one that the detector overtakes ends as if
it had come first. A removal or reset voids what was told about
the primitive (`voided`): its sleepers stay asleep, which the properties on sleepers allow;
exclusion and conservation hold all the same.
Processes that were told to block make no calls, and request resources in the order
`Rank`: the class itself enforces neither. `detectDeadlock` is two steps, taking
`sync_mutex_` and scanning; a scan that meets an owned mutex calls `isProcessWaiting`,
which locks the same `std::mutex` and never returns.

**ConfigFile, Configuration.** A file is the sequence of its lines that the parser does not
skip (the text around a key, blank lines and opening braces are abstracted); the parser is a
fold over them, with the state of its two section flags, the process being read and how the
reading has gone: on, an exception (`std::stoi` refuses the text), or a division by zero
(`Quotient` is C++'s division, which `Typed` may reach with a negative number). In
`Configuration` first a client of the class composes, saves and loads, as the tests do; then
the simulator runs. `SaveHalfWay` leaves any prefix of the lines, the last one possibly cut
within its value; `Edit` changes a number or deletes a line. Setting a control emits a signal
only if the value changes, and the slot passes on what goes with it, in the order in which
`onOpenConfiguration` sets the four controls. `saved` and `edited` are history variables.
The menu's own Save builds a configuration without processes (`OfControls`), which validation
refuses every time: in the simulator phase only `SaveNothing` is enabled. When the simulator
starts is a choice of the model (`RunSimulator`); a failed load leaves the client with what
was read, as in the code.

A definition under a comment "Fault for the checks" is no part of a model: it is the
wrong version of the definition that follows, with which a run must fail. `PROJECT.json`
("mutants") names one for every property of every passing run.

## 3. Runs

| Run | Question | Instance |
|---|---|---|
| `kernel_step` (on `Display`) | In step mode, are table, controller, frames and statistics consistent, is service in order, and what do the widgets show? | 3 processes, 3 frames, all algorithms, quantum 2, jobs added up to tick 2; 1,005,268 states |
| `kernel_thread` | What survives when `addProcess` cuts into ticks; does a simulation end by itself; is the machine a `Processor`? | 3 processes added before the first tick ends, quantum 1, fairness; 116,677 states |
| `kernel_switch` | violated: after a switch of algorithm, is the running process the controller's? | 2 processes |
| `kernel_cycles` | violated: does round robin cycle in order? | 3 long jobs, quantum 1 |
| `simcontrol` (on `Refresh`) | Do control calls exclude, take effect and return; do the timer's refreshes end with the last state, and draw nobody but who runs or was forgotten by a switch? | all handlers but the export of the log, in any order, switches of algorithm in mid-run among them; 2 jobs of 2 units, 2 ticks; 444,918 states |
| `simcontrol_dashboard` | violated: can the dashboard's own buttons end the program? | the enabled buttons |
| `simcontrol_export` | violated: does the export of the log return? | Start, Stop and the export of the log, as the dashboard and the menu enable them |
| `memory` | Do frames and tables agree and implement paging; does FIFO evict in the order of the clock? | 2 processes, 3 frames, 2 pages, clock 0..2 |
| `sync` | Exclusion, conservation, no lost wake-up, service of every waiter? | 3 processes, a mutex before a semaphore of one unit, each created, removed and reset at any moment, and the detector between any two operations; 23,312 states |
| `sync_detect` | violated: does `detectDeadlock` answer? | the same |
| `config` | Do settings survive saving, loading, failed writes and edits, and reach the simulation? | 3 configurations, one failed write or edit |
| `config_roundtrip` | violated: does loading give back what was saved? | the same |

**Bounds.** Two ready processes make ties and every decision of the three algorithms;
three are the least with which a requeued process, a chosen one and a passed-over one
differ, and the round-robin index can miss one. The job mix has equal and different
arrivals and priorities, bursts below, at and above the quantum, and memory demands that
do and do not fit into the frames. `MaxTime` is large enough for all jobs to end; `AddUntil`
lets processes arrive at an idle and at a busy machine. For paging, three frames and four
pages force both replacement and a choice of victim, and clock values that tie. Three
processes in `SyncManager` make a holder and two waiters, so that queue order matters; the
mutex-semaphore pair lets a process sleep while it holds something.
`MaxCredit = 1` lets a process signal once more than it waited, as a producer does.
In `simcontrol` two ticks are the least in which a refresh can read the clock in one and the
running process in the next, and after a switch one is forgotten in the first and the other RUNNING in the second; ticks after `MaxClock` leave the machine alone and answer either
way, so the control is followed through any number of them. `UseDashboard = FALSE` contains
every order of handlers that the dashboard allows.
For configurations, one differs from the defaults in every setting, one is valid with the
quantum 0 under PRIORITY, one has page size 0; one mishap (`MaxMishaps = 1`) is a failed write
or an edit, at every line; `Typed` holds a number below, 0, and one above the ranges; `Quanta` and
`Speeds` have one value each, as files bring others.

**Fairness.** `Kernel`: the loop's thread goes on while it may, and a handler that has
begun goes on to its end; the user owes nothing. `SimControl`: both threads keep running;
calls that need the mutex are strongly fair, because the loop leaves it free while it
sleeps (at least 100 ms at the highest speed) and only then takes it again; the refresh
timer is served from the queue that serves the clicks. `Refresh` has the same fairness
(`RFairSpec`), with the steps of a tick among those of the thread that ticks.
`SyncManager`: a process that again and again is awake and finds `sync_mutex_` free gives back what
it holds. This is an assumption on the processes, and on a lock that is free most of the time: the
detector holds it for a part of a tick. `EveryWaiterServed` promises nothing once a process has
completed, since `cleanupProcess` returns no semaphore units and wakes nobody, once a primitive
was removed or reset, which throws its queue away, or once the detector is stuck (`sync_detect`):
the owner of the mutex then never gets as far as `unlock`.
`CHECK_DEADLOCK FALSE` stands only where the system really may stop: in the two
`SyncManager` configurations (all processes may complete, or wait for a stuck detector) and in
`MCSimControl_export.cfg` (both threads wait for a mutex that is never released).

**What the violated runs show.**

* `kernel_switch`: `setSchedulingAlgorithm` (148-158) forgets the running process without
  changing its state; it stays RUNNING, is never chosen again, and the simulation never
  completes. The dashboard disables the combo boxes only while `running`; after Pause or in
  step mode the switch is available, and the menu's Open, which sets them too, always is. The
  next process dispatched is the second that is RUNNING in the table, and the chart draws the one
  with the lower pid (`Refresh`).
* `kernel_cycles`: P1, P3, P1, P3, ... while P2 waits: the round-robin index is taken
  modulo a list that changes.
* `simcontrol_dashboard`: Start, Pause, Start. `start` accepts PAUSED and assigns a new
  thread over one that is joinable. A simulation that ended by itself and is started again
  has the same end.
* `simcontrol_export`: `generateReport` locks `metrics_mutex_` and calls `calculateMetrics`,
  which locks it again; the GUI never returns, and the next tick that records something waits
  with it. Exporting the metrics alone does return (`HandlersReturn`).
* `sync_detect`: the detector stops at the lock it holds, and with it the simulation thread.
* `config_roundtrip`: the parser starts from the default configuration and never clears its
  list, and the brace that ends the first process ends the whole list; a loaded configuration
  has the three default processes and the first of its own (`.kiro/specs/mini-os-kernel-simulator/
  design.md`, property 26, says all parameters are identical).

**Known differences without a run.** They are decided by one line each and were read, not
found by exploration. `shouldPreempt` is never called, so a higher priority does not preempt
(requirement 2.6). A completion is stamped with the tick of the last unit, so turnaround is
waiting plus burst minus one. The clock of the time stamps moves only with `accessPage`, so
FIFO decides most ties by frame number (`FIFOEvictsFirstIn` compares readings of the clock). In
step mode the Gantt chart lacks the last unit of each process (requirement 8.3;
`ChartMissesOnlyLastUnits` says that it lacks nothing else), and the page table of a process
that has completed stays in the memory view. A click on a row of the process table
whose process the selector already stands on shows no page table until the next update: the
rows follow the selector's signal, and its index does not change (`requirements.md:147` asks
for the page table of the selected process). Processes added before Start lose their frames,
because `initialize` makes a new `MemoryManager`. A file cut after any pair, even an empty one, is accepted with
the defaults for the rest. A file without `page_size`, or with it before the total size,
leaves a `num_frames` that does not belong to the sizes.

## 4. Proofs

`KernelProofs`, for all values of the constants that satisfy the three assumptions of
`Kernel` (bounds are naturals, configurations are records of integers, frames a finite set,
quanta positive):

* `TypeCorrect`: `Spec => []TypeOK`, by the inductive invariant `TypeInv` (`TypeOK` and the
  shape of an `addProcess` in flight: which call comes next determines which fields hold).
* `RunningIsCurrentAlways`, for `~SwitchAnyTime`: `RunInv` adds that nobody runs before the
  first tick (so that a choice of algorithm then forgets nobody). Holds with the thread too;
  `kernel_switch` shows that the assumption is needed.
* `NoFrameLeaksInStepMode`, for `~Concurrent`: `FramesInv` adds that pids are given in
  order and that the process `addProcess` is working on is NEW, so frames never go to a
  process that has ended. With the thread it fails: a process of burst 1 can complete
  between `RecordProcessCreation` and `AllocatePages`.
* `WaitingTimeIsExactInStepMode`, for both: `LedgerInv` joins the three with "every live
  process is tracked" and "a process not terminated has work left"; without the first a state
  change would go unrecorded, without the second a completion could be counted twice.

Each invariant is proved in the three usual steps (initially, by every step of `Next`
including stuttering, and it implies the property), with one case per action.

`KernelServiceProofs`, for `~SwitchAnyTime`:

* `ServedInOrderAlways`, with the thread too: `OrderInv` adds `Dated`, which dates the history
  (nobody is admitted, first run or completed later than the phase of the tick now reached
  allows, and who is NEW or ABSENT has no dates). Without it a process could be admitted into
  the past of one that has run.
* `QuantumIsRespectedInStepMode` and `IdleOnlyAfterSoleExpiryInStepMode`: `QuantumInv` adds that
  no process has more work left than its burst and ties the counter `quantum_remaining` to the
  tick of the last change of state, which the property is about.
* `CountedExactlyOnceInStepMode`: `CountInv` says what is tracked and reported also inside ticks
  and handlers, where the property does not hold as it stands.

* `CPUTimeMatchesWorkAlways`, for every simulator: `WorkInv` adds that who is not over has work
  left, so that a tick that charges a unit does one, that pids come in order, so that the sum gains a
  process with no work done, and that a tick has not charged before it has executed.
* `KernelImplementsProcessor`, with the thread too, from `RunInv` and "a process that is not over
  has work left". With a switch of algorithm it would fail: two processes may then be RUNNING.

`DisplayProofs`, in step mode, with the algorithm chosen before the first tick:

* `WidgetsDoNotDisturb`: `Display` is `Kernel` with more variables, so what is proved of one holds
  of the other; this is how `kernel_step` can check both at once.
* `DisplayIsCurrentInStepMode`: `MachineInv` joins the invariants of the kernel with
  `ReportsAreOfDates` (a report is made of the dates of its process), by which the collector's
  numbers are those of the process table; `ShownIsView` says that nothing is left undone by a slot.
* `PageTableIsTrueInStepMode`: `PageInv` says that the page table the view keeps for a pid is the
  process's frames as long as it has any, and that the rows are one of the tables kept; only a
  reset takes a table away, and with it the rows, before the pid is given again.
* `ChartMissesOnlyLastUnitsInStepMode`: `ChartInv` says where in a tick the chart lags: a unit
  executed in the tick that goes on is not drawn yet (`Undrawn`), a reading of the clock is drawn
  once, and nobody has run at the first.

`SimControlProofs`, for any set of handlers, with and without the dashboard:

* `ThreadsTypeCorrect`, `OneTickAlways`, `QuietAfterStopAlways`, `AtMostOneLateTickAlways`. The
  inductive invariant has four parts: the calls still to make are such that a stop flag is always
  followed by its join, and a step in progress holds the mutex (`CallsInv`); the thread's place
  and the mutex agree (`LoopInv`); once the flag is up, no thread is left or its join is
  still to come (`StopInv`); no late tick while the state is RUNNING or the loop has just seen it
  so (`LateInv`). Lists of calls are concatenated, so the lemmas say what concatenation keeps.
* `RefreshIsSimControl`: every step of `Refresh` is a step of `SimControl` or stutters there, so
  the four hold of `Refresh` too.
* `LastStateIsShownAlways`: `ShowInv` is about the calls still to make (`Planned`): after one that
  changes the machine comes one that shows it, after a start the timer, before the buttons are given
  back a join; so that a thread in the loop is watched by the timer, or a call that starts it or joins
  the thread is to come. The lists change only at their head (`GoesBy`), and a plan stays one
  while it is carried out.
* `ChartShowsWhoRanAlways`, with switches of algorithm at any moment: `RunnerInv` says that one
  process at most has the CPU, however many were forgotten, and that it did the last unit until the
  scheduler has chosen again; `ClockIsRead`, that no reset comes between the two reads.
  `FirstRunningRuns` says that the chart's choice is a process RUNNING in the table: pids are
  naturals, so there is a least (`LeastExists`).

`MemoryManagerProofs`, for any processes, frames and pages and both algorithms:

* `MemoryTypeCorrect`, `FramesAndTablesAlwaysAgree`, by `MapInv`, which adds that the tables are
  sequences of entries whose valid ones name frames. `allocatePages` takes the lowest free frame
  each time; the lemmas on ranks (`RankGrows`, `RankExists`, `FramesTaken`) say that ranks number
  the free frames without gaps, by well-foundedness of the naturals. `UpdatedTable` says what
  `updatePageTableEntry` leaves.

* `MemoryManagerImplementsPaging`: by `MapInv` the resident pages can be read off
  the frames, one for one, so that counting frames counts pages; each operation is then a `Load`,
  `Replace`, `Leave` or `Clear`.
* `FIFOEvictsFirstInAlways`, an action property: `OrderInv` says that the stamps of the frames in use
  are in the order of `came_before` and none is ahead of the clock, `EvictedIsVictim` that only a
  page fault throws a page out.

`SyncManagerProofs`, for any processes, primitives and ranks:

* `SyncTypeCorrect`, `MutualExclusionAlways`, `SleepersAreQueuedAlways`. The invariant adds that
  no process is twice in the queues (`QueuesDistinct`), that who is queued sleeps
  (`QueuedSleep`), and that who sleeps is queued, or something was voided, or it is the owner of
  a mutex and was not told so (`SleepersAccounted`).
* `SemaphoreConservesAlways`: for each semaphore, count and units in hand add up, and nobody waits
  while the count is positive (`Settled`); a hand-over moves a unit within the sum (`UnitPasses`).

`ConfigurationProofs`, for all configurations of the types of `SimulationConfig.h`, all integers
that may be typed, and the ranges of the spin boxes:

* `EngineFollowsAlways`: `Spec => []EngineFollowsDashboard`. The inductive invariant `Agrees`
  says that controls and settings in force are the same four fields but for the speed; it
  needs no typing, so it holds whatever a file has put into the controls. One lemma for each
  control, one for opening a file, one case for each action that touches either side.
* `HarmlessFile`: the fold over the lines is a run of the parser's states (`ParserRuns`), each typed,
  and only a page size of 0 ends it with a division by zero.
* `ConfigurationsAreTyped`, `OnlyEditsCrashAlways`, `QuantumStaysUsableAlways`: `FileInv` says that
  the file holds lines the parser can read, and none with a page size of 0 unless a user has
  edited it. For that, what the writer writes is known line by line (`TextIs`), and so is what
  a failed write leaves of it (`TornIsHarmless`).
* `ReadingBack`: for every valid configuration, `FromText(ToText(c))` is the configuration with
  the settings of `c` and the three default processes followed by its first one. The heading is
  followed line by line, the lines after the first closing brace of the list by induction.
* `SettingsSurviveAlways`, `RoundsDoNotPileUpAlways`: `SavedInv` says that the file is what the writer
  made of `saved`, and what was loaded since is what the parser makes of that; the rest is
  `ReadingBack`.

`FoldLemmas` is what makes sums and folds accessible. The library's induction theorems take a
predicate as a parameter, which the provers cannot instantiate; `NumberInduction` and
`SubsetInduction` take the set of what is good instead, and come from the well-foundedness of the naturals
by way of a least counterexample. From them: a function defined by recursion over the subsets
of a finite set or over 0..n exists (`FoldExists`, `RecursionExists`), and a sum changes by
what one summand changes by (`SumChanges`).

The assumptions: those named in `Kernel`, `SimControl`, `Refresh`, `MemoryManager`, `SyncManager`, `ConfigFile`
and `Configuration`, which TLC evaluates in the runs. They bound nothing the code does not: finite sets
of processes and frames, pids that are naturals, positive quanta, values of the C++ types, the ranges of the spin
boxes, and model values that differ from numbers and files. Integers are unbounded.

Only model-checked: `SimulationFinishes`, `HandlersReturn`, `DashboardNotices` and
`EveryWaiterServed` are liveness under fairness, which the prover does not do. Every invariant and every
action property of the passing runs is a theorem. With the thread (`Concurrent`), the properties that the theorems limit
to step mode are false or not claimed, and the violated runs are what TLC finds. No module has a RECURSIVE
operator.

## 5. Not modelled

Drawing, layout, file dialogs, the files exported (`ExportController` keeps no state) and the texts
of reports and errors; `MemoryManager`'s counters of faults and replacements, which the simulator
never moves (it accesses only page 0, allocated at creation); floating-point averages (their sums are modelled); the
unlocked reads of process control blocks and page tables through escaped pointers
(`ProcessManager.cpp:77`, a data race: which bytes are read is below these models); a
simulation speed of 0 passed to `initialize` by other callers than the dashboard
(`SimulationController.cpp:403`); pointers to primitives kept over their removal;
`terminateProcess`, `shouldPreempt` and other methods only tests call.

## 6. Plan

Done: every component with state but for what section 5 lists, two refinements (`Processor`,
`Paging`) checked and proved, and proofs of all safety properties of the passing runs. Next, in this order:

1. The chart of `Refresh` with the blocks themselves, to bound how many ticks a sampled chart
   can miss between two refreshes.
2. What of the statistics survives an `addProcess` that cuts into ticks, as a weaker form of
   `CountedExactlyOnce`.

## 7. Running

    cd tla
    tlc -workers 2 -config MCDisplay.cfg MCDisplay
    tlc -workers 2 -config MCRefresh.cfg MCRefresh
    for m in FoldLemmas KernelProofs KernelServiceProofs DisplayProofs SimControlProofs \
             MemoryManagerProofs SyncManagerProofs ConfigurationProofs
    do tlapm $m.tla; done

`PROJECT.json` lists the configuration of every run.
