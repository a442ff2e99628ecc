------------------------------- MODULE Kernel -------------------------------
(***************************************************************************)
(* The simulated machine: SimulationController's time step over the        *)
(* process table (ProcessManager), the scheduler, the frame pool           *)
(* (MemoryManager) and the statistics (MetricsCollector).                  *)
(*                                                                         *)
(* One call of executeTimeStep is a sequence of phases, one action each.   *)
(* The simulation thread runs it under simulation_mutex_.  The GUI thread  *)
(* runs one handler at a time: its handlers that take simulation_mutex_ or *)
(* join the thread happen between ticks, but addProcess takes no lock of   *)
(* the controller, so its three calls (create, record, allocate), atomic   *)
(* each because the callee locks, may fall between the phases of a tick.   *)
(* With Concurrent = FALSE the GUI thread itself runs the tick             *)
(* (executeStep in step mode), and nothing interleaves.                    *)
(*                                                                         *)
(* The thread-control variables (state_, should_stop_, the thread object)  *)
(* are abstracted to sim: STOPPED, RUNNING (ticks may begin: RUNNING or    *)
(* STEP_MODE in the code) and COMPLETED (the loop left because everything  *)
(* had terminated; its thread object has not been joined).                 *)
(***************************************************************************)
EXTENDS Scheduler, FiniteSetsExt, Functions

CONSTANTS
  MaxProcesses,    \* bound: how many processes are created between resets
  ProcessConfigs,  \* the struct ProcessConfig values the user may enter
  Frames,          \* the frame numbers of page_frames_
  Algorithms,      \* the algorithms the user may choose
  Quanta,          \* the time quanta the user may choose
  MaxTime,         \* bound: no tick begins after this time
  AddUntil,        \* bound: no addProcess begins after this time
  Concurrent,      \* TRUE: simulationLoop's thread; FALSE: step mode
  SwitchAnyTime    \* FALSE: the algorithm is chosen before the first tick

Pid == 1 .. MaxProcesses
NoPid == -1

ASSUME BoundsAssumption ==
  MaxProcesses \in Nat /\ MaxTime \in Nat /\ AddUntil \in Nat
ASSUME ConfigsAssumption ==
  ProcessConfigs \subseteq [priority : Int, burst_time : Int,
                            arrival_time : Int, memory_requirement : Int]
ASSUME MachineAssumption ==
  /\ Frames \subseteq Nat /\ IsFiniteSet(Frames)
  /\ Algorithms \subseteq SchedulingAlgorithms
  /\ Quanta \subseteq Nat \ {0}
  /\ Concurrent \in BOOLEAN /\ SwitchAnyTime \in BOOLEAN

VARIABLES
  \* ProcessManager: the process control blocks (ABSENT: no such pid)
  state, priority, burst, remaining, arrival, completion, next_pid,
  \* SimulationController
  current_time, current_running, quantum_remaining, phase, sim,
  \* config_ and the round-robin scheduler's last_scheduled_index_
  algo, time_quantum, last_index,
  \* addProcess in flight: its pid, its next call and the pages it wants
  add_pid, add_call, add_pages,
  \* MemoryManager: the process_id of each page frame (NoPid: free)
  owner,
  \* MetricsCollector: process_info_'s keys and fields, completed_processes_
  tracked, first_run, total_wait, last_change, report, cpu_time,
  \* History: the tick at which a process became READY for the first time
  admitted

pcbVars     == <<state, priority, burst, remaining, arrival, completion, next_pid>>
configVars  == <<algo, time_quantum, last_index>>
addVars     == <<add_pid, add_call, add_pages>>
trackVars   == <<tracked, first_run, total_wait, last_change>>
metricsVars == <<tracked, first_run, total_wait, last_change, report, cpu_time>>
vars == <<state, priority, burst, remaining, arrival, completion, next_pid,
          current_time, current_running, quantum_remaining, phase, sim,
          algo, time_quantum, last_index, add_pid, add_call, add_pages, owner,
          tracked, first_run, total_wait, last_change, report, cpu_time,
          admitted>>

ProcessStates == {"NEW", "READY", "RUNNING", "WAITING", "TERMINATED"}
Phases == {"idle", "arrivals", "scheduling", "execution", "bookkeeping"}
NoReport == [waiting |-> -1, turnaround |-> -1, response |-> -1]

InState(s) == {p \in Pid : state[p] = s}
Created == {p \in Pid : state[p] # "ABSENT"}
FreeFrames == {f \in Frames : owner[f] = NoPid}
FramesOf(p) == {f \in Frames : owner[f] = p}

-----------------------------------------------------------------------------
(* What the constructors and reset() leave. *)

Everywhere(v) == [p \in Pid |-> v]
AllFramesFree == [f \in Frames |-> NoPid]

Init ==
  /\ state = Everywhere("ABSENT") /\ next_pid = 1
  /\ priority = Everywhere(0) /\ burst = Everywhere(0) /\ remaining = Everywhere(0)
  /\ arrival = Everywhere(0) /\ completion = Everywhere(-1)
  /\ tracked = {} /\ first_run = Everywhere(-1) /\ total_wait = Everywhere(0)
  /\ last_change = Everywhere(0) /\ report = Everywhere(NoReport) /\ cpu_time = 0
  /\ current_time = 0 /\ current_running = NoPid /\ quantum_remaining = 0
  /\ phase = "idle" /\ sim = "STOPPED"
  /\ algo = "FCFS" /\ time_quantum \in Quanta /\ last_index = -1
  /\ add_pid = NoPid /\ add_call = "none" /\ add_pages = 0
  /\ owner = AllFramesFree
  /\ admitted = Everywhere(-1)

-----------------------------------------------------------------------------
(* addProcess, on the GUI thread: three calls, each under its callee's lock. *)

\* The GUI thread runs one handler at a time.
GUIFree == add_pid = NoPid

\* Handlers that need simulation_mutex_, or join the thread first.
BetweenTicks == GUIFree /\ phase = "idle"

\* Fault for the checks: the arrival time is not validated.
UncheckedArrival(c) == c.priority \in 1 .. 10 /\ c.burst_time > 0

ValidParameters(c) ==
  c.priority \in 1 .. 10 /\ c.burst_time > 0 /\ c.arrival_time >= 0

\* createProcess; a rejected configuration returns -1 and changes nothing.
CreateProcess(c) ==
  /\ IF Concurrent THEN GUIFree ELSE BetweenTicks
  /\ current_time <= AddUntil /\ next_pid <= MaxProcesses
  /\ ValidParameters(c)
  /\ state' = [state EXCEPT ![next_pid] = "NEW"]
  /\ priority' = [priority EXCEPT ![next_pid] = c.priority]
  /\ burst' = [burst EXCEPT ![next_pid] = c.burst_time]
  /\ remaining' = [remaining EXCEPT ![next_pid] = c.burst_time]
  /\ arrival' = [arrival EXCEPT ![next_pid] = c.arrival_time]
  /\ next_pid' = next_pid + 1
  /\ add_pid' = next_pid /\ add_call' = "record" /\ add_pages' = c.memory_requirement
  /\ UNCHANGED <<completion, current_time, current_running, quantum_remaining,
                 phase, sim, configVars, owner, metricsVars, admitted>>

\* recordProcessCreation: tracking starts with last_state_change_time set
\* to the arrival time, whatever the clock says.
RecordProcessCreation ==
  /\ add_call = "record"
  /\ tracked' = tracked \cup {add_pid}
  /\ last_change' = [last_change EXCEPT ![add_pid] = arrival[add_pid]]
  /\ IF add_pages > 0
       THEN add_call' = "allocate" /\ UNCHANGED <<add_pid, add_pages>>
       ELSE add_call' = "none" /\ add_pid' = NoPid /\ add_pages' = 0
  /\ UNCHANGED <<pcbVars, current_time, current_running, quantum_remaining,
                 phase, sim, configVars, owner, first_run, total_wait, report,
                 cpu_time, admitted>>

\* The n lowest-numbered members of a set of frames: n calls of findFreeFrame.
LowestFrames(n, free) ==
  {f \in free : Cardinality({g \in free : g < f}) < n}

\* allocatePages: all the pages or none; addProcess ignores the answer.
AllocatePages ==
  /\ add_call = "allocate"
  /\ owner' = IF Cardinality(FreeFrames) < add_pages
                THEN owner
                ELSE [f \in Frames |-> IF f \in LowestFrames(add_pages, FreeFrames)
                                         THEN add_pid ELSE owner[f]]
  /\ add_pid' = NoPid /\ add_call' = "none" /\ add_pages' = 0
  /\ UNCHANGED <<pcbVars, current_time, current_running, quantum_remaining,
                 phase, sim, configVars, metricsVars, admitted>>

-----------------------------------------------------------------------------
(* executeTimeStep, phase by phase. *)

\* recordStateChange for each of the changed processes: state is the old
\* state and state' the new one; a process not tracked is skipped.
RecordStateChanges(changed) ==
  LET known == changed \cap tracked IN
  /\ total_wait' = [p \in Pid |->
       IF p \in known /\ state[p] = "READY"
         THEN total_wait[p] + (current_time - last_change[p])
         ELSE total_wait[p]]
  /\ first_run' = [p \in Pid |->
       IF p \in known /\ state'[p] = "RUNNING" /\ first_run[p] = -1
         THEN current_time ELSE first_run[p]]
  /\ last_change' = [p \in Pid |->
       IF p \in known THEN current_time ELSE last_change[p]]
  /\ UNCHANGED tracked

\* The clock advances first.
BeginTimeStep ==
  /\ phase = "idle" /\ sim = "RUNNING"
  /\ Concurrent \/ GUIFree
  /\ current_time < MaxTime
  /\ current_time' = current_time + 1
  /\ phase' = "arrivals"
  /\ UNCHANGED <<pcbVars, current_running, quantum_remaining, sim, configVars,
                 addVars, owner, metricsVars, admitted>>

\* Fault for the checks: only the tick of the arrival itself is looked at.
ArrivedNow == {p \in Pid : state[p] = "NEW" /\ arrival[p] = current_time}

Arrived == {p \in Pid : state[p] = "NEW" /\ arrival[p] <= current_time}

HandleProcessArrivals ==
  /\ phase = "arrivals"
  /\ state' = [p \in Pid |-> IF p \in Arrived THEN "READY" ELSE state[p]]
  /\ RecordStateChanges(Arrived)
  /\ admitted' = [p \in Pid |-> IF p \in Arrived THEN current_time ELSE admitted[p]]
  /\ phase' = "scheduling"
  /\ UNCHANGED <<priority, burst, remaining, arrival, completion, next_pid,
                 current_time, current_running, quantum_remaining, sim,
                 configVars, addVars, owner, report, cpu_time>>

\* current_scheduler_->selectNextProcess.
Selects(p, ready) ==
  \/ algo = "FCFS"        /\ FCFSSelects(p, ready, arrival)
  \/ algo = "ROUND_ROBIN" /\ RoundRobinSelects(p, ready, last_index)
  \/ algo = "PRIORITY"    /\ PrioritySelects(p, ready, priority)

OnCPU == current_running # NoPid /\ state[current_running] = "RUNNING"
\* Faults for the checks: one tick too late; under every algorithm.
QuantumOverrun == OnCPU /\ algo = "ROUND_ROBIN" /\ quantum_remaining < 0
AnyQuantumExpired == OnCPU /\ quantum_remaining <= 0

QuantumExpired == OnCPU /\ algo = "ROUND_ROBIN" /\ quantum_remaining <= 0
NeedScheduling == ~OnCPU \/ QuantumExpired

\* Fault for the checks: the expired process is forgotten, not requeued.
NotRequeued == {}

\* The process whose quantum has run out goes back to READY, but the list
\* of ready processes was taken before that: it is not a candidate.
Requeued == IF QuantumExpired THEN {current_running} ELSE {}

KeepRunning ==
  /\ ~NeedScheduling
  /\ UNCHANGED <<state, current_running, quantum_remaining, last_index, trackVars>>

\* Fault for the checks: a tick that requeues does not dispatch.
FindNobodyAtExpiry ==
  /\ NeedScheduling /\ (QuantumExpired \/ InState("READY") = {})
  /\ state' = [p \in Pid |-> IF p \in Requeued THEN "READY" ELSE state[p]]
  /\ RecordStateChanges(Requeued)
  /\ current_running' = NoPid
  /\ UNCHANGED <<quantum_remaining, last_index>>

FindNobody ==
  /\ NeedScheduling /\ InState("READY") = {}
  /\ state' = [p \in Pid |-> IF p \in Requeued THEN "READY" ELSE state[p]]
  /\ RecordStateChanges(Requeued)
  /\ current_running' = NoPid
  /\ UNCHANGED <<quantum_remaining, last_index>>

Dispatch(p) ==
  /\ NeedScheduling /\ Selects(p, InState("READY"))
  /\ state' = [q \in Pid |-> IF q = p THEN "RUNNING"
                             ELSE IF q \in Requeued THEN "READY" ELSE state[q]]
  /\ RecordStateChanges(Requeued \cup {p})
  /\ current_running' = p
  /\ quantum_remaining' = IF algo = "ROUND_ROBIN" THEN time_quantum ELSE quantum_remaining
  /\ last_index' = IF algo = "ROUND_ROBIN" THEN NextIndex(last_index, InState("READY"))
                                           ELSE last_index

HandleCPUScheduling ==
  /\ phase = "scheduling"
  /\ KeepRunning \/ FindNobody \/ \E p \in Pid : Dispatch(p)
  /\ phase' = "execution"
  /\ UNCHANGED <<priority, burst, remaining, arrival, completion, next_pid,
                 current_time, sim, algo, time_quantum, addVars, owner,
                 report, cpu_time, admitted>>

\* Fault for the checks: two units for one.
DecreasedTwice(n) == IF n > 2 THEN n - 2 ELSE 0

\* decreaseRemainingTime by one, never below zero.
Decreased(n) == IF n > 1 THEN n - 1 ELSE 0

NothingToExecute ==
  /\ ~OnCPU
  /\ current_running' = NoPid
  /\ UNCHANGED <<state, remaining, completion, quantum_remaining, owner,
                 tracked, report, cpu_time>>

\* One unit of CPU time, charged to the process and to the statistics.
RunOneUnit ==
  /\ OnCPU
  /\ remaining' = [remaining EXCEPT ![current_running] = Decreased(@)]
  /\ cpu_time' = cpu_time + 1

ExecuteUnit ==
  /\ RunOneUnit /\ remaining'[current_running] > 0
  /\ quantum_remaining' = IF algo = "ROUND_ROBIN" THEN quantum_remaining - 1
                                                  ELSE quantum_remaining
  /\ UNCHANGED <<state, completion, current_running, owner, tracked, report>>

\* Fault for the checks: the waiting time as design.md 464 computes it.
ReportByFormula(p) ==
  [waiting    |-> current_time - arrival[p] - burst[p],
   turnaround |-> current_time - arrival[p],
   response   |-> IF first_run[p] >= 0 THEN first_run[p] - arrival[p] ELSE 0]

\* recordProcessCompletion's metrics for p, which has finished now.
FinalReport(p) ==
  [waiting    |-> total_wait[p],
   turnaround |-> current_time - arrival[p],
   response   |-> IF first_run[p] >= 0 THEN first_run[p] - arrival[p] ELSE 0]

\* Fault for the checks: the report is written, the tracking entry stays.
NotForgotten(p) == tracked

\* process_info_.erase, once the report of p is written.
Forgotten(p) == tracked \ {p}

\* Fault for the checks: completion forgets the memory.
NotReleased(p) == owner

\* deallocatePages: the frames of a pid become free.
Released(p) == [f \in Frames |-> IF owner[f] = p THEN NoPid ELSE owner[f]]

CompleteProcess ==
  /\ RunOneUnit /\ remaining'[current_running] = 0
  /\ state' = [state EXCEPT ![current_running] = "TERMINATED"]
  /\ completion' = [completion EXCEPT ![current_running] = current_time]
  /\ report' = IF current_running \in tracked
                 THEN [report EXCEPT ![current_running] = FinalReport(current_running)]
                 ELSE report
  /\ tracked' = Forgotten(current_running)
  /\ owner' = Released(current_running)
  /\ current_running' = NoPid /\ quantum_remaining' = 0

HandleProcessExecution ==
  /\ phase = "execution"
  /\ NothingToExecute \/ ExecuteUnit \/ CompleteProcess
  /\ phase' = "bookkeeping"
  /\ UNCHANGED <<priority, burst, arrival, next_pid, current_time, sim,
                 configVars, addVars, first_run, total_wait, last_change, admitted>>

AllProcessesCompleted == Created # {} /\ Created = InState("TERMINATED")

\* handleMemoryManagement touches only access times and handleSynchronization
\* finds no primitive (the controller creates none): neither changes the
\* state kept here.  What is left is the answer of executeTimeStep, on which
\* simulationLoop stops; in step mode the GUI ignores it.
FinishTimeStep ==
  /\ phase = "bookkeeping"
  /\ phase' = "idle"
  /\ sim' = IF Concurrent /\ AllProcessesCompleted THEN "COMPLETED" ELSE sim
  /\ UNCHANGED <<pcbVars, current_time, current_running, quantum_remaining,
                 configVars, addVars, owner, metricsVars, admitted>>

TimeStep == \/ BeginTimeStep \/ HandleProcessArrivals \/ HandleCPUScheduling
            \/ HandleProcessExecution \/ FinishTimeStep

-----------------------------------------------------------------------------
(* The other handlers of the GUI thread. *)

MaySwitch == SwitchAnyTime \/ current_time = 0

\* setSchedulingAlgorithm: a new scheduler, and nobody on the CPU as far as
\* the controller is concerned; no process control block is touched.
SetSchedulingAlgorithm(a, q) ==
  /\ BetweenTicks /\ MaySwitch
  /\ algo' = a /\ time_quantum' = q /\ last_index' = -1
  /\ current_running' = NoPid /\ quantum_remaining' = 0
  /\ UNCHANGED <<pcbVars, current_time, phase, sim, addVars, owner,
                 metricsVars, admitted>>

\* initialize and start, as onStartSimulation and the first onStepSimulation
\* call them: a new scheduler and a NEW memory manager, all frames free.  The
\* clock, the process table and current_running_process_ stay.  The
\* dashboard's configuration names no processes.
StartSimulation(a, q) ==
  /\ BetweenTicks /\ sim = "STOPPED"
  /\ MaySwitch \/ (a = algo /\ q = time_quantum)
  /\ sim' = "RUNNING"
  /\ algo' = a /\ time_quantum' = q /\ last_index' = -1
  /\ owner' = AllFramesFree
  /\ UNCHANGED <<pcbVars, current_time, current_running, quantum_remaining,
                 phase, addVars, metricsVars, admitted>>

\* stop: waits for the tick in progress.
StopSimulation ==
  /\ BetweenTicks /\ sim # "STOPPED"
  /\ sim' = "STOPPED"
  /\ UNCHANGED <<pcbVars, current_time, current_running, quantum_remaining,
                 phase, configVars, addVars, owner, metricsVars, admitted>>

\* reset: stop, then every component's reset; the configuration stays.
ResetSimulation ==
  /\ BetweenTicks
  /\ state' = Everywhere("ABSENT") /\ next_pid' = 1
  /\ priority' = Everywhere(0) /\ burst' = Everywhere(0) /\ remaining' = Everywhere(0)
  /\ arrival' = Everywhere(0) /\ completion' = Everywhere(-1)
  /\ tracked' = {} /\ first_run' = Everywhere(-1) /\ total_wait' = Everywhere(0)
  /\ last_change' = Everywhere(0) /\ report' = Everywhere(NoReport) /\ cpu_time' = 0
  /\ current_time' = 0 /\ current_running' = NoPid /\ quantum_remaining' = 0
  /\ sim' = "STOPPED" /\ last_index' = -1
  /\ owner' = AllFramesFree
  /\ admitted' = Everywhere(-1)
  /\ UNCHANGED <<phase, algo, time_quantum, addVars>>

AddProcess == \/ \E c \in ProcessConfigs : CreateProcess(c)
              \/ RecordProcessCreation
              \/ AllocatePages

Configure == \E a \in Algorithms, q \in Quanta : SetSchedulingAlgorithm(a, q)
Start == \E a \in Algorithms, q \in Quanta : StartSimulation(a, q)

Next == TimeStep \/ AddProcess \/ Configure \/ Start \/ StopSimulation \/ ResetSimulation

Spec == Init /\ [][Next]_vars

\* simulationLoop is a thread: while it may run it does run, and a handler
\* of the GUI thread that has begun goes on to its end.  Nothing obliges the
\* user to do anything.
FairSpec == Spec /\ WF_vars(TimeStep) /\ WF_vars(RecordProcessCreation)
                 /\ WF_vars(AllocatePages)

-----------------------------------------------------------------------------
(* Properties. *)

TypeOK ==
  /\ state \in [Pid -> ProcessStates \cup {"ABSENT"}]
  /\ priority \in [Pid -> Int] /\ burst \in [Pid -> Nat]
  /\ remaining \in [Pid -> Nat] /\ arrival \in [Pid -> Nat]
  /\ completion \in [Pid -> Nat \cup {-1}]
  /\ next_pid \in 1 .. MaxProcesses + 1
  /\ current_time \in Nat /\ current_running \in Pid \cup {NoPid}
  /\ quantum_remaining \in Int /\ phase \in Phases
  /\ sim \in {"STOPPED", "RUNNING", "COMPLETED"}
  /\ algo \in SchedulingAlgorithms /\ time_quantum \in Quanta
  /\ last_index \in Nat \cup {-1}
  /\ add_pid \in Pid \cup {NoPid} /\ add_call \in {"none", "record", "allocate"}
  /\ add_pages \in Int
  /\ owner \in [Frames -> Pid \cup {NoPid}]
  /\ tracked \subseteq Pid
  /\ first_run \in [Pid -> Nat \cup {-1}] /\ total_wait \in [Pid -> Int]
  /\ last_change \in [Pid -> Nat]
  /\ report \in [Pid -> [waiting : Int, turnaround : Int, response : Int]]
  /\ cpu_time \in Nat
  /\ admitted \in [Pid -> Nat \cup {-1}]

\* The table and the controller agree on who is on the CPU: the process in
\* state RUNNING is the one current_running_process_ names, and there is no
\* other.  (Each of the two is written by several handlers.)
RunningIsCurrent ==
  \A p \in Pid : state[p] = "RUNNING" <=> p = current_running

Worked(p) == burst[p] - remaining[p]

\* The first instant not yet accounted for: the tick current_time has been
\* executed in the phases that follow handleProcessExecution.
Horizon == IF phase \in {"bookkeeping", "idle"} THEN current_time + 1
                                                ELSE current_time

\* The statistics lose no time: every tick since a process was admitted is
\* either a unit of CPU time or a tick of waiting, so that at completion the
\* waiting time reported is exactly the time spent READY.
WaitingTimeIsExact ==
  \A p \in Pid :
    /\ state[p] = "READY" =>
         total_wait[p] + Worked(p) + (Horizon - last_change[p]) = Horizon - admitted[p]
    /\ state[p] = "RUNNING" =>
         total_wait[p] + Worked(p) = Horizon - admitted[p]
    /\ state[p] = "TERMINATED" =>
         report[p].waiting + burst[p] = completion[p] + 1 - admitted[p]

\* recordCPUExecution's total is the work the process table says was done,
\* and no tick does more than one unit of it.
CPUTimeMatchesWork ==
  /\ cpu_time = SumFunction([p \in Created |-> Worked(p)])
  /\ cpu_time <= current_time

\* Round robin never lets a process keep the CPU longer than the quantum in
\* force when it got it, the tick it is about to execute included
\* (handleCPUScheduling and handleProcessExecution share the counter over
\* several ticks).
QuantumIsRespected ==
  algo = "ROUND_ROBIN" /\ current_running # NoPid =>
    LET given == IF phase = "execution" THEN current_time + 1 ELSE Horizon
    IN  given - last_change[current_running] <= time_quantum

\* In the order of the algorithm, ties to the smaller pid.
Precedes(p, q) ==
  LET key == IF algo = "PRIORITY" THEN priority ELSE arrival
  IN  key[p] < key[q] \/ (key[p] = key[q] /\ p < q)

\* FCFS and priority scheduling serve in order, over the whole history: when
\* p first ran, every process already admitted that comes before p had
\* been served to its end.
ServedInOrder ==
  algo # "ROUND_ROBIN" =>
    \A p, q \in Pid :
      (first_run[p] # -1 /\ admitted[q] \in 0 .. first_run[p] /\ Precedes(q, p))
        => completion[q] \in 0 .. first_run[p] - 1

\* A tick leaves the CPU idle beside a READY process only in one case: round
\* robin, the only ready process being the one this tick requeued.
IdleOnlyAfterSoleExpiry ==
  phase = "execution" /\ current_running = NoPid =>
    \A p \in InState("READY") :
      /\ algo = "ROUND_ROBIN" /\ InState("READY") = {p}
      /\ last_change[p] = current_time /\ Worked(p) > 0

\* Completion gives back what the process held, and no later call of
\* addProcess or initialize attributes a frame to a process that is over.
TerminatedHoldsNoFrames ==
  \A f \in Frames : owner[f] # NoPid => state[owner[f]] \notin {"TERMINATED", "ABSENT"}

\* Between ticks the collector tracks exactly the processes not finished and
\* has a report of exactly those finished: none is lost, none counted twice.
CountedExactlyOnce ==
  phase = "idle" /\ GUIFree =>
    /\ tracked = Created \ InState("TERMINATED")
    /\ {p \in Pid : report[p] # NoReport} = InState("TERMINATED")

\* The machine implements a processor shared by jobs: however addProcess cuts
\* into a tick, and through every stop, start and reset, each tick does at
\* most one unit of work, of the one process that is RUNNING, which was READY
\* before and is over when, and only when, its burst has been done.
Abstract == INSTANCE Processor
  WITH Jobs <- Pid, Works <- {c.burst_time : c \in ProcessConfigs},
       stage <- state, left <- remaining, clock <- current_time,
       step <- CASE phase \in {"arrivals", "scheduling"} -> "choose"
                 [] phase = "execution" -> "run"
                 [] OTHER -> "idle"

ImplementsProcessor == Abstract!Spec

\* A simulation with work left ends by itself: every process is served to
\* completion unless the user stops the simulation.
SimulationFinishes ==
  (sim = "RUNNING" /\ Created # InState("TERMINATED")) ~>
    (sim = "STOPPED" \/ (sim = "COMPLETED" /\ InState("TERMINATED") = Created))
=============================================================================
