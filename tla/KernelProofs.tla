---------------------------- MODULE KernelProofs ----------------------------
(* Theorems about Kernel, for every value of its constants. *)
EXTENDS Kernel, FiniteSetTheorems, TLAPS

(* addProcess has a pid as long as it has calls to make. *)
AddInFlight == add_pid \in Pid <=> add_call # "none"

TypeInv == TypeOK /\ AddInFlight

\* Process ids are positive numbers, finitely many, and -1 is none of them.
LEMMA PidFacts == Pid \subseteq Nat \ {0} /\ NoPid \notin Pid /\ IsFiniteSet(Pid)
<1>1. Pid \subseteq Nat \ {0} /\ NoPid \notin Pid
  BY BoundsAssumption DEF Pid, NoPid
<1>2. IsFiniteSet(Pid)
  BY FS_Interval, BoundsAssumption DEF Pid
<1> QED BY <1>1, <1>2

(* The index round robin remembers is a position of the queue it chose from. *)
LEMMA NextIndexNat ==
  ASSUME NEW ready \in SUBSET Pid, ready # {}, NEW i \in Nat \cup {-1}
  PROVE  NextIndex(i, ready) \in Nat
<1>1. Cardinality(ready) \in Nat /\ Cardinality(ready) # 0
  BY PidFacts, FS_Subset, FS_CardinalityType, FS_EmptySet
<1> QED BY <1>1 DEF NextIndex

\* The controller as its constructor leaves it satisfies the type invariant.
LEMMA InitTypeInv == Init => TypeInv
BY BoundsAssumption, MachineAssumption, PidFacts
   DEF Init, TypeInv, TypeOK, AddInFlight, Everywhere, NoReport, AllFramesFree,
       Phases, ProcessStates, SchedulingAlgorithms

\* recordStateChange keeps the types of the metrics it writes.
LEMMA RecordStateChangesType ==
  ASSUME TypeOK, NEW changed, RecordStateChanges(changed)
  PROVE  /\ tracked' = tracked
         /\ total_wait' \in [Pid -> Int]
         /\ first_run' \in [Pid -> Nat \cup {-1}]
         /\ last_change' \in [Pid -> Nat]
BY DEF TypeOK, RecordStateChanges

\* Every operation, and every phase of a tick, keeps the type invariant.
LEMMA TypeInvStep == TypeInv /\ [Next]_vars => TypeInv'
<1> SUFFICES ASSUME TypeInv, [Next]_vars PROVE TypeInv'
  OBVIOUS
<1> USE PidFacts, BoundsAssumption, MachineAssumption
<1>1. ASSUME NEW c \in ProcessConfigs, CreateProcess(c) PROVE TypeInv'
  <2>1. next_pid \in Pid
    BY <1>1 DEF CreateProcess, TypeInv, TypeOK, Pid
  <2>2. c.priority \in Int /\ c.burst_time \in Nat /\ c.arrival_time \in Nat
        /\ c.memory_requirement \in Int
    BY <1>1, ConfigsAssumption DEF CreateProcess, ValidParameters
  <2> QED BY <1>1, <2>1, <2>2
    DEF CreateProcess, TypeInv, TypeOK, AddInFlight, ProcessStates, configVars, metricsVars
<1>2. CASE RecordProcessCreation
  BY <1>2 DEF RecordProcessCreation, TypeInv, TypeOK, AddInFlight, pcbVars, configVars
<1>3. CASE AllocatePages
  BY <1>3 DEF AllocatePages, TypeInv, TypeOK, AddInFlight, pcbVars, configVars, metricsVars
<1>4. CASE BeginTimeStep
  BY <1>4 DEF BeginTimeStep, TypeInv, TypeOK, AddInFlight, Phases, pcbVars, configVars,
              metricsVars, addVars
<1>5. CASE HandleProcessArrivals
  BY <1>5, RecordStateChangesType
     DEF HandleProcessArrivals, TypeInv, TypeOK, AddInFlight, Phases, ProcessStates,
         configVars, addVars
<1>6. CASE HandleCPUScheduling
  <2>1. CASE KeepRunning
    BY <1>6, <2>1 DEF HandleCPUScheduling, KeepRunning, TypeInv, TypeOK, AddInFlight,
                      Phases, trackVars, addVars
  <2>2. CASE FindNobody
    BY <1>6, <2>2, RecordStateChangesType
       DEF HandleCPUScheduling, FindNobody, TypeInv, TypeOK, AddInFlight, Phases,
           ProcessStates, addVars
  <2>3. ASSUME NEW p \in Pid, Dispatch(p) PROVE TypeInv'
    <3>1. InState("READY") \in SUBSET Pid
      BY DEF InState
    <3>2. algo = "ROUND_ROBIN" => NextIndex(last_index, InState("READY")) \in Nat
      <4>1. algo = "ROUND_ROBIN" => InState("READY") # {}
        BY <2>3 DEF Dispatch, Selects, RoundRobinSelects
      <4>2. last_index \in Nat \cup {-1}
        BY DEF TypeInv, TypeOK
      <4> QED BY <3>1, <4>1, <4>2, NextIndexNat
    <3>3. /\ tracked' = tracked
          /\ total_wait' \in [Pid -> Int]
          /\ first_run' \in [Pid -> Nat \cup {-1}]
          /\ last_change' \in [Pid -> Nat]
      BY <2>3, RecordStateChangesType DEF Dispatch, TypeInv
    <3>4. last_index' \in Nat \cup {-1} /\ quantum_remaining' \in Int
      BY <2>3, <3>2 DEF Dispatch, TypeInv, TypeOK
    <3> QED BY <1>6, <2>3, <3>3, <3>4
      DEF HandleCPUScheduling, Dispatch, TypeInv, TypeOK, AddInFlight, Phases,
          ProcessStates, addVars
  <2> QED BY <1>6, <2>1, <2>2, <2>3 DEF HandleCPUScheduling
<1>7. CASE HandleProcessExecution
  <2>1. CASE NothingToExecute
    BY <1>7, <2>1 DEF HandleProcessExecution, NothingToExecute, TypeInv, TypeOK,
                      AddInFlight, Phases, configVars, addVars
  <2>2. CASE ExecuteUnit
    BY <1>7, <2>2 DEF HandleProcessExecution, ExecuteUnit, RunOneUnit, OnCPU, Decreased,
                      TypeInv, TypeOK, AddInFlight, Phases, configVars, addVars
  <2>3. CASE CompleteProcess
    <3>1. current_running \in Pid
      BY <2>3 DEF CompleteProcess, RunOneUnit, OnCPU, TypeInv, TypeOK
    <3>2. FinalReport(current_running) \in [waiting : Int, turnaround : Int, response : Int]
      BY <3>1 DEF FinalReport, TypeInv, TypeOK
    <3> QED BY <1>7, <2>3, <3>1, <3>2
      DEF HandleProcessExecution, CompleteProcess, RunOneUnit, Decreased, Forgotten,
          Released, TypeInv, TypeOK, AddInFlight, Phases, ProcessStates, configVars, addVars
  <2> QED BY <1>7, <2>1, <2>2, <2>3 DEF HandleProcessExecution
<1>8. CASE FinishTimeStep
  BY <1>8 DEF FinishTimeStep, TypeInv, TypeOK, AddInFlight, Phases, pcbVars, configVars,
              metricsVars, addVars
<1>9. CASE Configure
  BY <1>9 DEF Configure, SetSchedulingAlgorithm, TypeInv, TypeOK, AddInFlight,
              pcbVars, metricsVars, addVars
<1>10. CASE Start
  BY <1>10 DEF Start, StartSimulation, TypeInv, TypeOK, AddInFlight, AllFramesFree,
               pcbVars, metricsVars, addVars
<1>11. CASE StopSimulation
  BY <1>11 DEF StopSimulation, TypeInv, TypeOK, AddInFlight, pcbVars, configVars,
               metricsVars, addVars
<1>12. CASE ResetSimulation
  BY <1>12 DEF ResetSimulation, TypeInv, TypeOK, AddInFlight, Everywhere, NoReport,
               AllFramesFree, ProcessStates, addVars
<1>13. CASE UNCHANGED vars
  BY <1>13 DEF vars, TypeInv, TypeOK, AddInFlight
<1> QED
  BY <1>1, <1>2, <1>3, <1>4, <1>5, <1>6, <1>7, <1>8, <1>9, <1>10, <1>11, <1>12, <1>13
     DEF Next, TimeStep, AddProcess

(* Every variable keeps its type in every run of the simulator. *)
THEOREM TypeCorrect == Spec => []TypeOK
<1>1. TypeInv => TypeOK
  BY DEF TypeInv
<1> QED BY <1>1, InitTypeInv, TypeInvStep, PTL DEF Spec

-----------------------------------------------------------------------------
(* RunningIsCurrent.  Alone it is not inductive: a switch of the scheduler  *)
(* while a process runs breaks it, so the theorem is about simulators whose *)
(* algorithm is chosen before the first tick, and the invariant says that   *)
(* nobody is on the CPU until then; and a new pid must not be in use.       *)

PidsInOrder == \A p \in Pid : p >= next_pid <=> state[p] = "ABSENT"
ClockStarted == phase # "idle" => current_time > 0
NobodyRunsBeforeTheClock == current_time = 0 => current_running = NoPid

RunInv == /\ TypeInv /\ PidsInOrder /\ ClockStarted
          /\ NobodyRunsBeforeTheClock /\ RunningIsCurrent

\* Nobody runs in the initial state.
LEMMA InitRunInv == Init => RunInv
BY InitTypeInv, PidFacts
   DEF Init, RunInv, TypeInv, PidsInOrder, ClockStarted, NobodyRunsBeforeTheClock,
       RunningIsCurrent, Everywhere, Pid, NoPid

\* No step separates the RUNNING process from current_running_process_.
LEMMA RunInvStep ==
  ASSUME ~SwitchAnyTime, RunInv, [Next]_vars
  PROVE  RunInv'
<1> USE PidFacts, BoundsAssumption
<1> DEFINE Rest == PidsInOrder /\ ClockStarted /\ NobodyRunsBeforeTheClock /\ RunningIsCurrent
<1>0. TypeInv' /\ TypeOK
  BY TypeInvStep DEF RunInv, TypeInv
<1> SUFFICES Rest'
  BY <1>0 DEF RunInv
<1>1. ASSUME NEW c \in ProcessConfigs, CreateProcess(c) PROVE Rest'
  <2>1. next_pid \in Pid /\ state[next_pid] = "ABSENT" /\ next_pid \in Nat
    BY <1>0, <1>1 DEF CreateProcess, RunInv, PidsInOrder, TypeOK, Pid
  <2>2. current_running # next_pid
    BY <2>1 DEF RunInv, RunningIsCurrent
  <2> QED BY <1>0, <1>1, <2>1, <2>2
    DEF CreateProcess, RunInv, PidsInOrder, ClockStarted, NobodyRunsBeforeTheClock,
        RunningIsCurrent, TypeOK, configVars, metricsVars
<1>2. CASE RecordProcessCreation
  BY <1>2 DEF RecordProcessCreation, RunInv, PidsInOrder, ClockStarted,
              NobodyRunsBeforeTheClock, RunningIsCurrent, pcbVars
<1>3. CASE AllocatePages
  BY <1>3 DEF AllocatePages, RunInv, PidsInOrder, ClockStarted,
              NobodyRunsBeforeTheClock, RunningIsCurrent, pcbVars
<1>4. CASE BeginTimeStep
  BY <1>0, <1>4 DEF BeginTimeStep, RunInv, PidsInOrder, ClockStarted,
              NobodyRunsBeforeTheClock, RunningIsCurrent, TypeOK, pcbVars
<1>5. CASE HandleProcessArrivals
  BY <1>0, <1>5 DEF HandleProcessArrivals, Arrived, RunInv, PidsInOrder, ClockStarted,
              NobodyRunsBeforeTheClock, RunningIsCurrent, TypeOK
<1>6. CASE HandleCPUScheduling
  <2>1. current_time > 0 /\ current_time' = current_time /\ phase' = "execution"
        /\ next_pid' = next_pid
    BY <1>6 DEF HandleCPUScheduling, RunInv, ClockStarted
  <2>2. \A p \in Requeued : p = current_running /\ state[p] = "RUNNING"
    BY DEF Requeued, QuantumExpired, OnCPU
  <2>3. NeedScheduling => Requeued = {current_running} \/ ~OnCPU
    BY DEF NeedScheduling, Requeued, QuantumExpired
  <2>4. CASE KeepRunning
    BY <2>1, <2>4 DEF KeepRunning, RunInv, PidsInOrder, ClockStarted,
              NobodyRunsBeforeTheClock, RunningIsCurrent
  <2>5. CASE FindNobody
    BY <1>0, <2>1, <2>2, <2>3, <2>5
       DEF FindNobody, RunInv, PidsInOrder, ClockStarted, OnCPU,
           NobodyRunsBeforeTheClock, RunningIsCurrent, TypeOK
  <2>6. ASSUME NEW p \in Pid, Dispatch(p) PROVE Rest'
    <3>1. state[p] = "READY"
      BY <2>6 DEF Dispatch, Selects, FCFSSelects, PrioritySelects, RoundRobinSelects,
                  IsMinElement, InState
    <3> QED BY <1>0, <2>1, <2>2, <2>3, <2>6, <3>1
       DEF Dispatch, RunInv, PidsInOrder, ClockStarted, OnCPU,
           NobodyRunsBeforeTheClock, RunningIsCurrent, TypeOK
  <2> QED BY <1>6, <2>4, <2>5, <2>6 DEF HandleCPUScheduling
<1>7. CASE HandleProcessExecution
  <2>1. current_time > 0 /\ current_time' = current_time /\ phase' = "bookkeeping"
        /\ next_pid' = next_pid
    BY <1>7 DEF HandleProcessExecution, RunInv, ClockStarted
  <2>2. CASE NothingToExecute
    BY <2>1, <2>2 DEF NothingToExecute, OnCPU, RunInv, PidsInOrder, ClockStarted,
              NobodyRunsBeforeTheClock, RunningIsCurrent
  <2>3. CASE ExecuteUnit
    BY <2>1, <2>3 DEF ExecuteUnit, RunInv, PidsInOrder, ClockStarted,
              NobodyRunsBeforeTheClock, RunningIsCurrent
  <2>4. CASE CompleteProcess
    BY <1>0, <2>1, <2>4 DEF CompleteProcess, RunOneUnit, OnCPU, RunInv, PidsInOrder,
              ClockStarted, NobodyRunsBeforeTheClock, RunningIsCurrent, TypeOK
  <2> QED BY <1>7, <2>2, <2>3, <2>4 DEF HandleProcessExecution
<1>8. CASE FinishTimeStep
  BY <1>8 DEF FinishTimeStep, RunInv, PidsInOrder, ClockStarted,
              NobodyRunsBeforeTheClock, RunningIsCurrent, pcbVars
<1>9. CASE Configure
  BY <1>9 DEF Configure, SetSchedulingAlgorithm, BetweenTicks, MaySwitch, RunInv,
              PidsInOrder, ClockStarted, NobodyRunsBeforeTheClock, RunningIsCurrent, pcbVars
<1>10. CASE Start
  BY <1>10 DEF Start, StartSimulation, RunInv, PidsInOrder, ClockStarted,
               NobodyRunsBeforeTheClock, RunningIsCurrent, pcbVars
<1>11. CASE StopSimulation
  BY <1>11 DEF StopSimulation, RunInv, PidsInOrder, ClockStarted,
               NobodyRunsBeforeTheClock, RunningIsCurrent, pcbVars
<1>12. CASE ResetSimulation
  BY <1>12 DEF ResetSimulation, BetweenTicks, PidsInOrder, ClockStarted, Everywhere,
               NobodyRunsBeforeTheClock, RunningIsCurrent, Pid, NoPid
<1>13. CASE UNCHANGED vars
  BY <1>13 DEF vars, RunInv, PidsInOrder, ClockStarted,
               NobodyRunsBeforeTheClock, RunningIsCurrent
<1> QED
  BY <1>1, <1>2, <1>3, <1>4, <1>5, <1>6, <1>7, <1>8, <1>9, <1>10, <1>11, <1>12, <1>13
     DEF Next, TimeStep, AddProcess

(* If the algorithm is never switched once the clock runs, the process table *)
(* and the controller always agree on which process has the CPU, whatever    *)
(* interleaving of addProcess with the tick, stops, restarts and resets.     *)
THEOREM RunningIsCurrentAlways ==
  ASSUME ~SwitchAnyTime
  PROVE  Spec => []RunningIsCurrent
<1>1. RunInv /\ [Next]_vars => RunInv'
  BY RunInvStep
<1>2. RunInv => RunningIsCurrent
  BY DEF RunInv
<1> QED BY <1>1, <1>2, InitRunInv, PTL DEF Spec

-----------------------------------------------------------------------------
(* TerminatedHoldsNoFrames, in step mode: addProcess and the tick do not    *)
(* overlap, so the process whose pages are being allocated is still NEW.    *)

AddIsNew == add_pid \in Pid => phase = "idle" /\ state[add_pid] = "NEW"

FramesInv == TypeInv /\ PidsInOrder /\ AddIsNew /\ TerminatedHoldsNoFrames

\* No process exists and every frame is free in the initial state.
LEMMA InitFramesInv == Init => FramesInv
BY InitTypeInv, PidFacts
   DEF Init, FramesInv, PidsInOrder, AddIsNew, TerminatedHoldsNoFrames, Everywhere,
       AllFramesFree, Pid, NoPid

(* A step of the tick that takes READY and RUNNING processes to such states  *)
(* and gives no frame to anybody preserves the invariant.                    *)
LEMMA FramesUntouched ==
  ASSUME FramesInv, UNCHANGED <<owner, next_pid>>, UNCHANGED add_pid, add_pid \notin Pid,
         \A p \in Pid : state'[p] # state[p] =>
            /\ state[p] \notin {"ABSENT", "TERMINATED"}
            /\ state'[p] \notin {"ABSENT", "TERMINATED"}
  PROVE  (PidsInOrder /\ AddIsNew /\ TerminatedHoldsNoFrames)'
<1>1. \A f \in Frames : owner[f] # NoPid => owner[f] \in Pid
  BY DEF FramesInv, TypeInv, TypeOK
<1> QED BY <1>1, PidFacts DEF FramesInv, PidsInOrder, AddIsNew, TerminatedHoldsNoFrames

\* No step leaves a frame with a process that has terminated.
LEMMA FramesInvStep ==
  ASSUME ~Concurrent, FramesInv, [Next]_vars
  PROVE  FramesInv'
<1> USE PidFacts, BoundsAssumption
<1> DEFINE Rest == PidsInOrder /\ AddIsNew /\ TerminatedHoldsNoFrames
<1>0. TypeInv' /\ TypeOK /\ AddInFlight
  BY TypeInvStep DEF FramesInv, TypeInv
<1>a. \A f \in Frames : owner[f] # NoPid => owner[f] \in Pid
  BY <1>0 DEF TypeOK
<1>b. phase # "idle" => add_pid \notin Pid
  BY DEF FramesInv, AddIsNew
<1> SUFFICES Rest'
  BY <1>0 DEF FramesInv
<1>1. ASSUME NEW c \in ProcessConfigs, CreateProcess(c) PROVE Rest'
  <2>1. next_pid \in Pid /\ state[next_pid] = "ABSENT" /\ next_pid \in Nat
    BY <1>0, <1>1 DEF CreateProcess, FramesInv, PidsInOrder, TypeOK, Pid
  <2> QED BY <1>0, <1>1, <1>a, <2>1
    DEF CreateProcess, BetweenTicks, FramesInv, PidsInOrder, AddIsNew,
        TerminatedHoldsNoFrames, TypeOK, configVars, metricsVars
<1>2. CASE RecordProcessCreation
  BY <1>2 DEF RecordProcessCreation, FramesInv, PidsInOrder, AddIsNew,
              TerminatedHoldsNoFrames, pcbVars
<1>3. CASE AllocatePages
  BY <1>0, <1>3, <1>a DEF AllocatePages, FramesInv, PidsInOrder, AddIsNew, AddInFlight,
              TerminatedHoldsNoFrames, TypeOK, pcbVars
<1>4. CASE BeginTimeStep
  BY <1>4 DEF BeginTimeStep, GUIFree, FramesInv, PidsInOrder, AddIsNew,
              TerminatedHoldsNoFrames, pcbVars, addVars
<1>5. CASE HandleProcessArrivals
  <2>1. \A p \in Pid : state'[p] # state[p] => state[p] = "NEW" /\ state'[p] = "READY"
    BY <1>0, <1>5 DEF HandleProcessArrivals, Arrived, TypeOK
  <2> QED BY <1>5, <1>b, <2>1, FramesUntouched DEF HandleProcessArrivals, addVars
<1>6. CASE HandleCPUScheduling
  <2>1. ASSUME NEW p \in Pid PROVE
          state'[p] # state[p] => /\ state[p] \in {"READY", "RUNNING"}
                                  /\ state'[p] \in {"READY", "RUNNING"}
    <3>1. p \in Requeued => state[p] = "RUNNING"
      BY DEF Requeued, QuantumExpired, OnCPU
    <3>2. CASE KeepRunning
      BY <3>2 DEF KeepRunning
    <3>3. CASE FindNobody
      BY <1>0, <3>1, <3>3 DEF FindNobody, TypeOK
    <3>4. ASSUME NEW q \in Pid, Dispatch(q)
          PROVE  state'[p] # state[p] => /\ state[p] \in {"READY", "RUNNING"}
                                         /\ state'[p] \in {"READY", "RUNNING"}
      <4>1. state[q] = "READY"
        BY <3>4 DEF Dispatch, Selects, FCFSSelects, PrioritySelects, RoundRobinSelects,
                    IsMinElement, InState
      <4> QED BY <1>0, <3>1, <3>4, <4>1 DEF Dispatch, TypeOK
    <3> QED BY <1>6, <3>2, <3>3, <3>4 DEF HandleCPUScheduling
  <2> QED BY <1>6, <1>b, <2>1, FramesUntouched DEF HandleCPUScheduling, addVars
<1>7. CASE HandleProcessExecution
  <2>1. UNCHANGED <<next_pid, add_pid>> /\ add_pid \notin Pid
    BY <1>7, <1>b DEF HandleProcessExecution, addVars
  <2>2. CASE NothingToExecute
    BY <2>1, <2>2, FramesUntouched DEF NothingToExecute
  <2>3. CASE ExecuteUnit
    BY <2>1, <2>3, FramesUntouched DEF ExecuteUnit
  <2>4. CASE CompleteProcess
    <3>1. current_running \in Pid /\ state[current_running] = "RUNNING"
      BY <1>0, <2>4 DEF CompleteProcess, RunOneUnit, OnCPU, TypeOK
    <3> QED BY <1>0, <1>a, <2>1, <2>4, <3>1
      DEF CompleteProcess, Released, FramesInv, PidsInOrder, AddIsNew,
          TerminatedHoldsNoFrames, TypeOK
  <2> QED BY <1>7, <2>2, <2>3, <2>4 DEF HandleProcessExecution
<1>8. CASE FinishTimeStep
  BY <1>8 DEF FinishTimeStep, FramesInv, PidsInOrder, AddIsNew,
              TerminatedHoldsNoFrames, pcbVars, addVars
<1>9. CASE Configure
  BY <1>9 DEF Configure, SetSchedulingAlgorithm, FramesInv, PidsInOrder, AddIsNew,
              TerminatedHoldsNoFrames, pcbVars, addVars
<1>10. CASE Start
  BY <1>10 DEF Start, StartSimulation, AllFramesFree, FramesInv, PidsInOrder, AddIsNew,
               TerminatedHoldsNoFrames, pcbVars, addVars
<1>11. CASE StopSimulation
  BY <1>11 DEF StopSimulation, FramesInv, PidsInOrder, AddIsNew,
               TerminatedHoldsNoFrames, pcbVars, addVars
<1>12. CASE ResetSimulation
  BY <1>12 DEF ResetSimulation, BetweenTicks, GUIFree, PidsInOrder, AddIsNew, Everywhere,
               TerminatedHoldsNoFrames, AllFramesFree, addVars, Pid, NoPid
<1>13. CASE UNCHANGED vars
  BY <1>13 DEF vars, FramesInv, PidsInOrder, AddIsNew, TerminatedHoldsNoFrames
<1> QED
  BY <1>1, <1>2, <1>3, <1>4, <1>5, <1>6, <1>7, <1>8, <1>9, <1>10, <1>11, <1>12, <1>13
     DEF Next, TimeStep, AddProcess

(* When the tick and addProcess cannot overlap, no frame belongs to a        *)
(* process that has terminated or does not exist, through any sequence of    *)
(* additions, ticks, switches, stops, restarts and resets.                   *)
THEOREM NoFrameLeaksInStepMode ==
  ASSUME ~Concurrent
  PROVE  Spec => []TerminatedHoldsNoFrames
<1>1. FramesInv /\ [Next]_vars => FramesInv'
  BY FramesInvStep
<1>2. FramesInv => TerminatedHoldsNoFrames
  BY DEF FramesInv
<1> QED BY <1>1, <1>2, InitFramesInv, PTL DEF Spec

-----------------------------------------------------------------------------
(* WaitingTimeIsExact, in step mode with the algorithm chosen before the     *)
(* first tick.  It needs to know that the collector tracks every process     *)
(* that can change state, that a process not yet admitted has waited and     *)
(* worked for no time, and that only the process on the CPU is charged.      *)

EveryProcessIsTracked ==
  \A p \in Pid : state[p] \in {"NEW", "READY", "RUNNING"} =>
                   p \in tracked \/ (p = add_pid /\ add_call = "record")
WorkIsLeft ==
  \A p \in Pid :
    /\ state[p] # "WAITING"
    /\ state[p] \in {"NEW", "READY", "RUNNING"} => remaining[p] > 0
    /\ state[p] = "NEW" => remaining[p] = burst[p]
    /\ state[p] \in {"ABSENT", "NEW"} => total_wait[p] = 0

LedgerInv == /\ RunInv /\ FramesInv /\ EveryProcessIsTracked /\ WorkIsLeft
             /\ WaitingTimeIsExact

\* The waiting-time ledger is empty in the initial state.
LEMMA InitLedgerInv == Init => LedgerInv
BY InitRunInv, InitFramesInv
   DEF Init, LedgerInv, EveryProcessIsTracked, WorkIsLeft, WaitingTimeIsExact, Everywhere

(* The three added conjuncts, for the induction step. *)
Ledger == EveryProcessIsTracked /\ WorkIsLeft /\ WaitingTimeIsExact

\* A step that touches neither processes, metrics nor the horizon keeps the ledger.
LEMMA LedgerUntouched ==
  ASSUME LedgerInv,
         UNCHANGED <<state, remaining, burst, completion, tracked, total_wait,
                     last_change, report, admitted, Horizon>>,
         add_call = "record" => UNCHANGED <<add_pid, add_call>>
  PROVE  Ledger'
BY DEF LedgerInv, Ledger, EveryProcessIsTracked, WorkIsLeft, WaitingTimeIsExact, Worked

\* addProcess opens a ledger entry that owes nothing.
LEMMA LedgerAddProcess ==
  ASSUME LedgerInv, ~Concurrent, AddProcess
  PROVE  Ledger'
<1> USE PidFacts, BoundsAssumption
<1>0. TypeOK /\ AddInFlight
  BY DEF LedgerInv, RunInv, TypeInv
<1>1. ASSUME NEW c \in ProcessConfigs, CreateProcess(c) PROVE Ledger'
  <2>1. next_pid \in Pid /\ state[next_pid] = "ABSENT"
    BY <1>0, <1>1 DEF CreateProcess, LedgerInv, RunInv, PidsInOrder, TypeOK, Pid
  <2>2. c.burst_time \in Int /\ c.burst_time > 0
    BY <1>1, ConfigsAssumption DEF CreateProcess, ValidParameters
  <2>3. add_call = "none" /\ Horizon' = Horizon
    BY <1>0, <1>1 DEF CreateProcess, BetweenTicks, GUIFree, AddInFlight, TypeOK, Horizon
  <2>4. \A p \in Pid : p # next_pid =>
          /\ state'[p] = state[p] /\ remaining'[p] = remaining[p] /\ burst'[p] = burst[p]
    BY <1>0, <1>1 DEF CreateProcess, TypeOK
  <2>5. /\ state'[next_pid] = "NEW" /\ remaining'[next_pid] = c.burst_time
        /\ burst'[next_pid] = c.burst_time /\ add_pid' = next_pid /\ add_call' = "record"
    BY <1>0, <1>1, <2>1 DEF CreateProcess, TypeOK
  <2>6. UNCHANGED <<tracked, total_wait, last_change, completion, report, admitted>>
    BY <1>1 DEF CreateProcess, metricsVars
  <2>7. EveryProcessIsTracked'
    BY <2>3, <2>4, <2>5, <2>6 DEF LedgerInv, EveryProcessIsTracked
  <2>8. WorkIsLeft'
    BY <2>1, <2>2, <2>4, <2>5, <2>6 DEF LedgerInv, WorkIsLeft
  <2>9. WaitingTimeIsExact'
    BY <2>3, <2>4, <2>5, <2>6 DEF LedgerInv, WaitingTimeIsExact, Worked
  <2> QED BY <2>7, <2>8, <2>9 DEF Ledger
<1>2. CASE RecordProcessCreation
  <2>1. add_pid \in Pid /\ state[add_pid] = "NEW"
    BY <1>0, <1>2 DEF RecordProcessCreation, AddInFlight, LedgerInv, FramesInv, AddIsNew
  <2>2. /\ \A p \in Pid : p # add_pid => last_change'[p] = last_change[p]
        /\ tracked' = tracked \cup {add_pid}
        /\ UNCHANGED <<state, remaining, burst, completion, total_wait, report, admitted>>
        /\ Horizon' = Horizon
    BY <1>0, <1>2 DEF RecordProcessCreation, pcbVars, TypeOK, Horizon
  <2>3. EveryProcessIsTracked'
    BY <2>2 DEF LedgerInv, EveryProcessIsTracked
  <2>4. WorkIsLeft'
    BY <2>2 DEF LedgerInv, WorkIsLeft
  <2>5. WaitingTimeIsExact'
    BY <2>1, <2>2 DEF LedgerInv, WaitingTimeIsExact, Worked
  <2> QED BY <2>3, <2>4, <2>5 DEF Ledger
<1>3. CASE AllocatePages
  BY <1>3, LedgerUntouched DEF AllocatePages, pcbVars, metricsVars, Horizon
<1> QED BY <1>1, <1>2, <1>3 DEF AddProcess

(* WaitingTimeIsExact of one process, and the numbers it speaks of. *)
Exact(p) ==
  /\ state[p] = "READY" =>
       total_wait[p] + Worked(p) + (Horizon - last_change[p]) = Horizon - admitted[p]
  /\ state[p] = "RUNNING" => total_wait[p] + Worked(p) = Horizon - admitted[p]
  /\ state[p] = "TERMINATED" => report[p].waiting + burst[p] = completion[p] + 1 - admitted[p]

\* The waiting time is exact when it is exact for every process.
LEMMA ExactOfEach == WaitingTimeIsExact <=> \A p \in Pid : Exact(p)
BY DEF WaitingTimeIsExact, Exact

\* The quantities the ledger adds up are integers.
LEMMA LedgerNumbers ==
  ASSUME TypeOK, NEW p \in Pid
  PROVE  /\ total_wait[p] \in Int /\ burst[p] \in Int /\ remaining[p] \in Int
         /\ last_change[p] \in Int /\ admitted[p] \in Int /\ completion[p] \in Int
         /\ report[p].waiting \in Int /\ current_time \in Int
BY DEF TypeOK

(* What the phases of the tick may use. *)
LEMMA TickFacts ==
  ASSUME LedgerInv, phase # "idle"
  PROVE  /\ TypeOK /\ RunningIsCurrent /\ add_pid \notin Pid /\ add_call = "none"
         /\ \A p \in Pid : state[p] \in {"NEW", "READY", "RUNNING"} => p \in tracked
<1>1. TypeOK /\ AddInFlight /\ RunningIsCurrent
  BY DEF LedgerInv, RunInv, TypeInv
<1>2. add_pid \notin Pid
  BY DEF LedgerInv, FramesInv, AddIsNew
<1> QED BY <1>1, <1>2 DEF AddInFlight, LedgerInv, EveryProcessIsTracked

\* NEW to READY: the time of the change is the admission, nothing is waited yet.
LEMMA LedgerArrivals ==
  ASSUME LedgerInv, HandleProcessArrivals
  PROVE  Ledger'
<1>0. /\ TypeOK /\ add_pid \notin Pid
      /\ \A p \in Pid : state[p] \in {"NEW", "READY", "RUNNING"} => p \in tracked
  BY TickFacts DEF HandleProcessArrivals
<1>1. /\ UNCHANGED <<remaining, burst, completion, report, tracked>>
      /\ Horizon = current_time /\ Horizon' = current_time
  BY DEF HandleProcessArrivals, RecordStateChanges, Horizon
<1>2. ASSUME NEW p \in Pid, p \in Arrived
      PROVE  /\ state[p] = "NEW" /\ state'[p] = "READY" /\ admitted'[p] = current_time
             /\ last_change'[p] = current_time /\ total_wait'[p] = total_wait[p]
  BY <1>0, <1>2 DEF HandleProcessArrivals, RecordStateChanges, Arrived
<1>3. ASSUME NEW p \in Pid, p \notin Arrived
      PROVE  /\ state'[p] = state[p] /\ admitted'[p] = admitted[p]
             /\ last_change'[p] = last_change[p] /\ total_wait'[p] = total_wait[p]
  BY <1>0, <1>3 DEF HandleProcessArrivals, RecordStateChanges
<1>4. EveryProcessIsTracked'
  BY <1>0, <1>1, <1>2, <1>3 DEF EveryProcessIsTracked
<1>5. WorkIsLeft'
  BY <1>1, <1>2, <1>3 DEF LedgerInv, WorkIsLeft
<1>6. WaitingTimeIsExact'
  <2> SUFFICES ASSUME NEW p \in Pid PROVE Exact(p)'
    BY DEF WaitingTimeIsExact, Exact
  <2>1. Exact(p) /\ (state[p] = "NEW" => remaining[p] = burst[p] /\ total_wait[p] = 0)
    BY ExactOfEach DEF LedgerInv, WorkIsLeft
  <2>2. CASE p \in Arrived
    BY <1>0, <1>1, <1>2, <2>1, <2>2, LedgerNumbers DEF Exact, Worked
  <2>3. CASE p \notin Arrived
    BY <1>1, <1>3, <2>1, <2>3 DEF Exact, Worked
  <2> QED BY <2>2, <2>3
<1> QED BY <1>4, <1>5, <1>6 DEF Ledger

\* A dispatch adds the ticks since READY; a requeue restarts the count.
LEMMA LedgerScheduling ==
  ASSUME LedgerInv, HandleCPUScheduling
  PROVE  Ledger'
<1>0. /\ TypeOK /\ RunningIsCurrent /\ add_pid \notin Pid /\ add_call = "none"
      /\ \A p \in Pid : state[p] \in {"NEW", "READY", "RUNNING"} => p \in tracked
  BY TickFacts DEF HandleCPUScheduling
<1>1. /\ UNCHANGED <<remaining, burst, completion, report, admitted>>
      /\ Horizon = current_time /\ Horizon' = current_time
  BY DEF HandleCPUScheduling, Horizon
<1>2. \A p \in Requeued : state[p] = "RUNNING"
  BY DEF Requeued, QuantumExpired, OnCPU
<1>3. CASE KeepRunning
  BY <1>0, <1>1, <1>3, LedgerUntouched DEF KeepRunning, trackVars
<1>4. ASSUME NEW changed \in SUBSET Pid, RecordStateChanges(changed),
             \A p \in changed : \/ state[p] = "RUNNING" /\ state'[p] = "READY"
                                \/ state[p] = "READY" /\ state'[p] = "RUNNING",
             \A p \in Pid \ changed : state'[p] = state[p]
      PROVE  Ledger'
  <2>1. tracked' = tracked
    BY <1>4 DEF RecordStateChanges
  <2>2. \A p \in changed : /\ last_change'[p] = current_time
                           /\ total_wait'[p] = IF state[p] = "READY"
                                THEN total_wait[p] + (current_time - last_change[p])
                                ELSE total_wait[p]
    BY <1>0, <1>4 DEF RecordStateChanges
  <2>3. \A p \in Pid \ changed : /\ last_change'[p] = last_change[p]
                                 /\ total_wait'[p] = total_wait[p]
    BY <1>4 DEF RecordStateChanges
  <2>4. EveryProcessIsTracked'
    BY <1>0, <1>4, <2>1 DEF EveryProcessIsTracked
  <2>5. WorkIsLeft'
    BY <1>1, <1>4, <2>2, <2>3 DEF LedgerInv, WorkIsLeft
  <2>6. ASSUME NEW p \in changed
        PROVE  /\ state'[p] = "READY" => total_wait'[p] + Worked(p)' + (Horizon' - last_change'[p])
                                           = Horizon' - admitted'[p]
               /\ state'[p] = "RUNNING" => total_wait'[p] + Worked(p)' = Horizon' - admitted'[p]
               /\ state'[p] # "TERMINATED"
    BY <1>0, <1>1, <1>4, <2>2 DEF LedgerInv, WaitingTimeIsExact, Worked, TypeOK
  <2>7. WaitingTimeIsExact'
    BY <1>1, <1>4, <2>3, <2>6 DEF LedgerInv, WaitingTimeIsExact, Worked
  <2> QED BY <2>4, <2>5, <2>7 DEF Ledger
<1>5. Requeued \in SUBSET Pid
  BY <1>0 DEF Requeued, QuantumExpired, OnCPU, TypeOK
<1>6. CASE FindNobody
  BY <1>0, <1>2, <1>4, <1>5, <1>6 DEF FindNobody, TypeOK
<1>7. ASSUME NEW q \in Pid, Dispatch(q) PROVE Ledger'
  <2>1. state[q] = "READY"
    BY <1>7 DEF Dispatch, Selects, FCFSSelects, PrioritySelects, RoundRobinSelects,
                IsMinElement, InState
  <2>2. /\ Requeued \cup {q} \in SUBSET Pid /\ RecordStateChanges(Requeued \cup {q})
        /\ \A p \in Requeued \cup {q} : \/ state[p] = "RUNNING" /\ state'[p] = "READY"
                                        \/ state[p] = "READY" /\ state'[p] = "RUNNING"
        /\ \A p \in Pid \ (Requeued \cup {q}) : state'[p] = state[p]
    BY <1>0, <1>2, <1>5, <1>7, <2>1 DEF Dispatch, TypeOK
  <2> QED BY <1>4, <2>2
<1> QED BY <1>3, <1>6, <1>7 DEF HandleCPUScheduling

\* One unit of work, or the completion and its report, keeps the ledger exact.
LEMMA LedgerExecution ==
  ASSUME LedgerInv, HandleProcessExecution
  PROVE  Ledger'
<1>0. /\ TypeOK /\ RunningIsCurrent /\ add_pid \notin Pid /\ add_call = "none"
      /\ \A p \in Pid : state[p] \in {"NEW", "READY", "RUNNING"} => p \in tracked
  BY TickFacts DEF HandleProcessExecution
<1>1. /\ UNCHANGED <<burst, total_wait, last_change, admitted, current_time>>
      /\ Horizon = current_time /\ Horizon' = current_time + 1
  BY DEF HandleProcessExecution, Horizon
<1>2. CASE NothingToExecute
  <2>1. \A p \in Pid : state[p] # "RUNNING"
    BY <1>0, <1>2, PidFacts DEF NothingToExecute, OnCPU, RunningIsCurrent
  <2>2. UNCHANGED <<state, remaining, completion, tracked, report>>
    BY <1>2 DEF NothingToExecute
  <2>3. EveryProcessIsTracked' /\ WorkIsLeft'
    BY <1>0, <1>1, <2>2 DEF LedgerInv, EveryProcessIsTracked, WorkIsLeft
  <2>4. ASSUME NEW p \in Pid PROVE Exact(p)'
    <3>1. Exact(p) /\ state[p] # "RUNNING"
      BY <2>1, ExactOfEach DEF LedgerInv
    <3> QED BY <1>0, <1>1, <2>2, <3>1, LedgerNumbers DEF Exact, Worked
  <2>5. WaitingTimeIsExact'
    BY <2>4 DEF WaitingTimeIsExact, Exact
  <2> QED BY <2>3, <2>5 DEF Ledger
<1> DEFINE r == current_running
<1>3. ASSUME RunOneUnit
      PROVE  /\ r \in Pid /\ state[r] = "RUNNING" /\ r \in tracked
             /\ remaining[r] > 0 /\ remaining'[r] = remaining[r] - 1
             /\ \A p \in Pid \ {r} : state[p] # "RUNNING" /\ remaining'[p] = remaining[p]
  <2>1. r \in Pid /\ state[r] = "RUNNING"
    BY <1>0, <1>3 DEF RunOneUnit, OnCPU, TypeOK
  <2>2. remaining[r] > 0 /\ remaining[r] \in Nat
    BY <1>0, <2>1 DEF LedgerInv, WorkIsLeft, TypeOK
  <2> QED BY <1>0, <1>3, <2>1, <2>2 DEF RunOneUnit, Decreased, RunningIsCurrent, TypeOK
<1>4. CASE ExecuteUnit
  <2>1. UNCHANGED <<state, completion, tracked, report>> /\ remaining'[r] > 0
    BY <1>4 DEF ExecuteUnit
  <2>2. RunOneUnit
    BY <1>4 DEF ExecuteUnit
  <2>3. EveryProcessIsTracked' /\ WorkIsLeft'
    BY <1>0, <1>1, <1>3, <2>1, <2>2 DEF LedgerInv, EveryProcessIsTracked, WorkIsLeft
  <2>4. ASSUME NEW p \in Pid PROVE Exact(p)'
    <3>1. Exact(p)
      BY ExactOfEach DEF LedgerInv
    <3>2. CASE p = r
      BY <1>0, <1>1, <1>3, <2>1, <2>2, <3>1, <3>2, LedgerNumbers DEF Exact, Worked
    <3>3. CASE p # r
      BY <1>0, <1>1, <1>3, <2>1, <2>2, <3>1, <3>3, LedgerNumbers DEF Exact, Worked
    <3> QED BY <3>2, <3>3
  <2>5. WaitingTimeIsExact'
    BY <2>4 DEF WaitingTimeIsExact, Exact
  <2> QED BY <2>3, <2>5 DEF Ledger
<1>5. CASE CompleteProcess
  <2>1. RunOneUnit
    BY <1>5 DEF CompleteProcess
  <2>2. /\ state'[r] = "TERMINATED" /\ completion'[r] = current_time
        /\ report'[r].waiting = total_wait[r] /\ remaining[r] = 1
    BY <1>0, <1>3, <1>5, <2>1 DEF CompleteProcess, FinalReport, TypeOK
  <2>3. \A p \in Pid \ {r} : /\ state'[p] = state[p] /\ completion'[p] = completion[p]
                             /\ report'[p] = report[p] /\ (p \in tracked => p \in tracked')
    BY <1>0, <1>5 DEF CompleteProcess, Forgotten, TypeOK
  <2>4. EveryProcessIsTracked' /\ WorkIsLeft'
    BY <1>0, <1>1, <1>3, <2>1, <2>2, <2>3 DEF LedgerInv, EveryProcessIsTracked, WorkIsLeft
  <2>5. ASSUME NEW p \in Pid PROVE Exact(p)'
    <3>1. Exact(p)
      BY ExactOfEach DEF LedgerInv
    <3>2. CASE p = r
      <4>1. state[p] = "RUNNING" /\ remaining[p] = 1 /\ state'[p] = "TERMINATED"
            /\ completion'[p] = current_time /\ report'[p].waiting = total_wait[p]
        BY <1>3, <2>1, <2>2, <3>2
      <4>2. total_wait[p] + (burst[p] - 1) = current_time - admitted[p]
        BY <1>1, <3>1, <4>1 DEF Exact, Worked
      <4>3. report'[p].waiting + burst'[p] = completion'[p] + 1 - admitted'[p]
        BY <1>0, <1>1, <4>1, <4>2, LedgerNumbers
      <4> QED BY <4>1, <4>3 DEF Exact
    <3>3. CASE p # r
      BY <1>0, <1>1, <1>3, <2>1, <2>3, <3>1, <3>3, LedgerNumbers DEF Exact, Worked
    <3> QED BY <3>2, <3>3
  <2>6. WaitingTimeIsExact'
    BY <2>5 DEF WaitingTimeIsExact, Exact
  <2> QED BY <2>4, <2>6 DEF Ledger
<1> QED BY <1>2, <1>4, <1>5 DEF HandleProcessExecution

\* Every step keeps the waiting-time ledger exact.
LEMMA LedgerInvStep ==
  ASSUME ~Concurrent, ~SwitchAnyTime, LedgerInv, [Next]_vars
  PROVE  LedgerInv'
<1>0. RunInv' /\ FramesInv'
  BY RunInvStep, FramesInvStep DEF LedgerInv
<1> SUFFICES Ledger'
  BY <1>0 DEF LedgerInv, Ledger
<1>1. CASE AddProcess
  BY <1>1, LedgerAddProcess
<1>2. CASE BeginTimeStep
  <2>1. Horizon' = Horizon /\ current_time \in Nat
    BY <1>2 DEF BeginTimeStep, Horizon, LedgerInv, RunInv, TypeInv, TypeOK
  <2> QED BY <1>2, <2>1, LedgerUntouched DEF BeginTimeStep, pcbVars, metricsVars, addVars
<1>3. CASE HandleProcessArrivals
  BY <1>3, LedgerArrivals
<1>4. CASE HandleCPUScheduling
  BY <1>4, LedgerScheduling
<1>5. CASE HandleProcessExecution
  BY <1>5, LedgerExecution
<1>6. CASE FinishTimeStep
  BY <1>6, LedgerUntouched DEF FinishTimeStep, Horizon, pcbVars, metricsVars, addVars
<1>7. CASE Configure
  BY <1>7, LedgerUntouched
     DEF Configure, SetSchedulingAlgorithm, Horizon, pcbVars, metricsVars, addVars
<1>8. CASE Start
  BY <1>8, LedgerUntouched DEF Start, StartSimulation, Horizon, pcbVars, metricsVars, addVars
<1>9. CASE StopSimulation
  BY <1>9, LedgerUntouched DEF StopSimulation, Horizon, pcbVars, metricsVars, addVars
<1>10. CASE ResetSimulation
  BY <1>10 DEF ResetSimulation, Everywhere, Ledger, EveryProcessIsTracked, WorkIsLeft,
               WaitingTimeIsExact
<1>11. CASE UNCHANGED vars
  BY <1>11, LedgerUntouched DEF vars, Horizon
<1> QED
  BY <1>1, <1>2, <1>3, <1>4, <1>5, <1>6, <1>7, <1>8, <1>9, <1>10, <1>11 DEF Next, TimeStep

(* In step mode, with the algorithm chosen before the first tick, the        *)
(* waiting time reported for a process is exactly the number of ticks it     *)
(* spent READY, under every algorithm and through stops, restarts and resets.*)
THEOREM WaitingTimeIsExactInStepMode ==
  ASSUME ~Concurrent, ~SwitchAnyTime
  PROVE  Spec => []WaitingTimeIsExact
<1>1. LedgerInv /\ [Next]_vars => LedgerInv'
  BY LedgerInvStep
<1>2. LedgerInv => WaitingTimeIsExact
  BY DEF LedgerInv
<1> QED BY <1>1, <1>2, InitLedgerInv, PTL DEF Spec
=============================================================================
