------------------------ MODULE KernelServiceProofs ------------------------
(* Theorems about the service the tick gives: the order in which FCFS and   *)
(* priority scheduling serve, the quantum, the idle tick, the count of      *)
(* reports, the CPU time, and the refinement of Processor.  The first and   *)
(* the last hold with the thread too, the CPU time for every simulator, the *)
(* others in step mode.  All but the CPU time are about simulators whose    *)
(* algorithm is chosen before the first tick (kernel_switch shows that a    *)
(* later switch strands the running process).                               *)
EXTENDS KernelProofs, FoldLemmas

\* Who is chosen was READY, whatever the algorithm.
LEMMA ChosenIsReady ==
  ASSUME NEW p \in Pid, Dispatch(p)
  PROVE  state[p] = "READY"
BY DEF Dispatch, Selects, FCFSSelects, PrioritySelects, RoundRobinSelects,
       IsMinElement, InState

\* What handleCPUScheduling requeues is the process on the CPU.
LEMMA RequeuedIsRunning ==
  \A p \in Requeued : p = current_running /\ state[p] = "RUNNING"
BY DEF Requeued, QuantumExpired, OnCPU

-----------------------------------------------------------------------------
(* ServedInOrder.  The induction needs the order of the dates: a process has *)
(* no dates before its state gives it one, and what is dated was dated in    *)
(* the phases already executed.                                              *)

\* The last tick in which a process may have been dispatched already.
LastDispatch == IF phase \in {"arrivals", "scheduling"} THEN current_time - 1
                                                        ELSE current_time

Dated ==
  \A p \in Pid :
    /\ state[p] \in {"ABSENT", "NEW"} <=> admitted[p] = -1
    /\ state[p] \in {"ABSENT", "NEW"} => first_run[p] = -1
    /\ state[p] = "TERMINATED" <=> completion[p] # -1
    /\ state[p] # "WAITING"
    /\ first_run[p] # -1 => 1 <= first_run[p] /\ first_run[p] <= LastDispatch
    /\ completion[p] < Horizon

OrderInv == RunInv /\ Dated /\ ServedInOrder

\* There are no processes, and so no dates, in the initial state.
LEMMA InitOrderInv == Init => OrderInv
BY InitRunInv DEF Init, OrderInv, Dated, ServedInOrder, Everywhere, Horizon

\* A step that moves neither processes nor dates keeps the order.
LEMMA OrderUntouched ==
  ASSUME OrderInv, UNCHANGED <<state, priority, arrival, admitted, first_run, completion>>,
         UNCHANGED <<LastDispatch, Horizon>>,
         algo' = algo \/ current_time = 0
  PROVE  (Dated /\ ServedInOrder)'
<1> USE PidFacts
<1>1. Dated'
  BY DEF OrderInv, Dated
<1>2. CASE algo' = algo
  BY <1>1, <1>2 DEF OrderInv, ServedInOrder, Precedes
<1>3. CASE current_time = 0
  <2>1. LastDispatch <= 0
    BY <1>3 DEF LastDispatch
  <2>2. \A p \in Pid : first_run[p] = -1
    BY <2>1 DEF OrderInv, RunInv, TypeInv, TypeOK, Dated, LastDispatch
  <2> QED BY <1>1, <2>2 DEF ServedInOrder
<1> QED BY <1>1, <1>2, <1>3

\* A new process has no dates: it neither serves nor is passed over.
LEMMA OrderCreate ==
  ASSUME OrderInv, NEW c \in ProcessConfigs, CreateProcess(c)
  PROVE  (Dated /\ ServedInOrder)'
<1> USE PidFacts
<1>0. TypeOK
  BY DEF OrderInv, RunInv, TypeInv
<1>1. next_pid \in Pid /\ state[next_pid] = "ABSENT"
  BY <1>0, BoundsAssumption DEF CreateProcess, OrderInv, RunInv, PidsInOrder, TypeOK, Pid
<1>2. admitted[next_pid] = -1 /\ first_run[next_pid] = -1 /\ completion[next_pid] = -1
  BY <1>1 DEF OrderInv, Dated
<1>3. /\ UNCHANGED <<admitted, first_run, completion, algo, LastDispatch, Horizon>>
      /\ state'[next_pid] = "NEW"
      /\ \A p \in Pid \ {next_pid} : /\ state'[p] = state[p]
                                     /\ priority'[p] = priority[p]
                                     /\ arrival'[p] = arrival[p]
  BY <1>0, <1>1 DEF CreateProcess, TypeOK, configVars, metricsVars, LastDispatch, Horizon
<1>4. Dated'
  BY <1>1, <1>2, <1>3 DEF OrderInv, Dated
<1>5. ServedInOrder'
  BY <1>2, <1>3 DEF OrderInv, ServedInOrder, Precedes
<1> QED BY <1>4, <1>5

\* Whoever is admitted now comes too late to be passed over by a dispatch.
LEMMA OrderArrivals ==
  ASSUME OrderInv, HandleProcessArrivals
  PROVE  (Dated /\ ServedInOrder)'
<1> USE PidFacts
<1>0. TypeOK
  BY DEF OrderInv, RunInv, TypeInv
<1>1. /\ UNCHANGED <<priority, arrival, completion, algo, current_time, LastDispatch, Horizon>>
      /\ LastDispatch = current_time - 1 /\ Horizon = current_time
  BY DEF HandleProcessArrivals, configVars, LastDispatch, Horizon
<1>2. ASSUME NEW p \in Pid, p \in Arrived
      PROVE  /\ state[p] = "NEW" /\ state'[p] = "READY" /\ admitted'[p] = current_time
             /\ first_run'[p] = first_run[p]
  BY <1>0, <1>2 DEF HandleProcessArrivals, RecordStateChanges, Arrived, TypeOK
<1>3. ASSUME NEW p \in Pid, p \notin Arrived
      PROVE  /\ state'[p] = state[p] /\ admitted'[p] = admitted[p]
             /\ first_run'[p] = first_run[p]
  BY <1>0, <1>3 DEF HandleProcessArrivals, RecordStateChanges, TypeOK
<1>4. current_time \in Nat
  BY <1>0 DEF TypeOK
<1>5. Dated'
  BY <1>1, <1>2, <1>3, <1>4 DEF OrderInv, Dated
<1>6. \A p \in Pid : first_run[p] # -1 => first_run[p] < current_time
  BY <1>0, <1>1, <1>4 DEF OrderInv, Dated, TypeOK
<1>7. ServedInOrder'
  <2> SUFFICES ASSUME algo # "ROUND_ROBIN", NEW p \in Pid, NEW q \in Pid,
                      first_run[p] # -1, admitted'[q] \in 0 .. first_run[p], Precedes(q, p)
               PROVE  completion[q] \in 0 .. first_run[p] - 1
    BY <1>1, <1>2, <1>3 DEF ServedInOrder, Precedes
  <2>1. q \notin Arrived
    BY <1>0, <1>2, <1>4, <1>6 DEF TypeOK
  <2> QED BY <1>3, <2>1 DEF OrderInv, ServedInOrder
<1> QED BY <1>5, <1>7

\* FCFS and priority scheduling dispatch when everybody admitted before the
\* chosen one in their order has completed, in an earlier tick.
LEMMA OrderScheduling ==
  ASSUME OrderInv, HandleCPUScheduling
  PROVE  (Dated /\ ServedInOrder)'
<1> USE PidFacts
<1>0. TypeOK /\ RunningIsCurrent
  BY DEF OrderInv, RunInv, TypeInv
<1>1. /\ UNCHANGED <<priority, arrival, admitted, completion, algo, current_time, Horizon>>
      /\ LastDispatch = current_time - 1 /\ LastDispatch' = current_time
      /\ Horizon = current_time /\ current_time \in Nat /\ current_time > 0
  BY <1>0 DEF HandleCPUScheduling, LastDispatch, Horizon, TypeOK, OrderInv, RunInv, ClockStarted
<1>2. CASE KeepRunning
  BY <1>0, <1>1, <1>2 DEF KeepRunning, trackVars, OrderInv, Dated, ServedInOrder, Precedes, TypeOK
<1>3. CASE FindNobody
  <2>1. \A p \in Pid : first_run'[p] = first_run[p]
    BY <1>0, <1>3, RequeuedIsRunning DEF FindNobody, RecordStateChanges, TypeOK
  <2>2. \A p \in Pid : state'[p] = state[p] \/ (state[p] = "RUNNING" /\ state'[p] = "READY")
    BY <1>0, <1>3, RequeuedIsRunning DEF FindNobody, TypeOK
  <2>3. Dated'
    BY <1>0, <1>1, <2>1, <2>2 DEF OrderInv, Dated, TypeOK
  <2>4. ServedInOrder'
    BY <1>1, <2>1 DEF OrderInv, ServedInOrder, Precedes
  <2> QED BY <2>3, <2>4
<1>4. ASSUME NEW p \in Pid, Dispatch(p) PROVE (Dated /\ ServedInOrder)'
  <2>1. state[p] = "READY"
    BY <1>4, ChosenIsReady
  <2>2. \A q \in Pid \ {p} : /\ first_run'[q] = first_run[q]
                             /\ \/ state'[q] = state[q]
                                \/ state[q] = "RUNNING" /\ state'[q] = "READY"
    BY <1>0, <1>4, RequeuedIsRunning DEF Dispatch, RecordStateChanges, TypeOK
  <2>3. /\ state'[p] = "RUNNING"
        /\ first_run'[p] \in {first_run[p], current_time}
        /\ first_run[p] # -1 => first_run'[p] = first_run[p]
    BY <1>0, <1>4 DEF Dispatch, RecordStateChanges, TypeOK
  <2>4. Dated'
    BY <1>0, <1>1, <2>1, <2>2, <2>3 DEF OrderInv, Dated, TypeOK
  <2>5. ASSUME algo # "ROUND_ROBIN", NEW q \in Pid, admitted[q] # -1, Precedes(q, p)
        PROVE  completion[q] \in 0 .. current_time - 1
    <3>1. state[q] # "READY"
      BY <1>0, <1>4, <2>5 DEF Dispatch, Selects, FCFSSelects, PrioritySelects, IsMinElement,
             Precedes, InState, TypeOK, SchedulingAlgorithms
    <3>2. state[q] # "RUNNING"
      BY <1>0, <1>4, <2>5 DEF Dispatch, NeedScheduling, QuantumExpired, OnCPU, RunningIsCurrent
    <3>3. state[q] = "TERMINATED"
      BY <1>0, <2>5, <3>1, <3>2 DEF OrderInv, Dated, TypeOK, ProcessStates
    <3> QED BY <1>0, <1>1, <3>3 DEF OrderInv, Dated, TypeOK
  <2>6. ServedInOrder'
    <3> SUFFICES ASSUME algo # "ROUND_ROBIN", NEW x \in Pid, NEW q \in Pid,
                        first_run'[x] # -1, admitted[q] \in 0 .. first_run'[x], Precedes(q, x)
                 PROVE  completion[q] \in 0 .. first_run'[x] - 1
      BY <1>1 DEF ServedInOrder, Precedes
    <3>1. CASE first_run'[x] = first_run[x]
      BY <3>1 DEF OrderInv, ServedInOrder
    <3>2. CASE first_run'[x] # first_run[x]
      <4>1. x = p /\ first_run'[x] = current_time
        BY <2>2, <2>3, <3>2
      <4>2. admitted[q] # -1
        OBVIOUS
      <4> QED BY <2>5, <4>1, <4>2
    <3> QED BY <3>1, <3>2
  <2> QED BY <2>4, <2>6
<1> QED BY <1>2, <1>3, <1>4 DEF HandleCPUScheduling

\* A unit of work dates nothing; a completion is dated with the tick of its unit.
LEMMA OrderExecution ==
  ASSUME OrderInv, HandleProcessExecution
  PROVE  (Dated /\ ServedInOrder)'
<1> USE PidFacts
<1>0. TypeOK
  BY DEF OrderInv, RunInv, TypeInv
<1>1. /\ UNCHANGED <<priority, arrival, admitted, first_run, algo, current_time, LastDispatch>>
      /\ Horizon = current_time /\ Horizon' = current_time + 1 /\ current_time \in Nat
  BY <1>0 DEF HandleProcessExecution, configVars, LastDispatch, Horizon, TypeOK
<1>2. CASE UNCHANGED <<state, completion>>
  <2>1. Dated'
    BY <1>0, <1>1, <1>2 DEF OrderInv, Dated, TypeOK
  <2>2. ServedInOrder'
    BY <1>1, <1>2 DEF OrderInv, ServedInOrder, Precedes
  <2> QED BY <2>1, <2>2
<1>3. CASE CompleteProcess
  <2> DEFINE r == current_running
  <2>1. r \in Pid /\ state[r] = "RUNNING" /\ completion[r] = -1
    BY <1>0, <1>3 DEF CompleteProcess, RunOneUnit, OnCPU, TypeOK, OrderInv, Dated
  <2>2. /\ state'[r] = "TERMINATED" /\ completion'[r] = current_time
        /\ \A p \in Pid \ {r} : state'[p] = state[p] /\ completion'[p] = completion[p]
    BY <1>0, <1>3, <2>1 DEF CompleteProcess, TypeOK
  <2>3. Dated'
    BY <1>0, <1>1, <2>1, <2>2 DEF OrderInv, Dated, TypeOK
  <2>4. ServedInOrder'
    <3> SUFFICES ASSUME algo # "ROUND_ROBIN", NEW p \in Pid, NEW q \in Pid,
                        first_run[p] # -1, admitted[q] \in 0 .. first_run[p], Precedes(q, p)
                 PROVE  completion'[q] \in 0 .. first_run[p] - 1
      BY <1>1 DEF ServedInOrder, Precedes
    <3>1. completion[q] \in 0 .. first_run[p] - 1
      BY DEF OrderInv, ServedInOrder
    <3>2. q # r
      BY <2>1, <3>1
    <3> QED BY <2>2, <3>1, <3>2
  <2> QED BY <2>3, <2>4
<1> QED BY <1>2, <1>3
  DEF HandleProcessExecution, NothingToExecute, ExecuteUnit

\* No step lets a later process overtake.
LEMMA OrderInvStep ==
  ASSUME ~SwitchAnyTime, OrderInv, [Next]_vars
  PROVE  OrderInv'
<1> SUFFICES (Dated /\ ServedInOrder)'
  BY RunInvStep DEF OrderInv
<1>0. TypeOK
  BY DEF OrderInv, RunInv, TypeInv
<1>1. CASE AddProcess
  <2>1. CASE RecordProcessCreation
    BY <2>1, OrderUntouched DEF RecordProcessCreation, pcbVars, configVars, LastDispatch, Horizon
  <2>2. CASE AllocatePages
    BY <2>2, OrderUntouched
       DEF AllocatePages, pcbVars, configVars, metricsVars, LastDispatch, Horizon
  <2> QED BY <1>1, <2>1, <2>2, OrderCreate DEF AddProcess
<1>2. CASE BeginTimeStep
  <2>1. UNCHANGED <<LastDispatch, Horizon>>
    BY <1>0, <1>2 DEF BeginTimeStep, LastDispatch, Horizon, TypeOK
  <2> QED BY <1>2, <2>1, OrderUntouched DEF BeginTimeStep, pcbVars, configVars, metricsVars
<1>3. CASE HandleProcessArrivals
  BY <1>3, OrderArrivals
<1>4. CASE HandleCPUScheduling
  BY <1>4, OrderScheduling
<1>5. CASE HandleProcessExecution
  BY <1>5, OrderExecution
<1>6. CASE FinishTimeStep
  BY <1>6, OrderUntouched
     DEF FinishTimeStep, pcbVars, configVars, metricsVars, LastDispatch, Horizon
<1>7. CASE Configure
  BY <1>7, OrderUntouched DEF Configure, SetSchedulingAlgorithm, MaySwitch, pcbVars,
                              metricsVars, LastDispatch, Horizon
<1>8. CASE Start
  BY <1>8, OrderUntouched DEF Start, StartSimulation, MaySwitch, pcbVars, metricsVars,
                              LastDispatch, Horizon
<1>9. CASE StopSimulation
  BY <1>9, OrderUntouched
     DEF StopSimulation, pcbVars, configVars, metricsVars, LastDispatch, Horizon
<1>10. CASE ResetSimulation
  BY <1>10 DEF ResetSimulation, BetweenTicks, Everywhere, Dated, ServedInOrder, Horizon
<1>11. CASE UNCHANGED vars
  BY <1>11, OrderUntouched DEF vars, LastDispatch, Horizon
<1> QED
  BY <1>1, <1>2, <1>3, <1>4, <1>5, <1>6, <1>7, <1>8, <1>9, <1>10, <1>11 DEF Next, TimeStep

(* FCFS and priority scheduling serve in their order for any number of        *)
(* processes, however addProcess cuts into the ticks: whoever first runs has  *)
(* nobody before him among those admitted, but for the ones that are over.    *)
THEOREM ServedInOrderAlways ==
  ASSUME ~SwitchAnyTime
  PROVE  Spec => []ServedInOrder
<1>1. OrderInv /\ [Next]_vars => OrderInv'
  BY OrderInvStep
<1>2. OrderInv => ServedInOrder
  BY DEF OrderInv
<1> QED BY <1>1, <1>2, InitOrderInv, PTL DEF Spec

-----------------------------------------------------------------------------
(* QuantumIsRespected and IdleOnlyAfterSoleExpiry, in step mode.  The        *)
(* counter of the quantum is tied to the date of the dispatch, which the     *)
(* collector keeps, and to the work done since.                              *)

QuantumLedger ==
  algo = "ROUND_ROBIN" /\ current_running # NoPid =>
    /\ quantum_remaining = time_quantum - (Horizon - last_change[current_running])
    /\ quantum_remaining >= IF phase = "execution" THEN 1 ELSE 0
    /\ Worked(current_running) >= time_quantum - quantum_remaining

WorkIsBounded == \A p \in Pid : remaining[p] <= burst[p]

QuantumInv == LedgerInv /\ WorkIsBounded /\ QuantumLedger /\ IdleOnlyAfterSoleExpiry

\* Nobody has the CPU in the initial state, and no tick is under way.
LEMMA InitQuantumInv == Init => QuantumInv
BY InitLedgerInv DEF Init, QuantumInv, WorkIsBounded, QuantumLedger,
                     IdleOnlyAfterSoleExpiry, Everywhere

\* The counter and the dates together say that the quantum is respected.
LEMMA QuantumInvImplies == QuantumInv => QuantumIsRespected
<1> SUFFICES ASSUME QuantumInv, algo = "ROUND_ROBIN", current_running # NoPid
             PROVE  QuantumIsRespected
  BY DEF QuantumIsRespected
<1>1. TypeOK
  BY DEF QuantumInv, LedgerInv, RunInv, TypeInv
<1>2. /\ current_time \in Int /\ time_quantum \in Int /\ quantum_remaining \in Int
      /\ last_change[current_running] \in Int
  BY <1>1, MachineAssumption DEF TypeOK
<1> QED BY <1>2 DEF QuantumInv, QuantumLedger, QuantumIsRespected, Horizon

\* What a step of the tick keeps if it moves neither the CPU nor its ledger.
LEMMA QuantumUntouched ==
  ASSUME QuantumInv, UNCHANGED <<remaining, burst, current_running, quantum_remaining, Horizon>>,
         current_running # NoPid => UNCHANGED <<algo, time_quantum, last_change>>,
         phase' # "execution"
  PROVE  (WorkIsBounded /\ QuantumLedger /\ IdleOnlyAfterSoleExpiry)'
<1>1. WorkIsBounded'
  BY DEF QuantumInv, WorkIsBounded
<1>2. IdleOnlyAfterSoleExpiry'
  BY DEF IdleOnlyAfterSoleExpiry
<1>3. QuantumLedger'
  <2>1. quantum_remaining \in Int
    BY DEF QuantumInv, LedgerInv, RunInv, TypeInv, TypeOK
  <2> QED BY <2>1 DEF QuantumInv, QuantumLedger, Worked
<1> QED BY <1>1, <1>2, <1>3

\* A dispatch sets the counter and the date; a requeue takes both back.
LEMMA QuantumScheduling ==
  ASSUME QuantumInv, HandleCPUScheduling
  PROVE  (WorkIsBounded /\ QuantumLedger /\ IdleOnlyAfterSoleExpiry)'
<1> USE PidFacts
<1>0. /\ TypeOK /\ RunningIsCurrent
      /\ \A p \in Pid : state[p] \in {"NEW", "READY", "RUNNING"} => p \in tracked
  BY TickFacts DEF QuantumInv, HandleCPUScheduling
<1>1. /\ UNCHANGED <<remaining, burst, algo, time_quantum, current_time>>
      /\ phase = "scheduling" /\ phase' = "execution"
      /\ Horizon = current_time /\ Horizon' = current_time
  BY DEF HandleCPUScheduling, Horizon
<1>2. WorkIsBounded'
  BY <1>1 DEF QuantumInv, WorkIsBounded
<1>3. time_quantum \in Nat /\ time_quantum > 0 /\ quantum_remaining \in Int
      /\ current_time \in Nat
  BY <1>0, MachineAssumption DEF TypeOK
<1>4. CASE KeepRunning
  <2>1. current_running # NoPid /\ UNCHANGED <<current_running, quantum_remaining, last_change>>
    BY <1>4 DEF KeepRunning, NeedScheduling, OnCPU, trackVars
  <2>2. algo = "ROUND_ROBIN" => quantum_remaining >= 1
    BY <1>3, <1>4 DEF KeepRunning, NeedScheduling, QuantumExpired
  <2>3. QuantumLedger'
    BY <1>1, <2>1, <2>2 DEF QuantumInv, QuantumLedger, Worked
  <2>4. IdleOnlyAfterSoleExpiry'
    BY <2>1 DEF IdleOnlyAfterSoleExpiry
  <2> QED BY <1>2, <2>3, <2>4
<1>5. CASE FindNobody
  <2>1. current_running' = NoPid
    BY <1>5 DEF FindNobody
  <2>2. QuantumLedger'
    BY <2>1 DEF QuantumLedger
  <2>3. ASSUME NEW p \in Pid, state'[p] = "READY"
        PROVE  p \in Requeued
    BY <1>0, <1>5, <2>3 DEF FindNobody, InState, TypeOK
  <2>4. ASSUME NEW p \in Requeued
        PROVE  /\ p \in Pid /\ p = current_running /\ algo = "ROUND_ROBIN" /\ quantum_remaining <= 0
               /\ state[p] = "RUNNING" /\ state'[p] = "READY"
    BY <1>0, <1>5 DEF Requeued, QuantumExpired, OnCPU, FindNobody, TypeOK
  <2>5. ASSUME NEW p \in Requeued
        PROVE  last_change'[p] = current_time
    <3>1. p \in Pid /\ p \in tracked
      BY <1>0, <2>4
    <3>2. RecordStateChanges(Requeued)
      BY <1>5 DEF FindNobody
    <3> QED BY <3>1, <3>2 DEF RecordStateChanges
  <2>6. ASSUME NEW p \in Requeued
        PROVE  Worked(p)' > 0
    <3>1. Worked(p) >= time_quantum - quantum_remaining /\ quantum_remaining <= 0
      BY <2>4 DEF QuantumInv, QuantumLedger
    <3>2. Worked(p)' = Worked(p) /\ Worked(p) \in Int
      BY <1>0, <1>1, <2>4 DEF Worked, TypeOK
    <3> QED BY <1>3, <3>1, <3>2
  <2>7. IdleOnlyAfterSoleExpiry'
    <3> SUFFICES ASSUME NEW p \in Pid, state'[p] = "READY"
                 PROVE  /\ algo = "ROUND_ROBIN" /\ InState("READY")' = {p}
                        /\ last_change'[p] = current_time /\ Worked(p)' > 0
      BY <1>1 DEF IdleOnlyAfterSoleExpiry, InState
    <3>1. p \in Requeued
      BY <2>3
    <3>2. InState("READY")' = {p}
      BY <2>3, <2>4, <3>1 DEF InState
    <3> QED BY <2>4, <2>5, <2>6, <3>1, <3>2
  <2> QED BY <1>2, <2>2, <2>7
<1>6. ASSUME NEW p \in Pid, Dispatch(p)
      PROVE  (WorkIsBounded /\ QuantumLedger /\ IdleOnlyAfterSoleExpiry)'
  <2>1. current_running' = p /\ p # NoPid
    BY <1>6 DEF Dispatch
  <2>2. last_change'[p] = current_time
    <3>1. p \in tracked
      BY <1>0, <1>6, ChosenIsReady
    <3>2. RecordStateChanges(Requeued \cup {p})
      BY <1>6 DEF Dispatch
    <3> QED BY <3>1, <3>2 DEF RecordStateChanges
  <2>3. algo = "ROUND_ROBIN" => quantum_remaining' = time_quantum
    BY <1>6 DEF Dispatch
  <2>4. Worked(p)' >= 0
    BY <1>0, <1>1 DEF QuantumInv, WorkIsBounded, Worked, TypeOK
  <2>5. QuantumLedger'
    <3>1. Worked(current_running)' = Worked(p)'
      BY <2>1 DEF Worked
    <3> QED BY <1>1, <1>3, <2>1, <2>2, <2>3, <2>4, <3>1 DEF QuantumLedger
  <2>6. IdleOnlyAfterSoleExpiry'
    BY <2>1 DEF IdleOnlyAfterSoleExpiry
  <2> QED BY <1>2, <2>5, <2>6
<1> QED BY <1>4, <1>5, <1>6 DEF HandleCPUScheduling

\* One unit of work takes one from the counter, one from the work left, and
\* moves the horizon by one.
LEMMA QuantumExecution ==
  ASSUME QuantumInv, HandleProcessExecution
  PROVE  (WorkIsBounded /\ QuantumLedger /\ IdleOnlyAfterSoleExpiry)'
<1> USE PidFacts
<1>0. /\ TypeOK /\ RunningIsCurrent
  BY TickFacts DEF QuantumInv, HandleProcessExecution
<1>1. /\ UNCHANGED <<burst, last_change, algo, time_quantum, current_time>>
      /\ phase = "execution" /\ phase' = "bookkeeping"
      /\ Horizon = current_time /\ Horizon' = current_time + 1
  BY DEF HandleProcessExecution, configVars, Horizon
<1>2. IdleOnlyAfterSoleExpiry'
  BY <1>1 DEF IdleOnlyAfterSoleExpiry
<1>3. CASE NothingToExecute
  <2>1. WorkIsBounded'
    BY <1>1, <1>3 DEF NothingToExecute, QuantumInv, WorkIsBounded
  <2>2. QuantumLedger'
    BY <1>3 DEF NothingToExecute, QuantumLedger
  <2> QED BY <1>2, <2>1, <2>2
<1> DEFINE r == current_running
<1>4. ASSUME RunOneUnit
      PROVE  r \in Pid /\ remaining'[r] = remaining[r] - 1 /\ WorkIsBounded'
  <2>1. r \in Pid /\ state[r] = "RUNNING"
    BY <1>0, <1>4 DEF RunOneUnit, OnCPU, TypeOK
  <2>2. remaining[r] > 0 /\ remaining \in [Pid -> Nat] /\ burst \in [Pid -> Nat]
    BY <1>0, <2>1 DEF QuantumInv, LedgerInv, WorkIsLeft, TypeOK
  <2>3. /\ remaining'[r] = remaining[r] - 1
        /\ \A p \in Pid \ {r} : remaining'[p] = remaining[p]
    BY <1>4, <2>1, <2>2 DEF RunOneUnit, Decreased
  <2>4. WorkIsBounded'
    BY <1>1, <2>2, <2>3 DEF QuantumInv, WorkIsBounded
  <2> QED BY <2>1, <2>3, <2>4
<1>5. CASE ExecuteUnit
  <2>1. r' = r /\ WorkIsBounded' /\ remaining'[r] = remaining[r] - 1 /\ r \in Pid
    BY <1>4, <1>5 DEF ExecuteUnit
  <2>2. /\ time_quantum \in Int /\ quantum_remaining \in Int /\ current_time \in Int
        /\ last_change[r] \in Int /\ burst[r] \in Int /\ remaining[r] \in Int
    BY <1>0, <2>1, MachineAssumption DEF TypeOK
  <2>3. algo = "ROUND_ROBIN" => quantum_remaining' = quantum_remaining - 1
    BY <1>5 DEF ExecuteUnit
  <2>4. QuantumLedger'
    BY <1>1, <2>1, <2>2, <2>3, PidFacts DEF QuantumInv, QuantumLedger, Worked
  <2> QED BY <1>2, <2>1, <2>4
<1>6. CASE CompleteProcess
  <2>1. WorkIsBounded'
    BY <1>4, <1>6 DEF CompleteProcess
  <2>2. QuantumLedger'
    BY <1>6 DEF CompleteProcess, QuantumLedger
  <2> QED BY <1>2, <2>1, <2>2
<1> QED BY <1>3, <1>5, <1>6 DEF HandleProcessExecution

\* A new process is nobody's work yet.
LEMMA QuantumAddProcess ==
  ASSUME QuantumInv, ~Concurrent, AddProcess
  PROVE  (WorkIsBounded /\ QuantumLedger /\ IdleOnlyAfterSoleExpiry)'
<1> USE PidFacts, BoundsAssumption
<1>0. TypeOK /\ AddInFlight /\ RunningIsCurrent
  BY DEF QuantumInv, LedgerInv, RunInv, TypeInv
<1>a. add_call # "none" => phase = "idle" /\ add_pid \in Pid /\ state[add_pid] = "NEW"
  BY <1>0 DEF QuantumInv, LedgerInv, FramesInv, AddIsNew, AddInFlight
<1>1. ASSUME NEW c \in ProcessConfigs, CreateProcess(c)
      PROVE  (WorkIsBounded /\ QuantumLedger /\ IdleOnlyAfterSoleExpiry)'
  <2>1. next_pid \in Pid /\ state[next_pid] = "ABSENT"
    BY <1>0, <1>1 DEF CreateProcess, QuantumInv, LedgerInv, RunInv, PidsInOrder, TypeOK, Pid
  <2>2. current_running # next_pid
    BY <1>0, <2>1 DEF RunningIsCurrent
  <2>3. /\ UNCHANGED <<current_running, quantum_remaining, algo, time_quantum, last_change, Horizon, phase>>
        /\ phase = "idle"
        /\ remaining'[next_pid] = c.burst_time /\ burst'[next_pid] = c.burst_time
        /\ \A p \in Pid \ {next_pid} : remaining'[p] = remaining[p] /\ burst'[p] = burst[p]
    BY <1>0, <1>1, <2>1
       DEF CreateProcess, BetweenTicks, configVars, metricsVars, Horizon, TypeOK
  <2>4. WorkIsBounded'
    <3>1. c.burst_time \in Int
      BY ConfigsAssumption
    <3> QED BY <2>3, <3>1 DEF QuantumInv, WorkIsBounded
  <2>5. current_running \in Pid \cup {NoPid}
    BY <1>0 DEF TypeOK
  <2>6. QuantumLedger'
    BY <2>2, <2>3, <2>5 DEF QuantumInv, QuantumLedger, Worked
  <2>7. IdleOnlyAfterSoleExpiry'
    BY <2>3 DEF IdleOnlyAfterSoleExpiry
  <2> QED BY <2>4, <2>6, <2>7
<1>2. CASE RecordProcessCreation
  <2>1. add_pid \in Pid /\ phase = "idle" /\ current_running # add_pid
    BY <1>0, <1>2, <1>a DEF RecordProcessCreation, RunningIsCurrent
  <2>2. /\ UNCHANGED <<remaining, burst, current_running, quantum_remaining, algo,
                       time_quantum, Horizon, phase>>
        /\ \A p \in Pid \ {add_pid} : last_change'[p] = last_change[p]
    BY <1>0, <1>2 DEF RecordProcessCreation, pcbVars, configVars, Horizon, TypeOK
  <2>3. WorkIsBounded' /\ IdleOnlyAfterSoleExpiry'
    BY <2>1, <2>2 DEF QuantumInv, WorkIsBounded, IdleOnlyAfterSoleExpiry
  <2>4. current_running \in Pid \cup {NoPid}
    BY <1>0 DEF TypeOK
  <2>5. QuantumLedger'
    BY <2>1, <2>2, <2>4 DEF QuantumInv, QuantumLedger, Worked
  <2> QED BY <2>3, <2>5
<1>3. CASE AllocatePages
  <2>1. phase = "idle"
    BY <1>3, <1>a DEF AllocatePages
  <2>2. UNCHANGED <<remaining, burst, current_running, quantum_remaining, algo, time_quantum,
                    last_change, Horizon, phase>>
    BY <1>3 DEF AllocatePages, pcbVars, configVars, metricsVars, Horizon
  <2> QED BY <2>1, <2>2, QuantumUntouched
<1> QED BY <1>1, <1>2, <1>3 DEF AddProcess

\* Every step keeps the counter of the quantum in step with the dates.
LEMMA QuantumInvStep ==
  ASSUME ~Concurrent, ~SwitchAnyTime, QuantumInv, [Next]_vars
  PROVE  QuantumInv'
<1> SUFFICES (WorkIsBounded /\ QuantumLedger /\ IdleOnlyAfterSoleExpiry)'
  BY LedgerInvStep DEF QuantumInv
<1>0. TypeOK /\ NobodyRunsBeforeTheClock
  BY DEF QuantumInv, LedgerInv, RunInv, TypeInv
<1>1. CASE AddProcess
  BY <1>1, QuantumAddProcess
<1>2. CASE BeginTimeStep
  <2>1. Horizon' = Horizon
    BY <1>0, <1>2 DEF BeginTimeStep, Horizon, TypeOK
  <2> QED BY <1>2, <2>1, QuantumUntouched DEF BeginTimeStep, pcbVars, configVars, metricsVars
<1>3. CASE HandleProcessArrivals
  <2>1. current_running # NoPid => last_change'[current_running] = last_change[current_running]
    <3> SUFFICES ASSUME current_running # NoPid
                 PROVE  last_change'[current_running] = last_change[current_running]
      OBVIOUS
    <3>1. current_running \in Pid /\ state[current_running] = "RUNNING"
      BY <1>0 DEF TypeOK, QuantumInv, LedgerInv, RunInv, RunningIsCurrent
    <3>2. current_running \notin Arrived
      BY <3>1 DEF Arrived
    <3> QED BY <1>3, <3>1, <3>2 DEF HandleProcessArrivals, RecordStateChanges
  <2>2. /\ UNCHANGED <<remaining, burst, current_running, quantum_remaining, algo,
                       time_quantum, Horizon>>
        /\ phase' = "scheduling" /\ phase = "arrivals" /\ quantum_remaining \in Int
    BY <1>0, <1>3 DEF HandleProcessArrivals, configVars, Horizon, TypeOK
  <2>3. WorkIsBounded' /\ IdleOnlyAfterSoleExpiry'
    BY <2>2 DEF QuantumInv, WorkIsBounded, IdleOnlyAfterSoleExpiry
  <2>4. QuantumLedger'
    BY <2>1, <2>2 DEF QuantumInv, QuantumLedger, Worked
  <2> QED BY <2>3, <2>4
<1>4. CASE HandleCPUScheduling
  BY <1>4, QuantumScheduling
<1>5. CASE HandleProcessExecution
  BY <1>5, QuantumExecution
<1>6. CASE FinishTimeStep
  BY <1>6, QuantumUntouched DEF FinishTimeStep, pcbVars, configVars, metricsVars, Horizon
<1>7. CASE Configure
  <2>1. /\ UNCHANGED <<remaining, burst, phase>> /\ current_running' = NoPid /\ phase = "idle"
    BY <1>7 DEF Configure, SetSchedulingAlgorithm, BetweenTicks, pcbVars
  <2> QED BY <2>1 DEF QuantumInv, WorkIsBounded, QuantumLedger, IdleOnlyAfterSoleExpiry
<1>8. CASE Start
  <2>1. current_running # NoPid => UNCHANGED <<algo, time_quantum>>
    BY <1>0, <1>8 DEF Start, StartSimulation, MaySwitch, NobodyRunsBeforeTheClock
  <2>2. /\ UNCHANGED <<remaining, burst, current_running, quantum_remaining, Horizon, last_change>>
        /\ phase' # "execution"
    BY <1>8 DEF Start, StartSimulation, BetweenTicks, pcbVars, metricsVars, Horizon
  <2> QED BY <2>1, <2>2, QuantumUntouched
<1>9. CASE StopSimulation
  BY <1>9, QuantumUntouched
     DEF StopSimulation, BetweenTicks, pcbVars, configVars, metricsVars, Horizon
<1>10. CASE ResetSimulation
  BY <1>10 DEF ResetSimulation, BetweenTicks, Everywhere, WorkIsBounded, QuantumLedger,
               IdleOnlyAfterSoleExpiry
<1>11. CASE UNCHANGED vars
  <2>1. UNCHANGED <<state, remaining, burst, current_running, quantum_remaining, algo,
                    time_quantum, last_change, Horizon, phase, current_time>>
    BY <1>11 DEF vars, Horizon
  <2> QED BY <2>1 DEF QuantumInv, WorkIsBounded, QuantumLedger, IdleOnlyAfterSoleExpiry,
                      Worked, InState
<1> QED
  BY <1>1, <1>2, <1>3, <1>4, <1>5, <1>6, <1>7, <1>8, <1>9, <1>10, <1>11 DEF Next, TimeStep

(* In step mode round robin takes the CPU away after the quantum in force,   *)
(* for every quantum and number of processes, however often the simulation   *)
(* is stopped and started between two ticks.                                 *)
THEOREM QuantumIsRespectedInStepMode ==
  ASSUME ~Concurrent, ~SwitchAnyTime
  PROVE  Spec => []QuantumIsRespected
<1>1. QuantumInv /\ [Next]_vars => QuantumInv'
  BY QuantumInvStep
<1> QED BY <1>1, QuantumInvImplies, InitQuantumInv, PTL DEF Spec

(* In step mode a tick leaves the CPU idle beside a READY process only when  *)
(* that process is alone and has just used up its quantum.                   *)
THEOREM IdleOnlyAfterSoleExpiryInStepMode ==
  ASSUME ~Concurrent, ~SwitchAnyTime
  PROVE  Spec => []IdleOnlyAfterSoleExpiry
<1>1. QuantumInv /\ [Next]_vars => QuantumInv'
  BY QuantumInvStep
<1>2. QuantumInv => IdleOnlyAfterSoleExpiry
  BY DEF QuantumInv
<1> QED BY <1>1, <1>2, InitQuantumInv, PTL DEF Spec

-----------------------------------------------------------------------------
(* CountedExactlyOnce, in step mode.  Stated of every instant: the process   *)
(* that addProcess has created and not yet recorded is the only one missing, *)
(* and a report differs from none because a process completes after it has   *)
(* arrived.                                                                  *)

TrackedAreAlive ==
  \A p \in Pid : p \in tracked <=>
    /\ state[p] \notin {"ABSENT", "TERMINATED"}
    /\ ~(p = add_pid /\ add_call = "record")
ReportedAreOver ==
  \A p \in Pid : report[p] # NoReport <=> state[p] = "TERMINATED"
AdmittedHaveArrived ==
  \A p \in Pid : state[p] \in {"READY", "RUNNING"} => arrival[p] <= current_time

Counts == TrackedAreAlive /\ ReportedAreOver /\ AdmittedHaveArrived
CountInv == RunInv /\ FramesInv /\ Counts

\* Nothing is tracked and nothing reported in the initial state.
LEMMA InitCountInv == Init => CountInv
BY InitRunInv, InitFramesInv
   DEF Init, CountInv, Counts, TrackedAreAlive, ReportedAreOver, AdmittedHaveArrived, Everywhere

\* Between ticks and handlers the invariant is the property.
LEMMA CountInvImplies == CountInv => CountedExactlyOnce
<1> SUFFICES ASSUME CountInv, GUIFree PROVE CountedExactlyOnce
  BY DEF CountedExactlyOnce
<1>1. add_call = "none" /\ tracked \subseteq Pid
  BY PidFacts DEF CountInv, RunInv, TypeInv, TypeOK, AddInFlight, GUIFree
<1>2. tracked = Created \ InState("TERMINATED")
  BY <1>1 DEF CountInv, Counts, TrackedAreAlive, Created, InState
<1>3. {p \in Pid : report[p] # NoReport} = InState("TERMINATED")
  BY DEF CountInv, Counts, ReportedAreOver, InState
<1> QED BY <1>2, <1>3 DEF CountedExactlyOnce

\* Moves of a live process to another live state are not counted.
LEMMA CountsUntouched ==
  ASSUME CountInv, UNCHANGED <<tracked, report, arrival>>,
         current_time' = current_time \/ current_time' = current_time + 1,
         UNCHANGED <<add_pid, add_call>>,
         \A p \in Pid : \/ state'[p] = state[p]
                        \/ state[p] = "READY" /\ state'[p] = "RUNNING"
                        \/ state[p] = "RUNNING" /\ state'[p] = "READY"
  PROVE  Counts'
<1>1. current_time \in Nat /\ \A p \in Pid : arrival[p] \in Nat
  BY DEF CountInv, RunInv, TypeInv, TypeOK
<1>2. TrackedAreAlive'
  BY DEF CountInv, Counts, TrackedAreAlive
<1>3. ReportedAreOver'
  BY DEF CountInv, Counts, ReportedAreOver
<1>4. AdmittedHaveArrived'
  BY <1>1 DEF CountInv, Counts, AdmittedHaveArrived
<1> QED BY <1>2, <1>3, <1>4 DEF Counts

\* addProcess creates, then records.
LEMMA CountsAddProcess ==
  ASSUME CountInv, ~Concurrent, AddProcess
  PROVE  Counts'
<1> USE PidFacts, BoundsAssumption
<1>0. TypeOK /\ AddInFlight
  BY DEF CountInv, RunInv, TypeInv
<1>1. ASSUME NEW c \in ProcessConfigs, CreateProcess(c) PROVE Counts'
  <2>1. next_pid \in Pid /\ state[next_pid] = "ABSENT"
    BY <1>0, <1>1 DEF CreateProcess, CountInv, RunInv, PidsInOrder, TypeOK, Pid
  <2>2. /\ UNCHANGED <<tracked, report, current_time>> /\ add_call = "none"
        /\ add_pid' = next_pid /\ add_call' = "record" /\ state'[next_pid] = "NEW"
        /\ \A p \in Pid \ {next_pid} : state'[p] = state[p] /\ arrival'[p] = arrival[p]
    BY <1>0, <1>1, <2>1
       DEF CreateProcess, BetweenTicks, GUIFree, AddInFlight, metricsVars, TypeOK
  <2>3. TrackedAreAlive'
    BY <2>1, <2>2 DEF CountInv, Counts, TrackedAreAlive
  <2>4. ReportedAreOver'
    BY <2>1, <2>2 DEF CountInv, Counts, ReportedAreOver
  <2>5. AdmittedHaveArrived'
    BY <2>2 DEF CountInv, Counts, AdmittedHaveArrived
  <2> QED BY <2>3, <2>4, <2>5 DEF Counts
<1>2. CASE RecordProcessCreation
  <2>1. add_pid \in Pid /\ state[add_pid] = "NEW"
    BY <1>0, <1>2 DEF RecordProcessCreation, AddInFlight, CountInv, FramesInv, AddIsNew
  <2>2. /\ UNCHANGED <<state, report, arrival, current_time>> /\ add_call' # "record"
        /\ tracked' = tracked \cup {add_pid} /\ add_call = "record"
    BY <1>2 DEF RecordProcessCreation, pcbVars
  <2>3. TrackedAreAlive'
    BY <2>1, <2>2 DEF CountInv, Counts, TrackedAreAlive
  <2>4. ReportedAreOver' /\ AdmittedHaveArrived'
    BY <2>2 DEF CountInv, Counts, ReportedAreOver, AdmittedHaveArrived
  <2> QED BY <2>3, <2>4 DEF Counts
<1>3. CASE AllocatePages
  <2>1. UNCHANGED <<state, tracked, report, arrival, current_time>>
        /\ add_call = "allocate" /\ add_call' = "none"
    BY <1>3 DEF AllocatePages, pcbVars, metricsVars
  <2> QED BY <2>1 DEF CountInv, Counts, TrackedAreAlive, ReportedAreOver, AdmittedHaveArrived
<1> QED BY <1>1, <1>2, <1>3 DEF AddProcess

\* A completion moves one process from the tracked to the reported.
LEMMA CountsExecution ==
  ASSUME CountInv, ~Concurrent, HandleProcessExecution
  PROVE  Counts'
<1> USE PidFacts
<1>0. TypeOK /\ AddInFlight
  BY DEF CountInv, RunInv, TypeInv
<1>1. /\ UNCHANGED <<arrival, current_time, add_pid, add_call>>
      /\ add_pid \notin Pid /\ add_call = "none"
  BY <1>0 DEF HandleProcessExecution, addVars, CountInv, FramesInv, AddIsNew, AddInFlight
<1>2. CASE UNCHANGED <<state, tracked, report>>
  BY <1>1, <1>2 DEF CountInv, Counts, TrackedAreAlive, ReportedAreOver, AdmittedHaveArrived
<1>3. CASE CompleteProcess
  <2> DEFINE r == current_running
  <2>1. r \in Pid /\ state[r] = "RUNNING"
    BY <1>0, <1>3 DEF CompleteProcess, RunOneUnit, OnCPU, TypeOK
  <2>2. r \in tracked /\ arrival[r] <= current_time
    BY <1>1, <2>1 DEF CountInv, Counts, TrackedAreAlive, AdmittedHaveArrived
  <2>3. FinalReport(r) # NoReport
    <3>1. FinalReport(r).turnaround = current_time - arrival[r]
      BY DEF FinalReport
    <3>2. current_time - arrival[r] # -1
      BY <1>0, <2>1, <2>2 DEF TypeOK
    <3>3. NoReport.turnaround = -1
      BY DEF NoReport
    <3> QED BY <3>1, <3>2, <3>3
  <2>4. /\ state'[r] = "TERMINATED" /\ report'[r] = FinalReport(r) /\ tracked' = tracked \ {r}
        /\ \A p \in Pid \ {r} : state'[p] = state[p] /\ report'[p] = report[p]
    BY <1>0, <1>3, <2>1, <2>2 DEF CompleteProcess, Forgotten, TypeOK
  <2>5. TrackedAreAlive'
    BY <1>1, <2>4 DEF CountInv, Counts, TrackedAreAlive
  <2>6. ReportedAreOver'
    BY <2>3, <2>4 DEF CountInv, Counts, ReportedAreOver, NoReport
  <2>7. AdmittedHaveArrived'
    BY <1>1, <2>4 DEF CountInv, Counts, AdmittedHaveArrived
  <2> QED BY <2>5, <2>6, <2>7 DEF Counts
<1> QED BY <1>2, <1>3 DEF HandleProcessExecution, NothingToExecute, ExecuteUnit

\* Every step keeps the books of the collector.
LEMMA CountInvStep ==
  ASSUME ~Concurrent, ~SwitchAnyTime, CountInv, [Next]_vars
  PROVE  CountInv'
<1> SUFFICES Counts'
  BY RunInvStep, FramesInvStep DEF CountInv
<1>0. TypeOK /\ AddInFlight /\ current_time \in Nat
  BY DEF CountInv, RunInv, TypeInv, TypeOK
<1>1. CASE AddProcess
  BY <1>1, CountsAddProcess
<1>2. CASE BeginTimeStep
  BY <1>2, CountsUntouched DEF BeginTimeStep, pcbVars, metricsVars, addVars
<1>3. CASE HandleProcessArrivals
  <2>1. /\ UNCHANGED <<arrival, current_time, add_pid, add_call, report, tracked>>
        /\ \A p \in Pid : \/ state'[p] = state[p]
                          \/ /\ state[p] = "NEW" /\ state'[p] = "READY"
                             /\ arrival[p] <= current_time
    BY <1>0, <1>3 DEF HandleProcessArrivals, RecordStateChanges, Arrived, addVars, TypeOK
  <2>2. TrackedAreAlive'
    BY <2>1 DEF CountInv, Counts, TrackedAreAlive
  <2>3. ReportedAreOver'
    BY <2>1 DEF CountInv, Counts, ReportedAreOver
  <2>4. AdmittedHaveArrived'
    BY <2>1 DEF CountInv, Counts, AdmittedHaveArrived
  <2> QED BY <2>2, <2>3, <2>4 DEF Counts
<1>4. CASE HandleCPUScheduling
  <2>1. UNCHANGED <<arrival, current_time, add_pid, add_call, report>>
    BY <1>4 DEF HandleCPUScheduling, addVars
  <2>2. CASE KeepRunning
    BY <1>0, <2>1, <2>2, CountsUntouched DEF KeepRunning, trackVars
  <2>3. CASE FindNobody
    <3>1. tracked' = tracked
      BY <2>3 DEF FindNobody, RecordStateChanges
    <3>2. \A p \in Pid : state'[p] = state[p] \/ (state[p] = "RUNNING" /\ state'[p] = "READY")
      BY <1>0, <2>3, RequeuedIsRunning DEF FindNobody, TypeOK
    <3> QED BY <2>1, <3>1, <3>2, CountsUntouched
  <2>4. ASSUME NEW p \in Pid, Dispatch(p) PROVE Counts'
    <3>1. tracked' = tracked
      BY <2>4 DEF Dispatch, RecordStateChanges
    <3>2. \A q \in Pid : \/ state'[q] = state[q]
                         \/ state[q] = "RUNNING" /\ state'[q] = "READY"
                         \/ state[q] = "READY" /\ state'[q] = "RUNNING"
      BY <1>0, <2>4, ChosenIsReady, RequeuedIsRunning DEF Dispatch, TypeOK
    <3> QED BY <2>1, <3>1, <3>2, CountsUntouched
  <2> QED BY <1>4, <2>2, <2>3, <2>4 DEF HandleCPUScheduling
<1>5. CASE HandleProcessExecution
  BY <1>5, CountsExecution
<1>6. CASE FinishTimeStep
  BY <1>6, CountsUntouched DEF FinishTimeStep, pcbVars, metricsVars, addVars
<1>7. CASE Configure
  BY <1>7, CountsUntouched DEF Configure, SetSchedulingAlgorithm, pcbVars, metricsVars, addVars
<1>8. CASE Start
  BY <1>8, CountsUntouched DEF Start, StartSimulation, pcbVars, metricsVars, addVars
<1>9. CASE StopSimulation
  BY <1>9, CountsUntouched DEF StopSimulation, pcbVars, metricsVars, addVars
<1>10. CASE ResetSimulation
  BY <1>10 DEF ResetSimulation, Everywhere, Counts, TrackedAreAlive, ReportedAreOver,
               AdmittedHaveArrived
<1>11. CASE UNCHANGED vars
  BY <1>11, CountsUntouched DEF vars
<1> QED
  BY <1>1, <1>2, <1>3, <1>4, <1>5, <1>6, <1>7, <1>8, <1>9, <1>10, <1>11 DEF Next, TimeStep

(* In step mode the collector tracks exactly the processes not finished and  *)
(* reports exactly those finished, for any number of processes and frames,   *)
(* through every stop, start and reset.                                      *)
THEOREM CountedExactlyOnceInStepMode ==
  ASSUME ~Concurrent, ~SwitchAnyTime
  PROVE  Spec => []CountedExactlyOnce
<1>1. CountInv /\ [Next]_vars => CountInv'
  BY CountInvStep
<1> QED BY <1>1, CountInvImplies, InitCountInv, PTL DEF Spec

-----------------------------------------------------------------------------
(* CPUTimeMatchesWork, for every simulator, a switch of the algorithm while *)
(* a process runs included.  It needs no more than that a process has work  *)
(* left until it is over, so that a tick that charges a unit does one, that *)
(* pids are given out in order, so that the sum gains a new process with no *)
(* work done, and that the tick in progress has not been charged before it  *)
(* has executed.                                                            *)

(* A process that is not over has work left, so that a unit can be done.    *)
WorkIsPositive ==
  \A p \in Pid : state[p] \in {"NEW", "READY", "RUNNING"} => remaining[p] > 0

ChargedOncePerTick ==
  /\ cpu_time <= current_time
  /\ phase \in {"arrivals", "scheduling", "execution"} => cpu_time < current_time

WorkDone == [p \in Created |-> Worked(p)]

WorkInv == /\ TypeInv /\ PidsInOrder /\ WorkIsPositive /\ ChargedOncePerTick
           /\ cpu_time = SumFunction(WorkDone)

WorkDoneTyped == IsFiniteSet(Created) /\ WorkDone \in [Created -> Int]

LEMMA WorkDoneType == TypeOK => WorkDoneTyped
<1> SUFFICES ASSUME TypeOK PROVE WorkDoneTyped
  OBVIOUS
<1>1. Created \in SUBSET Pid
  BY DEF Created
<1>2. \A p \in Created : Worked(p) \in Int
  BY <1>1 DEF Worked, TypeOK
<1> QED BY <1>1, <1>2, PidFacts, FS_Subset DEF WorkDone, WorkDoneTyped

\* No process, no work.
LEMMA NoWork ==
  ASSUME NEW f \in [{} -> Int]
  PROVE  SumFunction(f) = 0
BY FS_EmptySet, SumOfZeroes

LEMMA InitWorkInv == Init => WorkInv
<1> SUFFICES ASSUME Init PROVE WorkInv
  OBVIOUS
<1>1. TypeInv /\ TypeOK
  BY InitTypeInv DEF TypeInv
<1>2. PidsInOrder /\ WorkIsPositive /\ ChargedOncePerTick
  BY PidFacts DEF Init, PidsInOrder, WorkIsPositive, ChargedOncePerTick, Everywhere, Pid
<1>3. Created = {}
  BY DEF Init, Created, Everywhere
<1>4. SumFunction(WorkDone) = 0
  BY <1>1, <1>3, WorkDoneType, NoWork DEF WorkDoneTyped
<1> QED BY <1>1, <1>2, <1>4 DEF WorkInv, Init

\* The parts of WorkInv that do not add anything up.
LEMMA WorkPartsStep ==
  ASSUME TypeInv, PidsInOrder, WorkIsPositive, [Next]_vars
  PROVE  TypeInv' /\ PidsInOrder' /\ WorkIsPositive'
<1> USE PidFacts, BoundsAssumption
<1>0. TypeInv' /\ TypeOK /\ TypeOK' /\ PidsInOrder /\ WorkIsPositive
  BY TypeInvStep DEF TypeInv
<1> DEFINE Parts == PidsInOrder /\ WorkIsPositive
<1> SUFFICES Parts'
  BY <1>0
<1>1. ASSUME NEW c \in ProcessConfigs, CreateProcess(c) PROVE Parts'
  <2>1. next_pid \in Pid /\ next_pid' = next_pid + 1 /\ c.burst_time > 0
    BY <1>0, <1>1 DEF CreateProcess, ValidParameters, TypeOK, Pid
  <2>2. PidsInOrder'
    <3>1. /\ state \in [Pid -> ProcessStates \cup {"ABSENT"}]
          /\ state' = [state EXCEPT ![next_pid] = "NEW"] /\ next_pid \in Nat
      BY <1>0, <1>1 DEF CreateProcess, TypeOK
    <3>2. \A p \in Pid : p \in Nat /\ (p >= next_pid + 1 <=> p >= next_pid /\ p # next_pid)
      BY <3>1
    <3> QED BY <1>0, <2>1, <3>1, <3>2 DEF PidsInOrder
  <2>3. WorkIsPositive'
    BY <1>0, <1>1, <2>1 DEF CreateProcess, WorkIsPositive, TypeOK
  <2> QED BY <2>2, <2>3
<1>2. CASE UNCHANGED <<state, remaining, next_pid>>
  BY <1>0, <1>2 DEF PidsInOrder, WorkIsPositive
<1>3. CASE HandleProcessArrivals
  BY <1>0, <1>3 DEF HandleProcessArrivals, Arrived, PidsInOrder, WorkIsPositive, TypeOK
<1>4. CASE HandleCPUScheduling
  <2>1. /\ UNCHANGED <<remaining, next_pid>>
        /\ \A p \in Pid : state'[p] # state[p] =>
             /\ state[p] \in {"READY", "RUNNING"} /\ state'[p] \in {"READY", "RUNNING"}
    <3>1. UNCHANGED <<remaining, next_pid>>
      BY <1>4 DEF HandleCPUScheduling
    <3>2. CASE KeepRunning
      BY <3>1, <3>2 DEF KeepRunning
    <3>3. CASE FindNobody
      BY <1>0, <3>1, <3>3, RequeuedIsRunning DEF FindNobody, TypeOK
    <3>4. ASSUME NEW p \in Pid, Dispatch(p)
          PROVE  \A q \in Pid : state'[q] # state[q] =>
             /\ state[q] \in {"READY", "RUNNING"} /\ state'[q] \in {"READY", "RUNNING"}
      BY <1>0, <3>4, ChosenIsReady, RequeuedIsRunning DEF Dispatch, TypeOK
    <3> QED BY <1>4, <3>1, <3>2, <3>3, <3>4 DEF HandleCPUScheduling
  <2> QED BY <1>0, <2>1 DEF PidsInOrder, WorkIsPositive
<1>5. CASE HandleProcessExecution
  <2>1. CASE NothingToExecute
    BY <1>0, <1>5, <2>1 DEF HandleProcessExecution, NothingToExecute, PidsInOrder, WorkIsPositive
  <2>2. CASE ExecuteUnit
    BY <1>0, <1>5, <2>2 DEF HandleProcessExecution, ExecuteUnit, RunOneUnit, PidsInOrder,
                            WorkIsPositive, TypeOK
  <2>3. CASE CompleteProcess
    <3>1. current_running \in Pid /\ state[current_running] = "RUNNING"
      BY <1>0, <2>3 DEF CompleteProcess, RunOneUnit, OnCPU, TypeOK
    <3> QED BY <1>0, <1>5, <2>3, <3>1 DEF HandleProcessExecution, CompleteProcess, RunOneUnit,
                                         PidsInOrder, WorkIsPositive, TypeOK
  <2> QED BY <1>5, <2>1, <2>2, <2>3 DEF HandleProcessExecution
<1>6. CASE ResetSimulation
  BY <1>6 DEF ResetSimulation, Everywhere, PidsInOrder, WorkIsPositive, Pid
<1> QED
  BY <1>1, <1>2, <1>3, <1>4, <1>5, <1>6
     DEF Next, TimeStep, AddProcess, RecordProcessCreation, AllocatePages, BeginTimeStep,
         FinishTimeStep, Configure, SetSchedulingAlgorithm, Start, StartSimulation,
         StopSimulation, vars, pcbVars

\* A step that leaves every process's work as it was leaves the sum.
LEMMA WorkUntouched ==
  ASSUME TypeOK, UNCHANGED <<burst, remaining>>,
         \A p \in Pid : state'[p] = "ABSENT" <=> state[p] = "ABSENT"
  PROVE  WorkDone' = WorkDone
BY DEF WorkDone, Created, Worked

\* The unit a tick charges is a unit of the process that is RUNNING.
LEMMA UnitIsWork ==
  ASSUME WorkInv, TypeOK', RunOneUnit, burst' = burst,
         \A p \in Pid : state'[p] = "ABSENT" <=> state[p] = "ABSENT"
  PROVE  SumFunction(WorkDone') = SumFunction(WorkDone) + 1 /\ SumFunction(WorkDone) \in Int
<1> DEFINE r == current_running
           D == Created
           f == WorkDone
           h == WorkDone'
<1>0. TypeOK
  BY DEF WorkInv, TypeInv
<1>1. r \in Pid /\ state[r] = "RUNNING" /\ r \in D
  BY <1>0, PidFacts DEF RunOneUnit, OnCPU, TypeOK, Created
<1>2. remaining[r] > 0 /\ remaining[r] \in Nat /\ remaining'[r] = remaining[r] - 1
  BY <1>0, <1>1 DEF WorkInv, WorkIsPositive, RunOneUnit, Decreased, TypeOK
<1>3. Created' = D
  BY DEF Created
<1>4. IsFiniteSet(D) /\ f \in [D -> Int] /\ h \in [D -> Int]
  <2>1. TypeOK' => WorkDoneTyped'
    BY WorkDoneType, PTL
  <2> QED BY <1>0, <1>3, <2>1, WorkDoneType DEF WorkDoneTyped
<1>5. h[r] = f[r] + 1 /\ f[r] \in Int /\ \A p \in D \ {r} : h[p] = f[p]
  <2>1. \A p \in D : p \in Pid /\ f[p] = Worked(p) /\ h[p] = Worked(p)'
    BY <1>3 DEF WorkDone, Created
  <2>2. \A p \in Pid \ {r} : remaining'[p] = remaining[p]
    BY <1>0 DEF RunOneUnit, TypeOK
  <2> QED BY <1>0, <1>1, <1>2, <2>1, <2>2 DEF Worked, TypeOK
<1> HIDE DEF D, f, h
<1>6. SumFunction(h) = SumFunction(f) + h[r] - f[r] /\ SumFunction(f) \in Int
  BY <1>1, <1>4, <1>5, SumChanges, SumType
<1>7. SumFunction(h) = SumFunction(f) + 1
  BY <1>5, <1>6
<1> QED BY <1>6, <1>7 DEF f, h

\* A process that is created has done no work.
LEMMA NewcomerHasNotWorked ==
  ASSUME WorkInv, TypeOK', NEW c \in ProcessConfigs, CreateProcess(c)
  PROVE  SumFunction(WorkDone') = SumFunction(WorkDone)
<1> DEFINE n == next_pid
           D == Created
           f == WorkDone
           h == WorkDone'
<1>0. TypeOK /\ PidsInOrder
  BY DEF WorkInv, TypeInv
<1>1. n \in Pid /\ n \notin D
  BY <1>0, BoundsAssumption DEF CreateProcess, TypeOK, Pid, PidsInOrder, Created
<1>2. Created' = D \cup {n}
  BY <1>0, <1>1 DEF CreateProcess, Created, TypeOK
<1>3. IsFiniteSet(D) /\ f \in [D -> Int] /\ h \in [D \cup {n} -> Int]
  <2>1. TypeOK' => WorkDoneTyped'
    BY WorkDoneType, PTL
  <2> QED BY <1>0, <1>2, <2>1, WorkDoneType DEF WorkDoneTyped
<1>4. h[n] = 0 /\ \A p \in D : h[p] = f[p]
  <2>1. c.burst_time \in Int
    BY ConfigsAssumption
  <2>2. burst'[n] = c.burst_time /\ remaining'[n] = c.burst_time
        /\ \A p \in D : burst'[p] = burst[p] /\ remaining'[p] = remaining[p]
    BY <1>0, <1>1 DEF CreateProcess, TypeOK, Created
  <2>3. h[n] = burst'[n] - remaining'[n]
        /\ \A p \in D : f[p] = burst[p] - remaining[p] /\ h[p] = burst'[p] - remaining'[p]
    BY <1>2 DEF WorkDone, Worked
  <2> QED BY <2>1, <2>2, <2>3
<1> HIDE DEF D, f, h, n
<1>5. SumFunction(h) = SumFunction(f) + h[n] /\ SumFunction(f) \in Int
  BY <1>1, <1>3, <1>4, SumGrows, SumType
<1>6. SumFunction(h) = SumFunction(f)
  BY <1>4, <1>5
<1> QED BY <1>6 DEF f, h

LEMMA WorkInvStep == WorkInv /\ [Next]_vars => WorkInv'
<1> SUFFICES ASSUME WorkInv, [Next]_vars PROVE WorkInv'
  OBVIOUS
<1>0. TypeInv' /\ PidsInOrder' /\ WorkIsPositive' /\ TypeOK /\ TypeOK'
  BY WorkPartsStep DEF WorkInv, TypeInv
<1> DEFINE Sum == cpu_time = SumFunction(WorkDone)
<1> SUFFICES Sum' /\ ChargedOncePerTick'
  BY <1>0 DEF WorkInv
<1>a. cpu_time \in Nat /\ current_time \in Nat /\ cpu_time = SumFunction(WorkDone) /\ ChargedOncePerTick
  BY <1>0 DEF TypeOK, WorkInv
<1>1. ASSUME NEW c \in ProcessConfigs, CreateProcess(c) PROVE Sum' /\ ChargedOncePerTick'
  <2>1. UNCHANGED <<cpu_time, current_time, phase>>
    BY <1>1 DEF CreateProcess, metricsVars
  <2>2. SumFunction(WorkDone') = SumFunction(WorkDone)
    BY <1>0, <1>1, NewcomerHasNotWorked
  <2> QED BY <1>a, <2>1, <2>2 DEF ChargedOncePerTick
<1>2. ASSUME UNCHANGED <<cpu_time, burst, remaining>>,
             \A p \in Pid : state'[p] = "ABSENT" <=> state[p] = "ABSENT"
      PROVE  Sum'
  BY <1>0, <1>2, <1>a, WorkUntouched
<1>3. CASE UNCHANGED <<state, burst, remaining, cpu_time, current_time, phase>>
  BY <1>2, <1>3, <1>a DEF ChargedOncePerTick
<1>4. CASE BeginTimeStep
  <2>1. UNCHANGED <<state, burst, remaining, cpu_time>> /\ current_time' = current_time + 1
    BY <1>4 DEF BeginTimeStep, pcbVars, metricsVars
  <2> QED BY <1>2, <1>a, <2>1 DEF ChargedOncePerTick
<1>5. CASE HandleProcessArrivals
  <2>1. UNCHANGED <<burst, remaining, cpu_time, current_time>>
        /\ phase = "arrivals" /\ phase' = "scheduling"
    BY <1>5 DEF HandleProcessArrivals
  <2>2. \A p \in Pid : state'[p] = "ABSENT" <=> state[p] = "ABSENT"
    BY <1>0, <1>5 DEF HandleProcessArrivals, Arrived, TypeOK
  <2> QED BY <1>2, <1>a, <2>1, <2>2 DEF ChargedOncePerTick
<1>6. CASE HandleCPUScheduling
  <2>1. UNCHANGED <<burst, remaining, cpu_time, current_time, next_pid>>
        /\ phase = "scheduling" /\ phase' = "execution"
    BY <1>6 DEF HandleCPUScheduling
  <2>2. \A p \in Pid : state'[p] = "ABSENT" <=> state[p] = "ABSENT"
    BY <1>0, <2>1 DEF PidsInOrder, WorkInv
  <2> QED BY <1>2, <1>a, <2>1, <2>2 DEF ChargedOncePerTick
<1>7. CASE HandleProcessExecution
  <2>1. UNCHANGED <<burst, current_time, next_pid>>
        /\ phase = "execution" /\ phase' = "bookkeeping"
    BY <1>7 DEF HandleProcessExecution
  <2>2. \A p \in Pid : state'[p] = "ABSENT" <=> state[p] = "ABSENT"
    BY <1>0, <2>1 DEF PidsInOrder, WorkInv
  <2>3. CASE NothingToExecute
    BY <1>2, <1>a, <2>1, <2>2, <2>3 DEF NothingToExecute, ChargedOncePerTick
  <2>4. CASE RunOneUnit
    <3>1. SumFunction(WorkDone') = SumFunction(WorkDone) + 1 /\ cpu_time' = cpu_time + 1
      BY <1>0, <2>1, <2>2, <2>4, UnitIsWork DEF RunOneUnit
    <3>2. Sum'
      BY <1>a, <3>1
    <3>3. ChargedOncePerTick'
      BY <1>a, <2>1, <3>1 DEF ChargedOncePerTick
    <3> QED BY <3>2, <3>3
  <2> QED BY <1>7, <2>3, <2>4 DEF HandleProcessExecution, ExecuteUnit, CompleteProcess
<1>8. CASE FinishTimeStep
  <2>1. UNCHANGED <<state, burst, remaining, cpu_time, current_time>> /\ phase' = "idle"
    BY <1>8 DEF FinishTimeStep, pcbVars, metricsVars
  <2> QED BY <1>2, <1>a, <2>1 DEF ChargedOncePerTick
<1>9. CASE ResetSimulation
  <2>1. cpu_time' = 0 /\ current_time' = 0 /\ phase' = "idle"
    BY <1>9 DEF ResetSimulation, BetweenTicks
  <2>2. Created' = {}
    BY <1>9 DEF ResetSimulation, Created, Everywhere
  <2>3. WorkDone' \in [{} -> Int]
    BY <2>2 DEF WorkDone
  <2>4. SumFunction(WorkDone') = 0
    BY <2>3, NoWork
  <2> QED BY <2>1, <2>4 DEF ChargedOncePerTick
<1> QED
  BY <1>1, <1>3, <1>4, <1>5, <1>6, <1>7, <1>8, <1>9
     DEF Next, TimeStep, AddProcess, RecordProcessCreation, AllocatePages,
         Configure, SetSchedulingAlgorithm, Start, StartSimulation,
         StopSimulation, vars, pcbVars, metricsVars

\* The CPU time of the statistics is the work the process table says was done,
\* one unit a tick at most, for every simulator: with the thread or without,
\* and whenever the algorithm is chosen.
THEOREM CPUTimeMatchesWorkAlways == Spec => []CPUTimeMatchesWork
<1>1. WorkInv => CPUTimeMatchesWork
  BY DEF WorkInv, ChargedOncePerTick, WorkDone, CPUTimeMatchesWork
<1> QED BY <1>1, InitWorkInv, WorkInvStep, PTL DEF Spec

-----------------------------------------------------------------------------
(* Kernel implements Processor, with the thread or without, if the algorithm *)
(* is chosen before the first tick.                                          *)

ImplInv == RunInv /\ WorkIsPositive

\* There is no process in the initial state.
LEMMA InitImplInv == Init => ImplInv
BY InitRunInv DEF Init, ImplInv, WorkIsPositive, Everywhere

\* No step leaves a process without work before its end.
LEMMA ImplInvStep ==
  ASSUME ~SwitchAnyTime, ImplInv, [Next]_vars
  PROVE  ImplInv'
BY RunInvStep, WorkPartsStep DEF ImplInv, RunInv

\* The machine starts as the processor does.
LEMMA InitMaps == Init => Abstract!Init
BY DEF Init, Abstract!Init, Everywhere

\* In scheduling, what is requeued is all that was RUNNING.
LEMMA RequeuedIsPreempted ==
  ASSUME ImplInv, NeedScheduling
  PROVE  /\ \A p \in Pid : p \in Requeued <=> state[p] = "RUNNING"
         /\ Abstract!Preempted = [p \in Pid |-> IF p \in Requeued THEN "READY" ELSE state[p]]
<1>1. \A p \in Pid : p \in Requeued <=> state[p] = "RUNNING"
  BY PidFacts DEF ImplInv, RunInv, RunningIsCurrent, NeedScheduling, Requeued,
                  QuantumExpired, OnCPU
<1> QED BY <1>1 DEF Abstract!Preempted

\* Every step of the machine is a step of the processor, or none.
LEMMA StepMaps ==
  ASSUME ~SwitchAnyTime, ImplInv, [Next]_vars
  PROVE  [Abstract!Next]_(Abstract!pvars)
<1> USE PidFacts
<1>0. TypeOK /\ RunningIsCurrent /\ PidsInOrder
  BY DEF ImplInv, RunInv, TypeInv
<1>1. ASSUME NEW c \in ProcessConfigs, CreateProcess(c)
      PROVE  Abstract!Next
  <2>1. next_pid \in Pid /\ state[next_pid] = "ABSENT"
    BY <1>0, <1>1 DEF CreateProcess, PidsInOrder, TypeOK, Pid
  <2>2. c.burst_time \in Nat /\ c.burst_time > 0
    BY <1>1, ConfigsAssumption DEF CreateProcess, ValidParameters
  <2>3. Abstract!Submit(next_pid, c.burst_time)
    BY <1>1, <2>1, <2>2 DEF CreateProcess, Abstract!Submit
  <2> QED BY <2>1, <2>3 DEF Abstract!Next
<1>2. CASE BeginTimeStep
  <2>1. Abstract!Advance
    BY <1>2 DEF BeginTimeStep, Abstract!Advance, pcbVars
  <2> QED BY <2>1 DEF Abstract!Next
<1>3. CASE HandleProcessArrivals
  <2>1. Arrived \in SUBSET Pid /\ Arrived \subseteq Abstract!In("NEW")
    BY DEF Arrived, Abstract!In
  <2>2. Abstract!Admit(Arrived)
    BY <1>3, <2>1 DEF HandleProcessArrivals, Abstract!Admit
  <2> QED BY <2>1, <2>2 DEF Abstract!Next
<1>4. CASE HandleCPUScheduling
  <2>1. phase = "scheduling" /\ phase' = "execution" /\ UNCHANGED <<remaining, current_time>>
    BY <1>4 DEF HandleCPUScheduling
  <2>2. CASE KeepRunning
    <3>1. Abstract!Keep
      BY <2>1, <2>2 DEF KeepRunning, Abstract!Keep
    <3> QED BY <3>1 DEF Abstract!Next
  <2>3. CASE FindNobody
    <3>1. Abstract!Vacate
      BY <2>1, <2>3, RequeuedIsPreempted DEF FindNobody, Abstract!Vacate
    <3> QED BY <3>1 DEF Abstract!Next
  <2>4. ASSUME NEW p \in Pid, Dispatch(p) PROVE Abstract!Next
    <3>1. state[p] = "READY"
      BY <2>4 DEF Dispatch, Selects, FCFSSelects, PrioritySelects, RoundRobinSelects,
                  IsMinElement, InState
    <3>2. state' = [Abstract!Preempted EXCEPT ![p] = "RUNNING"]
      BY <2>4, RequeuedIsPreempted DEF Dispatch
    <3>3. Abstract!Give(p)
      BY <2>1, <3>1, <3>2 DEF Abstract!Give
    <3> QED BY <3>3 DEF Abstract!Next
  <2> QED BY <1>4, <2>2, <2>3, <2>4 DEF HandleCPUScheduling
<1>5. CASE HandleProcessExecution
  <2>1. phase = "execution" /\ phase' = "bookkeeping" /\ UNCHANGED current_time
    BY <1>5 DEF HandleProcessExecution
  <2>2. CASE NothingToExecute
    <3>1. Abstract!In("RUNNING") = {}
      BY <1>0, <2>2 DEF NothingToExecute, OnCPU, RunningIsCurrent, Abstract!In
    <3>2. Abstract!Idle
      BY <2>1, <2>2, <3>1 DEF NothingToExecute, Abstract!Idle
    <3> QED BY <3>2 DEF Abstract!Next
  <2>3. ASSUME RunOneUnit,
               state' = IF remaining'[current_running] = 0
                          THEN [state EXCEPT ![current_running] = "TERMINATED"] ELSE state
        PROVE  Abstract!Next
    <3>1. current_running \in Pid /\ state[current_running] = "RUNNING"
      BY <1>0, <2>3 DEF RunOneUnit, OnCPU, TypeOK
    <3>2. remaining[current_running] \in Nat /\ remaining[current_running] > 0
      BY <1>0, <3>1 DEF ImplInv, WorkIsPositive, TypeOK
    <3>3. /\ remaining' = [remaining EXCEPT ![current_running] = @ - 1]
          /\ remaining'[current_running] = 0 <=> remaining[current_running] = 1
      <4>1. Decreased(remaining[current_running]) = remaining[current_running] - 1
        BY <3>2 DEF Decreased
      <4>2. remaining' = [remaining EXCEPT ![current_running] = @ - 1]
        BY <2>3, <4>1 DEF RunOneUnit
      <4>3. remaining'[current_running] = remaining[current_running] - 1
        BY <1>0, <3>1, <4>2 DEF TypeOK
      <4> QED BY <3>2, <4>2, <4>3
    <3>4. state' = [state EXCEPT ![current_running] =
                      IF remaining[current_running] = 1 THEN "TERMINATED" ELSE @]
      BY <1>0, <2>3, <3>1, <3>3 DEF TypeOK
    <3>5. Abstract!Run(current_running)
      BY <2>1, <3>1, <3>3, <3>4 DEF Abstract!Run
    <3> QED BY <3>1, <3>5 DEF Abstract!Next
  <2>4. CASE ExecuteUnit
    BY <2>3, <2>4 DEF ExecuteUnit
  <2>5. CASE CompleteProcess
    BY <2>3, <2>5 DEF CompleteProcess
  <2> QED BY <1>5, <2>2, <2>4, <2>5 DEF HandleProcessExecution
<1>6. CASE ResetSimulation
  <2>1. Abstract!Clear
    BY <1>6 DEF ResetSimulation, BetweenTicks, Abstract!Clear, Everywhere
  <2> QED BY <2>1 DEF Abstract!Next
<1>7. CASE FinishTimeStep
  BY <1>7 DEF FinishTimeStep, Abstract!pvars, pcbVars
<1>8. CASE RecordProcessCreation \/ AllocatePages \/ StopSimulation \/ UNCHANGED vars
  BY <1>8 DEF RecordProcessCreation, AllocatePages, StopSimulation, vars, pcbVars,
              Abstract!pvars
<1>9. CASE Configure \/ Start
  BY <1>9 DEF Configure, SetSchedulingAlgorithm, Start, StartSimulation, pcbVars,
              Abstract!pvars
<1> QED
  BY <1>1, <1>2, <1>3, <1>4, <1>5, <1>6, <1>7, <1>8, <1>9 DEF Next, TimeStep, AddProcess

(* The simulated machine, whatever cuts into its ticks and however often it *)
(* is stopped, started and reset, behaves as one processor that does one    *)
(* unit of one READY job per tick, and ends a job when its burst is done.   *)
THEOREM KernelImplementsProcessor ==
  ASSUME ~SwitchAnyTime
  PROVE  Spec => ImplementsProcessor
<1>1. ImplInv /\ [Next]_vars => ImplInv' /\ [Abstract!Next]_(Abstract!pvars)
  BY ImplInvStep, StepMaps
<1> QED BY <1>1, InitImplInv, InitMaps, PTL DEF Spec, ImplementsProcessor, Abstract!Spec
=============================================================================
