--------------------------- MODULE DisplayProofs ---------------------------
(* Theorems about Display, for any number of processes and frames, in step  *)
(* mode with the algorithm chosen before the first tick: what is proved of  *)
(* Kernel holds beside the widgets too, and the widgets show the machine.   *)
EXTENDS Display, KernelServiceProofs

\* A slot is steps of the machine, and what it does to the widgets.
LEMMA SlotsAreSteps == [DNext]_dvars => [Next]_vars
BY DEF DNext, dvars, SelectProcess, StartStepping, BeginStep, StepGoesOn, EndStep, BeginAdding,
       GoOnAdding, Stop, Reset, ChangeAlgorithm, Next, TimeStep, AddProcess

\* The widgets take no part in what the machine does: with them it is the
\* machine of Kernel, of which the theorems of the kernel are true.
THEOREM WidgetsDoNotDisturb == DSpec => Spec
<1>1. DInit => Init
  BY DEF DInit
<1> QED BY <1>1, SlotsAreSteps, PTL DEF DSpec, Spec

-----------------------------------------------------------------------------
(* What the machine has to keep for the statistics to be those of the        *)
(* process table.  The reports are the part that is new: a process that runs *)
(* has run first at some time, and a report is made of the dates.            *)

ReportsAreOfDates ==
  \A p \in Pid :
    /\ state[p] = "RUNNING" => first_run[p] # -1
    /\ state[p] = "TERMINATED" =>
         /\ report[p].turnaround = completion[p] - arrival[p]
         /\ report[p].response = first_run[p] - arrival[p]

MachineInv == LedgerInv /\ CountInv /\ OrderInv /\ ReportsAreOfDates

LEMMA InitMachineInv == Init => MachineInv
<1> SUFFICES ASSUME Init PROVE ReportsAreOfDates
  BY InitLedgerInv, InitCountInv, InitOrderInv DEF MachineInv
<1> QED BY DEF Init, ReportsAreOfDates, Everywhere

\* What is used of the other parts.
LEMMA MachineFacts ==
  ASSUME MachineInv
  PROVE  /\ TypeOK /\ AddInFlight /\ PidsInOrder /\ RunningIsCurrent /\ NobodyRunsBeforeTheClock
         /\ AddIsNew /\ TerminatedHoldsNoFrames /\ EveryProcessIsTracked /\ WorkIsLeft
         /\ WaitingTimeIsExact /\ Counts /\ Dated /\ ReportsAreOfDates
BY DEF MachineInv, LedgerInv, RunInv, FramesInv, TypeInv, CountInv, OrderInv

\* A step that dates nothing keeps the reports.
LEMMA ReportsUntouched ==
  ASSUME ReportsAreOfDates, UNCHANGED <<report, completion, arrival, first_run>>,
         \A p \in Pid : /\ state'[p] = "RUNNING" => state[p] = "RUNNING"
                        /\ state'[p] = "TERMINATED" => state[p] = "TERMINATED"
  PROVE  ReportsAreOfDates'
BY DEF ReportsAreOfDates

\* Who is dispatched has a first date from then on.
LEMMA ReportsScheduling ==
  ASSUME MachineInv, HandleCPUScheduling
  PROVE  ReportsAreOfDates'
<1>0. /\ TypeOK /\ ReportsAreOfDates /\ current_time \in Nat
      /\ \A p \in Pid : state[p] \in {"NEW", "READY", "RUNNING"} => p \in tracked
  BY MachineFacts, TickFacts DEF HandleCPUScheduling, MachineInv, TypeOK
<1>1. UNCHANGED <<report, completion, arrival>>
  BY DEF HandleCPUScheduling
<1>2. CASE KeepRunning
  BY <1>0, <1>1, <1>2, ReportsUntouched DEF KeepRunning, trackVars
<1>3. CASE FindNobody
  <2>1. first_run' = first_run
    BY <1>0, <1>3 DEF FindNobody, RecordStateChanges, TypeOK
  <2>2. \A p \in Pid : /\ state'[p] = "RUNNING" => state[p] = "RUNNING"
                       /\ state'[p] = "TERMINATED" => state[p] = "TERMINATED"
    BY <1>0, <1>3 DEF FindNobody, TypeOK
  <2> QED BY <1>0, <1>1, <2>1, <2>2, ReportsUntouched
<1>4. ASSUME NEW q \in Pid, Dispatch(q) PROVE ReportsAreOfDates'
  <2>1. state[q] = "READY" /\ q \in tracked
    BY <1>0, <1>4, ChosenIsReady
  <2>2. state' = [p \in Pid |-> IF p = q THEN "RUNNING"
                                ELSE IF p \in Requeued THEN "READY" ELSE state[p]]
        /\ RecordStateChanges(Requeued \cup {q})
    BY <1>4 DEF Dispatch
  <2>3. \A p \in Pid \ {q} : first_run'[p] = first_run[p]
    <3>1. \A p \in Requeued \ {q} : state'[p] # "RUNNING" \/ p \notin Pid
      BY <2>2
    <3> QED BY <2>2, <3>1 DEF RecordStateChanges
  <2>4. first_run'[q] # -1
    BY <1>0, <2>1, <2>2 DEF RecordStateChanges
  <2>5. \A p \in Pid \ {q} : /\ state'[p] = "RUNNING" => state[p] = "RUNNING"
                             /\ state'[p] = "TERMINATED" => state[p] = "TERMINATED"
    BY <2>2
  <2> QED BY <1>0, <1>1, <2>2, <2>3, <2>4, <2>5 DEF ReportsAreOfDates
<1> QED BY <1>2, <1>3, <1>4 DEF HandleCPUScheduling

\* The report is written in the tick of the completion.
LEMMA ReportsExecution ==
  ASSUME MachineInv, HandleProcessExecution
  PROVE  ReportsAreOfDates'
<1>0. /\ TypeOK /\ ReportsAreOfDates
      /\ \A p \in Pid : state[p] \in {"NEW", "READY", "RUNNING"} => p \in tracked
  BY MachineFacts, TickFacts DEF HandleProcessExecution, MachineInv
<1>1. UNCHANGED <<arrival, first_run>>
  BY DEF HandleProcessExecution
<1>2. CASE NothingToExecute
  BY <1>0, <1>1, <1>2, ReportsUntouched DEF NothingToExecute
<1>3. CASE ExecuteUnit
  BY <1>0, <1>1, <1>3, ReportsUntouched DEF ExecuteUnit
<1>4. CASE CompleteProcess
  <2> DEFINE r == current_running
  <2>1. r \in Pid /\ state[r] = "RUNNING" /\ r \in tracked
    BY <1>0, <1>4 DEF CompleteProcess, RunOneUnit, OnCPU, TypeOK
  <2>2. /\ state' = [state EXCEPT ![r] = "TERMINATED"]
        /\ completion' = [completion EXCEPT ![r] = current_time]
        /\ report' = [report EXCEPT ![r] = FinalReport(r)]
    BY <1>4, <2>1 DEF CompleteProcess
  <2>3. first_run[r] # -1 /\ first_run[r] \in Nat \cup {-1}
    BY <1>0, <2>1 DEF ReportsAreOfDates, TypeOK
  <2>4. report'[r].turnaround = completion'[r] - arrival[r]
        /\ report'[r].response = first_run[r] - arrival[r]
    BY <1>0, <2>1, <2>2, <2>3 DEF FinalReport, TypeOK
  <2>5. \A p \in Pid \ {r} : /\ state'[p] = state[p] /\ report'[p] = report[p]
                             /\ completion'[p] = completion[p]
    BY <1>0, <2>1, <2>2 DEF TypeOK
  <2>6. state'[r] = "TERMINATED"
    BY <1>0, <2>1, <2>2 DEF TypeOK
  <2> QED BY <1>0, <1>1, <2>4, <2>5, <2>6 DEF ReportsAreOfDates
<1> QED BY <1>2, <1>3, <1>4 DEF HandleProcessExecution

LEMMA MachineInvStep ==
  ASSUME ~Concurrent, ~SwitchAnyTime, MachineInv, [Next]_vars
  PROVE  MachineInv'
<1> SUFFICES ReportsAreOfDates'
  BY LedgerInvStep, CountInvStep, OrderInvStep DEF MachineInv
<1>0. TypeOK /\ PidsInOrder /\ ReportsAreOfDates
  BY MachineFacts
<1>1. ASSUME NEW c \in ProcessConfigs, CreateProcess(c) PROVE ReportsAreOfDates'
  <2>1. next_pid \in Pid
    BY <1>0, <1>1, BoundsAssumption DEF CreateProcess, TypeOK, Pid
  <2>2. /\ UNCHANGED <<report, completion, first_run>>
        /\ state'[next_pid] = "NEW"
        /\ \A p \in Pid \ {next_pid} : state'[p] = state[p] /\ arrival'[p] = arrival[p]
    BY <1>0, <1>1, <2>1 DEF CreateProcess, TypeOK, metricsVars
  <2> QED BY <1>0, <2>2 DEF ReportsAreOfDates
<1>2. CASE UNCHANGED <<state, report, completion, arrival, first_run>>
  BY <1>0, <1>2, ReportsUntouched
<1>3. CASE HandleProcessArrivals
  <2>1. /\ state' = [p \in Pid |-> IF p \in Arrived THEN "READY" ELSE state[p]]
        /\ UNCHANGED <<report, completion, arrival>>
    BY <1>3 DEF HandleProcessArrivals
  <2>2. first_run' = first_run
    BY <1>0, <1>3, <2>1 DEF HandleProcessArrivals, RecordStateChanges, TypeOK
  <2>3. \A p \in Pid : /\ state'[p] = "RUNNING" => state[p] = "RUNNING"
                       /\ state'[p] = "TERMINATED" => state[p] = "TERMINATED"
    BY <2>1
  <2> QED BY <1>0, <2>1, <2>2, <2>3, ReportsUntouched
<1>4. CASE HandleCPUScheduling
  BY <1>4, ReportsScheduling
<1>5. CASE HandleProcessExecution
  BY <1>5, ReportsExecution
<1>6. CASE ResetSimulation
  BY <1>6 DEF ResetSimulation, Everywhere, ReportsAreOfDates
<1> QED
  BY <1>1, <1>2, <1>3, <1>4, <1>5, <1>6
     DEF Next, TimeStep, AddProcess, RecordProcessCreation, AllocatePages, BeginTimeStep,
         FinishTimeStep, Configure, SetSchedulingAlgorithm, Start, StartSimulation,
         StopSimulation, vars, pcbVars, metricsVars

-----------------------------------------------------------------------------
(* DisplayIsCurrent: what is shown is a view of the machine as it is, and    *)
(* the view, which reads the statistics of the collector and the first       *)
(* process RUNNING, is that of the process table and of the controller.      *)

ShownIsView == Between => shown = View

\* Nobody, or the process the controller has on the CPU.
LEMMA HighlightedIsCurrent ==
  ASSUME MachineInv
  PROVE  Highlighted = current_running
<1>0. TypeOK /\ RunningIsCurrent
  BY MachineFacts
<1>1. CASE current_running = NoPid
  <2>1. InState("RUNNING") = {}
    BY <1>0, <1>1, PidFacts DEF RunningIsCurrent, InState
  <2> QED BY <1>1, <2>1 DEF Highlighted
<1>2. CASE current_running # NoPid
  <2>1. current_running \in Pid /\ current_running \in Nat
    BY <1>0, <1>2, PidFacts DEF TypeOK
  <2>2. InState("RUNNING") = {current_running}
    BY <1>0, <2>1 DEF RunningIsCurrent, InState
  <2>3. Min({current_running}) = current_running
    BY <2>1 DEF Min
  <2> QED BY <2>2, <2>3 DEF Highlighted
<1> QED BY <1>1, <1>2

\* The collector's numbers are those of the process table.
LEMMA MetricsAreStatistics ==
  ASSUME MachineInv, WorkInv, Between
  PROVE  Metrics = Statistics
<1> DEFINE over == InState("TERMINATED")
<1>0. /\ TypeOK /\ AddInFlight /\ TerminatedHoldsNoFrames /\ WaitingTimeIsExact
      /\ ReportsAreOfDates /\ CountedExactlyOnce
  BY MachineFacts, CountInvImplies DEF MachineInv
<1>1. tracked = Created \ over /\ Reported = over
  BY <1>0 DEF CountedExactlyOnce, Between, Reported
<1>2. tracked \cup Reported = Created
  BY <1>1 DEF Created, InState
<1>3. \A p \in over : /\ report[p].waiting = completion[p] + 1 - admitted[p] - burst[p]
                      /\ report[p].turnaround = completion[p] - arrival[p]
                      /\ report[p].response = first_run[p] - arrival[p]
  <2> SUFFICES ASSUME NEW p \in over
               PROVE  /\ report[p].waiting = completion[p] + 1 - admitted[p] - burst[p]
                      /\ report[p].turnaround = completion[p] - arrival[p]
                      /\ report[p].response = first_run[p] - arrival[p]
    OBVIOUS
  <2>1. p \in Pid /\ state[p] = "TERMINATED"
    BY DEF InState
  <2>2. report[p].waiting + burst[p] = completion[p] + 1 - admitted[p]
    BY <1>0, <2>1 DEF WaitingTimeIsExact
  <2>3. report[p].waiting = completion[p] + 1 - admitted[p] - burst[p]
    BY <1>0, <2>1, <2>2, LedgerNumbers
  <2> QED BY <1>0, <2>1, <2>3 DEF ReportsAreOfDates
<1>4. /\ [p \in Reported |-> report[p].waiting]
           = [p \in over |-> completion[p] + 1 - admitted[p] - burst[p]]
      /\ [p \in Reported |-> report[p].turnaround] = [p \in over |-> completion[p] - arrival[p]]
      /\ [p \in Reported |-> report[p].response] = [p \in over |-> first_run[p] - arrival[p]]
  <2> HIDE DEF over
  <2> QED BY <1>1, <1>3
<1>5. Frames \ FreeFrames = {f \in Frames : owner[f] \in Created \ over}
  <2>1. ASSUME NEW f \in Frames PROVE f \notin FreeFrames <=> owner[f] \in Created \ over
    BY <1>0, PidFacts DEF TypeOK, TerminatedHoldsNoFrames, FreeFrames, Created, InState
  <2> QED BY <2>1
<1>6. cpu_time = SumFunction([p \in Created |-> Worked(p)])
  BY DEF WorkInv, WorkDone
<1> HIDE DEF over
<1> QED BY <1>1, <1>2, <1>4, <1>5, <1>6 DEF Metrics, Statistics, over

LEMMA ViewUntouched ==
  ASSUME UNCHANGED <<state, priority, burst, remaining, arrival, owner, tracked, report,
                     cpu_time, current_time>>
  PROVE  View' = View
<1>1. /\ [p \in Pid |-> Row(p)]' = [p \in Pid |-> Row(p)]
      /\ Highlighted' = Highlighted /\ Reported' = Reported /\ FreeFrames' = FreeFrames
  BY DEF Row, Highlighted, InState, Reported, FreeFrames
<1>2. Metrics' = Metrics
  BY <1>1 DEF Metrics
<1> QED BY <1>1, <1>2 DEF View

\* A machine with no process, as the constructor and reset leave it, is what
\* cleared widgets show.
NothingThere ==
  /\ [p \in Pid |-> Row(p)] = Everywhere(NoRow)
  /\ InState("RUNNING") = {} /\ Reported = {} /\ tracked = {}
  /\ owner = AllFramesFree /\ cpu_time = 0 /\ current_time = 0
ViewIsBlank == View = Blank

LEMMA BlankIsView == NothingThere => ViewIsBlank
<1> SUFFICES ASSUME NothingThere PROVE View = Blank
  BY DEF ViewIsBlank
<1> USE DEF NothingThere
<1>1. Highlighted = NoPid
  BY DEF Highlighted
<1>2. Frames \ FreeFrames = {}
  BY DEF FreeFrames, AllFramesFree
<1>3. \A f : f \in [{} -> Int] => SumFunction(f) = 0
  BY NoWork
<1>4. /\ [p \in Reported |-> report[p].waiting] \in [{} -> Int]
      /\ [p \in Reported |-> report[p].turnaround] \in [{} -> Int]
      /\ [p \in Reported |-> report[p].response] \in [{} -> Int]
  OBVIOUS
<1>5. Cardinality({}) = 0 /\ {} \cup {} = {}
  BY FS_EmptySet
<1>6. Metrics = NoMetrics
  BY <1>2, <1>3, <1>4, <1>5 DEF Metrics, NoMetrics
<1> QED BY <1>1, <1>6 DEF View, Blank

LEMMA ShownStep ==
  ASSUME MachineInv, ShownIsView, [DNext]_dvars
  PROVE  ShownIsView'
<1>0. TypeOK /\ AddInFlight
  BY MachineFacts
<1>1. CASE UNCHANGED <<vars, stepping, shown>>
  <2>1. View' = View
    BY <1>1, ViewUntouched DEF vars
  <2> QED BY <1>1, <2>1 DEF ShownIsView, Between, GUIFree, vars
<1>2. CASE StartStepping
  BY <1>2 DEF StartStepping, ShownIsView, Between
<1>3. CASE BeginStep \/ StepGoesOn
  BY <1>3 DEF BeginStep, StepGoesOn, BeginTimeStep, HandleProcessArrivals, HandleCPUScheduling,
              HandleProcessExecution, ShownIsView, Between
<1>4. CASE UpdateAllWidgets
  BY <1>4 DEF UpdateAllWidgets, ShownIsView
<1>5. CASE BeginAdding
  <2>1. add_pid' # NoPid
    BY <1>0, <1>5 DEF BeginAdding, CreateProcess, TypeOK, NoPid
  <2> QED BY <2>1 DEF ShownIsView, Between, GUIFree
<1>6. CASE GoOnAdding /\ add_call' # "none"
  <2>1. add_pid' = add_pid /\ add_pid # NoPid
    BY <1>0, <1>6, PidFacts DEF GoOnAdding, RecordProcessCreation, AllocatePages, AddInFlight
  <2> QED BY <2>1 DEF ShownIsView, Between, GUIFree
<1>7. CASE Reset
  <2>1. NothingThere'
    BY <1>7 DEF Reset, ResetSimulation, Everywhere, Row, NoRow, InState, Reported, NothingThere
  <2>2. ViewIsBlank'
    BY <2>1, BlankIsView, PTL
  <2> QED BY <1>7, <2>2 DEF Reset, ClearWidgets, ShownIsView, ViewIsBlank
<1>8. CASE ChangeAlgorithm
  <2>1. /\ UNCHANGED <<state, priority, burst, remaining, arrival, owner, tracked, report,
                       cpu_time, current_time, phase, add_pid, stepping, shown>>
    BY <1>8 DEF ChangeAlgorithm, Configure, SetSchedulingAlgorithm, pcbVars, metricsVars,
                addVars, widgets
  <2>2. View' = View
    BY <2>1, ViewUntouched
  <2> QED BY <2>1, <2>2 DEF ShownIsView, Between, GUIFree
<1> QED
  BY <1>1, <1>2, <1>3, <1>4, <1>5, <1>6, <1>7, <1>8
     DEF DNext, SelectProcess, EndStep, GoOnAdding, Stop, dvars, widgets

(* Between slots the widgets show the machine as it is, and the statistics   *)
(* shown are the sums over the process table.                                *)
THEOREM DisplayIsCurrentInStepMode ==
  ASSUME ~Concurrent, ~SwitchAnyTime
  PROVE  DSpec => []DisplayIsCurrent
<1> DEFINE Inv == MachineInv /\ WorkInv /\ ShownIsView
<1>1. DInit => Inv
  <2> SUFFICES ASSUME DInit PROVE Inv
    OBVIOUS
  <2>1. MachineInv /\ WorkInv
    BY InitMachineInv, InitWorkInv DEF DInit
  <2>2. NothingThere
    BY DEF DInit, Init, Everywhere, Row, NoRow, InState, Reported, NothingThere
  <2>3. shown = View
    BY <2>2, BlankIsView DEF ViewIsBlank, DInit
  <2> QED BY <2>1, <2>3 DEF ShownIsView
<1>2. Inv /\ [DNext]_dvars => Inv'
  BY MachineInvStep, WorkInvStep, ShownStep, SlotsAreSteps
<1>3. Inv => DisplayIsCurrent
  BY HighlightedIsCurrent, MetricsAreStatistics DEF ShownIsView, View, DisplayIsCurrent
<1> HIDE DEF Inv
<1> QED BY <1>1, <1>2, <1>3, PTL DEF DSpec

-----------------------------------------------------------------------------
(* PageTableIsTrue, in step mode.  A page table, once a process has one, is  *)
(* the process's frames until it completes or the simulation is started      *)
(* anew, and is kept from then on; only a reset takes it away, and with it   *)
(* the pid may be given again.                                               *)

TablesTyped == tables \in [Pid -> SUBSET Frames]
PageTablesAreLast ==
  \A p \in Pid : tables[p] # {} =>
    FramesOf(p) \in {{}, tables[p]} /\ state[p] # "ABSENT" /\ p # add_pid
RowsAreATable ==
  page_rows.pid # NoPid =>
    /\ page_rows.pid \in Pid /\ tables[page_rows.pid] # {}
    /\ page_rows.frames = tables[page_rows.pid]
SelectorFollows ==
  selected # NoPid => selected \in Pid /\ (tables[selected] = {} \/ selector = selected)

PageInv == TablesTyped /\ PageTablesAreLast /\ RowsAreATable /\ SelectorFollows

\* The page tables of the view, against the frames after a step.
TablesStayLast ==
  \A p \in Pid : tables[p] # {} =>
    FramesOf(p)' \in {{}, tables[p]} /\ state'[p] # "ABSENT" /\ p # add_pid'

\* No page table is there at first.
LEMMA InitPageInv == DInit => PageInv
BY DEF DInit, Everywhere, PageInv, TablesTyped, PageTablesAreLast, RowsAreATable, NoPageRows,
       PageRows, SelectorFollows

AnyButReset ==
  TimeStep \/ AddProcess \/ Configure \/ Start \/ StopSimulation \/ UNCHANGED vars

\* What the machine does to the frames of a process that has a page table:
\* nothing, or all of them become free.
LEMMA MachineKeepsTables ==
  ASSUME FramesInv, PageTablesAreLast, AnyButReset
  PROVE  TablesStayLast
<1>0. TypeOK /\ AddInFlight /\ PidsInOrder
  BY DEF FramesInv, TypeInv
<1> SUFFICES ASSUME NEW p \in Pid, tables[p] # {}
             PROVE  FramesOf(p)' \in {{}, tables[p]} /\ state'[p] # "ABSENT" /\ p # add_pid'
  BY DEF TablesStayLast
<1>1. FramesOf(p) \in {{}, tables[p]} /\ state[p] # "ABSENT" /\ p # add_pid /\ p # NoPid
  BY PidFacts DEF PageTablesAreLast
<1>2. CASE UNCHANGED <<owner, add_pid>> /\ state'[p] = state[p]
  BY <1>1, <1>2 DEF FramesOf
<1>3. ASSUME NEW c \in ProcessConfigs, CreateProcess(c)
      PROVE  FramesOf(p)' \in {{}, tables[p]} /\ state'[p] # "ABSENT" /\ p # add_pid'
  <2>1. p # next_pid
    BY <1>0, <1>1 DEF PidsInOrder, TypeOK
  <2> QED BY <1>0, <1>1, <1>3, <2>1 DEF CreateProcess, FramesOf, TypeOK
<1>4. CASE RecordProcessCreation
  BY <1>1, <1>4 DEF RecordProcessCreation, FramesOf, pcbVars
<1>5. CASE AllocatePages
  <2>1. \A f \in Frames : owner'[f] = p <=> owner[f] = p
    BY <1>1, <1>5, PidFacts DEF AllocatePages, LowestFrames, FreeFrames
  <2> QED BY <1>1, <1>5, <2>1 DEF AllocatePages, FramesOf, pcbVars
<1>6. CASE HandleProcessArrivals
  BY <1>1, <1>6 DEF HandleProcessArrivals, FramesOf, addVars
<1>7. CASE HandleCPUScheduling
  <2>1. state'[p] # "ABSENT"
    BY <1>1, <1>7 DEF HandleCPUScheduling, KeepRunning, FindNobody, Dispatch
  <2> QED BY <1>1, <1>7, <2>1 DEF HandleCPUScheduling, FramesOf, addVars
<1>8. CASE HandleProcessExecution
  <2>1. CASE NothingToExecute \/ ExecuteUnit
    BY <1>1, <1>8, <2>1 DEF HandleProcessExecution, NothingToExecute, ExecuteUnit, FramesOf,
                            addVars
  <2>2. CASE CompleteProcess
    <3>1. state'[p] # "ABSENT" /\ add_pid' = add_pid
      BY <1>0, <1>1, <1>8, <2>2 DEF HandleProcessExecution, CompleteProcess, addVars, TypeOK
    <3>2. FramesOf(p)' = IF p = current_running THEN {} ELSE FramesOf(p)
      BY <1>1, <2>2 DEF CompleteProcess, Released, FramesOf
    <3> QED BY <1>1, <3>1, <3>2
  <2> QED BY <1>8, <2>1, <2>2 DEF HandleProcessExecution
<1>9. CASE Start
  <2>1. FramesOf(p)' = {}
    BY <1>1, <1>9 DEF Start, StartSimulation, AllFramesFree, FramesOf
  <2> QED BY <1>1, <1>9, <2>1 DEF Start, StartSimulation, pcbVars, addVars
<1> QED
  BY <1>2, <1>3, <1>4, <1>5, <1>6, <1>7, <1>8, <1>9
     DEF AnyButReset, TimeStep, AddProcess, BeginTimeStep, FinishTimeStep, Configure,
         SetSchedulingAlgorithm, StopSimulation, vars, pcbVars, addVars

\* Bringing the page tables up to date, after whatever the machine has done.
LEMMA UpdateKeepsPages ==
  ASSUME PageInv, TablesStayLast, UpdatePageTables, TypeOK', TerminatedHoldsNoFrames',
         add_pid' = NoPid
  PROVE  PageInv'
<1> DEFINE having == {p \in Pid : FramesOf(p)' # {}}
<1>1. \A p \in Pid : (\E f \in Frames : owner'[f] = p) <=> p \in having
  BY DEF FramesOf
<1>2. CASE having = {}
  <2>1. UNCHANGED page_view
    BY <1>1, <1>2 DEF UpdatePageTables
  <2> QED BY <2>1 DEF PageInv, TablesTyped, PageTablesAreLast, RowsAreATable, SelectorFollows,
                      TablesStayLast, page_view
<1>3. CASE having # {}
  <2> DEFINE items == {p \in Pid : tables'[p] # {}}
  <2>1. /\ tables' = [p \in Pid |-> IF p \in having THEN FramesOf(p)' ELSE tables[p]]
        /\ selector' = IF selected \in items THEN selected ELSE Min(items)
        /\ page_rows' = IF selected \in having THEN PageRows(selected, tables'[selected])
                                               ELSE page_rows
        /\ selected' = selected
    <3>1. having = {p \in Pid : \E f \in Frames : owner'[f] = p}
      BY <1>1
    <3> QED BY <1>3, <3>1 DEF UpdatePageTables, FramesOf
  <2>2. \A p \in having : state'[p] # "ABSENT" /\ p # add_pid' /\ p # NoPid /\ p \in Pid
                          /\ FramesOf(p)' \subseteq Frames /\ FramesOf(p)' # {}
    BY PidFacts DEF TerminatedHoldsNoFrames, FramesOf
  <2> HIDE DEF having
  <2>3. \A p \in Pid : tables[p] # {} => tables'[p] = tables[p]
    BY <2>1, <2>2 DEF TablesStayLast
  <2>4. TablesTyped'
    BY <2>1, <2>2 DEF PageInv, TablesTyped
  <2>5. PageTablesAreLast'
    <3>1. \A p \in Pid \ having : FramesOf(p)' = {}
      BY DEF having
    <3> QED BY <2>1, <2>2, <3>1 DEF PageTablesAreLast, TablesStayLast
  <2>6. RowsAreATable'
    BY <2>1, <2>2, <2>3 DEF PageInv, RowsAreATable, PageRows
  <2>7. SelectorFollows'
    BY <2>1 DEF PageInv, SelectorFollows
  <2> QED BY <2>4, <2>5, <2>6, <2>7 DEF PageInv
<1> QED BY <1>2, <1>3

LEMMA PageInvStep ==
  ASSUME ~Concurrent, FramesInv, PageInv, [DNext]_dvars
  PROVE  PageInv'
<1>0. FramesInv' /\ [Next]_vars
  BY FramesInvStep, SlotsAreSteps
<1>1. TypeOK' /\ AddInFlight' /\ TerminatedHoldsNoFrames' /\ TypeOK /\ AddInFlight /\ AddIsNew
  BY <1>0 DEF FramesInv, TypeInv
<1>2. CASE UNCHANGED page_view /\ AnyButReset
  <2>1. TablesStayLast
    BY <1>0, <1>2, MachineKeepsTables DEF PageInv
  <2> QED BY <1>2, <2>1 DEF PageInv, TablesTyped, PageTablesAreLast, RowsAreATable,
                            SelectorFollows, TablesStayLast, page_view
<1>3. CASE UpdateAllWidgets /\ AnyButReset /\ add_pid' = NoPid
  <2>1. TablesStayLast
    BY <1>0, <1>3, MachineKeepsTables DEF PageInv
  <2> QED BY <1>1, <1>3, <2>1, UpdateKeepsPages DEF UpdateAllWidgets
<1>4. CASE Reset
  BY <1>4 DEF Reset, ClearWidgets, Everywhere, PageInv, TablesTyped, PageTablesAreLast,
              RowsAreATable, NoPageRows, PageRows, SelectorFollows
<1>5. ASSUME NEW p \in Pid, SelectProcess(p) PROVE PageInv'
  <2>1. UNCHANGED <<owner, state, add_pid, tables>>
    BY <1>5 DEF SelectProcess, vars
  <2> QED BY <1>5, <2>1, PidFacts
          DEF SelectProcess, PageInv, TablesTyped, PageTablesAreLast, RowsAreATable,
              SelectorFollows, FramesOf, PageRows
<1>6. CASE StartStepping \/ BeginStep \/ StepGoesOn \/ BeginAdding \/ ChangeAlgorithm
           \/ (GoOnAdding /\ add_call' # "none")
  BY <1>2, <1>6 DEF StartStepping, BeginStep, StepGoesOn, BeginAdding, GoOnAdding, ChangeAlgorithm,
                    AnyButReset, TimeStep, AddProcess, widgets
<1>7. CASE EndStep
  <2>1. add_pid' = NoPid
    BY <1>1, <1>7 DEF EndStep, FinishTimeStep, AddIsNew, TypeOK, addVars
  <2> QED BY <1>3, <1>7, <2>1 DEF EndStep, AnyButReset, TimeStep
<1>8. CASE Stop \/ (GoOnAdding /\ add_call' = "none")
  <2>1. add_pid' = NoPid
    BY <1>1, <1>8 DEF Stop, StopSimulation, BetweenTicks, GUIFree, addVars, AddInFlight, TypeOK
  <2> QED BY <1>3, <1>8, <2>1 DEF Stop, GoOnAdding, AnyButReset, AddProcess
<1>9. CASE UNCHANGED dvars
  BY <1>2, <1>9 DEF dvars, widgets, AnyButReset
<1> QED
  BY <1>4, <1>5, <1>6, <1>7, <1>8, <1>9 DEF DNext

(* The rows of the memory view are the page table of the process they name,  *)
(* and the selector stands on the selected process.                          *)
THEOREM PageTableIsTrueInStepMode ==
  ASSUME ~Concurrent
  PROVE  DSpec => []PageTableIsTrue
<1> DEFINE Inv == FramesInv /\ PageInv
<1>1. DInit => Inv
  BY InitFramesInv, InitPageInv DEF DInit
<1>2. Inv /\ [DNext]_dvars => Inv'
  BY FramesInvStep, PageInvStep, SlotsAreSteps
<1>3. Inv => PageTableIsTrue
  BY DEF PageInv, RowsAreATable, PageTablesAreLast, SelectorFollows, PageTableIsTrue
<1> HIDE DEF Inv
<1> QED BY <1>1, <1>2, <1>3, PTL DEF DSpec

-----------------------------------------------------------------------------
(* ChartMissesOnlyLastUnits.  Blocks are drawn at the end of a tick, if the  *)
(* reading of the clock is new, so the unit executed in a tick is not drawn  *)
(* yet while the tick goes on; a reading of the clock is drawn once.         *)

Blocks == [pid : Pid, end_time : Nat]
ChartTyped ==
  executed \in Seq(Blocks) /\ time_blocks \in Seq(Blocks) /\ last_gantt_time \in Int

\* No unit of the tick to come, until it is executed.
UnitsArePast ==
  \A unit \in Range(executed) :
    /\ unit.end_time <= current_time
    /\ phase \in {"arrivals", "scheduling", "execution"} => unit.end_time < current_time

\* Between ticks the chart has seen the clock, but for the first reading.
ClockIsDrawn ==
  IF phase = "idle" THEN last_gantt_time = current_time \/ (current_time = 0 /\ last_gantt_time = -1)
                    ELSE last_gantt_time < current_time

BlocksAreDrawnOnce ==
  /\ \A block \in Range(time_blocks) : block.end_time <= last_gantt_time
  /\ \A i, j \in DOMAIN time_blocks : i < j => time_blocks[i].end_time < time_blocks[j].end_time

NotLastUnits == {unit \in Range(executed) : completion[unit.pid] # unit.end_time}
Undrawn == IF phase = "bookkeeping" /\ current_running # NoPid
             THEN {TimeBlock(current_running, current_time)} ELSE {}
ChartIsBehind == NotLastUnits = Range(time_blocks) \cup Undrawn

ChartInv == ChartTyped /\ UnitsArePast /\ ClockIsDrawn /\ BlocksAreDrawnOnce /\ ChartIsBehind

\* An empty chart, and no unit executed.
ChartIsEmpty == /\ executed = <<>> /\ time_blocks = <<>> /\ last_gantt_time = -1
                /\ phase = "idle" /\ current_time = 0

LEMMA EmptyChart == ChartIsEmpty => ChartInv
<1> SUFFICES ASSUME ChartIsEmpty PROVE ChartInv
  OBVIOUS
<1> USE DEF ChartIsEmpty
<1>1. Range(executed) = {} /\ Range(time_blocks) = {} /\ DOMAIN time_blocks = {}
  BY DEF Range
<1>2. executed \in Seq(Blocks) /\ time_blocks \in Seq(Blocks)
  OBVIOUS
<1> QED BY <1>1, <1>2 DEF ChartInv, ChartTyped, UnitsArePast, ClockIsDrawn, BlocksAreDrawnOnce,
                          ChartIsBehind, NotLastUnits, Undrawn

\* What a sequence with one more entry has in it.
LEMMA AppendRange ==
  ASSUME NEW S, NEW s \in Seq(S), NEW x \in S
  PROVE  Append(s, x) \in Seq(S) /\ Range(Append(s, x)) = Range(s) \cup {x}
<1>1. /\ Append(s, x) \in Seq(S) /\ Len(Append(s, x)) = Len(s) + 1
      /\ \A i \in 1 .. Len(s) : Append(s, x)[i] = s[i]
      /\ Append(s, x)[Len(s) + 1] = x
      /\ DOMAIN Append(s, x) = 1 .. Len(s) + 1 /\ DOMAIN s = 1 .. Len(s) /\ Len(s) \in Nat
  OBVIOUS
<1>2. 1 .. Len(s) + 1 = (1 .. Len(s)) \cup {Len(s) + 1}
  BY <1>1
<1> HIDE DEF Range
<1>3. Range(s) = {s[i] : i \in 1 .. Len(s)}
  BY <1>1 DEF Range
<1>4. Range(Append(s, x)) = {Append(s, x)[i] : i \in (1 .. Len(s)) \cup {Len(s) + 1}}
  BY <1>1, <1>2 DEF Range
<1>5. \A y : y \in Range(Append(s, x)) <=> y \in Range(s) \/ y = x
  BY <1>1, <1>3, <1>4, Zenon
<1> QED BY <1>1, <1>5

\* Nothing the chart depends on changes.
LEMMA ChartUntouched ==
  ASSUME ChartInv, UNCHANGED <<executed, time_blocks, last_gantt_time, completion, current_time>>,
         phase' = phase, phase = "idle" \/ current_running' = current_running
  PROVE  ChartInv'
BY DEF ChartInv, ChartTyped, UnitsArePast, ClockIsDrawn, BlocksAreDrawnOnce, ChartIsBehind,
       NotLastUnits, Undrawn

\* A tick goes on, with no unit executed.
LEMMA ChartWaits ==
  ASSUME ChartInv, UNCHANGED <<executed, time_blocks, last_gantt_time, completion, current_time>>,
         phase \in {"arrivals", "scheduling", "execution"},
         phase' \in {"scheduling", "execution"}
           \/ (phase' = "bookkeeping" /\ current_running' = NoPid)
  PROVE  ChartInv'
BY DEF ChartInv, ChartTyped, UnitsArePast, ClockIsDrawn, BlocksAreDrawnOnce, ChartIsBehind,
       NotLastUnits, Undrawn

\* The unit of the tick is a last unit, or is yet to be drawn.
LEMMA ChartUnit ==
  ASSUME MachineInv, ChartInv, HandleProcessExecution, RunOneUnit,
         executed' = Append(executed, TimeBlock(current_running, current_time)),
         UNCHANGED <<time_blocks, last_gantt_time>>,
         ExecuteUnit \/ CompleteProcess
  PROVE  ChartInv'
<1> DEFINE r == current_running
           unit == TimeBlock(r, current_time)
<1>0. /\ TypeOK /\ Dated /\ r \in Pid /\ state[r] = "RUNNING" /\ current_time \in Nat
      /\ phase = "execution" /\ phase' = "bookkeeping" /\ current_time' = current_time
  BY MachineFacts DEF HandleProcessExecution, RunOneUnit, OnCPU, TypeOK
<1>1. unit \in Blocks /\ unit.pid = r /\ unit.end_time = current_time
  BY <1>0 DEF TimeBlock, Blocks
<1>2. completion[r] = -1
  BY <1>0 DEF Dated
<1>3. executed' \in Seq(Blocks) /\ Range(executed') = Range(executed) \cup {unit}
  <2> HIDE DEF unit
  <2> QED BY <1>1, AppendRange DEF ChartInv, ChartTyped, unit
<1>4. \A u \in Range(executed) : u.end_time \in Nat /\ u.end_time < current_time /\ u.pid \in Pid
  <2>1. Range(executed) \subseteq Blocks
    BY DEF ChartInv, ChartTyped, Range
  <2> QED BY <1>0, <2>1 DEF ChartInv, UnitsArePast, Blocks
<1>5. UnitsArePast'
  BY <1>0, <1>1, <1>3, <1>4 DEF UnitsArePast
<1>6. NotLastUnits' = NotLastUnits \cup Undrawn'
  <2> HIDE DEF unit
  <2>1. CASE ExecuteUnit
    <3>1. completion' = completion /\ current_running' = r /\ Undrawn' = {unit}
      BY <1>0, <2>1, PidFacts DEF ExecuteUnit, Undrawn, unit
    <3>2. completion'[unit.pid] # unit.end_time
      BY <1>0, <1>1, <1>2, <3>1
    <3> QED BY <1>3, <3>1, <3>2 DEF NotLastUnits
  <2>2. CASE CompleteProcess
    <3>1. completion' = [completion EXCEPT ![r] = current_time] /\ Undrawn' = {}
      BY <2>2 DEF CompleteProcess, Undrawn
    <3>2. completion'[unit.pid] = unit.end_time
      BY <1>0, <1>1, <3>1 DEF TypeOK
    <3>3. \A u \in Range(executed) :
            completion'[u.pid] # u.end_time <=> completion[u.pid] # u.end_time
      <4>1. /\ completion'[r] = current_time
            /\ \A p \in Pid : p # r => completion'[p] = completion[p]
        BY <1>0, <3>1 DEF TypeOK
      <4>2. TAKE u \in Range(executed)
      <4> HIDE DEF r
      <4> QED BY <1>2, <1>4, <4>1
    <3> QED BY <1>3, <3>1, <3>2, <3>3 DEF NotLastUnits
  <2> QED BY <2>1, <2>2
<1>7. Undrawn = {}
  BY <1>0 DEF Undrawn
<1>8. ChartIsBehind'
  BY <1>6, <1>7 DEF ChartInv, ChartIsBehind
<1> QED BY <1>0, <1>3, <1>5, <1>8 DEF ChartInv, ChartTyped, ClockIsDrawn, BlocksAreDrawnOnce

\* The chart at the end of a tick.
LEMMA ChartDraws ==
  ASSUME MachineInv, ChartInv, phase = "bookkeeping", phase' = "idle", UpdateGanttChart,
         Highlighted' = current_running, UNCHANGED <<executed, completion, current_time>>
  PROVE  ChartInv'
<1>0. /\ TypeOK /\ current_time \in Nat /\ last_gantt_time \in Int /\ executed \in Seq(Blocks)
      /\ last_gantt_time < current_time /\ time_blocks \in Seq(Blocks)
  BY MachineFacts DEF ChartInv, ChartTyped, ClockIsDrawn, TypeOK
<1>1. time_blocks' = Added(time_blocks, current_running, current_time)
      /\ last_gantt_time' = current_time
  BY <1>0 DEF UpdateGanttChart
<1>2. /\ time_blocks' \in Seq(Blocks) /\ Range(time_blocks') = Range(time_blocks) \cup Undrawn
      /\ \A block \in Range(time_blocks') : block.end_time <= current_time
      /\ \A i, j \in DOMAIN time_blocks' :
           i < j => time_blocks'[i].end_time < time_blocks'[j].end_time
  <2>0. \A block \in Range(time_blocks) : block.end_time \in Nat /\ block.end_time < current_time
    <3>1. Range(time_blocks) \subseteq Blocks
      BY <1>0 DEF Range
    <3> QED BY <1>0, <3>1 DEF ChartInv, BlocksAreDrawnOnce, Blocks
  <2>1. CASE current_running = NoPid
    <3>1. time_blocks' = time_blocks /\ Undrawn = {}
      BY <1>1, <2>1 DEF Added, Undrawn
    <3> QED BY <1>0, <2>0, <3>1 DEF ChartInv, BlocksAreDrawnOnce
  <2>2. CASE current_running # NoPid
    <3> DEFINE unit == TimeBlock(current_running, current_time)
    <3>1. unit \in Blocks /\ unit.end_time = current_time
      BY <1>0, <2>2 DEF TimeBlock, Blocks, TypeOK
    <3>2. time_blocks' = Append(time_blocks, unit) /\ Undrawn = {unit}
      BY <1>1, <2>2 DEF Added, Undrawn
    <3> HIDE DEF unit
    <3>3. time_blocks' \in Seq(Blocks) /\ Range(time_blocks') = Range(time_blocks) \cup {unit}
      BY <1>0, <3>1, <3>2, AppendRange
    <3>4. /\ DOMAIN time_blocks' = 1 .. Len(time_blocks) + 1
          /\ DOMAIN time_blocks = 1 .. Len(time_blocks) /\ Len(time_blocks) \in Nat
          /\ \A i \in 1 .. Len(time_blocks) : time_blocks'[i] = time_blocks[i]
          /\ time_blocks'[Len(time_blocks) + 1] = unit
      BY <1>0, <3>1, <3>2
    <3>5. \A i \in 1 .. Len(time_blocks) : time_blocks[i] \in Range(time_blocks)
      BY <3>4 DEF Range
    <3>6. \A i, j \in DOMAIN time_blocks :
            i < j => time_blocks[i].end_time < time_blocks[j].end_time
      BY DEF ChartInv, BlocksAreDrawnOnce
    <3>7. \A i, j \in DOMAIN time_blocks' :
            i < j => time_blocks'[i].end_time < time_blocks'[j].end_time
      BY <2>0, <3>1, <3>4, <3>5, <3>6
    <3> QED BY <1>0, <2>0, <3>1, <3>2, <3>3, <3>7
  <2> QED BY <2>1, <2>2
<1>3. ClockIsDrawn' /\ ChartTyped' /\ BlocksAreDrawnOnce'
  BY <1>0, <1>1, <1>2 DEF ClockIsDrawn, ChartTyped, BlocksAreDrawnOnce
<1>4. UnitsArePast'
  BY DEF ChartInv, UnitsArePast
<1>5. NotLastUnits' = NotLastUnits /\ Undrawn' = {}
  BY DEF NotLastUnits, Undrawn
<1> QED BY <1>2, <1>3, <1>4, <1>5 DEF ChartInv, ChartIsBehind

\* Between ticks an update adds no block: the reading of the clock is drawn,
\* or it is the first, and nobody has run.
LEMMA ChartStays ==
  ASSUME ChartInv, phase = "idle", phase' = "idle", UpdateGanttChart,
         current_time = 0 => Highlighted' = NoPid,
         UNCHANGED <<executed, completion, current_time>>
  PROVE  ChartInv'
<1>1. /\ time_blocks' = time_blocks
      /\ last_gantt_time' \in {last_gantt_time, current_time}
      /\ last_gantt_time' = current_time
      /\ last_gantt_time \in Int /\ last_gantt_time <= last_gantt_time' /\ last_gantt_time' \in Int
  BY DEF ChartInv, ClockIsDrawn, UpdateGanttChart, Added, ChartTyped
<1>2. \A block \in Range(time_blocks) : block.end_time \in Int
  <2>1. Range(time_blocks) \subseteq Blocks
    BY DEF ChartInv, ChartTyped, Range
  <2> QED BY <2>1 DEF Blocks
<1>3. BlocksAreDrawnOnce'
  BY <1>1, <1>2 DEF ChartInv, BlocksAreDrawnOnce
<1>4. Undrawn = {} /\ Undrawn' = {} /\ NotLastUnits' = NotLastUnits
  BY DEF Undrawn, NotLastUnits
<1>5. ChartIsBehind' /\ ChartTyped' /\ UnitsArePast' /\ ClockIsDrawn'
  BY <1>1, <1>4 DEF ChartInv, ChartIsBehind, ChartTyped, UnitsArePast, ClockIsDrawn
<1> QED BY <1>3, <1>5 DEF ChartInv

LEMMA ChartInvStep ==
  ASSUME ~Concurrent, ~SwitchAnyTime, MachineInv, ChartInv, [DNext]_dvars
  PROVE  ChartInv'
<1>0. /\ MachineInv' /\ TypeOK /\ AddInFlight /\ AddIsNew
      /\ Highlighted' = current_running' /\ (current_time' = 0 => current_running' = NoPid)
  <2>1. MachineInv'
    BY MachineInvStep, SlotsAreSteps
  <2>2. MachineInv => Highlighted = current_running /\ NobodyRunsBeforeTheClock
    BY HighlightedIsCurrent, MachineFacts
  <2>3. (Highlighted = current_running /\ NobodyRunsBeforeTheClock)'
    BY <2>1, HighlightedIsCurrent, MachineFacts, PTL
  <2> QED BY <2>1, <2>3, MachineFacts DEF NobodyRunsBeforeTheClock
<1>1. CASE StartStepping \/ ChangeAlgorithm
  BY <1>1, ChartUntouched
     DEF StartStepping, Start, StartSimulation, ChangeAlgorithm, Configure,
         SetSchedulingAlgorithm, BetweenTicks, widgets, pcbVars
<1>2. CASE BeginAdding \/ UNCHANGED dvars
  BY <1>2, ChartUntouched DEF BeginAdding, CreateProcess, dvars, vars, widgets
<1>3. ASSUME NEW p \in Pid, SelectProcess(p) PROVE ChartInv'
  BY <1>3, ChartUntouched DEF SelectProcess, vars
<1>4. CASE BeginStep
  <2>1. /\ phase = "idle" /\ phase' = "arrivals" /\ current_time' = current_time + 1
        /\ UNCHANGED <<executed, time_blocks, last_gantt_time, completion>>
    BY <1>4 DEF BeginStep, BeginTimeStep, widgets, pcbVars
  <2>2. /\ current_time \in Nat /\ last_gantt_time <= current_time
        /\ \A unit \in Range(executed) : unit.end_time \in Nat
    <3>1. Range(executed) \subseteq Blocks
      BY DEF ChartInv, ChartTyped, Range
    <3>2. current_time \in Nat /\ last_gantt_time <= current_time
      BY <1>0, <2>1 DEF ChartInv, ClockIsDrawn, TypeOK
    <3> QED BY <3>1, <3>2 DEF Blocks
  <2> QED BY <2>1, <2>2 DEF ChartInv, ChartTyped, UnitsArePast, ClockIsDrawn,
                            BlocksAreDrawnOnce, ChartIsBehind, NotLastUnits, Undrawn
<1>5. CASE StepGoesOn
  <2>1. UNCHANGED <<time_blocks, last_gantt_time, current_time>> /\ cpu_time \in Nat
    BY <1>0, <1>5 DEF StepGoesOn, HandleProcessArrivals, HandleCPUScheduling,
                      HandleProcessExecution, widgets, TypeOK
  <2>2. CASE HandleProcessArrivals \/ HandleCPUScheduling
    BY <1>5, <2>1, <2>2, ChartWaits DEF StepGoesOn, HandleProcessArrivals, HandleCPUScheduling
  <2>3. CASE HandleProcessExecution
    <3>1. CASE NothingToExecute
      BY <1>5, <2>1, <2>3, <3>1, ChartWaits
         DEF StepGoesOn, HandleProcessExecution, NothingToExecute
    <3>2. CASE ExecuteUnit \/ CompleteProcess
      <4>1. RunOneUnit /\ executed' = Append(executed, TimeBlock(current_running, current_time))
        BY <1>5, <2>1, <3>2 DEF StepGoesOn, ExecuteUnit, CompleteProcess, RunOneUnit
      <4> QED BY <2>1, <2>3, <3>2, <4>1, ChartUnit
    <3> QED BY <2>3, <3>1, <3>2 DEF HandleProcessExecution
  <2> QED BY <1>5, <2>2, <2>3 DEF StepGoesOn
<1>6. CASE EndStep
  BY <1>0, <1>6, ChartDraws DEF EndStep, FinishTimeStep, UpdateAllWidgets, pcbVars
<1>7. CASE GoOnAdding
  <2>1. phase = "idle" /\ phase' = phase /\ UNCHANGED <<completion, current_time, executed>>
    BY <1>0, <1>7 DEF GoOnAdding, RecordProcessCreation, AllocatePages, AddInFlight, AddIsNew,
                      pcbVars
  <2>2. CASE add_call' = "none"
    BY <1>0, <1>7, <2>1, <2>2, ChartStays DEF GoOnAdding, UpdateAllWidgets
  <2>3. CASE add_call' # "none"
    BY <1>7, <2>1, <2>3, ChartUntouched DEF GoOnAdding, widgets
  <2> QED BY <2>2, <2>3
<1>8. CASE Stop
  BY <1>0, <1>8, ChartStays DEF Stop, StopSimulation, BetweenTicks, UpdateAllWidgets, pcbVars
<1>9. CASE Reset
  <2>1. ChartIsEmpty'
    BY <1>9 DEF Reset, ResetSimulation, BetweenTicks, ClearWidgets, ChartIsEmpty
  <2> QED BY <2>1, EmptyChart, PTL
<1> QED BY <1>1, <1>2, <1>3, <1>4, <1>5, <1>6, <1>7, <1>8, <1>9 DEF DNext

(* The chart shows, in order and each once, exactly the units of CPU time of *)
(* each process but its last.                                                *)
THEOREM ChartMissesOnlyLastUnitsInStepMode ==
  ASSUME ~Concurrent, ~SwitchAnyTime
  PROVE  DSpec => []ChartMissesOnlyLastUnits
<1> DEFINE Inv == MachineInv /\ ChartInv
<1>1. DInit => Inv
  BY InitMachineInv, EmptyChart DEF DInit, Init, ChartIsEmpty
<1>2. Inv /\ [DNext]_dvars => Inv'
  BY MachineInvStep, ChartInvStep, SlotsAreSteps
<1>3. Inv => ChartMissesOnlyLastUnits
  <2> SUFFICES ASSUME ChartInv, Between PROVE ChartMissesOnlyLastUnits
    BY DEF ChartMissesOnlyLastUnits
  <2>1. Undrawn = {}
    BY DEF Undrawn, Between
  <2> QED BY <2>1 DEF ChartInv, BlocksAreDrawnOnce, ChartIsBehind, NotLastUnits,
                      ChartMissesOnlyLastUnits
<1> HIDE DEF Inv
<1> QED BY <1>1, <1>2, <1>3, PTL DEF DSpec
=============================================================================
