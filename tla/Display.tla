------------------------------ MODULE Display ------------------------------
(***************************************************************************)
(* What the widgets show of the simulated machine in step mode:            *)
(* GUIController's slots call the controller and then copy what it tells   *)
(* into the process table, the Gantt chart, the memory view and the        *)
(* metrics panel.  The machine is Kernel, with Concurrent = FALSE: one     *)
(* thread runs everything, and a slot runs to its end.  The refresh timer, *)
(* which only the Start button switches on, has no part in it.             *)
(***************************************************************************)
EXTENDS Kernel, Sequences

VARIABLES
  stepping,          \* onStepSimulation has started the simulation; its step is next
  shown,             \* current_processes_, highlighted_pid_, current_frames_, the metrics
  tables,            \* MemoryViewWidget::process_page_tables_ ({}: none for this pid)
  selected,          \* MemoryViewWidget::selected_process_
  selector,          \* the pid process_selector_ stands on, or NoPid: it is empty
  page_rows,         \* whose page table the rows show, and its frames
  time_blocks,       \* GanttChartWidget: the blocks, each of one tick
  last_gantt_time,   \* GUIController
  executed           \* history: the units of CPU time since the last reset

page_view == <<tables, selected, selector, page_rows>>
widgets == <<shown, page_view, time_blocks, last_gantt_time>>
dvars == <<vars, stepping, widgets, executed>>

\* What a row of the process table says of p, ...
Row(p) == [state |-> state[p], priority |-> priority[p], burst |-> burst[p],
           remaining |-> remaining[p], arrival |-> arrival[p]]

\* ... the row that is highlighted: the first process RUNNING, ...
Highlighted ==
  LET running == InState("RUNNING") IN IF running = {} THEN NoPid ELSE Min(running)

\* ... what getSystemMetrics answers (sums for averages, counts for ratios), ...
Reported == {p \in Pid : report[p] # NoReport}
Metrics ==
  [total |-> Cardinality(tracked \cup Reported), completed |-> Cardinality(Reported),
   waiting |-> SumFunction([p \in Reported |-> report[p].waiting]),
   turnaround |-> SumFunction([p \in Reported |-> report[p].turnaround]),
   response |-> SumFunction([p \in Reported |-> report[p].response]),
   cpu_time |-> cpu_time, time |-> current_time,
   allocated |-> Cardinality(Frames \ FreeFrames)]

\* ... and all that the widgets show of the machine, page tables apart.
View == [rows |-> [p \in Pid |-> Row(p)], highlighted |-> Highlighted, frames |-> owner,
         metrics |-> Metrics]

NoRow == [state |-> "ABSENT", priority |-> 0, burst |-> 0, remaining |-> 0, arrival |-> 0]
NoMetrics == [total |-> 0, completed |-> 0, waiting |-> 0, turnaround |-> 0, response |-> 0,
              cpu_time |-> 0, time |-> 0, allocated |-> 0]
Blank == [rows |-> Everywhere(NoRow), highlighted |-> NoPid, frames |-> AllFramesFree,
          metrics |-> NoMetrics]

\* A page table, as the rows of the memory view.
PageRows(p, frames) == [pid |-> p, frames |-> frames]
NoPageRows == PageRows(NoPid, {})

DInit ==
  /\ Init
  /\ stepping = FALSE /\ shown = Blank
  /\ tables = Everywhere({}) /\ selected = NoPid /\ selector = NoPid /\ page_rows = NoPageRows
  /\ time_blocks = <<>> /\ last_gantt_time = -1 /\ executed = <<>>

-----------------------------------------------------------------------------

TimeBlock(p, end_time) == [pid |-> p, end_time |-> end_time]
Added(blocks, p, end_time) ==
  IF p = NoPid THEN blocks ELSE Append(blocks, TimeBlock(p, end_time))

\* Fault for the checks: every update adds a block.
UpdateGanttChartAgain ==
  /\ time_blocks' = Added(time_blocks, Highlighted', current_time')
  /\ last_gantt_time' = current_time'

\* updateGanttChart: a block for the process RUNNING now, once for each
\* reading of the clock.
UpdateGanttChart ==
  IF current_time' <= last_gantt_time
    THEN UNCHANGED <<time_blocks, last_gantt_time>>
    ELSE /\ time_blocks' = Added(time_blocks, Highlighted', current_time')
         /\ last_gantt_time' = current_time'

\* updatePageTable for each process that has a page table; a process that is
\* over has none, and keeps the last one it had.  The selector is built anew
\* each time, and stands on its first item where the process that is selected
\* is not in it.
UpdatePageTables ==
  LET having == {p \in Pid : \E f \in Frames : owner'[f] = p} IN
  IF having = {} THEN UNCHANGED page_view
  ELSE /\ tables' = [p \in Pid |-> IF p \in having THEN {f \in Frames : owner'[f] = p}
                                                  ELSE tables[p]]
       /\ LET items == {p \in Pid : tables'[p] # {}}
          IN selector' = IF selected \in items THEN selected ELSE Min(items)
       /\ page_rows' = IF selected \in having THEN PageRows(selected, tables'[selected])
                                              ELSE page_rows
       /\ UNCHANGED selected

\* updateAllWidgets, after the call of the controller.
UpdateAllWidgets ==
  /\ shown' = View'
  /\ UpdatePageTables
  /\ UpdateGanttChart

\* Fault for the checks: the page tables outlive the reset.
ClearAllButTables ==
  /\ shown' = Blank /\ time_blocks' = <<>> /\ last_gantt_time' = -1
  /\ selected' = NoPid /\ UNCHANGED <<tables, selector, page_rows>>

\* onResetSimulation.
ClearWidgets ==
  /\ shown' = Blank /\ time_blocks' = <<>> /\ last_gantt_time' = -1
  /\ tables' = Everywhere({}) /\ selected' = NoPid /\ selector' = NoPid
  /\ page_rows' = NoPageRows

-----------------------------------------------------------------------------
(* The slots. *)

\* onStepSimulation: initialize and start if the simulation is STOPPED, and
\* executeStep in any case.
StartStepping ==
  /\ ~stepping /\ current_time < MaxTime
  /\ Start /\ stepping' = TRUE
  /\ UNCHANGED <<widgets, executed>>

BeginStep ==
  /\ BeginTimeStep /\ stepping' = FALSE
  /\ UNCHANGED <<widgets, executed>>

\* The phases of the tick; one of them may execute a unit.
StepGoesOn ==
  /\ HandleProcessArrivals \/ HandleCPUScheduling \/ HandleProcessExecution
  /\ executed' = IF cpu_time' > cpu_time
                   THEN Append(executed, TimeBlock(current_running, current_time))
                   ELSE executed
  /\ UNCHANGED <<stepping, widgets>>

EndStep ==
  /\ FinishTimeStep /\ UpdateAllWidgets
  /\ UNCHANGED <<stepping, executed>>

BeginAdding ==
  /\ ~stepping /\ \E c \in ProcessConfigs : CreateProcess(c)
  /\ UNCHANGED <<stepping, widgets, executed>>

\* Fault for the checks: the widgets wait for the next step.
AddSilently ==
  /\ RecordProcessCreation \/ AllocatePages
  /\ UNCHANGED <<stepping, widgets, executed>>

\* The slot of the Add button, from the second call of addProcess on.
GoOnAdding ==
  /\ RecordProcessCreation \/ AllocatePages
  /\ IF add_call' = "none" THEN UpdateAllWidgets ELSE UNCHANGED widgets
  /\ UNCHANGED <<stepping, executed>>

Stop ==
  /\ ~stepping /\ StopSimulation /\ UpdateAllWidgets
  /\ UNCHANGED <<stepping, executed>>

Reset ==
  /\ ~stepping /\ ResetSimulation /\ ClearWidgets
  /\ executed' = <<>>
  /\ UNCHANGED stepping

\* onSchedulerChanged and onTimeQuantumChanged update no widget.
ChangeAlgorithm ==
  /\ ~stepping /\ Configure
  /\ UNCHANGED <<stepping, widgets, executed>>

\* A click on a row of the process table (setSelectedProcess), or an item of
\* the selector: the rows change only if the selector does.
SelectProcess(p) ==
  /\ ~stepping /\ phase = "idle" /\ GUIFree
  /\ shown.rows[p].state # "ABSENT" \/ tables[p] # {}
  /\ selected' = p
  /\ IF tables[p] # {} /\ selector # p
       THEN selector' = p /\ page_rows' = PageRows(p, tables[p])
       ELSE UNCHANGED <<selector, page_rows>>
  /\ UNCHANGED <<vars, stepping, shown, tables, time_blocks, last_gantt_time, executed>>

DNext == \/ \E p \in Pid : SelectProcess(p)
         \/ StartStepping \/ BeginStep \/ StepGoesOn \/ EndStep
         \/ BeginAdding \/ GoOnAdding \/ Stop \/ Reset \/ ChangeAlgorithm

DSpec == DInit /\ [][DNext]_dvars

-----------------------------------------------------------------------------
(* Properties. *)

Between == phase = "idle" /\ GUIFree /\ ~stepping

\* The statistics as the process table has them.
Statistics ==
  LET over == InState("TERMINATED")
  IN [total |-> Cardinality(Created), completed |-> Cardinality(over),
      waiting |-> SumFunction([p \in over |-> completion[p] + 1 - admitted[p] - burst[p]]),
      turnaround |-> SumFunction([p \in over |-> completion[p] - arrival[p]]),
      response |-> SumFunction([p \in over |-> first_run[p] - arrival[p]]),
      cpu_time |-> SumFunction([p \in Created |-> Worked(p)]), time |-> current_time,
      allocated |-> Cardinality({f \in Frames : owner[f] \in Created \ over})]

\* Between slots the widgets show the machine as it is (design.md, property
\* 17): each process with its row, the owner of every frame, highlighted the
\* process that the controller has on the CPU, and statistics that are those
\* of the process table.  Some slots leave the widgets alone, so it takes all
\* of them to keep this.
DisplayIsCurrent ==
  Between => shown = [rows |-> [p \in Pid |-> Row(p)], highlighted |-> current_running,
                      frames |-> owner, metrics |-> Statistics]

\* Whatever is selected, completed, reset and added, the rows of the memory
\* view are no other process's and no former process's page table: while the
\* process they name has memory, they are its page table.  And the selector
\* stands on the selected process if the view has a page table for it.
PageTableIsTrue ==
  Between =>
    /\ page_rows.pid # NoPid /\ FramesOf(page_rows.pid) # {} =>
         page_rows.frames = FramesOf(page_rows.pid)
    /\ selected # NoPid => tables[selected] = {} \/ selector = selected

\* The Gantt chart shows, in order and none twice, exactly the units of CPU
\* time of each process but its last: a process that completes in a step is
\* no longer RUNNING when the chart is updated.  Processes added between two
\* steps, stops, and changes of algorithm leave the chart alone.  (Like the
\* others of this module, only if no algorithm is chosen after the first tick:
\* a later choice leaves a process RUNNING that is not executed, and the chart
\* draws it.)
ChartMissesOnlyLastUnits ==
  Between =>
    /\ \A i, j \in DOMAIN time_blocks :
         i < j => time_blocks[i].end_time < time_blocks[j].end_time
    /\ Range(time_blocks) = {unit \in Range(executed) : completion[unit.pid] # unit.end_time}
=============================================================================
