------------------------------ MODULE Refresh ------------------------------
(***************************************************************************)
(* The two threads of SimControl around a simulated machine, and the       *)
(* widgets that the GUI thread keeps up to date from a timer while the     *)
(* simulation thread ticks.  The machine is Processor, which Kernel is     *)
(* shown to implement as long as the algorithm is not switched in the      *)
(* middle of a run, and here it may be: a switch takes the CPU from the    *)
(* process that has it and leaves its state RUNNING, so that two processes *)
(* may be RUNNING afterwards.  A tick is several steps of the machine,     *)
(* under simulation_mutex_; the widgets read without that mutex, so their  *)
(* reads fall anywhere in a tick, or in two of them.                       *)
(***************************************************************************)
EXTENDS SimControl

CONSTANTS
  Jobs, Works,   \* of Processor: pids, and the burst times the user enters
  MaxClock       \* bound: ticks after this time leave the machine alone

ASSUME JobsAssumption == Jobs \subseteq Nat

NoPid == -1

VARIABLES
  stage, left, clock, step,   \* the machine; a stage beside Processor's is FORGOTTEN
  stale,             \* the machine has changed since the widgets last began to read it
  chart_time,        \* updateGanttChart's current_time; -1: no new tick to show
  chart_behind,      \* the clock is not last_gantt_time, which it only runs ahead of
  ran                \* history: who did the unit of the last complete tick and may go on, or NoPid

machine == <<stage, left, clock, step>>
chart == <<chart_time, chart_behind>>
rvars == <<vars, machine, stale, chart, ran>>

M == INSTANCE Processor

RInit ==
  /\ Init /\ M!Init
  /\ stale = FALSE /\ chart_time = -1 /\ chart_behind = TRUE /\ ran = NoPid

-----------------------------------------------------------------------------
(* A tick, in the thread that has simulation_mutex_. *)

\* The clock advances as soon as the mutex is taken.
ClockAdvances ==
  /\ IF clock < MaxClock
       THEN M!Advance /\ stale' = TRUE /\ chart_behind' = TRUE
       ELSE UNCHANGED <<machine, stale, chart_behind>>
  /\ UNCHANGED <<chart_time, ran>>

\* A process whose quantum has expired is READY again before the next one is
\* RUNNING, which the widgets may see.
TickGoesOn ==
  /\ UNCHANGED <<vars, chart>> /\ stale' = TRUE
  /\ \/ /\ \/ \E arrived \in (SUBSET M!In("NEW")) \ {{}} : M!Admit(arrived)
           \/ M!In("RUNNING") # {} /\ M!Preempt
           \/ \E p \in Jobs : M!In("RUNNING") = {} /\ M!Give(p)
           \/ M!Keep
        /\ UNCHANGED ran
     \/ M!Idle /\ ran' = NoPid
     \/ \E p \in Jobs : M!Run(p) /\ ran' = IF left[p] = 1 THEN NoPid ELSE p

AllCompleted == M!In("ABSENT") # Jobs /\ M!In("ABSENT") \cup M!In("TERMINATED") = Jobs

\* What executeTimeStep answers, as far as the machine is followed.
Completed(answer) == step = "idle" /\ (clock < MaxClock => answer = AllCompleted)

-----------------------------------------------------------------------------
(* The GUI thread. *)

\* The pids are given out in order.  A table that is full creates no more.
CreateProcess ==
  /\ \/ M!In("ABSENT") = {} /\ UNCHANGED <<machine, stale>>
     \/ \E p \in M!In("ABSENT"), work \in Works :
          /\ \A q \in M!In("ABSENT") : p <= q
          /\ M!Submit(p, work) /\ stale' = TRUE
  /\ UNCHANGED <<chart, ran>>

\* setSchedulingAlgorithm clears current_running_process_ and nothing else of
\* the machine: who had the CPU keeps the state RUNNING, which nothing but a
\* reset takes away, is never READY again and never completes.  The widgets
\* read the same as before.
ForgetRunning ==
  /\ stage' = [j \in Jobs |-> IF stage[j] = "RUNNING" THEN "FORGOTTEN" ELSE stage[j]]
  /\ ran' = NoPid
  /\ UNCHANGED <<left, clock, step, stale, chart>>

ResetMachine ==
  /\ M!Clear
  /\ ran' = NoPid /\ stale' = TRUE
  /\ UNCHANGED chart

\* The blank widgets show the machine as reset has left it.
ClearWidgets ==
  /\ stale' = FALSE
  /\ chart_behind' = TRUE
  /\ UNCHANGED <<machine, chart_time, ran>>

\* The end of onStartSimulation.
ForgetChartTime ==
  /\ chart_behind' = TRUE
  /\ UNCHANGED <<machine, stale, chart_time, ran>>

\* The first read: what is read later is at least as new.
ReadTable == stale' = FALSE /\ UNCHANGED <<machine, chart, ran>>

\* The first half of updateGanttChart.
ReadClock ==
  /\ chart_time' = IF chart_behind THEN clock ELSE -1
  /\ UNCHANGED <<machine, stale, chart_behind, ran>>

\* Fault for the checks: the first that could be RUNNING.
FirstReady == IF M!In("READY") = {} THEN NoPid ELSE CHOOSE p \in M!In("READY") : TRUE

\* Whose state in the process table is RUNNING: who has the CPU, and who was
\* forgotten.
RunningInTable == M!In("RUNNING") \cup M!In("FORGOTTEN")

\* The first process, in the order of the pids, whose state is RUNNING now.
FirstRunning ==
  IF RunningInTable = {} THEN NoPid
  ELSE CHOOSE p \in RunningInTable : \A q \in RunningInTable : p <= q

ReadRunning ==
  /\ chart_time' = -1
  /\ chart_behind' = (chart_behind /\ chart_time # clock)
  /\ UNCHANGED <<machine, stale, ran>>

ElsewhereHere ==
  /\ Elsewhere
  /\ CASE At("create")        -> CreateProcess
       [] At("clear_widgets") -> ClearWidgets
       [] At("read_table")    -> ReadTable
       [] At("read_clock")    -> ReadClock
       [] At("read_running")  -> ReadRunning

-----------------------------------------------------------------------------
(* The steps of SimControl, with what they do to machine and widgets. *)

Undisturbed == UNCHANGED <<machine, stale, chart, ran>>

RLoop ==
  \/ LoopLock /\ ClockAdvances
  \/ LoopAt("tick") /\ TickGoesOn
  \/ LoopTick /\ Completed(FALSE) /\ Undisturbed
  \/ LoopFinish /\ Completed(TRUE) /\ Undisturbed
  \/ (LoopTest \/ LoopBranch \/ LoopSleep) /\ Undisturbed

RLockingCall ==
  \/ StepLock /\ ClockAdvances
  \/ Reset /\ ResetMachine
  \/ Configure /\ ForgetRunning
  \/ (Initialize \/ StartWithoutThread \/ StartThread) /\ Undisturbed

ROtherCall ==
  \/ At("step_tick") /\ TickGoesOn
  \/ StepTick /\ step = "idle" /\ Undisturbed
  \/ ElsewhereHere
  \/ SetDashboard /\ IF At("dashboard_on") THEN ForgetChartTime ELSE Undisturbed
  \/ /\ \/ StopRefreshing \/ Pause \/ Resume \/ WriteState
        \/ RaiseStopFlag \/ SetStopped \/ Join \/ SetStepMode \/ LeaveRunning
        \/ StartIfStopped \/ StepTest \/ UseMetrics \/ LockMetrics \/ UnlockMetrics
     /\ Undisturbed

RefreshBegins == RefreshGUI /\ Undisturbed

RNext == \/ \E h \in Handlers : Click(h) /\ Undisturbed
         \/ RLockingCall \/ ROtherCall \/ RefreshBegins \/ RLoop
         \/ Crashed /\ Undisturbed

RSpec == RInit /\ [][RNext]_rvars

\* As in SimControl.
RFairSpec == /\ RSpec /\ WF_rvars(RLoop) /\ WF_rvars(ROtherCall)
             /\ SF_rvars(RLockingCall) /\ SF_rvars(RefreshBegins)

-----------------------------------------------------------------------------
(* Properties. *)

\* When nothing will change the simulation and nothing will refresh the
\* widgets, they show its last state: refreshGUI turns its timer off only if
\* what it reads afterwards is final.
LastStateIsShown ==
  calls = <<>> /\ ~timer /\ loop = "gone" /\ ~crashed => ~stale

\* The block that updateGanttChart is about to draw, from the clock it has
\* read and the state it reads now, is of a process that did a unit in the
\* tick the block is drawn for or in the one before, or later than that, or
\* that has the CPU and is about to in the tick that goes on: a refresh between
\* two writes of a tick can be late.  The only other process that it may show
\* is one from which a switch of algorithm took the CPU since the last reset.
ChartShowsWhoRan ==
  LET last_tick == IF step = "idle" THEN clock ELSE clock - 1
  IN At("read_running") /\ chart_time # -1 /\ FirstRunning # NoPid =>
       \/ FirstRunning = ran /\ last_tick >= chart_time - 1
       \/ FirstRunning \in M!In("RUNNING") /\ step = "run"
       \/ FirstRunning \in M!In("FORGOTTEN")
=============================================================================
