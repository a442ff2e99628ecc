----------------------------- MODULE SimControl -----------------------------
(***************************************************************************)
(* The two threads of the simulator: the client (the GUI thread, which     *)
(* runs one handler at a time, or a test that calls the same API) and the  *)
(* thread of simulationLoop.  They share state_, should_stop_, step_mode_, *)
(* the std::thread object, simulation_mutex_ and the metrics_mutex_ of     *)
(* MetricsCollector; everything the mutexes protect is in module Kernel,   *)
(* and a time step is here one unit that answers "go on" or "all processes *)
(* completed", which records statistics and so needs metrics_mutex_.       *)
(*                                                                         *)
(* A handler is the sequence of API calls it makes, and each call is cut   *)
(* where another thread can see or change what it works on: around the     *)
(* mutex, and between the test and the write of an unlocked test-and-set.  *)
(* A refresh of the widgets is a handler too: the timer calls it.  What    *)
(* the widgets read is in module Refresh.                                  *)
(***************************************************************************)
EXTENDS Integers, Sequences, FiniteSets

CONSTANTS
  Handlers,        \* which handlers the client may call
  UseDashboard     \* TRUE: only the buttons the dashboard enables

HandlerNames == {"Start", "Pause", "Resume", "Stop", "Reset", "Step", "Configure",
                 "Add", "ExportMetrics", "ExportLog"}

ASSUME HandlersAssumption == Handlers \subseteq HandlerNames
ASSUME DashboardAssumption == UseDashboard \in BOOLEAN

VARIABLES
  state, should_stop, step_mode,   \* the three atomics of the controller
  mutex,       \* simulation_mutex_: "free", "client" or "loop"
  metrics_mutex,  \* "free" or "client"; the ticks hold it within one step
  thread,      \* simulation_thread_: "none", "alive", "finished" (joinable)
  calls,       \* what the client's handler still has to do, innermost first
  loop,        \* where simulationLoop is; "gone": no thread in it
  running,     \* Dashboard::simulation_running_, which enables the buttons
  timer,       \* GUIController::refresh_timer_ is active
  crashed,     \* std::terminate was called
  late_ticks   \* history: ticks the loop has begun since state left RUNNING

controlVars == <<state, should_stop, step_mode>>
mutexes == <<mutex, metrics_mutex>>
dashboard == <<running, timer>>
vars == <<state, should_stop, step_mode, mutex, metrics_mutex, thread, calls,
          loop, running, timer, crashed, late_ticks>>

States == {"STOPPED", "RUNNING", "PAUSED", "STEP_MODE"}

Init ==
  /\ state = "STOPPED" /\ should_stop = FALSE /\ step_mode = FALSE
  /\ mutex = "free" /\ metrics_mutex = "free" /\ thread = "none"
  /\ calls = <<>> /\ loop = "gone"
  /\ running = FALSE /\ timer = FALSE /\ crashed = FALSE /\ late_ticks = 0

-----------------------------------------------------------------------------
(* The client: handlers. *)

\* Methods of MetricsCollector: each takes metrics_mutex_ for its whole body.
\* The pair of lock and unlock is one step, use_metrics, where it is of no
\* interest what falls between them.
RecordMemoryStats == <<"use_metrics">>
CalculateMetrics == <<"lock_metrics", "unlock_metrics">>

\* updateAllWidgets: what it reads, one call after the other, without
\* simulation_mutex_, ending with getSystemMetrics.
UpdateAllWidgets == <<"read_table", "read_clock", "read_running", "use_metrics">>

\* Fault for the checks: the widgets are updated, and then the state is looked at.
RefreshUpdateFirst == UpdateAllWidgets \o <<"stop_refreshing">>

\* refreshGUI looks at the state first.
Refresh == <<"stop_refreshing">> \o UpdateAllWidgets

\* The slots of GUIController, and MainWindow's exports, as the controller
\* calls they make.  (resume has no button; onStepSimulation starts the
\* simulation only if it finds it STOPPED; generateReport calls
\* calculateMetrics; of the three calls in addProcess one takes a lock kept
\* here, and a rejected process calls nothing more.)
Program(h) ==
  CASE h = "Start"     -> <<"initialize", "start", "dashboard_on">>
    [] h = "Pause"     -> <<"pause", "running_off">>
    [] h = "Resume"    -> <<"resume">>
    [] h = "Stop"      -> <<"raise_flag", "set_stopped", "join", "dashboard_off">>
                          \o UpdateAllWidgets
    [] h = "Reset"     -> <<"raise_flag", "set_stopped", "join", "reset", "dashboard_off",
                            "clear_widgets">>
    [] h = "Step"      -> <<"set_step_mode", "leave_running", "start_if_stopped", "step">>
                          \o UpdateAllWidgets
    [] h = "Configure" -> <<"configure">>
    [] h = "Add"       -> <<"create", "use_metrics">> \o UpdateAllWidgets
    [] h = "ExportMetrics" -> RecordMemoryStats \o CalculateMetrics
    [] h = "ExportLog"     -> <<"lock_metrics">> \o CalculateMetrics \o <<"unlock_metrics">>

\* Dashboard::setSimulationRunning; Reset is always enabled.  (The menu's Open,
\* which configures too, is never disabled; it is no button of the dashboard.)
ButtonEnabled(h) ==
  CASE h \in {"Start", "Step", "Configure"} -> ~running
    [] h \in {"Pause", "Stop"}              -> running
    [] h = "Resume"                         -> FALSE
    [] OTHER                                -> TRUE

Click(h) ==
  /\ calls = <<>> /\ ~crashed
  /\ UseDashboard => ButtonEnabled(h)
  /\ calls' = Program(h)
  /\ UNCHANGED <<controlVars, mutexes, thread, loop, dashboard, crashed, late_ticks>>

\* The client is at this call.
At(call) == ~crashed /\ calls # <<>> /\ Head(calls) = call
Return == calls' = Tail(calls)
Continue(more) == calls' = more \o Tail(calls)

\* The timer's event, which is served like a click.
RefreshGUI ==
  /\ calls = <<>> /\ ~crashed /\ timer
  /\ calls' = Refresh
  /\ UNCHANGED <<controlVars, mutexes, thread, loop, dashboard, crashed, late_ticks>>

\* Fault for the checks: looks for a stop that was asked for, not for the end.
StopIfAsked ==
  /\ At("stop_refreshing")
  /\ timer' = (timer /\ ~should_stop) /\ running' = (running /\ ~should_stop) /\ Return
  /\ UNCHANGED <<controlVars, mutexes, thread, loop, crashed, late_ticks>>

StopRefreshing ==
  /\ At("stop_refreshing")
  /\ timer' = (timer /\ state # "STOPPED") /\ running' = (running /\ state # "STOPPED")
  /\ Return
  /\ UNCHANGED <<controlVars, mutexes, thread, loop, crashed, late_ticks>>

\* setSimulationRunning, and the timer's start or stop that follows it in all
\* slots but onPauseSimulation's.
SetDashboard ==
  /\ \E call \in {"dashboard_on", "dashboard_off", "running_off"} : At(call)
  /\ running' = At("dashboard_on")
  /\ timer' = IF At("running_off") THEN timer ELSE At("dashboard_on")
  /\ Return
  /\ UNCHANGED <<controlVars, mutexes, thread, loop, crashed, late_ticks>>

\* Calls that change nothing kept here.
Elsewhere ==
  /\ \E call \in {"create", "clear_widgets", "read_table", "read_clock", "read_running"} : At(call)
  /\ Return
  /\ UNCHANGED <<controlVars, mutexes, thread, loop, dashboard, crashed, late_ticks>>

-----------------------------------------------------------------------------
(* The client: calls of the controller. *)

\* initialize: under the mutex, and only when STOPPED, it takes the step mode
\* of the configuration (FALSE from Start, TRUE from Step).
Initialize ==
  /\ At("initialize") \/ At("initialize_step")
  /\ mutex = "free"
  /\ step_mode' = IF state = "STOPPED" THEN Head(calls) = "initialize_step" ELSE step_mode
  /\ Return
  /\ UNCHANGED <<state, should_stop, mutexes, thread, loop, dashboard, crashed, late_ticks>>

\* start, in step mode or from a state it refuses: no thread is made.
StartWithoutThread ==
  /\ At("start") /\ mutex = "free"
  /\ step_mode \/ state \notin {"STOPPED", "PAUSED"}
  /\ state' = IF state \in {"STOPPED", "PAUSED"} THEN "STEP_MODE" ELSE state
  /\ Return
  /\ UNCHANGED <<should_stop, step_mode, mutexes, thread, loop, dashboard, crashed, late_ticks>>

\* start: a new thread is assigned to simulation_thread_.  Assigning over a
\* thread that is still joinable destroys it, and that is std::terminate.
StartThread ==
  /\ At("start") /\ mutex = "free"
  /\ ~step_mode /\ state \in {"STOPPED", "PAUSED"}
  /\ state' = "RUNNING" /\ should_stop' = FALSE /\ Return
  /\ IF thread = "none"
       THEN thread' = "alive" /\ loop' = "check" /\ late_ticks' = 0 /\ UNCHANGED crashed
       ELSE crashed' = TRUE /\ UNCHANGED <<thread, loop, late_ticks>>
  /\ UNCHANGED <<step_mode, mutexes, dashboard>>

\* pause and resume: an unlocked test, then an unlocked write.
Pause ==
  /\ At("pause")
  /\ Continue(IF state = "RUNNING" THEN <<"write_paused">> ELSE <<>>)
  /\ UNCHANGED <<controlVars, mutexes, thread, loop, dashboard, crashed, late_ticks>>

Resume ==
  /\ At("resume")
  /\ Continue(IF state = "PAUSED" THEN <<"write_running">> ELSE <<>>)
  /\ UNCHANGED <<controlVars, mutexes, thread, loop, dashboard, crashed, late_ticks>>

WriteState ==
  /\ At("write_paused") \/ At("write_running") \/ At("write_step_mode")
  /\ state' = CASE Head(calls) = "write_paused"    -> "PAUSED"
                [] Head(calls) = "write_running"   -> "RUNNING"
                [] Head(calls) = "write_step_mode" -> "STEP_MODE"
  /\ late_ticks' = IF state' = "RUNNING" THEN 0 ELSE late_ticks
  /\ Return
  /\ UNCHANGED <<should_stop, step_mode, mutexes, thread, loop, dashboard, crashed>>

\* stop: the flag, the state, and the join of the thread if there is one.
RaiseStopFlag ==
  /\ At("raise_flag")
  /\ should_stop' = TRUE /\ Return
  /\ UNCHANGED <<state, step_mode, mutexes, thread, loop, dashboard, crashed, late_ticks>>

SetStopped ==
  /\ At("set_stopped")
  /\ state' = "STOPPED" /\ Return
  /\ UNCHANGED <<should_stop, step_mode, mutexes, thread, loop, dashboard, crashed, late_ticks>>

\* Fault for the checks: the thread is let go, not waited for.
DetachThread ==
  /\ At("join") /\ thread' = "none" /\ Return
  /\ UNCHANGED <<controlVars, mutexes, loop, dashboard, crashed, late_ticks>>

Join ==
  /\ At("join") /\ thread # "alive"
  /\ thread' = "none" /\ Return
  /\ UNCHANGED <<controlVars, mutexes, loop, dashboard, crashed, late_ticks>>

\* reset, after its stop: everything else it resets is in Kernel.
Reset ==
  /\ At("reset") /\ mutex = "free"
  /\ state' = "STOPPED" /\ Return
  /\ UNCHANGED <<should_stop, step_mode, mutexes, thread, loop, dashboard, crashed, late_ticks>>

\* setSchedulingAlgorithm: needs the mutex, changes nothing kept here.
Configure ==
  /\ At("configure") /\ mutex = "free" /\ Return
  /\ UNCHANGED <<controlVars, mutexes, thread, loop, dashboard, crashed, late_ticks>>

\* setStepMode(true): the flag, then a running simulation is paused and put
\* into step mode, all unlocked.
SetStepMode ==
  /\ At("set_step_mode")
  /\ step_mode' = TRUE /\ Return
  /\ UNCHANGED <<state, should_stop, mutexes, thread, loop, dashboard, crashed, late_ticks>>

LeaveRunning ==
  /\ At("leave_running")
  /\ Continue(IF state = "RUNNING" THEN <<"pause", "write_step_mode">> ELSE <<>>)
  /\ UNCHANGED <<controlVars, mutexes, thread, loop, dashboard, crashed, late_ticks>>

StartIfStopped ==
  /\ At("start_if_stopped")
  /\ Continue(IF state = "STOPPED" THEN <<"initialize_step", "start">> ELSE <<>>)
  /\ UNCHANGED <<controlVars, mutexes, thread, loop, dashboard, crashed, late_ticks>>

\* executeStep: the state is tested before the mutex is taken.
StepTest ==
  /\ At("step")
  /\ Continue(IF state = "STEP_MODE" THEN <<"step_lock">> ELSE <<>>)
  /\ UNCHANGED <<controlVars, mutexes, thread, loop, dashboard, crashed, late_ticks>>

\* Fault for the checks: executeStep does not take the mutex.
StepUnlocked ==
  /\ At("step_lock") /\ Continue(<<"step_tick">>)
  /\ UNCHANGED <<controlVars, mutexes, thread, loop, dashboard, crashed, late_ticks>>

StepLock ==
  /\ At("step_lock") /\ mutex = "free"
  /\ mutex' = "client" /\ Continue(<<"step_tick">>)
  /\ UNCHANGED <<metrics_mutex, controlVars, thread, loop, dashboard, crashed, late_ticks>>

StepTick ==
  /\ At("step_tick")
  /\ mutex' = "free" /\ Return
  /\ UNCHANGED <<metrics_mutex, controlVars, thread, loop, dashboard, crashed, late_ticks>>

\* A std::lock_guard on metrics_mutex_, which is no recursive mutex.
UseMetrics ==
  /\ At("use_metrics") /\ metrics_mutex = "free" /\ Return
  /\ UNCHANGED <<controlVars, mutexes, thread, loop, dashboard, crashed, late_ticks>>

LockMetrics ==
  /\ At("lock_metrics") /\ metrics_mutex = "free"
  /\ metrics_mutex' = "client" /\ Return
  /\ UNCHANGED <<controlVars, mutex, thread, loop, dashboard, crashed, late_ticks>>

UnlockMetrics ==
  /\ At("unlock_metrics")
  /\ metrics_mutex' = "free" /\ Return
  /\ UNCHANGED <<controlVars, mutex, thread, loop, dashboard, crashed, late_ticks>>

-----------------------------------------------------------------------------
(* simulationLoop. *)

LoopAt(place) == ~crashed /\ loop = place

LoopTest ==
  /\ LoopAt("check")
  /\ IF should_stop \/ state = "STOPPED"
       THEN loop' = "gone" /\ thread' = "finished"
       ELSE loop' = "branch" /\ UNCHANGED thread
  /\ UNCHANGED <<controlVars, mutexes, calls, dashboard, crashed, late_ticks>>

\* RUNNING ticks, PAUSED sleeps, and STEP_MODE goes round without a pause.
LoopBranch ==
  /\ LoopAt("branch")
  /\ loop' = CASE state = "RUNNING" -> "lock"
               [] state = "PAUSED"  -> "sleep"
               [] OTHER             -> "check"
  /\ UNCHANGED <<controlVars, mutexes, thread, calls, dashboard, crashed, late_ticks>>

LoopLock ==
  /\ LoopAt("lock") /\ mutex = "free"
  /\ mutex' = "loop" /\ loop' = "tick"
  /\ late_ticks' = IF state = "RUNNING" THEN 0 ELSE late_ticks + 1
  /\ UNCHANGED <<metrics_mutex, controlVars, thread, calls, dashboard, crashed>>

LoopTick ==
  /\ LoopAt("tick") /\ metrics_mutex = "free"
  /\ mutex' = "free" /\ loop' = "sleep"
  /\ UNCHANGED <<metrics_mutex, controlVars, thread, calls, dashboard, crashed, late_ticks>>

\* Faults for the checks: the mutex is left locked; a state the enum lacks.
LoopFinishLocked ==
  /\ LoopAt("tick")
  /\ state' = "STOPPED" /\ loop' = "gone" /\ thread' = "finished"
  /\ UNCHANGED <<should_stop, step_mode, mutexes, calls, dashboard, crashed, late_ticks>>
LoopFinishUnknown ==
  /\ LoopAt("tick")
  /\ state' = "COMPLETED" /\ mutex' = "free" /\ loop' = "gone" /\ thread' = "finished"
  /\ UNCHANGED <<metrics_mutex, should_stop, step_mode, calls, dashboard, crashed, late_ticks>>

\* executeTimeStep answered that every process has completed.
LoopFinish ==
  /\ LoopAt("tick") /\ metrics_mutex = "free"
  /\ state' = "STOPPED" /\ mutex' = "free" /\ loop' = "gone" /\ thread' = "finished"
  /\ UNCHANGED <<metrics_mutex, should_stop, step_mode, calls, dashboard, crashed, late_ticks>>

\* Fault for the checks: after the first tick the state is not looked at again.
SleepAndTick ==
  /\ LoopAt("sleep") /\ loop' = IF should_stop THEN "check" ELSE "lock"
  /\ UNCHANGED <<controlVars, mutexes, thread, calls, dashboard, crashed, late_ticks>>

LoopSleep ==
  /\ LoopAt("sleep") /\ loop' = "check"
  /\ UNCHANGED <<controlVars, mutexes, thread, calls, dashboard, crashed, late_ticks>>

Loop == LoopTest \/ LoopBranch \/ LoopLock \/ LoopTick \/ LoopFinish \/ LoopSleep

-----------------------------------------------------------------------------

\* Calls that wait for the mutex.
LockingCall == Initialize \/ StartWithoutThread \/ StartThread \/ Reset \/ Configure \/ StepLock
OtherCall == \/ StopRefreshing \/ SetDashboard \/ Elsewhere \/ Pause \/ Resume \/ WriteState \/ RaiseStopFlag
             \/ SetStopped \/ Join \/ SetStepMode \/ LeaveRunning
             \/ StartIfStopped \/ StepTest \/ StepTick
             \/ UseMetrics \/ LockMetrics \/ UnlockMetrics
Crashed == crashed /\ UNCHANGED vars

Next == \/ \E h \in Handlers : Click(h)
        \/ LockingCall \/ OtherCall \/ RefreshGUI \/ Loop \/ Crashed

Spec == Init /\ [][Next]_vars

\* Both threads keep running; the loop releases the mutex for at least the
\* 100 ms it sleeps, so a client that waits for it gets it; the timer's events
\* and the clicks are served from one queue.
FairSpec == /\ Spec /\ WF_vars(Loop) /\ WF_vars(OtherCall)
            /\ SF_vars(LockingCall) /\ SF_vars(RefreshGUI)

-----------------------------------------------------------------------------
(* Properties. *)

TypeOK ==
  /\ state \in States /\ should_stop \in BOOLEAN /\ step_mode \in BOOLEAN
  /\ mutex \in {"free", "client", "loop"} /\ metrics_mutex \in {"free", "client"}
  /\ thread \in {"none", "alive", "finished"}
  /\ loop \in {"gone", "check", "branch", "lock", "tick", "sleep"}
  /\ running \in BOOLEAN /\ timer \in BOOLEAN /\ crashed \in BOOLEAN /\ late_ticks \in Nat

\* executeTimeStep never runs in both threads at once, although the state
\* that selects the thread is tested before the mutex is taken.
OneTickAtATime == ~(At("step_tick") /\ LoopAt("tick"))

\* Once stop or reset has returned, no simulation thread is in the loop:
\* nothing ticks, and nothing else is left to join.
QuietAfterStop ==
  calls = <<>> /\ should_stop /\ ~crashed => loop = "gone" /\ thread = "none"

\* When pause (or the step mode) takes the state away from RUNNING, at most
\* one more tick, the one already decided, is begun by the loop.
AtMostOneLateTick == late_ticks <= 1

\* No handler blocks the client for ever: not the join in stop, not a wait
\* for one of the mutexes.  (But see LogIsExported.)
HandlersReturn == calls # <<>> ~> (calls = <<>> \/ crashed)

\* The dashboard learns that a simulation has ended by itself.
DashboardNotices ==
  (running /\ state = "STOPPED") ~> (~running \/ state # "STOPPED" \/ crashed)

\* requirements.md 11.6: the simulation can be paused and resumed; no use of
\* the dashboard's own buttons ends the program.
NeverTerminates == ~crashed

\* design.md, property 29: in any state of the simulation, the simulation log
\* is successfully exported.  generateReport has to return for that.
LogIsExported == calls = Program("ExportLog") ~> (calls = <<>> \/ crashed)
=============================================================================
