-------------------------- MODULE SimControlProofs --------------------------
(***************************************************************************)
(* Proofs about the two threads of SimControl, for every set of handlers   *)
(* and with or without the dashboard's rules for its buttons.  They hold   *)
(* for Refresh too, whose steps are steps of SimControl.  The last two     *)
(* parts are about Refresh alone: what the timer's refreshes show.         *)
(***************************************************************************)
EXTENDS Refresh, FoldLemmas

CallNames ==
  {"initialize", "initialize_step", "start", "dashboard_on", "dashboard_off", "running_off",
   "pause", "resume", "raise_flag", "set_stopped", "join", "reset", "clear_widgets",
   "set_step_mode", "leave_running", "start_if_stopped", "step", "step_lock", "step_tick",
   "configure", "create", "use_metrics", "lock_metrics", "unlock_metrics", "stop_refreshing",
   "read_table", "read_clock", "read_running", "write_paused", "write_running",
   "write_step_mode"}

NoTick(s) == \A i \in 1 .. Len(s) : s[i] # "step_tick"

\* After the flag of a stop come two more of its calls, the second is the join.
FlagThenJoin(s) ==
  \A i \in 1 .. Len(s) : s[i] = "raise_flag" => i + 2 <= Len(s) /\ s[i + 2] = "join"

\* What a handler, or a call of a handler, may put on the list of calls.
Good(s) == s \in Seq(CallNames) /\ NoTick(s) /\ FlagThenJoin(s)

HasJoin(s) == \E i \in 1 .. Len(s) : s[i] = "join"

-----------------------------------------------------------------------------
(* The inductive invariant. *)

\* A tick of the client is the call it is at, and it has the mutex.
CallsInv ==
  /\ calls \in Seq(CallNames) /\ FlagThenJoin(calls)
  /\ \A i \in 1 .. Len(calls) : calls[i] = "step_tick" => i = 1 /\ mutex = "client"

LoopInv ==
  /\ loop = "tick" => mutex = "loop"
  /\ thread = "alive" <=> loop # "gone"

\* Between the flag of a stop and its join there is a join to come.
StopInv == should_stop /\ ~crashed => thread = "none" \/ HasJoin(calls)

\* The state was RUNNING when the loop decided to tick.
LateInv ==
  /\ late_ticks <= 1
  /\ ~crashed /\ (state = "RUNNING" \/ loop = "lock") => late_ticks = 0

IInv == TypeOK /\ CallsInv /\ LoopInv /\ StopInv /\ LateInv

-----------------------------------------------------------------------------
(* Lists of calls. *)

LEMMA GoodConcat ==
  ASSUME NEW s, NEW t, Good(s), Good(t)
  PROVE  Good(s \o t)
<1>1. s \in Seq(CallNames) /\ t \in Seq(CallNames)
  BY DEF Good
<1>2. /\ s \o t \in Seq(CallNames) /\ Len(s \o t) = Len(s) + Len(t)
      /\ Len(s) \in Nat /\ Len(t) \in Nat
      /\ \A i \in 1 .. Len(s) + Len(t) :
           (s \o t)[i] = IF i <= Len(s) THEN s[i] ELSE t[i - Len(s)]
  BY <1>1
<1>3. NoTick(s \o t)
  BY <1>2 DEF Good, NoTick
<1>4. ASSUME NEW i \in 1 .. Len(s \o t), (s \o t)[i] = "raise_flag"
      PROVE  i + 2 <= Len(s \o t) /\ (s \o t)[i + 2] = "join"
  <2>1. CASE i <= Len(s)
    <3>1. i \in 1 .. Len(s) /\ s[i] = "raise_flag"
      BY <1>2, <1>4, <2>1
    <3>2. i + 2 <= Len(s) /\ s[i + 2] = "join"
      BY <3>1 DEF Good, FlagThenJoin
    <3>3. i + 2 \in 1 .. Len(s) + Len(t)
      BY <1>2, <3>2
    <3> QED BY <1>2, <3>2, <3>3
  <2>2. CASE i > Len(s)
    <3> DEFINE j == i - Len(s)
    <3>1. j \in 1 .. Len(t) /\ t[j] = "raise_flag"
      BY <1>2, <1>4, <2>2
    <3>2. j + 2 <= Len(t) /\ t[j + 2] = "join"
      BY <3>1 DEF Good, FlagThenJoin
    <3>3. i + 2 \in 1 .. Len(s) + Len(t) /\ (i + 2) - Len(s) = j + 2 /\ ~(i + 2 <= Len(s))
      BY <1>2, <2>2, <3>2
    <3> QED BY <1>2, <3>2, <3>3
  <2> QED BY <1>2, <2>1, <2>2
<1> QED BY <1>2, <1>3, <1>4 DEF Good, FlagThenJoin

\* What is left of the calls when the one at the head has returned.
LEMMA TailOfCalls ==
  ASSUME CallsInv, calls # <<>>
  PROVE  /\ Good(Tail(calls))
         /\ HasJoin(calls) /\ Head(calls) # "join" => HasJoin(Tail(calls))
         /\ Head(calls) = "raise_flag" => HasJoin(Tail(calls))
<1> DEFINE t == Tail(calls)
<1>1. /\ t \in Seq(CallNames) /\ Len(t) = Len(calls) - 1 /\ Len(calls) \in Nat /\ Len(calls) > 0
      /\ Head(calls) = calls[1]
      /\ \A i \in 1 .. Len(t) : t[i] = calls[i + 1]
  BY DEF CallsInv
<1> HIDE DEF t
<1>2. NoTick(t)
  BY <1>1 DEF NoTick, CallsInv
<1>3. ASSUME NEW i \in 1 .. Len(t), t[i] = "raise_flag"
      PROVE  i + 2 <= Len(t) /\ t[i + 2] = "join"
  <2>1. i + 1 \in 1 .. Len(calls) /\ calls[i + 1] = "raise_flag"
    BY <1>1, <1>3
  <2>2. (i + 1) + 2 <= Len(calls) /\ calls[(i + 1) + 2] = "join"
    BY <2>1 DEF CallsInv, FlagThenJoin
  <2>3. i + 2 \in 1 .. Len(t) /\ (i + 2) + 1 = (i + 1) + 2
    BY <1>1, <2>2
  <2> QED BY <1>1, <2>2, <2>3
<1>4. ASSUME NEW i \in 1 .. Len(calls), calls[i] = "join", i # 1
      PROVE  HasJoin(t)
  <2>1. i - 1 \in 1 .. Len(t) /\ (i - 1) + 1 = i
    BY <1>1, <1>4
  <2>2. t[i - 1] = "join"
    BY <1>1, <1>4, <2>1
  <2> QED BY <2>1, <2>2 DEF HasJoin
<1>5. HasJoin(calls) /\ Head(calls) # "join" => HasJoin(t)
  BY <1>1, <1>4 DEF HasJoin
<1>6. ASSUME Head(calls) = "raise_flag" PROVE HasJoin(t)
  <2>1. 1 \in 1 .. Len(calls) /\ calls[1] = "raise_flag"
    BY <1>1, <1>6
  <2>2. 1 + 2 <= Len(calls) /\ calls[1 + 2] = "join"
    BY <2>1 DEF CallsInv, FlagThenJoin
  <2>3. 3 \in 1 .. Len(calls) /\ calls[3] = "join"
    BY <1>1, <2>2
  <2> QED BY <1>4, <2>3
<1> QED BY <1>1, <1>2, <1>3, <1>5, <1>6 DEF Good, FlagThenJoin, t

LEMMA JoinStays ==
  ASSUME NEW s \in Seq(CallNames), NEW t \in Seq(CallNames), HasJoin(t)
  PROVE  HasJoin(s \o t)
<1>1. PICK i \in 1 .. Len(t) : t[i] = "join"
  BY DEF HasJoin
<1>2. /\ Len(s \o t) = Len(s) + Len(t) /\ Len(s) \in Nat /\ Len(t) \in Nat
      /\ i + Len(s) \in 1 .. Len(s) + Len(t) /\ (s \o t)[i + Len(s)] = t[i]
  BY <1>1
<1> QED BY <1>1, <1>2 DEF HasJoin

LEMMA GoodPieces ==
  /\ Good(<<>>) /\ Good(<<"write_paused">>) /\ Good(<<"write_running">>)
  /\ Good(<<"pause", "write_step_mode">>) /\ Good(<<"initialize_step", "start">>)
  /\ Good(<<"step_lock">>)
BY DEF Good, NoTick, FlagThenJoin, CallNames

LEMMA GoodHandlers ==
  /\ Good(UpdateAllWidgets) /\ Good(Refresh)
  /\ \A h \in HandlerNames : Good(Program(h))
<1> USE DEF CallNames
<1>1. Good(UpdateAllWidgets)
  BY DEF Good, NoTick, FlagThenJoin, UpdateAllWidgets
<1>2. Good(Refresh)
  <2>1. Good(<<"stop_refreshing">>)
    BY DEF Good, NoTick, FlagThenJoin
  <2> QED BY <1>1, <2>1, GoodConcat DEF Refresh
<1>3. /\ Good(Program("Start")) /\ Good(Program("Pause")) /\ Good(Program("Resume"))
      /\ Good(Program("Configure"))
  BY DEF Good, NoTick, FlagThenJoin, Program
<1>4. Good(Program("Stop"))
  <2>1. Good(<<"raise_flag", "set_stopped", "join", "dashboard_off">>)
    BY DEF Good, NoTick, FlagThenJoin
  <2> QED BY <1>1, <2>1, GoodConcat DEF Program
<1>5. Good(Program("Reset"))
  BY DEF Good, NoTick, FlagThenJoin, Program
<1>6. Good(Program("Step"))
  <2>1. Good(<<"set_step_mode", "leave_running", "start_if_stopped", "step">>)
    BY DEF Good, NoTick, FlagThenJoin
  <2> QED BY <1>1, <2>1, GoodConcat DEF Program
<1>7. Good(Program("Add"))
  <2>1. Good(<<"create", "use_metrics">>)
    BY DEF Good, NoTick, FlagThenJoin
  <2> QED BY <1>1, <2>1, GoodConcat DEF Program
<1>8. Good(<<"use_metrics">>) /\ Good(<<"lock_metrics", "unlock_metrics">>)
      /\ Good(<<"lock_metrics">>) /\ Good(<<"unlock_metrics">>)
  BY DEF Good, NoTick, FlagThenJoin
<1>9. Good(Program("ExportMetrics"))
  BY <1>8, GoodConcat DEF Program, RecordMemoryStats, CalculateMetrics
<1>10. Good(Program("ExportLog"))
  <2>1. Good(<<"lock_metrics">> \o CalculateMetrics)
    BY <1>8, GoodConcat DEF CalculateMetrics
  <2>2. Good(<<"lock_metrics">> \o CalculateMetrics \o <<"unlock_metrics">>)
    BY <1>8, <2>1, GoodConcat
  <2> QED BY <2>2 DEF Program
<1> QED BY <1>1, <1>2, <1>3, <1>4, <1>5, <1>6, <1>7, <1>9, <1>10 DEF HandlerNames

-----------------------------------------------------------------------------
(* The steps. *)

\* A call of the client takes itself off the list, and may put others there.
LEMMA ClientCalls ==
  ASSUME IInv, LockingCall \/ OtherCall, ~StepLock
  PROVE  /\ ~crashed /\ calls # <<>> /\ Good(calls')
         /\ HasJoin(calls) /\ ~Join => HasJoin(calls')
         /\ RaiseStopFlag => HasJoin(calls')
<1>1. /\ ~crashed /\ calls # <<>>
      /\ \/ calls' = Tail(calls)
         \/ \E more : Good(more) /\ calls' = more \o Tail(calls) /\ ~RaiseStopFlag
      /\ Head(calls) = "join" => Join
      /\ RaiseStopFlag => Head(calls) = "raise_flag" /\ calls' = Tail(calls)
  <2> USE DEF At, Return, Continue
  <2>1. CASE \/ Initialize \/ StartWithoutThread \/ StartThread \/ Reset \/ Configure
             \/ StopRefreshing \/ SetDashboard \/ Elsewhere \/ WriteState \/ SetStopped
    BY <2>1 DEF Initialize, StartWithoutThread, StartThread, Reset, Configure, StopRefreshing,
                SetDashboard, Elsewhere, WriteState, SetStopped, RaiseStopFlag
  <2>2. CASE \/ RaiseStopFlag \/ Join \/ SetStepMode \/ StepTick
             \/ UseMetrics \/ LockMetrics \/ UnlockMetrics
    BY <2>2 DEF RaiseStopFlag, Join, SetStepMode, StepTick, UseMetrics, LockMetrics, UnlockMetrics
  <2>3. CASE Pause \/ Resume \/ LeaveRunning \/ StartIfStopped \/ StepTest
    BY <2>3, GoodPieces
       DEF Pause, Resume, LeaveRunning, StartIfStopped, StepTest, RaiseStopFlag
  <2> QED BY <2>1, <2>2, <2>3 DEF LockingCall, OtherCall
<1>2. /\ Good(Tail(calls))
      /\ HasJoin(calls) /\ Head(calls) # "join" => HasJoin(Tail(calls))
      /\ Head(calls) = "raise_flag" => HasJoin(Tail(calls))
  BY <1>1, TailOfCalls DEF IInv
<1>3. CASE calls' = Tail(calls)
  BY <1>1, <1>2, <1>3
<1>4. ASSUME NEW more, Good(more), calls' = more \o Tail(calls), ~RaiseStopFlag
      PROVE  Good(calls') /\ (HasJoin(calls) /\ ~Join => HasJoin(calls'))
  <2>1. Good(calls')
    BY <1>2, <1>4, GoodConcat
  <2>2. more \in Seq(CallNames) /\ Tail(calls) \in Seq(CallNames)
    BY <1>2, <1>4 DEF Good
  <2> QED BY <1>1, <1>2, <1>4, <2>1, <2>2, JoinStays
<1> QED BY <1>1, <1>3, <1>4

LEMMA StepLockCalls ==
  ASSUME IInv, StepLock
  PROVE  /\ CallsInv' /\ mutex = "free" /\ ~crashed
         /\ HasJoin(calls) => HasJoin(calls')
<1> DEFINE t == Tail(calls)
           tick == <<"step_tick">>
<1>1. /\ ~crashed /\ calls # <<>> /\ Head(calls) = "step_lock"
      /\ calls' = tick \o t /\ mutex = "free" /\ mutex' = "client"
  BY DEF StepLock, At, Continue
<1>2. Good(t) /\ (HasJoin(calls) => HasJoin(t))
  BY <1>1, TailOfCalls DEF IInv
<1>3. /\ tick \in Seq(CallNames) /\ t \in Seq(CallNames) /\ Len(t) \in Nat
      /\ Len(tick) = 1 /\ tick[1] = "step_tick"
  BY <1>2 DEF Good, CallNames
<1> HIDE DEF t, tick
<1>4. HasJoin(calls) => HasJoin(calls')
  BY <1>1, <1>2, <1>3, JoinStays
<1>5. /\ calls' \in Seq(CallNames) /\ Len(calls') = Len(t) + 1
      /\ calls'[1] = "step_tick"
      /\ \A i \in 2 .. Len(t) + 1 : calls'[i] = t[i - 1] /\ i - 1 \in 1 .. Len(t)
  <2>1. /\ tick \o t \in Seq(CallNames) /\ Len(tick \o t) = 1 + Len(t)
        /\ \A i \in 1 .. 1 + Len(t) :
             (tick \o t)[i] = IF i <= 1 THEN tick[i] ELSE t[i - 1]
    <3>1. /\ tick \o t \in Seq(CallNames) /\ Len(tick \o t) = Len(tick) + Len(t)
          /\ \A i \in 1 .. Len(tick) + Len(t) :
               (tick \o t)[i] = IF i <= Len(tick) THEN tick[i] ELSE t[i - Len(tick)]
      <4>1. ASSUME NEW u \in Seq(CallNames), NEW v \in Seq(CallNames)
            PROVE  /\ u \o v \in Seq(CallNames) /\ Len(u \o v) = Len(u) + Len(v)
                   /\ \A i \in 1 .. Len(u) + Len(v) :
                        (u \o v)[i] = IF i <= Len(u) THEN u[i] ELSE v[i - Len(u)]
        OBVIOUS
      <4> QED BY <1>3, <4>1
    <3> QED BY <1>3, <3>1
  <2>2. 1 \in 1 .. 1 + Len(t) /\ (tick \o t)[1] = tick[1]
    BY <1>3, <2>1
  <2>3. ASSUME NEW i \in 2 .. Len(t) + 1
        PROVE  (tick \o t)[i] = t[i - 1] /\ i - 1 \in 1 .. Len(t)
    <3>1. i \in 1 .. 1 + Len(t) /\ ~(i <= 1) /\ i - 1 \in 1 .. Len(t)
      BY <1>3
    <3> QED BY <2>1, <3>1
  <2> QED BY <1>1, <1>3, <2>1, <2>2, <2>3
<1>6. ASSUME NEW i \in 1 .. Len(calls'), calls'[i] = "raise_flag"
      PROVE  i + 2 <= Len(calls') /\ calls'[i + 2] = "join"
  <2>1. i \in 2 .. Len(t) + 1
    BY <1>3, <1>5, <1>6
  <2>2. i - 1 \in 1 .. Len(t) /\ t[i - 1] = "raise_flag"
    BY <1>5, <1>6, <2>1
  <2>3. (i - 1) + 2 <= Len(t) /\ t[(i - 1) + 2] = "join"
    BY <1>2, <2>2 DEF Good, FlagThenJoin
  <2>4. i + 2 \in 2 .. Len(t) + 1 /\ (i + 2) - 1 = (i - 1) + 2
    BY <1>3, <2>1, <2>3
  <2> QED BY <1>3, <1>5, <2>3, <2>4
<1>7. ASSUME NEW i \in 1 .. Len(calls'), calls'[i] = "step_tick"
      PROVE  i = 1
  <2>1. CASE i \in 2 .. Len(t) + 1
    BY <1>2, <1>5, <1>7, <2>1 DEF Good, NoTick
  <2> QED BY <1>3, <1>5, <2>1
<1> QED BY <1>1, <1>4, <1>5, <1>6, <1>7 DEF CallsInv, FlagThenJoin

LEMMA CallsInvStep ==
  ASSUME IInv, [Next]_vars
  PROVE  CallsInv'
<1>1. ASSUME Good(calls') PROVE CallsInv'
  BY <1>1 DEF Good, NoTick, CallsInv
<1>2. ASSUME calls' = calls, mutex' = mutex \/ mutex # "client" PROVE CallsInv'
  BY <1>2 DEF IInv, CallsInv, FlagThenJoin
<1>3. ASSUME NEW h \in Handlers, Click(h) PROVE Good(calls')
  BY <1>3, GoodHandlers, HandlersAssumption DEF Click
<1>4. CASE RefreshGUI
  BY <1>1, <1>4, GoodHandlers DEF RefreshGUI
<1>5. CASE LockingCall \/ OtherCall
  BY <1>1, <1>5, ClientCalls, StepLockCalls
<1>6. CASE Loop
  BY <1>2, <1>6 DEF Loop, LoopTest, LoopBranch, LoopLock, LoopTick, LoopFinish, LoopSleep,
                    LoopAt, mutexes, IInv, LoopInv
<1>7. CASE Crashed \/ UNCHANGED vars
  BY <1>2, <1>7 DEF Crashed, vars
<1> QED BY <1>1, <1>3, <1>4, <1>5, <1>6, <1>7 DEF Next

LEMMA TypeOKStep ==
  ASSUME IInv, [Next]_vars
  PROVE  TypeOK'
<1> USE DEF IInv, TypeOK, States, controlVars, mutexes, dashboard
<1>1. ASSUME NEW h \in Handlers, Click(h) PROVE TypeOK'
  BY <1>1 DEF Click
<1>2. CASE RefreshGUI \/ Crashed \/ UNCHANGED vars
  BY <1>2 DEF RefreshGUI, Crashed, vars
<1>3. CASE StartWithoutThread \/ StartThread \/ Reset \/ Configure \/ StepLock
  <2>1. CASE StartWithoutThread
    BY <2>1 DEF StartWithoutThread
  <2>2. CASE StartThread
    <3>1. crashed' \in BOOLEAN /\ should_stop' \in BOOLEAN /\ state' \in States
      BY <2>2 DEF StartThread
    <3>2. late_ticks' \in Nat
      BY <2>2 DEF StartThread
    <3>3. /\ thread' \in {"none", "alive", "finished"}
          /\ loop' \in {"gone", "check", "branch", "lock", "tick", "sleep"}
      BY <2>2 DEF StartThread
    <3> QED BY <2>2, <3>1, <3>2, <3>3 DEF StartThread
  <2>3. CASE Reset \/ Configure \/ StepLock
    BY <2>3 DEF Reset, Configure, StepLock
  <2> QED BY <1>3, <2>1, <2>2, <2>3
<1>4. CASE Initialize
  BY <1>4 DEF Initialize
<1>5. CASE WriteState
  BY <1>5 DEF WriteState, At
<1>6. CASE StopRefreshing \/ SetDashboard \/ Elsewhere
  <2>1. running' \in BOOLEAN
    BY <1>6 DEF StopRefreshing, SetDashboard, Elsewhere, At
  <2>2. timer' \in BOOLEAN
    BY <1>6 DEF StopRefreshing, SetDashboard, Elsewhere, At
  <2> QED BY <1>6, <2>1, <2>2 DEF StopRefreshing, SetDashboard, Elsewhere
<1>7. CASE RaiseStopFlag \/ SetStopped \/ Join \/ SetStepMode \/ StepTick
  BY <1>7 DEF RaiseStopFlag, SetStopped, Join, SetStepMode, StepTick
<1>8. CASE Pause \/ Resume \/ LeaveRunning \/ StartIfStopped \/ StepTest
  BY <1>8 DEF Pause, Resume, LeaveRunning, StartIfStopped, StepTest
<1>9. CASE UseMetrics \/ LockMetrics \/ UnlockMetrics
  BY <1>9 DEF UseMetrics, LockMetrics, UnlockMetrics
<1>10. CASE LoopBranch
  <2>1. loop' \in {"lock", "sleep", "check"}
    BY <1>10 DEF LoopBranch
  <2> QED BY <1>10, <2>1 DEF LoopBranch
<1>11. CASE LoopTest \/ LoopLock \/ LoopTick \/ LoopFinish \/ LoopSleep
  BY <1>11 DEF LoopTest, LoopLock, LoopTick, LoopFinish, LoopSleep
<1> QED
  BY <1>1, <1>2, <1>3, <1>4, <1>5, <1>6, <1>7, <1>8, <1>9, <1>10, <1>11
     DEF Next, LockingCall, OtherCall, Loop

LEMMA LoopInvStep ==
  ASSUME IInv, [Next]_vars
  PROVE  LoopInv'
<1> USE DEF IInv, LoopInv, controlVars, mutexes
<1>1. CASE UNCHANGED <<mutex, loop, thread>>
  BY <1>1
<1>2. CASE StartThread
  BY <1>2 DEF StartThread
<1>3. CASE StepLock
  BY <1>3 DEF StepLock
<1>4. CASE StepTick
  <2>1. mutex = "client"
    BY <1>4 DEF StepTick, At, CallsInv
  <2> QED BY <1>4, <2>1 DEF StepTick
<1>5. CASE Join
  BY <1>5 DEF Join
<1>6. CASE LoopBranch
  <2>1. loop' \in {"lock", "sleep", "check"}
    BY <1>6 DEF LoopBranch
  <2> QED BY <1>6, <2>1 DEF LoopBranch, LoopAt
<1>7. CASE LoopTest \/ LoopLock \/ LoopTick \/ LoopFinish \/ LoopSleep
  BY <1>7 DEF LoopTest, LoopLock, LoopTick, LoopFinish, LoopSleep, LoopAt
<1>8. CASE \/ \E h \in Handlers : Click(h)
           \/ RefreshGUI \/ Crashed \/ UNCHANGED vars
  BY <1>1, <1>8 DEF Click, RefreshGUI, Crashed, vars
<1>9. CASE \/ Initialize \/ StartWithoutThread \/ Reset \/ Configure
           \/ StopRefreshing \/ SetDashboard \/ Elsewhere \/ Pause \/ Resume \/ WriteState
  BY <1>1, <1>9 DEF Initialize, StartWithoutThread, Reset, Configure, StopRefreshing,
                    SetDashboard, Elsewhere, Pause, Resume, WriteState
<1>10. CASE \/ RaiseStopFlag \/ SetStopped \/ SetStepMode \/ LeaveRunning \/ StartIfStopped
            \/ StepTest \/ UseMetrics \/ LockMetrics \/ UnlockMetrics
  BY <1>1, <1>10 DEF RaiseStopFlag, SetStopped, SetStepMode, LeaveRunning, StartIfStopped,
                     StepTest, UseMetrics, LockMetrics, UnlockMetrics
<1> QED
  BY <1>2, <1>3, <1>4, <1>5, <1>6, <1>7, <1>8, <1>9, <1>10
     DEF Next, LockingCall, OtherCall, Loop

LEMMA StopInvStep ==
  ASSUME IInv, [Next]_vars
  PROVE  StopInv'
<1> USE DEF IInv, StopInv, controlVars, mutexes
<1>1. CASE LockingCall \/ OtherCall
  <2>1. HasJoin(calls) /\ ~Join => HasJoin(calls')
    BY <1>1, ClientCalls, StepLockCalls DEF StepLock, Join, At
  <2>2. CASE Join
    BY <2>2 DEF Join
  <2>3. CASE RaiseStopFlag
    BY <2>3, ClientCalls DEF OtherCall, RaiseStopFlag, StepLock, At
  <2>4. CASE StartThread
    <3>1. should_stop' = FALSE
      BY <2>4 DEF StartThread
    <3> QED BY <3>1
  <2>5. CASE UNCHANGED <<should_stop, thread, crashed>> /\ ~Join
    BY <2>1, <2>5
  <2>6. CASE \/ Initialize \/ StartWithoutThread \/ Reset \/ Configure \/ StepLock
             \/ StopRefreshing \/ SetDashboard \/ Elsewhere \/ Pause \/ Resume \/ WriteState
    BY <2>2, <2>5, <2>6
       DEF Initialize, StartWithoutThread, Reset, Configure, StepLock, StopRefreshing,
           SetDashboard, Elsewhere, Pause, Resume, WriteState
  <2>7. CASE \/ SetStopped \/ SetStepMode \/ LeaveRunning \/ StartIfStopped
             \/ StepTest \/ StepTick \/ UseMetrics \/ LockMetrics \/ UnlockMetrics
    BY <2>2, <2>5, <2>7 DEF SetStopped, SetStepMode, LeaveRunning, StartIfStopped,
                      StepTest, StepTick, UseMetrics, LockMetrics, UnlockMetrics
  <2> QED BY <1>1, <2>2, <2>3, <2>4, <2>6, <2>7 DEF LockingCall, OtherCall
<1>2. CASE \/ \E h \in Handlers : Click(h)
           \/ RefreshGUI
  <2>1. calls = <<>> /\ UNCHANGED <<should_stop, thread, crashed>>
    BY <1>2 DEF Click, RefreshGUI
  <2>2. ~HasJoin(calls)
    BY <2>1 DEF HasJoin
  <2> QED BY <2>1, <2>2
<1>3. CASE Loop
  <2>1. UNCHANGED <<should_stop, crashed, calls>>
    BY <1>3 DEF Loop, LoopTest, LoopBranch, LoopLock, LoopTick, LoopFinish, LoopSleep
  <2>2. thread = "none" => thread' = "none"
    BY <1>3 DEF Loop, LoopTest, LoopBranch, LoopLock, LoopTick, LoopFinish, LoopSleep,
                LoopAt, LoopInv
  <2> QED BY <2>1, <2>2 DEF HasJoin
<1>4. CASE Crashed \/ UNCHANGED vars
  BY <1>4 DEF Crashed, vars, HasJoin
<1> QED BY <1>1, <1>2, <1>3, <1>4 DEF Next

LEMMA LateInvStep ==
  ASSUME IInv, [Next]_vars
  PROVE  LateInv'
<1> USE DEF IInv, LateInv, TypeOK, controlVars, mutexes
<1>1. CASE UNCHANGED <<state, crashed, loop, late_ticks>>
  BY <1>1
<1>2. CASE StartThread
  <2>1. ~crashed /\ state' = "RUNNING"
    BY <1>2 DEF StartThread, At
  <2>2. crashed' => late_ticks' = late_ticks
    BY <1>2 DEF StartThread, At
  <2>3. ~crashed' => late_ticks' = 0
    BY <1>2 DEF StartThread, At
  <2> QED BY <2>1, <2>2, <2>3
<1>3. CASE WriteState
  <2>1. /\ UNCHANGED <<crashed, loop>>
        /\ late_ticks' = IF state' = "RUNNING" THEN 0 ELSE late_ticks
    BY <1>3 DEF WriteState
  <2> QED BY <2>1
<1>4. CASE StartWithoutThread \/ SetStopped \/ Reset
  BY <1>4 DEF StartWithoutThread, SetStopped, Reset
<1>5. CASE LoopBranch
  <2>1. loop' = "lock" => state = "RUNNING"
    BY <1>5 DEF LoopBranch
  <2> QED BY <1>5, <2>1 DEF LoopBranch, LoopAt
<1>6. CASE LoopLock
  BY <1>6 DEF LoopLock, LoopAt
<1>7. CASE LoopTest \/ LoopTick \/ LoopFinish \/ LoopSleep
  BY <1>7 DEF LoopTest, LoopTick, LoopFinish, LoopSleep, LoopAt
<1>8. CASE \/ \E h \in Handlers : Click(h)
           \/ RefreshGUI \/ Crashed \/ UNCHANGED vars
  BY <1>1, <1>8 DEF Click, RefreshGUI, Crashed, vars
<1>9. CASE \/ Initialize \/ Configure \/ StepLock
           \/ StopRefreshing \/ SetDashboard \/ Elsewhere \/ Pause \/ Resume
  BY <1>1, <1>9 DEF Initialize, Configure, StepLock, StopRefreshing, SetDashboard, Elsewhere,
                    Pause, Resume
<1>10. CASE \/ RaiseStopFlag \/ Join \/ SetStepMode \/ LeaveRunning \/ StartIfStopped
            \/ StepTest \/ StepTick \/ UseMetrics \/ LockMetrics \/ UnlockMetrics
  BY <1>1, <1>10 DEF RaiseStopFlag, Join, SetStepMode, LeaveRunning, StartIfStopped,
                     StepTest, StepTick, UseMetrics, LockMetrics, UnlockMetrics
<1> QED
  BY <1>2, <1>3, <1>4, <1>5, <1>6, <1>7, <1>8, <1>9, <1>10
     DEF Next, LockingCall, OtherCall, Loop

LEMMA IInvHolds == Spec => []IInv
<1>1. ASSUME Init PROVE IInv
  <2>1. TypeOK
    BY <1>1 DEF Init, TypeOK, States
  <2>2. CallsInv
    BY <1>1 DEF Init, CallsInv, FlagThenJoin
  <2>3. LoopInv /\ StopInv /\ LateInv
    BY <1>1 DEF Init, LoopInv, StopInv, LateInv
  <2> QED BY <2>1, <2>2, <2>3 DEF IInv
<1>2. IInv /\ [Next]_vars => IInv'
  BY CallsInvStep, TypeOKStep, LoopInvStep, StopInvStep, LateInvStep DEF IInv
<1> QED BY <1>1, <1>2, PTL DEF Spec

-----------------------------------------------------------------------------
(* The theorems. *)

\* What the controller's atomics, mutexes and thread are keeps its type.
THEOREM ThreadsTypeCorrect == Spec => []TypeOK
BY IInvHolds, PTL DEF IInv

\* executeStep, which tests the state before it takes the mutex, and the loop
\* never run executeTimeStep at once: the tick that goes on has the mutex.
THEOREM OneTickAlways == Spec => []OneTickAtATime
<1>1. IInv => OneTickAtATime
  <2> SUFFICES ASSUME IInv, At("step_tick"), LoopAt("tick") PROVE FALSE
    BY DEF OneTickAtATime
  <2>1. 1 \in 1 .. Len(calls) /\ calls[1] = "step_tick"
    BY DEF At, IInv, CallsInv
  <2>2. mutex = "client" /\ mutex = "loop"
    BY <2>1 DEF IInv, CallsInv, LoopInv, LoopAt
  <2> QED BY <2>2
<1> QED BY <1>1, IInvHolds, PTL

\* When a stop or a reset has returned, the thread is out of the loop and
\* joined: the flag is raised by nothing that does not come to a join.
THEOREM QuietAfterStopAlways == Spec => []QuietAfterStop
<1>1. IInv => QuietAfterStop
  BY DEF IInv, QuietAfterStop, StopInv, LoopInv, HasJoin, TypeOK
<1> QED BY <1>1, IInvHolds, PTL

\* A pause, which takes no mutex, is late by one tick at most: the loop looks
\* at the state again after each.
THEOREM AtMostOneLateTickAlways == Spec => []AtMostOneLateTick
<1>1. IInv => AtMostOneLateTick
  BY DEF IInv, LateInv, AtMostOneLateTick
<1> QED BY <1>1, IInvHolds, PTL

LEMMA RStepsAreSteps == [RNext]_rvars => [Next]_vars
<1>1. ASSUME RLoop PROVE [Next]_vars
  BY <1>1 DEF RLoop, TickGoesOn, Loop, Next
<1>2. ASSUME RLockingCall PROVE Next
  BY <1>2 DEF RLockingCall, LockingCall, Next
<1>3. ASSUME ROtherCall PROVE [Next]_vars
  BY <1>3 DEF ROtherCall, TickGoesOn, ElsewhereHere, OtherCall, Next
<1> QED BY <1>1, <1>2, <1>3 DEF RNext, RefreshBegins, Next, rvars

\* A machine that is simulated and widgets that read it in the middle of its
\* ticks give the two threads no step they do not have without.
THEOREM RefreshIsSimControl == RSpec => Spec
<1>1. RInit => Init
  BY DEF RInit
<1> QED BY <1>1, RStepsAreSteps, PTL DEF RSpec, Spec

-----------------------------------------------------------------------------
(* The widgets.  A handler that changes the machine, or turns the timer off,  *)
(* reads the machine afterwards; what is on its list of calls says so.        *)

Disturbing == {"create", "reset", "step", "step_lock", "step_tick", "stop_refreshing",
               "dashboard_off"}
Showing == {"read_table", "clear_widgets"}
Starting == {"start", "start_if_stopped"}
Stopping == {"reset", "dashboard_off"}

\* A call of the set comes after the i-th.
Later(s, i, set) == \E j \in 1 .. Len(s) : j > i /\ s[j] \in set
Has(s, call) == \E i \in 1 .. Len(s) : s[i] = call

WidgetsFollow(s) == \A i \in 1 .. Len(s) : s[i] \in Disturbing => Later(s, i, Showing)
RunningIsRead(s) ==
  \A i \in 1 .. Len(s) :
    s[i] = "read_clock" => i + 1 \in 1 .. Len(s) /\ s[i + 1] = "read_running"
JoinFollows(s) == \A i \in 1 .. Len(s) : s[i] = "set_stopped" => Later(s, i, {"join"})

\* What a start, and the initialize before it, are on a list with.
TimerFollows(s) ==
  Has(s, "initialize") =>
    \A i \in 1 .. Len(s) : s[i] \in Starting => Later(s, i, {"dashboard_on"})
NoStopWithStart(s) ==
  \A i, j \in 1 .. Len(s) : ~(s[i] \in Starting /\ s[j] \in Stopping)
NoStopInRefresh(s) ==
  \A i, j \in 1 .. Len(s) : ~(s[i] = "stop_refreshing" /\ s[j] = "join")

Planned(s) ==
  /\ WidgetsFollow(s) /\ RunningIsRead(s) /\ JoinFollows(s)
  /\ TimerFollows(s) /\ NoStopWithStart(s) /\ NoStopInRefresh(s)

\* The calls a call puts on the list in its own place.
MoreOf(call) ==
  CASE call = "pause"            -> {"write_paused"}
    [] call = "resume"           -> {"write_running"}
    [] call = "leave_running"    -> {"pause", "write_step_mode"}
    [] call = "start_if_stopped" -> {"initialize_step", "start"}
    [] call = "step"             -> {"step_lock"}
    [] call = "step_lock"        -> {"step_tick"}
    [] OTHER                     -> {}

\* From s to t: the head has returned, and k calls are in its place.
GoesBy(s, t, k) ==
  /\ s # <<>> /\ k \in Nat /\ Len(s) \in Nat /\ Len(s) > 0 /\ Len(t) = Len(s) - 1 + k
  /\ \A i \in 1 .. Len(t) : i <= k => t[i] \in MoreOf(s[1])
  /\ \A i \in 2 .. Len(s) : t[i + k - 1] = s[i]

\* Every call on t was on s, or is one that the head of s has put there.
LEMMA CallsHaveOrigin ==
  ASSUME NEW s, NEW t, NEW k, GoesBy(s, t, k)
  PROVE  /\ Len(s) \in Nat /\ Len(s) > 0 /\ Len(t) \in Nat /\ 1 \in 1 .. Len(s)
         /\ \A i \in 1 .. Len(t) :
              \/ i <= k /\ t[i] \in MoreOf(s[1])
              \/ i > k /\ i - k + 1 \in 2 .. Len(s) /\ t[i] = s[i - k + 1]
         /\ \A i \in 2 .. Len(s) :
              i + k - 1 \in 1 .. Len(t) /\ i + k - 1 > k /\ t[i + k - 1] = s[i]
<1>1. \A i \in 1 .. Len(t) : i > k => i - k + 1 \in 2 .. Len(s) /\ (i - k + 1) + k - 1 = i
  BY DEF GoesBy
<1> QED BY <1>1 DEF GoesBy

\* What came after a call comes after it, and after what has taken the place
\* of the head.
LEMMA LaterStays ==
  ASSUME NEW s, NEW t, NEW k, GoesBy(s, t, k), NEW set, NEW i \in 1 .. Len(t),
         NEW o \in 1 .. Len(s), Later(s, o, set),
         (i <= k /\ o = 1) \/ (i > k /\ o = i - k + 1)
  PROVE  Later(t, i, set)
<1>1. PICK j \in 1 .. Len(s) : j > o /\ s[j] \in set
  BY DEF Later
<1>2. j \in 2 .. Len(s) /\ k \in Nat
  BY <1>1, CallsHaveOrigin DEF GoesBy
<1>3. j + k - 1 \in 1 .. Len(t) /\ j + k - 1 > i /\ t[j + k - 1] = s[j]
  BY <1>1, <1>2, CallsHaveOrigin
<1> QED BY <1>1, <1>3 DEF Later

LEMMA HasStays ==
  ASSUME NEW s, NEW t, NEW k, GoesBy(s, t, k), NEW call
  PROVE  /\ Has(s, call) /\ s[1] # call => Has(t, call)
         /\ Has(t, call) => Has(s, call) \/ call \in MoreOf(s[1])
<1>0. /\ Len(s) \in Nat /\ Len(t) \in Nat /\ k \in Nat /\ 1 \in 1 .. Len(s)
      /\ \A i \in 1 .. Len(t) :
           \/ i <= k /\ t[i] \in MoreOf(s[1])
           \/ i > k /\ i - k + 1 \in 2 .. Len(s) /\ t[i] = s[i - k + 1]
  BY CallsHaveOrigin DEF GoesBy
<1>1. ASSUME Has(s, call), s[1] # call PROVE Has(t, call)
  <2>1. PICK j \in 1 .. Len(s) : s[j] = call
    BY <1>1 DEF Has
  <2>2. j \in 2 .. Len(s)
    BY <1>1, <2>1, CallsHaveOrigin
  <2> QED BY <2>1, <2>2, CallsHaveOrigin DEF Has
<1>2. ASSUME Has(t, call) PROVE Has(s, call) \/ call \in MoreOf(s[1])
  <2>1. PICK i \in 1 .. Len(t) : t[i] = call
    BY <1>2 DEF Has
  <2>2. CASE i <= k
    BY <1>0, <2>1, <2>2
  <2>3. CASE i > k
    <3>1. i - k + 1 \in 1 .. Len(s) /\ s[i - k + 1] = call
      BY <1>0, <2>1, <2>3
    <3> QED BY <3>1 DEF Has
  <2> QED BY <1>0, <2>2, <2>3
<1> QED BY <1>1, <1>2

\* A plan stays one while it is carried out.
LEMMA PlannedGoesOn ==
  ASSUME NEW s, NEW t, NEW k, GoesBy(s, t, k), Planned(s)
  PROVE  Planned(t)
<1>0. /\ Len(s) \in Nat /\ Len(t) \in Nat /\ k \in Nat /\ 1 \in 1 .. Len(s)
      /\ \A i \in 1 .. Len(t) :
           \/ i <= k /\ t[i] \in MoreOf(s[1])
           \/ i > k /\ i - k + 1 \in 2 .. Len(s) /\ t[i] = s[i - k + 1]
      /\ \A i \in 2 .. Len(s) : i + k - 1 \in 1 .. Len(t) /\ i + k - 1 > k /\ t[i + k - 1] = s[i]
  BY CallsHaveOrigin DEF GoesBy
<1>1. WidgetsFollow(t)
  <2> SUFFICES ASSUME NEW i \in 1 .. Len(t), t[i] \in Disturbing
               PROVE  Later(t, i, Showing)
    BY DEF WidgetsFollow
  <2>1. CASE i <= k /\ t[i] \in MoreOf(s[1])
    <3>1. s[1] \in Disturbing
      BY <2>1 DEF MoreOf, Disturbing
    <3> QED BY <1>0, <2>1, <3>1, LaterStays DEF Planned, WidgetsFollow
  <2>2. CASE i > k /\ i - k + 1 \in 2 .. Len(s) /\ t[i] = s[i - k + 1]
    <3>1. i - k + 1 \in 1 .. Len(s) /\ Later(s, i - k + 1, Showing)
      BY <1>0, <2>2 DEF Planned, WidgetsFollow
    <3> QED BY <2>2, <3>1, LaterStays
  <2> QED BY <1>0, <2>1, <2>2
<1>2. RunningIsRead(t)
  <2> SUFFICES ASSUME NEW i \in 1 .. Len(t), t[i] = "read_clock"
               PROVE  i + 1 \in 1 .. Len(t) /\ t[i + 1] = "read_running"
    BY DEF RunningIsRead
  <2>1. i > k /\ i - k + 1 \in 2 .. Len(s) /\ s[i - k + 1] = "read_clock"
    BY <1>0 DEF MoreOf
  <2>2. (i - k + 1) + 1 \in 1 .. Len(s) /\ s[(i - k + 1) + 1] = "read_running"
    BY <1>0, <2>1 DEF Planned, RunningIsRead
  <2>3. (i - k + 1) + 1 \in 2 .. Len(s) /\ ((i - k + 1) + 1) + k - 1 = i + 1
    BY <1>0, <2>1, <2>2
  <2> QED BY <1>0, <2>2, <2>3
<1>3. JoinFollows(t)
  <2> SUFFICES ASSUME NEW i \in 1 .. Len(t), t[i] = "set_stopped"
               PROVE  Later(t, i, {"join"})
    BY DEF JoinFollows
  <2>1. i > k /\ i - k + 1 \in 2 .. Len(s) /\ s[i - k + 1] = "set_stopped"
    BY <1>0 DEF MoreOf
  <2>2. i - k + 1 \in 1 .. Len(s) /\ Later(s, i - k + 1, {"join"})
    BY <1>0, <2>1 DEF Planned, JoinFollows
  <2> QED BY <2>1, <2>2, LaterStays
<1>4. TimerFollows(t)
  <2> SUFFICES ASSUME Has(t, "initialize"), NEW i \in 1 .. Len(t), t[i] \in Starting
               PROVE  Later(t, i, {"dashboard_on"})
    BY DEF TimerFollows
  <2>0. "initialize" \notin MoreOf(s[1])
    BY DEF MoreOf
  <2>1. Has(s, "initialize")
    BY <2>0, HasStays
  <2>2. CASE i <= k /\ t[i] \in MoreOf(s[1])
    <3>1. s[1] \in Starting
      BY <2>2 DEF MoreOf, Starting
    <3> QED BY <1>0, <2>1, <2>2, <3>1, LaterStays DEF Planned, TimerFollows
  <2>3. CASE i > k /\ i - k + 1 \in 2 .. Len(s) /\ t[i] = s[i - k + 1]
    <3>1. i - k + 1 \in 1 .. Len(s) /\ Later(s, i - k + 1, {"dashboard_on"})
      BY <1>0, <2>1, <2>3 DEF Planned, TimerFollows
    <3> QED BY <2>3, <3>1, LaterStays
  <2> QED BY <1>0, <2>2, <2>3
<1>5. \A i \in 1 .. Len(t) :
        /\ t[i] \in Starting => \E o \in 1 .. Len(s) : s[o] \in Starting
        /\ t[i] \in Stopping => \E o \in 1 .. Len(s) : s[o] \in Stopping
        /\ t[i] = "stop_refreshing" => \E o \in 1 .. Len(s) : s[o] = "stop_refreshing"
        /\ t[i] = "join" => \E o \in 1 .. Len(s) : s[o] = "join"
  <2> TAKE i \in 1 .. Len(t)
  <2>1. CASE i <= k /\ t[i] \in MoreOf(s[1])
    BY <1>0, <2>1 DEF MoreOf, Starting, Stopping
  <2>2. CASE i > k /\ i - k + 1 \in 2 .. Len(s) /\ t[i] = s[i - k + 1]
    BY <1>0, <2>2
  <2> QED BY <1>0, <2>1, <2>2
<1>6. NoStopWithStart(t) /\ NoStopInRefresh(t)
  BY <1>5 DEF Planned, NoStopWithStart, NoStopInRefresh
<1> QED BY <1>1, <1>2, <1>3, <1>4, <1>6 DEF Planned


LEMMA ConcatFacts ==
  ASSUME NEW u \in Seq(CallNames), NEW v \in Seq(CallNames)
  PROVE  /\ u \o v \in Seq(CallNames) /\ Len(u \o v) = Len(u) + Len(v)
         /\ \A i \in 1 .. Len(u) + Len(v) :
              (u \o v)[i] = IF i <= Len(u) THEN u[i] ELSE v[i - Len(u)]
OBVIOUS

\* The calls of a handler that end with those that update the widgets.
LEMMA ThenUpdate ==
  ASSUME NEW s, NEW n \in 0 .. 4, s \in Seq(CallNames), Len(s) = n
  PROVE  LET t == s \o UpdateAllWidgets
         IN  /\ Len(t) = n + 4 /\ \A i \in 1 .. n : t[i] = s[i]
             /\ t[n + 1] = "read_table" /\ t[n + 2] = "read_clock"
             /\ t[n + 3] = "read_running" /\ t[n + 4] = "use_metrics"
<1> DEFINE u == UpdateAllWidgets
           t == s \o u
<1>1. /\ u \in Seq(CallNames) /\ Len(u) = 4
      /\ u[1] = "read_table" /\ u[2] = "read_clock"
      /\ u[3] = "read_running" /\ u[4] = "use_metrics"
  BY DEF UpdateAllWidgets, CallNames
<1> HIDE DEF u
<1>2. /\ Len(t) = n + 4
      /\ \A i \in 1 .. n + 4 : t[i] = IF i <= n THEN s[i] ELSE u[i - n]
  BY <1>1, ConcatFacts
<1>3. \A i \in 1 .. 4 : n + i \in 1 .. n + 4 /\ ~(n + i <= n) /\ (n + i) - n = i
  OBVIOUS
<1> HIDE DEF t
<1>4. /\ \A i \in 1 .. n : t[i] = s[i]
      /\ t[n + 1] = u[1] /\ t[n + 2] = u[2] /\ t[n + 3] = u[3] /\ t[n + 4] = u[4]
  BY <1>2, <1>3
<1> QED BY <1>1, <1>2, <1>4 DEF t, u

\* A list no call of which has been made.
StepModeOrTimer(s) ==
  \A i \in 1 .. Len(s) :
    s[i] \in Starting => s[1] = "set_step_mode" \/ Later(s, i, {"dashboard_on"})
JoinFirst(s) ==
  \A i \in 1 .. Len(s) : s[i] \in Stopping => \E j \in 1 .. Len(s) : j < i /\ s[j] = "join"

Fresh(s) == Planned(s) /\ StepModeOrTimer(s) /\ JoinFirst(s)

LEMMA HandlersAreFresh ==
  /\ Fresh(<<>>) /\ Fresh(Refresh)
  /\ \A h \in HandlerNames : Fresh(Program(h))
<1> USE DEF Disturbing, Showing, Starting, Stopping, Later, Has
<1>1. Fresh(Refresh)
  <2> DEFINE first == <<"stop_refreshing">>
             s == Refresh
  <2>0. first \in Seq(CallNames) /\ Len(first) = 1 /\ 1 \in 0 .. 4
    BY DEF CallNames
  <2>1. /\ Len(s) = 5 /\ s[1] = "stop_refreshing" /\ s[2] = "read_table"
        /\ s[3] = "read_clock" /\ s[4] = "read_running" /\ s[5] = "use_metrics"
    <3>1. s = first \o UpdateAllWidgets
      BY DEF Refresh
    <3>2. \A i \in 1 .. 1 : s[i] = first[i]
      BY <2>0, <3>1, ThenUpdate
    <3>3. /\ Len(s) = 1 + 4 /\ s[1 + 1] = "read_table" /\ s[1 + 2] = "read_clock"
          /\ s[1 + 3] = "read_running" /\ s[1 + 4] = "use_metrics"
      <4> HIDE DEF first, s
      <4> QED BY <2>0, <3>1, ThenUpdate
    <3> QED BY <3>2, <3>3
  <2> HIDE DEF s
  <2>2. WidgetsFollow(s)
    BY <2>1 DEF WidgetsFollow
  <2>3. RunningIsRead(s)
    BY <2>1 DEF RunningIsRead
  <2>4. JoinFollows(s)
    BY <2>1 DEF JoinFollows
  <2>5. TimerFollows(s) /\ NoStopWithStart(s) /\ NoStopInRefresh(s)
    BY <2>1 DEF TimerFollows, NoStopWithStart, NoStopInRefresh
  <2>6. StepModeOrTimer(s) /\ JoinFirst(s)
    BY <2>1 DEF StepModeOrTimer, JoinFirst
  <2> QED BY <2>2, <2>3, <2>4, <2>5, <2>6 DEF Fresh, Planned, s
<1>2. Fresh(Program("Stop"))
  <2> DEFINE first == <<"raise_flag", "set_stopped", "join", "dashboard_off">>
             s == Program("Stop")
  <2>0. first \in Seq(CallNames) /\ Len(first) = 4 /\ 4 \in 0 .. 4
    BY DEF CallNames
  <2>1. /\ Len(s) = 8 /\ s[1] = "raise_flag" /\ s[2] = "set_stopped" /\ s[3] = "join"
        /\ s[4] = "dashboard_off" /\ s[5] = "read_table" /\ s[6] = "read_clock"
        /\ s[7] = "read_running" /\ s[8] = "use_metrics"
    <3>1. s = first \o UpdateAllWidgets
      BY DEF Program
    <3>2. \A i \in 1 .. 4 : s[i] = first[i]
      BY <2>0, <3>1, ThenUpdate
    <3>3. /\ Len(s) = 4 + 4 /\ s[4 + 1] = "read_table" /\ s[4 + 2] = "read_clock"
          /\ s[4 + 3] = "read_running" /\ s[4 + 4] = "use_metrics"
      <4> HIDE DEF first, s
      <4> QED BY <2>0, <3>1, ThenUpdate
    <3> QED BY <3>2, <3>3
  <2> HIDE DEF s
  <2>2. WidgetsFollow(s)
    BY <2>1 DEF WidgetsFollow
  <2>3. RunningIsRead(s)
    BY <2>1 DEF RunningIsRead
  <2>4. JoinFollows(s)
    BY <2>1 DEF JoinFollows
  <2>5. TimerFollows(s) /\ NoStopWithStart(s) /\ NoStopInRefresh(s)
    BY <2>1 DEF TimerFollows, NoStopWithStart, NoStopInRefresh
  <2>6. StepModeOrTimer(s) /\ JoinFirst(s)
    BY <2>1 DEF StepModeOrTimer, JoinFirst
  <2> QED BY <2>2, <2>3, <2>4, <2>5, <2>6 DEF Fresh, Planned, s
<1>3. Fresh(Program("Step"))
  <2> DEFINE first == <<"set_step_mode", "leave_running", "start_if_stopped", "step">>
             s == Program("Step")
  <2>0. first \in Seq(CallNames) /\ Len(first) = 4 /\ 4 \in 0 .. 4
    BY DEF CallNames
  <2>1. /\ Len(s) = 8 /\ s[1] = "set_step_mode" /\ s[2] = "leave_running"
        /\ s[3] = "start_if_stopped" /\ s[4] = "step" /\ s[5] = "read_table"
        /\ s[6] = "read_clock" /\ s[7] = "read_running" /\ s[8] = "use_metrics"
    <3>1. s = first \o UpdateAllWidgets
      BY DEF Program
    <3>2. \A i \in 1 .. 4 : s[i] = first[i]
      BY <2>0, <3>1, ThenUpdate
    <3>3. /\ Len(s) = 4 + 4 /\ s[4 + 1] = "read_table" /\ s[4 + 2] = "read_clock"
          /\ s[4 + 3] = "read_running" /\ s[4 + 4] = "use_metrics"
      <4> HIDE DEF first, s
      <4> QED BY <2>0, <3>1, ThenUpdate
    <3> QED BY <3>2, <3>3
  <2> HIDE DEF s
  <2>2. WidgetsFollow(s)
    BY <2>1 DEF WidgetsFollow
  <2>3. RunningIsRead(s)
    BY <2>1 DEF RunningIsRead
  <2>4. JoinFollows(s)
    BY <2>1 DEF JoinFollows
  <2>5. TimerFollows(s) /\ NoStopWithStart(s) /\ NoStopInRefresh(s)
    BY <2>1 DEF TimerFollows, NoStopWithStart, NoStopInRefresh
  <2>6. StepModeOrTimer(s) /\ JoinFirst(s)
    BY <2>1 DEF StepModeOrTimer, JoinFirst
  <2> QED BY <2>2, <2>3, <2>4, <2>5, <2>6 DEF Fresh, Planned, s
<1>4. Fresh(Program("Add"))
  <2> DEFINE first == <<"create", "use_metrics">>
             s == Program("Add")
  <2>0. first \in Seq(CallNames) /\ Len(first) = 2 /\ 2 \in 0 .. 4
    BY DEF CallNames
  <2>1. /\ Len(s) = 6 /\ s[1] = "create" /\ s[2] = "use_metrics" /\ s[3] = "read_table"
        /\ s[4] = "read_clock" /\ s[5] = "read_running" /\ s[6] = "use_metrics"
    <3>1. s = first \o UpdateAllWidgets
      BY DEF Program
    <3>2. \A i \in 1 .. 2 : s[i] = first[i]
      BY <2>0, <3>1, ThenUpdate
    <3>3. /\ Len(s) = 2 + 4 /\ s[2 + 1] = "read_table" /\ s[2 + 2] = "read_clock"
          /\ s[2 + 3] = "read_running" /\ s[2 + 4] = "use_metrics"
      <4> HIDE DEF first, s
      <4> QED BY <2>0, <3>1, ThenUpdate
    <3> QED BY <3>2, <3>3
  <2> HIDE DEF s
  <2>2. WidgetsFollow(s)
    BY <2>1 DEF WidgetsFollow
  <2>3. RunningIsRead(s)
    BY <2>1 DEF RunningIsRead
  <2>4. JoinFollows(s)
    BY <2>1 DEF JoinFollows
  <2>5. TimerFollows(s) /\ NoStopWithStart(s) /\ NoStopInRefresh(s)
    BY <2>1 DEF TimerFollows, NoStopWithStart, NoStopInRefresh
  <2>6. StepModeOrTimer(s) /\ JoinFirst(s)
    BY <2>1 DEF StepModeOrTimer, JoinFirst
  <2> QED BY <2>2, <2>3, <2>4, <2>5, <2>6 DEF Fresh, Planned, s
<1>5. Fresh(Program("Start"))
  <2>1. WidgetsFollow(Program("Start")) /\ RunningIsRead(Program("Start"))
    BY DEF WidgetsFollow, RunningIsRead, Program
  <2>2. JoinFollows(Program("Start")) /\ TimerFollows(Program("Start"))
    BY DEF JoinFollows, TimerFollows, Program
  <2>3. NoStopWithStart(Program("Start")) /\ NoStopInRefresh(Program("Start"))
    BY DEF NoStopWithStart, NoStopInRefresh, Program
  <2>4. StepModeOrTimer(Program("Start")) /\ JoinFirst(Program("Start"))
    BY DEF StepModeOrTimer, JoinFirst, Program
  <2> QED BY <2>1, <2>2, <2>3, <2>4 DEF Fresh, Planned
<1>6. Fresh(Program("Pause"))
  <2>1. WidgetsFollow(Program("Pause")) /\ RunningIsRead(Program("Pause"))
    BY DEF WidgetsFollow, RunningIsRead, Program
  <2>2. JoinFollows(Program("Pause")) /\ TimerFollows(Program("Pause"))
    BY DEF JoinFollows, TimerFollows, Program
  <2>3. NoStopWithStart(Program("Pause")) /\ NoStopInRefresh(Program("Pause"))
    BY DEF NoStopWithStart, NoStopInRefresh, Program
  <2>4. StepModeOrTimer(Program("Pause")) /\ JoinFirst(Program("Pause"))
    BY DEF StepModeOrTimer, JoinFirst, Program
  <2> QED BY <2>1, <2>2, <2>3, <2>4 DEF Fresh, Planned
<1>7. Fresh(Program("Resume"))
  <2>1. WidgetsFollow(Program("Resume")) /\ RunningIsRead(Program("Resume"))
    BY DEF WidgetsFollow, RunningIsRead, Program
  <2>2. JoinFollows(Program("Resume")) /\ TimerFollows(Program("Resume"))
    BY DEF JoinFollows, TimerFollows, Program
  <2>3. NoStopWithStart(Program("Resume")) /\ NoStopInRefresh(Program("Resume"))
    BY DEF NoStopWithStart, NoStopInRefresh, Program
  <2>4. StepModeOrTimer(Program("Resume")) /\ JoinFirst(Program("Resume"))
    BY DEF StepModeOrTimer, JoinFirst, Program
  <2> QED BY <2>1, <2>2, <2>3, <2>4 DEF Fresh, Planned
<1>8. Fresh(Program("Reset"))
  <2>1. WidgetsFollow(Program("Reset")) /\ RunningIsRead(Program("Reset"))
    BY DEF WidgetsFollow, RunningIsRead, Program
  <2>2. JoinFollows(Program("Reset")) /\ TimerFollows(Program("Reset"))
    BY DEF JoinFollows, TimerFollows, Program
  <2>3. NoStopWithStart(Program("Reset")) /\ NoStopInRefresh(Program("Reset"))
    BY DEF NoStopWithStart, NoStopInRefresh, Program
  <2>4. StepModeOrTimer(Program("Reset")) /\ JoinFirst(Program("Reset"))
    BY DEF StepModeOrTimer, JoinFirst, Program
  <2> QED BY <2>1, <2>2, <2>3, <2>4 DEF Fresh, Planned
<1>9. Fresh(Program("Configure"))
  <2>1. WidgetsFollow(Program("Configure")) /\ RunningIsRead(Program("Configure"))
    BY DEF WidgetsFollow, RunningIsRead, Program
  <2>2. JoinFollows(Program("Configure")) /\ TimerFollows(Program("Configure"))
    BY DEF JoinFollows, TimerFollows, Program
  <2>3. NoStopWithStart(Program("Configure")) /\ NoStopInRefresh(Program("Configure"))
    BY DEF NoStopWithStart, NoStopInRefresh, Program
  <2>4. StepModeOrTimer(Program("Configure")) /\ JoinFirst(Program("Configure"))
    BY DEF StepModeOrTimer, JoinFirst, Program
  <2> QED BY <2>1, <2>2, <2>3, <2>4 DEF Fresh, Planned
<1>10. ASSUME NEW s \in Seq({"use_metrics", "lock_metrics", "unlock_metrics"})
       PROVE  Fresh(s)
  <2>1. \A i \in 1 .. Len(s) : s[i] \in {"use_metrics", "lock_metrics", "unlock_metrics"}
    OBVIOUS
  <2> QED BY <2>1 DEF Fresh, Planned, WidgetsFollow, RunningIsRead, JoinFollows, TimerFollows,
                      NoStopWithStart, NoStopInRefresh, StepModeOrTimer, JoinFirst
<1>11. Fresh(Program("ExportMetrics")) /\ Fresh(Program("ExportLog")) /\ Fresh(<<>>)
  <2> DEFINE S == Seq({"use_metrics", "lock_metrics", "unlock_metrics"})
  <2>1. \A u, v \in S : u \o v \in S
    OBVIOUS
  <2>2. /\ <<"use_metrics">> \in S /\ <<"lock_metrics">> \in S /\ <<"unlock_metrics">> \in S
        /\ <<"lock_metrics", "unlock_metrics">> \in S /\ <<>> \in S
    OBVIOUS
  <2> HIDE DEF S
  <2>3. Program("ExportMetrics") \in S /\ Program("ExportLog") \in S
    BY <2>1, <2>2 DEF Program, RecordMemoryStats, CalculateMetrics
  <2> QED BY <1>10, <2>2, <2>3 DEF S
<1> QED BY <1>1, <1>2, <1>3, <1>4, <1>5, <1>6, <1>7, <1>8, <1>9, <1>11 DEF HandlerNames

\* A list of calls that the call may put in its place.
PutBy(call, more) ==
  more \in Seq(CallNames) /\ \A i \in 1 .. Len(more) : more[i] \in MoreOf(call)

LEMMA PiecesArePutBy ==
  /\ \A call : PutBy(call, <<>>)
  /\ PutBy("pause", <<"write_paused">>) /\ PutBy("resume", <<"write_running">>)
  /\ PutBy("leave_running", <<"pause", "write_step_mode">>)
  /\ PutBy("start_if_stopped", <<"initialize_step", "start">>)
  /\ PutBy("step", <<"step_lock">>) /\ PutBy("step_lock", <<"step_tick">>)
BY DEF PutBy, MoreOf, CallNames

LEMMA ClientGoesOn ==
  ASSUME IInv, LockingCall \/ OtherCall
  PROVE  ~crashed /\ calls # <<>> /\ calls[1] = Head(calls) /\ \E k : GoesBy(calls, calls', k)
<1>0. ~crashed /\ calls # <<>>
  BY DEF LockingCall, OtherCall, At, Initialize, StartWithoutThread, StartThread, Reset, Configure,
         StepLock, StopRefreshing, SetDashboard, Elsewhere, Pause, Resume, WriteState,
         RaiseStopFlag, SetStopped, Join, SetStepMode, LeaveRunning, StartIfStopped, StepTest,
         StepTick, UseMetrics, LockMetrics, UnlockMetrics
<1> DEFINE t == Tail(calls)
<1>1. /\ calls \in Seq(CallNames) /\ Len(calls) \in Nat /\ Len(calls) > 0
      /\ t \in Seq(CallNames) /\ Len(t) = Len(calls) - 1 /\ calls[1] = Head(calls)
      /\ \A i \in 1 .. Len(t) : t[i] = calls[i + 1]
  BY <1>0 DEF IInv, CallsInv
<1> HIDE DEF t
<1>2. ASSUME NEW more, PutBy(Head(calls), more), calls' = more \o t
      PROVE  GoesBy(calls, calls', Len(more))
  <2> DEFINE k == Len(more)
  <2>1. /\ k \in Nat /\ Len(calls') = k + Len(t)
        /\ \A i \in 1 .. k + Len(t) : calls'[i] = IF i <= k THEN more[i] ELSE t[i - k]
    <3>1. /\ Len(more \o t) = Len(more) + Len(t)
          /\ \A i \in 1 .. Len(more) + Len(t) :
               (more \o t)[i] = IF i <= Len(more) THEN more[i] ELSE t[i - Len(more)]
      BY <1>1, <1>2, ConcatFacts DEF PutBy
    <3> QED BY <1>2, <3>1 DEF PutBy
  <2> HIDE DEF k
  <2>2. Len(calls') = Len(calls) - 1 + k
    BY <1>1, <2>1
  <2>3. \A i \in 1 .. Len(calls') : i <= k => calls'[i] \in MoreOf(calls[1])
    BY <1>1, <1>2, <2>1 DEF k, PutBy
  <2>4. ASSUME NEW i \in 2 .. Len(calls) PROVE calls'[i + k - 1] = calls[i]
    <3>1. i + k - 1 \in 1 .. k + Len(t) /\ ~(i + k - 1 <= k) /\ (i + k - 1) - k = i - 1
          /\ i - 1 \in 1 .. Len(t) /\ (i - 1) + 1 = i
      BY <1>1, <2>1
    <3> QED BY <1>1, <2>1, <3>1
  <2> QED BY <1>0, <1>1, <2>1, <2>2, <2>3, <2>4 DEF GoesBy, k
<1>3. CASE calls' = t
  <2>1. \A i \in 2 .. Len(calls) : i - 1 \in 1 .. Len(t) /\ (i - 1) + 1 = i /\ i + 0 - 1 = i - 1
    BY <1>1
  <2>2. GoesBy(calls, calls', 0)
    BY <1>0, <1>1, <1>3, <2>1 DEF GoesBy
  <2> QED BY <1>0, <1>1, <2>2
<1>4. calls' = t \/ \E more : PutBy(Head(calls), more) /\ calls' = more \o t
  <2> USE DEF At, Return, Continue, t
  <2>1. CASE \/ Initialize \/ StartWithoutThread \/ StartThread \/ Reset \/ Configure
             \/ StopRefreshing \/ SetDashboard \/ Elsewhere \/ WriteState \/ SetStopped
    BY <2>1 DEF Initialize, StartWithoutThread, StartThread, Reset, Configure, StopRefreshing,
                SetDashboard, Elsewhere, WriteState, SetStopped
  <2>2. CASE \/ RaiseStopFlag \/ Join \/ SetStepMode \/ StepTick
             \/ UseMetrics \/ LockMetrics \/ UnlockMetrics
    BY <2>2 DEF RaiseStopFlag, Join, SetStepMode, StepTick, UseMetrics, LockMetrics, UnlockMetrics
  <2>3. CASE Pause \/ Resume \/ LeaveRunning
    BY <2>3, PiecesArePutBy DEF Pause, Resume, LeaveRunning
  <2>4. CASE StartIfStopped \/ StepTest \/ StepLock
    BY <2>4, PiecesArePutBy DEF StartIfStopped, StepTest, StepLock
  <2> QED BY <2>1, <2>2, <2>3, <2>4 DEF LockingCall, OtherCall
<1> QED BY <1>0, <1>1, <1>2, <1>3, <1>4

(* LastStateIsShown.  A thread that is in the loop has a timer to watch it,  *)
(* until a stop has joined it, and only a thread that is out of the loop, or *)
(* about to be joined, leaves the state STOPPED, which turns the timer off.  *)

StepModeIsOn ==
  \A i \in 1 .. Len(calls) :
    calls[i] \in Starting =>
      step_mode \/ calls[1] = "set_step_mode" \/ Later(calls, i, {"dashboard_on"})
JoinedBefore ==
  \A i \in 1 .. Len(calls) :
    calls[i] \in Stopping => loop = "gone" \/ \E j \in 1 .. Len(calls) : j < i /\ calls[j] = "join"
StoppedIsJoined == state = "STOPPED" /\ loop # "gone" => Has(calls, "join")
LoopIsWatched == loop # "gone" => timer \/ Has(calls, "dashboard_on")
StaleIsSeen ==
  stale => timer \/ Has(calls, "dashboard_on") \/ \E c \in Showing : Has(calls, c)

ShowInv ==
  ~crashed => /\ Planned(calls) /\ StepModeIsOn /\ JoinedBefore /\ StoppedIsJoined
              /\ LoopIsWatched /\ StaleIsSeen

LEMMA InitShowInv == RInit => ShowInv
<1> SUFFICES ASSUME RInit PROVE ShowInv
  OBVIOUS
<1>1. calls = <<>> /\ loop = "gone" /\ ~stale /\ Len(calls) = 0
  BY DEF RInit, Init
<1> QED BY <1>1, HandlersAreFresh
        DEF ShowInv, Fresh, StepModeIsOn, JoinedBefore, StoppedIsJoined, LoopIsWatched, StaleIsSeen

\* A handler begins, on a list with nothing to do.
LEMMA ShowClick ==
  ASSUME ShowInv, calls = <<>>, Fresh(calls'), ~crashed,
         UNCHANGED <<state, step_mode, loop, timer, stale>>
  PROVE  ShowInv'
<1>1. /\ \A c : ~Has(calls, c)
      /\ Planned(calls')
  BY DEF Has, Fresh
<1>2. StepModeIsOn' /\ JoinedBefore'
  BY DEF Fresh, StepModeOrTimer, JoinFirst, StepModeIsOn, JoinedBefore
<1>3. StoppedIsJoined' /\ LoopIsWatched' /\ StaleIsSeen'
  BY <1>1 DEF ShowInv, StoppedIsJoined, LoopIsWatched, StaleIsSeen
<1> QED BY <1>1, <1>2, <1>3 DEF ShowInv

\* A step of simulationLoop.
LEMMA ShowLoop ==
  ASSUME IInv, ShowInv, RLoop
  PROVE  ShowInv'
<1>1. ~crashed /\ UNCHANGED <<calls, crashed, step_mode, timer>> /\ loop # "gone"
  BY DEF RLoop, TickGoesOn, LoopTest, LoopBranch, LoopLock, LoopTick, LoopFinish, LoopSleep,
         LoopAt, controlVars, dashboard, vars
<1>2. loop' = "gone" \/ state' = state
  BY DEF RLoop, TickGoesOn, LoopTest, LoopBranch, LoopLock, LoopTick, LoopFinish, LoopSleep,
         controlVars, vars
<1>3. timer \/ Has(calls, "dashboard_on")
  BY <1>1 DEF ShowInv, LoopIsWatched
<1>4. /\ Planned(calls)' /\ StepModeIsOn'
      /\ LoopIsWatched' /\ StaleIsSeen'
  BY <1>1, <1>3 DEF ShowInv, StepModeIsOn, LoopIsWatched, StaleIsSeen
<1>5. JoinedBefore' /\ StoppedIsJoined'
  BY <1>1, <1>2 DEF ShowInv, JoinedBefore, StoppedIsJoined
<1> QED BY <1>4, <1>5 DEF ShowInv

\* What the call at the head of the list does to what the widgets depend on.
LEMMA HeadDoes ==
  ASSUME IInv, LockingCall \/ OtherCall, ~crashed'
  PROVE  /\ step_mode => step_mode' \/ Head(calls) = "initialize"
         /\ Head(calls) = "set_step_mode" => step_mode'
         /\ loop' = loop \/ (Head(calls) = "start" /\ ~step_mode /\ state' # "STOPPED")
         /\ Head(calls) = "join" => loop = "gone"
         /\ state' \in {state, "RUNNING", "PAUSED", "STEP_MODE"}
              \/ Head(calls) \in {"set_stopped", "reset"}
         /\ timer => \/ timer' \/ Head(calls) = "dashboard_off"
                     \/ Head(calls) = "stop_refreshing" /\ state = "STOPPED"
         /\ Head(calls) = "dashboard_on" => timer'
<1> USE DEF At, controlVars, mutexes, dashboard
<1>1. CASE Initialize
  BY <1>1 DEF Initialize
<1>2. CASE StartWithoutThread \/ Reset \/ Configure \/ StepLock
  BY <1>2 DEF StartWithoutThread, Reset, Configure, StepLock
<1>3. CASE StartThread
  BY <1>3 DEF StartThread
<1>4. CASE StopRefreshing \/ Elsewhere
  <2>1. Head(calls) # "dashboard_on" /\ Head(calls) # "join" /\ Head(calls) # "set_step_mode"
        /\ UNCHANGED <<step_mode, loop, state>>
    BY <1>4 DEF StopRefreshing, Elsewhere
  <2>2. timer /\ state # "STOPPED" => timer'
    BY <1>4 DEF StopRefreshing, Elsewhere
  <2>3. timer => timer' \/ Head(calls) = "stop_refreshing"
    BY <1>4 DEF StopRefreshing, Elsewhere
  <2>4. timer => timer' \/ (Head(calls) = "stop_refreshing" /\ state = "STOPPED")
    BY <2>2, <2>3, Zenon
  <2> QED BY <2>1, <2>4
<1>5. CASE SetDashboard
  BY <1>5 DEF SetDashboard
<1>6. CASE Pause \/ Resume \/ LeaveRunning \/ StartIfStopped \/ StepTest
  BY <1>6 DEF Pause, Resume, LeaveRunning, StartIfStopped, StepTest
<1>7. CASE WriteState
  <2>1. Head(calls) \in {"write_paused", "write_running", "write_step_mode"}
        /\ UNCHANGED <<step_mode, loop, timer>>
    BY <1>7 DEF WriteState
  <2>2. state' \in {"PAUSED", "RUNNING", "STEP_MODE"}
    BY <1>7, <2>1 DEF WriteState
  <2> QED BY <2>1, <2>2
<1>8. CASE Join
  BY <1>8 DEF Join, IInv, LoopInv
<1>9. CASE RaiseStopFlag \/ SetStopped \/ SetStepMode \/ StepTick
  BY <1>9 DEF RaiseStopFlag, SetStopped, SetStepMode, StepTick
<1>10. CASE UseMetrics \/ LockMetrics \/ UnlockMetrics
  BY <1>10 DEF UseMetrics, LockMetrics, UnlockMetrics
<1> QED
  BY <1>1, <1>2, <1>3, <1>4, <1>5, <1>6, <1>7, <1>8, <1>9, <1>10 DEF LockingCall, OtherCall

\* A call of the client is one of SimControl, or a tick of its that goes on.
LEMMA ClientSteps ==
  ASSUME RLockingCall \/ ROtherCall
  PROVE  \/ At("step_tick") /\ UNCHANGED vars
         \/ /\ LockingCall \/ OtherCall
            /\ stale' => stale \/ Head(calls) \in Disturbing
            /\ Head(calls) \in Showing => ~stale'
<1> USE DEF Disturbing, Showing, Undisturbed
<1>1. CASE RLockingCall
  <2>1. CASE StepLock /\ ClockAdvances
    BY <2>1 DEF StepLock, At, LockingCall
  <2>2. CASE Reset /\ ResetMachine
    BY <2>2 DEF Reset, At, LockingCall
  <2>3. CASE (Initialize \/ StartWithoutThread \/ StartThread) /\ Undisturbed
    BY <2>3 DEF Initialize, StartWithoutThread, StartThread, At, LockingCall
  <2>4. CASE Configure /\ ForgetRunning
    BY <2>4 DEF Configure, ForgetRunning, At, LockingCall
  <2> QED BY <1>1, <2>1, <2>2, <2>3, <2>4 DEF RLockingCall
<1>2. CASE ROtherCall
  <2>1. CASE At("step_tick") /\ TickGoesOn
    BY <2>1 DEF TickGoesOn
  <2>2. CASE StepTick /\ Undisturbed
    BY <2>2 DEF StepTick, At, OtherCall
  <2>3. CASE ElsewhereHere
    BY <2>3 DEF ElsewhereHere, Elsewhere, At, CreateProcess, ClearWidgets, ReadTable, ReadClock,
                ReadRunning, OtherCall
  <2>4. CASE SetDashboard /\ IF At("dashboard_on") THEN ForgetChartTime ELSE Undisturbed
    BY <2>4 DEF SetDashboard, At, ForgetChartTime, OtherCall
  <2>5. CASE (StopRefreshing \/ Pause \/ Resume \/ WriteState) /\ Undisturbed
    BY <2>5 DEF StopRefreshing, Pause, Resume, WriteState, At, OtherCall
  <2>6. CASE (RaiseStopFlag \/ SetStopped \/ Join \/ SetStepMode \/ LeaveRunning) /\ Undisturbed
    BY <2>6 DEF RaiseStopFlag, SetStopped, Join, SetStepMode, LeaveRunning, At, OtherCall
  <2>7. CASE /\ StartIfStopped \/ StepTest \/ UseMetrics \/ LockMetrics \/ UnlockMetrics
             /\ Undisturbed
    BY <2>7 DEF StartIfStopped, StepTest, UseMetrics, LockMetrics, UnlockMetrics, At, OtherCall
  <2> QED BY <1>2, <2>1, <2>2, <2>3, <2>4, <2>5, <2>6, <2>7 DEF ROtherCall
<1> QED BY <1>1, <1>2

LEMMA ShowClient ==
  ASSUME IInv, ShowInv, RLockingCall \/ ROtherCall
  PROVE  ShowInv'
<1>1. CASE At("step_tick") /\ UNCHANGED vars
  <2>1. WidgetsFollow(calls) /\ 1 \in 1 .. Len(calls) /\ calls[1] = "step_tick" /\ ~crashed
    BY <1>1 DEF At, IInv, CallsInv, ShowInv, Planned
  <2>2. \E c \in Showing : Has(calls, c)
    BY <2>1 DEF WidgetsFollow, Disturbing, Later, Has
  <2> QED BY <1>1, <2>1, <2>2
          DEF vars, ShowInv, StepModeIsOn, JoinedBefore, StoppedIsJoined, LoopIsWatched,
              StaleIsSeen
<1>2. CASE LockingCall \/ OtherCall
  <2> SUFFICES ASSUME ~crashed' PROVE ShowInv'
    BY DEF ShowInv
  <2> DEFINE head == calls[1]
  <2>1. ~crashed /\ calls # <<>> /\ head = Head(calls)
    BY <1>2, ClientGoesOn
  <2>2. PICK k : GoesBy(calls, calls', k)
    BY <1>2, ClientGoesOn
  <2>3. /\ Planned(calls) /\ StepModeIsOn /\ JoinedBefore /\ StoppedIsJoined
        /\ LoopIsWatched /\ StaleIsSeen
    BY <2>1 DEF ShowInv
  <2>4. /\ step_mode => step_mode' \/ head = "initialize"
        /\ head = "set_step_mode" => step_mode'
        /\ loop' = loop \/ (head = "start" /\ ~step_mode /\ state' # "STOPPED")
        /\ head = "join" => loop = "gone"
        /\ state' \in {state, "RUNNING", "PAUSED", "STEP_MODE"} \/ head \in {"set_stopped", "reset"}
        /\ timer => \/ timer' \/ head = "dashboard_off"
                    \/ head = "stop_refreshing" /\ state = "STOPPED"
        /\ head = "dashboard_on" => timer'
    BY <1>2, <2>1, HeadDoes
  <2>5. stale' => (stale \/ head \in Disturbing) /\ head \notin Showing
    BY <2>1, ClientSteps, <1>2 DEF Disturbing, Showing, At, vars
  <2>6. /\ Len(calls) \in Nat /\ Len(calls') \in Nat /\ k \in Nat /\ 1 \in 1 .. Len(calls)
        /\ \A i \in 1 .. Len(calls') :
             \/ i <= k /\ calls'[i] \in MoreOf(head)
             \/ i > k /\ i - k + 1 \in 2 .. Len(calls) /\ calls'[i] = calls[i - k + 1]
        /\ \A i \in 2 .. Len(calls) :
             i + k - 1 \in 1 .. Len(calls') /\ i + k - 1 > k /\ calls'[i + k - 1] = calls[i]
    BY <2>2, CallsHaveOrigin DEF GoesBy
  <2>7. \A call : Has(calls, call) /\ head # call => Has(calls', call)
    BY <2>2, HasStays
  <2>8. \A set : Later(calls, 1, set) => \E c \in set : Has(calls', c)
    BY <2>6 DEF Later, Has
  <2>9. head \in Stopping => loop = "gone"
    BY <2>3, <2>6 DEF JoinedBefore
  <2> HIDE DEF head
  <2>10. Planned(calls')
    BY <2>2, <2>3, PlannedGoesOn
  <2>11. StepModeIsOn'
    <3> SUFFICES ASSUME NEW i \in 1 .. Len(calls'), calls'[i] \in Starting
                 PROVE  step_mode' \/ Later(calls', i, {"dashboard_on"})
      BY DEF StepModeIsOn
    <3>1. PICK o \in 1 .. Len(calls) :
            calls[o] \in Starting /\ ((i <= k /\ o = 1) \/ (i > k /\ o = i - k + 1))
      <4>1. CASE i <= k /\ calls'[i] \in MoreOf(head)
        <5>1. head \in Starting
          BY <4>1 DEF MoreOf, Starting
        <5> QED BY <2>6, <4>1, <5>1 DEF head
      <4>2. CASE i > k /\ i - k + 1 \in 2 .. Len(calls) /\ calls'[i] = calls[i - k + 1]
        BY <2>6, <4>2
      <4> QED BY <2>6, <4>1, <4>2
    <3>2. CASE Later(calls, o, {"dashboard_on"})
      BY <2>2, <3>1, <3>2, LaterStays
    <3>3. CASE step_mode \/ head = "set_step_mode"
      <4>1. head = "initialize" => Later(calls, o, {"dashboard_on"})
        BY <2>3, <2>6, <3>1 DEF Planned, TimerFollows, Has, head
      <4> QED BY <2>4, <3>2, <3>3, <4>1
    <3> QED BY <2>3, <3>1, <3>2, <3>3 DEF StepModeIsOn, head
  <2>12. JoinedBefore'
    <3> SUFFICES ASSUME NEW i \in 1 .. Len(calls'), calls'[i] \in Stopping
                 PROVE  loop' = "gone" \/ \E j \in 1 .. Len(calls') : j < i /\ calls'[j] = "join"
      BY DEF JoinedBefore
    <3> DEFINE o == i - k + 1
    <3>1. i > k /\ o \in 1 .. Len(calls) /\ calls[o] \in Stopping
      BY <2>6 DEF MoreOf, Stopping
    <3>2. loop' = loop
      <4>1. head \notin Starting
        BY <2>3, <2>6, <3>1 DEF Planned, NoStopWithStart, head
      <4> QED BY <2>4, <4>1 DEF Starting
    <3>3. CASE loop = "gone"
      BY <3>2, <3>3
    <3>4. CASE \E j \in 1 .. Len(calls) : j < o /\ calls[j] = "join"
      <4>1. PICK j \in 1 .. Len(calls) : j < o /\ calls[j] = "join"
        BY <3>4
      <4>2. CASE j = 1
        BY <2>4, <3>2, <4>1, <4>2 DEF head
      <4>3. CASE j \in 2 .. Len(calls)
        <5>1. j + k - 1 \in 1 .. Len(calls') /\ calls'[j + k - 1] = "join"
          BY <2>6, <4>1, <4>3
        <5>2. j + k - 1 < i
          BY <2>6, <4>1
        <5> QED BY <5>1, <5>2
      <4> QED BY <2>6, <4>1, <4>2, <4>3
    <3> QED BY <2>3, <3>1, <3>3, <3>4 DEF JoinedBefore
  <2>13. StoppedIsJoined'
    <3> SUFFICES ASSUME state' = "STOPPED", loop' # "gone" PROVE Has(calls', "join")
      BY DEF StoppedIsJoined
    <3>1. loop' = loop /\ loop # "gone"
      BY <2>4
    <3>2. CASE state = "STOPPED"
      BY <2>3, <2>4, <2>7, <3>1, <3>2 DEF StoppedIsJoined
    <3>3. CASE head = "set_stopped"
      <4>1. Later(calls, 1, {"join"})
        BY <2>3, <2>6, <3>3 DEF Planned, JoinFollows, head
      <4> QED BY <2>8, <4>1
    <3> QED BY <2>4, <2>9, <3>1, <3>2, <3>3 DEF Stopping
  <2>14. LoopIsWatched'
    <3> SUFFICES ASSUME loop' # "gone" PROVE timer' \/ Has(calls', "dashboard_on")
      BY DEF LoopIsWatched
    <3>1. CASE head = "start" /\ ~step_mode
      <4>1. Later(calls, 1, {"dashboard_on"})
        BY <2>3, <2>6, <3>1 DEF StepModeIsOn, Starting, head
      <4> QED BY <2>8, <4>1
    <3>2. CASE loop' = loop
      <4>1. timer \/ Has(calls, "dashboard_on")
        BY <2>3, <3>2 DEF LoopIsWatched
      <4>2. CASE Has(calls, "dashboard_on")
        BY <2>4, <2>7, <4>2
      <4>3. CASE timer
        <5>1. head # "dashboard_off"
          BY <2>9, <3>2 DEF Stopping
        <5>2. ~(head = "stop_refreshing" /\ state = "STOPPED")
          BY <2>3, <2>6, <3>2 DEF StoppedIsJoined, Has, Planned, NoStopInRefresh, head
        <5> QED BY <2>4, <4>3, <5>1, <5>2
      <4> QED BY <4>1, <4>2, <4>3
    <3> QED BY <2>4, <3>1, <3>2
  <2>15. StaleIsSeen'
    <3> SUFFICES ASSUME stale'
                 PROVE  timer' \/ Has(calls', "dashboard_on") \/ \E c \in Showing : Has(calls', c)
      BY DEF StaleIsSeen
    <3>1. CASE head \in Disturbing
      <4>1. Later(calls, 1, Showing)
        BY <2>3, <2>6, <3>1 DEF Planned, WidgetsFollow, head
      <4> QED BY <2>8, <4>1
    <3>2. CASE stale /\ head \notin Disturbing
      <4>1. timer \/ Has(calls, "dashboard_on") \/ \E c \in Showing : Has(calls, c)
        BY <2>3, <3>2 DEF StaleIsSeen
      <4>2. timer => timer'
        BY <2>4, <3>2 DEF Disturbing
      <4> QED BY <2>4, <2>5, <2>7, <4>1, <4>2
    <3> QED BY <2>5, <3>1, <3>2
  <2> QED BY <2>10, <2>11, <2>12, <2>13, <2>14, <2>15 DEF ShowInv
<1> QED BY <1>1, <1>2, ClientSteps

LEMMA ShowInvStep ==
  ASSUME IInv, ShowInv, [RNext]_rvars
  PROVE  ShowInv'
<1>1. ASSUME NEW h \in Handlers, Click(h), Undisturbed PROVE ShowInv'
  BY <1>1, ShowClick, HandlersAreFresh, HandlersAssumption
     DEF Click, Undisturbed, controlVars, dashboard
<1>2. CASE RefreshBegins
  BY <1>2, ShowClick, HandlersAreFresh
     DEF RefreshBegins, RefreshGUI, Undisturbed, controlVars, dashboard
<1>3. CASE Crashed \/ UNCHANGED rvars
  BY <1>3 DEF Crashed, rvars, vars, ShowInv, StepModeIsOn, JoinedBefore, StoppedIsJoined,
              LoopIsWatched, StaleIsSeen
<1> QED BY <1>1, <1>2, <1>3, ShowLoop, ShowClient DEF RNext

(* When the timer is off and no handler runs, and no thread is in the loop,  *)
(* the widgets show the last state of the machine.                           *)
THEOREM LastStateIsShownAlways == RSpec => []LastStateIsShown
<1>1. ShowInv => LastStateIsShown
  BY DEF ShowInv, StaleIsSeen, LastStateIsShown, Has
<1>2. RSpec => []IInv
  BY RefreshIsSimControl, IInvHolds, PTL
<1>3. RSpec => []ShowInv
  BY <1>2, InitShowInv, ShowInvStep, PTL DEF RSpec
<1> QED BY <1>1, <1>3, PTL

-----------------------------------------------------------------------------
(* ChartShowsWhoRan.  One process at most has the CPU, however many are      *)
(* forgotten, and it is the one that did the last unit until the scheduler   *)
(* has chosen again; the clock is read in the call before the states are,    *)
(* and no reset comes between.                                               *)

MachineTyped == /\ stage \in [Jobs -> M!Stages \cup {"FORGOTTEN"}] /\ clock \in Nat
                /\ step \in {"idle", "choose", "run"}
OneRuns == \A p, q \in Jobs : stage[p] = "RUNNING" /\ stage[q] = "RUNNING" => p = q
RunningRan == step # "run" => \A p \in Jobs : stage[p] = "RUNNING" => p = ran
ClockIsRead ==
  chart_time # -1 =>
    calls # <<>> /\ Head(calls) = "read_running" /\ chart_time \in Nat /\ chart_time <= clock

RunnerInv == MachineTyped /\ OneRuns /\ RunningRan
ChartReadInv == RunnerInv /\ ClockIsRead

LEMMA InitChartReadInv == RInit => ChartReadInv
BY DEF RInit, Init, M!Init, ChartReadInv, RunnerInv, MachineTyped, OneRuns, RunningRan, ClockIsRead,
       M!Stages

\* A step of the machine, with who did a unit in it.
LEMMA RunnerStep ==
  ASSUME RunnerInv,
         \/ ClockAdvances \/ TickGoesOn \/ CreateProcess \/ ResetMachine \/ ForgetRunning
         \/ UNCHANGED <<machine, ran>>
  PROVE  RunnerInv'
<1> USE DEF RunnerInv, MachineTyped, OneRuns, RunningRan, M!Stages, machine
<1>1. CASE UNCHANGED <<machine, ran>>
  BY <1>1
<1>2. CASE ClockAdvances
  BY <1>2 DEF ClockAdvances, M!Advance
<1>3. CASE CreateProcess
  <2>1. CASE UNCHANGED machine
    BY <1>3, <2>1 DEF CreateProcess, chart
  <2>2. ASSUME NEW p \in M!In("ABSENT"), NEW work \in Works, M!Submit(p, work)
        PROVE  RunnerInv'
    <3>1. /\ p \in Jobs /\ stage' = [stage EXCEPT ![p] = "NEW"]
          /\ UNCHANGED <<clock, step, ran>>
      BY <1>3, <2>2 DEF M!Submit, M!In, CreateProcess
    <3> QED BY <3>1
  <2> QED BY <1>3, <2>1, <2>2 DEF CreateProcess
<1>4. CASE ResetMachine
  BY <1>4 DEF ResetMachine, M!Clear
<1>5. CASE TickGoesOn
  <2> USE DEF M!In
  <2>1. ASSUME NEW arrived \in SUBSET M!In("NEW"), M!Admit(arrived), UNCHANGED ran
        PROVE  RunnerInv'
    BY <2>1 DEF M!Admit
  <2>2. CASE M!Preempt /\ UNCHANGED ran
    BY <2>2 DEF M!Preempt, M!Preempted
  <2>3. ASSUME NEW p \in Jobs, M!In("RUNNING") = {}, M!Give(p), UNCHANGED ran PROVE RunnerInv'
    <3>1. /\ M!Preempted = stage /\ \A q \in Jobs : stage[q] # "RUNNING"
      BY <2>3 DEF M!Preempted
    <3>2. stage' = [stage EXCEPT ![p] = "RUNNING"] /\ step' = "run" /\ clock' = clock
      BY <2>3, <3>1 DEF M!Give
    <3> QED BY <3>1, <3>2
  <2>4. CASE M!Keep /\ UNCHANGED ran
    BY <2>4 DEF M!Keep
  <2>5. CASE M!Idle
    BY <2>5 DEF M!Idle
  <2>6. ASSUME NEW p \in Jobs, M!Run(p), ran' = IF left[p] = 1 THEN NoPid ELSE p
        PROVE  RunnerInv'
    <3>1. /\ stage[p] = "RUNNING" /\ step' = "idle" /\ clock' = clock
          /\ stage' = [stage EXCEPT ![p] = IF left[p] = 1 THEN "TERMINATED" ELSE "RUNNING"]
      BY <2>6 DEF M!Run
    <3>2. \A q \in Jobs : q # p => stage'[q] = stage[q] /\ stage[q] # "RUNNING"
      BY <3>1
    <3>3. /\ stage' \in [Jobs -> M!Stages \cup {"FORGOTTEN"}]
          /\ stage'[p] = "RUNNING" => ran' = p
      BY <2>6, <3>1
    <3> QED BY <2>6, <3>1, <3>2, <3>3
  <2> QED BY <1>5, <2>1, <2>2, <2>3, <2>4, <2>5, <2>6 DEF TickGoesOn
<1>6. CASE ForgetRunning
  <2>1. /\ UNCHANGED <<clock, step>>
        /\ \A j \in Jobs : stage'[j] # "RUNNING" /\ stage'[j] \in {stage[j], "FORGOTTEN"}
    BY <1>6 DEF ForgetRunning
  <2>2. stage' \in [Jobs -> M!Stages \cup {"FORGOTTEN"}]
    BY <1>6 DEF ForgetRunning
  <2> QED BY <2>1, <2>2
<1> QED BY <1>1, <1>2, <1>3, <1>4, <1>5, <1>6

LEMMA TickKeepsClock ==
  ASSUME TickGoesOn
  PROVE  clock' = clock
BY DEF TickGoesOn, M!Admit, M!Preempt, M!Give, M!Keep, M!Idle, M!Run

\* Only the two calls that read for the chart, and the thread's tick, have to
\* do with the reading of the clock.
LEMMA OtherCallsLeaveChart ==
  ASSUME RLockingCall \/ ROtherCall
  PROVE  /\ calls # <<>> /\ ~crashed
         /\ Head(calls) = "read_clock" => calls' = Tail(calls) /\ ReadClock
         /\ Head(calls) = "read_running" => chart_time' = -1
         /\ Head(calls) \notin {"read_clock", "read_running"} => chart_time' = chart_time
<1> USE DEF At, Undisturbed, chart
<1>1. CASE RLockingCall
  BY <1>1 DEF RLockingCall, StepLock, Reset, Initialize, StartWithoutThread, StartThread,
              Configure, ClockAdvances, ForgetRunning, ResetMachine
<1>2. CASE ROtherCall
  <2>1. CASE At("step_tick") /\ TickGoesOn
    BY <2>1 DEF TickGoesOn
  <2>2. CASE StepTick /\ Undisturbed
    BY <2>2 DEF StepTick
  <2>3. CASE ElsewhereHere
    BY <2>3 DEF ElsewhereHere, Elsewhere, Return, CreateProcess, ClearWidgets, ReadTable,
                ReadRunning
  <2>4. CASE SetDashboard /\ IF At("dashboard_on") THEN ForgetChartTime ELSE Undisturbed
    BY <2>4 DEF SetDashboard, ForgetChartTime
  <2>5. CASE (StopRefreshing \/ Pause \/ Resume \/ WriteState) /\ Undisturbed
    BY <2>5 DEF StopRefreshing, Pause, Resume, WriteState
  <2>6. CASE (RaiseStopFlag \/ SetStopped \/ Join \/ SetStepMode \/ LeaveRunning) /\ Undisturbed
    BY <2>6 DEF RaiseStopFlag, SetStopped, Join, SetStepMode, LeaveRunning
  <2>7. CASE /\ StartIfStopped \/ StepTest \/ UseMetrics \/ LockMetrics \/ UnlockMetrics
             /\ Undisturbed
    BY <2>7 DEF StartIfStopped, StepTest, UseMetrics, LockMetrics, UnlockMetrics
  <2> QED BY <1>2, <2>1, <2>2, <2>3, <2>4, <2>5, <2>6, <2>7 DEF ROtherCall
<1> QED BY <1>1, <1>2

LEMMA ClockIsReadStep ==
  ASSUME IInv, ShowInv, ChartReadInv, [RNext]_rvars
  PROVE  ClockIsRead'
<1> USE DEF ChartReadInv, ClockIsRead
<1>0. clock \in Nat
  BY DEF RunnerInv, MachineTyped
<1>1. CASE RLoop
  <2>1. calls' = calls /\ chart_time' = chart_time
    BY <1>1 DEF RLoop, ClockAdvances, TickGoesOn, Undisturbed, LoopTest, LoopBranch, LoopLock,
                LoopTick, LoopFinish, LoopSleep, vars, chart
  <2>2. clock' \in {clock, clock + 1}
    BY <1>1, TickKeepsClock DEF RLoop, ClockAdvances, M!Advance, Undisturbed, machine
  <2> QED BY <1>0, <2>1, <2>2
<1>2. CASE RLockingCall \/ ROtherCall
  <2>1. CASE Head(calls) \notin {"read_clock", "read_running"}
    BY <1>2, <2>1, OtherCallsLeaveChart
  <2>2. CASE Head(calls) = "read_running"
    BY <1>2, <2>2, OtherCallsLeaveChart
  <2>3. CASE Head(calls) = "read_clock"
    <3>1. /\ calls # <<>> /\ ~crashed /\ calls' = Tail(calls) /\ clock' = clock
          /\ chart_time' \in {clock, -1}
      BY <1>2, <2>3, OtherCallsLeaveChart DEF ReadClock, machine
    <3>2. calls \in Seq(CallNames) /\ RunningIsRead(calls)
      BY <3>1 DEF IInv, CallsInv, ShowInv, Planned
    <3>3. 1 \in 1 .. Len(calls) /\ calls[1] = "read_clock"
      BY <2>3, <3>1, <3>2
    <3>4. 1 + 1 \in 1 .. Len(calls) /\ calls[1 + 1] = "read_running"
      BY <3>2, <3>3 DEF RunningIsRead
    <3>5. Tail(calls) # <<>> /\ Head(Tail(calls)) = "read_running"
      <4>1. /\ Tail(calls) \in Seq(CallNames) /\ Len(Tail(calls)) = Len(calls) - 1
            /\ \A i \in 1 .. Len(calls) - 1 : Tail(calls)[i] = calls[i + 1]
        BY <3>1, <3>2
      <4>2. Len(calls) \in Nat /\ Len(calls) >= 2
        BY <3>2, <3>4
      <4>3. Len(Tail(calls)) >= 1 /\ Tail(calls)[1] = "read_running"
        BY <3>4, <4>1, <4>2
      <4>4. \A t \in Seq(CallNames) : Len(t) >= 1 => t # <<>> /\ Head(t) = t[1]
        OBVIOUS
      <4> QED BY <4>1, <4>3, <4>4, Zenon
    <3> QED BY <1>0, <3>1, <3>5
  <2> QED BY <2>1, <2>2, <2>3
<1>3. CASE \/ \E h \in Handlers : Click(h) /\ Undisturbed
           \/ RefreshBegins
  BY <1>3 DEF Click, RefreshBegins, RefreshGUI, Undisturbed, chart
<1>4. CASE (Crashed /\ Undisturbed) \/ UNCHANGED rvars
  BY <1>4 DEF Crashed, Undisturbed, rvars, vars, chart, machine
<1> QED BY <1>1, <1>2, <1>3, <1>4 DEF RNext

LEMMA ChartReadInvStep ==
  ASSUME IInv, ShowInv, ChartReadInv, [RNext]_rvars
  PROVE  ChartReadInv'
<1>1. \/ ClockAdvances \/ TickGoesOn \/ CreateProcess \/ ResetMachine \/ ForgetRunning
      \/ UNCHANGED <<machine, ran>>
  BY DEF RNext, RLoop, RLockingCall, ROtherCall, RefreshBegins, Undisturbed, ElsewhereHere,
         Elsewhere, ClearWidgets, ReadTable, ReadClock, ReadRunning, ForgetChartTime, rvars,
         At
<1> QED BY <1>1, RunnerStep, ClockIsReadStep DEF ChartReadInv

\* The first process whose state is RUNNING is one of them.
LEMMA FirstRunningRuns ==
  ASSUME FirstRunning # NoPid
  PROVE  FirstRunning \in RunningInTable
<1>1. RunningInTable \in SUBSET Nat /\ RunningInTable # {}
  BY JobsAssumption DEF FirstRunning, RunningInTable, M!In
<1>2. \E p \in RunningInTable : \A q \in RunningInTable : p <= q
  BY <1>1, LeastExists
<1> QED BY <1>1, <1>2 DEF FirstRunning

(* The block about to be drawn is of a process that did a unit in the tick   *)
(* it is drawn for, in the one before, or later; or has the CPU and is about *)
(* to; or lost the CPU to a switch of algorithm, and not otherwise.          *)
THEOREM ChartShowsWhoRanAlways == RSpec => []ChartShowsWhoRan
<1>1. ChartReadInv => ChartShowsWhoRan
  <2> SUFFICES ASSUME ChartReadInv, At("read_running"), chart_time # -1, FirstRunning # NoPid,
                      ~(FirstRunning \in M!In("RUNNING") /\ step = "run"),
                      FirstRunning \notin M!In("FORGOTTEN")
               PROVE  FirstRunning = ran
                      /\ (IF step = "idle" THEN clock ELSE clock - 1) >= chart_time - 1
    BY DEF ChartShowsWhoRan
  <2>1. FirstRunning \in M!In("RUNNING") /\ step # "run"
    BY FirstRunningRuns DEF RunningInTable
  <2>2. FirstRunning = ran
    BY <2>1 DEF ChartReadInv, RunnerInv, RunningRan, M!In
  <2>3. chart_time \in Nat /\ chart_time <= clock /\ clock \in Nat
    BY DEF ChartReadInv, ClockIsRead, RunnerInv, MachineTyped
  <2> QED BY <2>2, <2>3
<1>2. RSpec => []IInv
  BY RefreshIsSimControl, IInvHolds, PTL
<1>3. RSpec => [](ShowInv /\ ChartReadInv)
  BY <1>2, InitShowInv, ShowInvStep, InitChartReadInv, ChartReadInvStep, PTL DEF RSpec
<1> QED BY <1>1, <1>3, PTL
=============================================================================
