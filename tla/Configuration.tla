---------------------------- MODULE Configuration ----------------------------
(*****************************************************************************)
(* Saving and loading configurations.  First a client of the class (as the   *)
(* integration test is one) puts configurations together, saves and          *)
(* loads them; then the simulator runs, with the menu of MainWindow, the     *)
(* controls of the Dashboard, and the settings in force in the               *)
(* SimulationController, which follow the controls through Qt's signals.     *)
(* There is one file; writing it may fail half-way, and a user may edit it.  *)
(*****************************************************************************)
EXTENDS ConfigFile

CONSTANTS
  Configurations,      \* what a client may put together
  Quanta, Speeds,      \* values the user sets the controls to
  Typed,               \* numbers the user may type into the file
  MaxMishaps,          \* bound: failed writes and edits of the file
  NoFile, NoConfiguration

ASSUME ControlsAssumption == Quanta \subseteq 1 .. 20 /\ Speeds \subseteq 1 .. 10
ASSUME MishapsAssumption == MaxMishaps \in Nat
ASSUME ClientAssumption == Configurations \subseteq SimulationConfigs
ASSUME TypedAssumption == Typed \subseteq Int \cup {NotANumber}
ASSUME NoFileAssumption == NoFile \notin Seq(FileLines)

VARIABLES
  client,      \* TRUE: a client of ConfigurationManager; FALSE: the simulator
  config,      \* the client's SimulationConfig
  file,        \* its lines, or NoFile
  answer,      \* the last call of the client's and what it returned
  shown,       \* the dashboard's controls
  engine,      \* the settings the SimulationController works with
  crashed,
  saved,       \* history: the configuration the file is known to hold
  edited,      \* history: a user has edited the file since it was written
  mishaps      \* how often a write failed or the file was edited

gui == <<shown, engine>>
history == <<saved, edited, mishaps>>
vars == <<client, config, file, answer, shown, engine, crashed, saved, edited, mishaps>>

Settings(algo, quantum, speed, replacement) ==
  [scheduling_algo |-> algo, time_quantum |-> quantum,
   simulation_speed |-> speed, replacement_algo |-> replacement]

Init ==
  /\ client = TRUE /\ config = DefaultConfiguration /\ answer = <<"none", TRUE>>
  /\ file = NoFile
  /\ shown = Settings("FCFS", 4, 1, "LRU") /\ engine = shown
  /\ crashed = FALSE /\ saved = NoConfiguration /\ edited = FALSE /\ mishaps = 0

-----------------------------------------------------------------------------
(* The file. *)

IsNumber(line) == \E section \in DOMAIN NumberKeys : line.key \in NumberKeys[section]

\* What is left of a line that was cut within its value.
CutShort(line) ==
  IF IsNumber(line)
    THEN {Pair(line.key, n) :
            n \in {Quotient(line.value, 10), Quotient(line.value, 100), NotANumber} \ {0}}
    ELSE {Pair(line.key, "")}

\* What can be in the file when its writing stopped before the end.
Torn(lines) ==
  UNION { {SubSeq(lines, 1, n)}
          \union {Append(SubSeq(lines, 1, n), cut) : cut \in CutShort(lines[n + 1])}
          : n \in 0 .. Len(lines) - 1 }

Save(c) ==
  /\ ~crashed /\ ValidConfiguration(c)
  /\ file' = ToText(c) /\ saved' = c /\ edited' = FALSE
  /\ answer' = <<"save", TRUE>>
  /\ UNCHANGED <<client, config, gui, crashed, mishaps>>

\* Opening the file for writing has emptied it.
SaveHalfWay(c) ==
  /\ ~crashed /\ ValidConfiguration(c) /\ mishaps < MaxMishaps
  /\ file' \in Torn(ToText(c)) /\ saved' = NoConfiguration /\ edited' = FALSE
  /\ answer' = <<"save", FALSE>> /\ mishaps' = mishaps + 1
  /\ UNCHANGED <<client, config, gui, crashed>>

\* Refused, or the file could not be opened.
SaveNothing(c) ==
  /\ ~crashed
  /\ answer' = <<"save", FALSE>>
  /\ UNCHANGED <<client, config, file, gui, crashed, history>>

\* The user changes a value, or deletes a line.
Edit ==
  /\ ~crashed /\ file # NoFile /\ mishaps < MaxMishaps
  /\ \E i \in DOMAIN file :
       \/ IsNumber(file[i]) /\ \E n \in Typed : file' = [file EXCEPT ![i].value = n]
       \/ file' = RemoveAt(file, i)
  /\ saved' = NoConfiguration /\ edited' = TRUE /\ mishaps' = mishaps + 1
  /\ UNCHANGED <<client, config, answer, gui, crashed>>

-----------------------------------------------------------------------------
(* The client of ConfigurationManager. *)

Compose ==
  /\ client /\ ~crashed
  /\ config' \in Configurations /\ answer' = <<"none", TRUE>>
  /\ UNCHANGED <<client, file, gui, crashed, history>>

\* A load that fails has changed the client's configuration all the same.
Load ==
  /\ client /\ ~crashed /\ file # NoFile
  /\ config' = FromText(file).config
  /\ crashed' = (FromText(file).status = "crash")
  /\ answer' = <<"load", Accepts(file)>>
  /\ UNCHANGED <<client, file, gui, history>>

LoadNothing ==
  /\ client /\ ~crashed /\ file = NoFile
  /\ answer' = <<"load", FALSE>>
  /\ UNCHANGED <<client, config, file, gui, crashed, history>>

\* The client has prepared a file, and the simulator is started.
RunSimulator ==
  /\ client /\ ~crashed
  /\ client' = FALSE /\ config' = DefaultConfiguration /\ answer' = <<"none", TRUE>>
  /\ UNCHANGED <<file, gui, crashed, history>>

-----------------------------------------------------------------------------
(* The dashboard: setting a control emits a signal if it changes the value, *)
(* and GUIController's slot passes the value on to the SimulationController. *)

\* SchedulingAlgorithm and quantum travel together.
SetSchedulingAlgorithm(ui, algo) ==
  IF algo = ui.shown.scheduling_algo THEN ui
  ELSE [ui EXCEPT !.shown.scheduling_algo = algo, !.engine.scheduling_algo = algo,
                  !.engine.time_quantum = ui.shown.time_quantum]

\* Fault for the checks: the range of the spin box is not set.
AnyQuantum(quantum) == quantum

\* The range of the spin box.
InRange(quantum) == IF quantum < 1 THEN 1 ELSE IF quantum > 20 THEN 20 ELSE quantum

\* Fault for the checks: the signal is blocked.
SetQuantumSilently(ui, quantum) == [ui EXCEPT !.shown.time_quantum = InRange(quantum)]

SetTimeQuantum(ui, quantum) ==
  IF InRange(quantum) = ui.shown.time_quantum THEN ui
  ELSE [ui EXCEPT !.shown.time_quantum = InRange(quantum),
                  !.engine.time_quantum = InRange(quantum),
                  !.engine.scheduling_algo = ui.shown.scheduling_algo]

SetSimulationSpeed(ui, speed) ==
  IF speed \notin 1 .. 10 \/ speed = ui.shown.simulation_speed THEN ui
  ELSE [ui EXCEPT !.shown.simulation_speed = speed, !.engine.simulation_speed = speed]

SetMemoryAlgorithm(ui, algo) ==
  IF algo = ui.shown.replacement_algo THEN ui
  ELSE [ui EXCEPT !.shown.replacement_algo = algo, !.engine.replacement_algo = algo]

UI == [shown |-> shown, engine |-> engine]
Becomes(ui) == shown' = ui.shown /\ engine' = ui.engine

Control ==
  /\ ~client /\ ~crashed
  /\ \/ \E a \in {"FCFS", "ROUND_ROBIN", "PRIORITY"} : Becomes(SetSchedulingAlgorithm(UI, a))
     \/ \E q \in Quanta : Becomes(SetTimeQuantum(UI, q))
     \/ \E n \in Speeds : Becomes(SetSimulationSpeed(UI, n))
     \/ \E a \in {"FIFO", "LRU"} : Becomes(SetMemoryAlgorithm(UI, a))
  /\ UNCHANGED <<client, config, file, answer, crashed, history>>

\* onStartSimulation and onStepSimulation initialize the controller with the
\* controls, unless it is not STOPPED (see SimControl); a step sets speed 1.
Start ==
  /\ ~client /\ ~crashed
  /\ engine' \in {engine, shown, [shown EXCEPT !.simulation_speed = 1]}
  /\ UNCHANGED <<client, config, file, answer, shown, crashed, history>>

\* onOpenConfiguration: what is not a control is dropped.
Shows(ui, c) ==
  SetMemoryAlgorithm(
    SetSimulationSpeed(
      SetTimeQuantum(SetSchedulingAlgorithm(ui, c.scheduling_algo), c.time_quantum),
      c.simulation_speed),
    c.replacement_algo)

Open ==
  /\ ~client /\ ~crashed /\ file # NoFile
  /\ IF Accepts(file) THEN Becomes(Shows(UI, FromText(file).config)) ELSE UNCHANGED gui
  /\ crashed' = (FromText(file).status = "crash")
  /\ UNCHANGED <<client, config, file, answer, history>>

\* onSaveConfiguration: the controls, in an otherwise new SimulationConfig.
\* It has no processes, so that validation refuses it every time.
OfControls ==
  [scheduling_algo |-> shown.scheduling_algo, time_quantum |-> shown.time_quantum,
   simulation_speed |-> shown.simulation_speed, step_mode |-> FALSE,
   total_memory_size |-> 1024, page_size |-> 64, num_frames |-> 16,
   replacement_algo |-> shown.replacement_algo, processes |-> <<>>]

-----------------------------------------------------------------------------

SaveSome == LET c == IF client THEN config ELSE OfControls
            IN  Save(c) \/ SaveHalfWay(c) \/ SaveNothing(c)
Crashed == crashed /\ UNCHANGED vars

Next == \/ Compose \/ SaveSome \/ Load \/ LoadNothing \/ RunSimulator \/ Edit
        \/ Control \/ Start \/ Open \/ Crashed

Spec == Init /\ [][Next]_vars

-----------------------------------------------------------------------------
(* Properties. *)

\* Every variable keeps its type; above all, neither the client nor the
\* parser makes a setting that is no algorithm or no number.
TypeOK ==
  /\ config.scheduling_algo \in Algorithms /\ config.replacement_algo \in {"FIFO", "LRU"}
  /\ config.step_mode \in BOOLEAN
  /\ \A field \in {"time_quantum", "simulation_speed", "total_memory_size",
                   "page_size", "num_frames"} : config[field] \in Int
  /\ answer \in {"none", "save", "load"} \X BOOLEAN
  /\ \A s \in {shown, engine} :
       s \in [scheduling_algo : Algorithms, time_quantum : Int,
              simulation_speed : 1 .. 10, replacement_algo : {"FIFO", "LRU"}]
  /\ client \in BOOLEAN /\ crashed \in BOOLEAN
  /\ edited \in BOOLEAN /\ mishaps \in 0 .. MaxMishaps

\* A file that a save has completed, and nobody has touched since, is
\* accepted when it is loaded, and brings back every setting but the list of
\* processes; num_frames, which is not written, agrees with the sizes.
SettingsSurvive ==
  saved # NoConfiguration /\ answer[1] = "load" =>
    /\ answer[2]
    /\ \A field \in DOMAIN config \ {"processes", "num_frames"} : config[field] = saved[field]
    /\ config.num_frames * config.page_size = config.total_memory_size

\* The default processes are in every loaded list, before the file's; saving
\* and loading again and again does not pile them up towards the limit of
\* 100, beyond which a configuration could not be saved any more.
RoundsDoNotPileUp ==
  saved # NoConfiguration /\ answer[1] = "load" =>
    Len(config.processes) <= Len(DefaultConfiguration.processes) + 1

\* A page size of 0 in the file ends the program (a division nothing catches).
\* No save puts one there, not even of what a failed load has left in the
\* client's configuration, and not even one that stops within a number.
OnlyEditsCrash == crashed => edited

\* A quantum is validated under round robin only, but it stays in the controls
\* when the user changes to round robin: from no file does one get there that
\* round robin cannot use.
QuantumStaysUsable == shown.time_quantum > 0 /\ engine.time_quantum > 0

\* Whatever the dashboard shows is in force, however it came there: by the
\* user, by a file, or by a start or a step (whose speed of 1 is not shown).
EngineFollowsDashboard ==
  \A field \in DOMAIN shown \ {"simulation_speed"} : engine[field] = shown[field]

\* design.md, property 26: saving a configuration to a file and then loading
\* it gives identical parameters.
RoundTrip ==
  saved # NoConfiguration /\ answer = <<"load", TRUE>> => config = saved
=============================================================================
