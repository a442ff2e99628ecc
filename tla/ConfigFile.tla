----------------------------- MODULE ConfigFile -----------------------------
(***************************************************************************)
(* Configurations and the file they are kept in: the writer, the line by   *)
(* line parser and the validation of ConfigurationManager.cpp, with the    *)
(* ranges of InputValidator.cpp.                                           *)
(*                                                                         *)
(* A file is the sequence of its lines that the parser does not skip: the  *)
(* two section headings, the closing braces, and the pairs of a key and a  *)
(* value.  The value of a number's key is an integer, or NotANumber if     *)
(* std::stoi refuses the text; that of any other key is a word.            *)
(***************************************************************************)
EXTENDS Integers, Sequences, SequencesExt

CONSTANT NotANumber
ASSUME NotANumberAssumption == NotANumber \notin Int

Algorithms == {"FCFS", "ROUND_ROBIN", "PRIORITY"}

\* The types of SimulationConfig.h.
ProcessConfigs ==
  [priority : Int, burst_time : Int, arrival_time : Int, memory_requirement : Int]

SimulationConfigs ==
  [scheduling_algo : Algorithms, time_quantum : Int,
   simulation_speed : Int, step_mode : BOOLEAN,
   total_memory_size : Int, page_size : Int, num_frames : Int,
   replacement_algo : {"FIFO", "LRU"}, processes : Seq(ProcessConfigs)]

\* C++'s division, which cuts off towards 0.
Quotient(a, b) ==
  LET Size(n) == IF n < 0 THEN -n ELSE n
      q == Size(a) \div Size(b)
  IN  IF (a < 0) <=> (b < 0) THEN q ELSE -q

ProcessConfig(priority, burst, arrival, memory) ==
  [priority |-> priority, burst_time |-> burst, arrival_time |-> arrival,
   memory_requirement |-> memory]

DefaultConfiguration ==
  [scheduling_algo |-> "FCFS", time_quantum |-> 4,
   simulation_speed |-> 1, step_mode |-> FALSE,
   total_memory_size |-> 256, page_size |-> 32, num_frames |-> 8,
   replacement_algo |-> "LRU",
   processes |-> << ProcessConfig(5, 10, 0, 2), ProcessConfig(3, 8, 2, 1),
                    ProcessConfig(7, 6, 4, 3) >>]

-----------------------------------------------------------------------------
(* Validation. *)

ValidProcess(p) == p.priority \in 1 .. 10 /\ p.burst_time > 0 /\ p.arrival_time >= 0

\* Fault for the checks: the page size is not looked at by itself.
DivisibleMemory(total, page) == total > 0 /\ (page > 0 => total % page = 0)

ValidMemory(total, page) ==
  /\ total > 0 /\ page > 0 /\ page \in {2^k : k \in 0 .. 30}
  /\ total % page = 0

\* The quantum is looked at under round robin only.
ValidConfiguration(c) ==
  /\ c.simulation_speed \in 1 .. 10
  /\ c.scheduling_algo = "ROUND_ROBIN" => c.time_quantum > 0
  /\ ValidMemory(c.total_memory_size, c.page_size)
  /\ Len(c.processes) \in 1 .. 100
  /\ \A i \in DOMAIN c.processes : ValidProcess(c.processes[i])

-----------------------------------------------------------------------------
(* The writer: configurationToJson.  num_frames is not written. *)

\* What a line may hold.
Keys == {"scheduling_algorithm", "time_quantum", "simulation_speed", "step_mode",
         "memory_config", "total_memory_size", "page_size", "replacement_algorithm",
         "processes", "priority", "burst_time", "arrival_time", "memory_requirement", "}"}
Words == Algorithms \cup {"FIFO", "LRU", "true", "false", ""}
FileLines == [key : Keys, value : Int \cup Words \cup {NotANumber}]

Pair(key, value) == [key |-> key, value |-> value]
Line(text) == [key |-> text, value |-> ""]
Close == Line("}")

ProcessLines(p) ==
  << Pair("priority", p.priority), Pair("burst_time", p.burst_time),
     Pair("arrival_time", p.arrival_time),
     Pair("memory_requirement", p.memory_requirement), Close >>

\* Fault for the checks: the sizes change places.
MemoryLinesPageFirst(c) ==
  << Pair("page_size", c.page_size), Pair("total_memory_size", c.total_memory_size),
     Pair("replacement_algorithm", c.replacement_algo), Close >>

MemoryLines(c) ==
  << Pair("total_memory_size", c.total_memory_size), Pair("page_size", c.page_size),
     Pair("replacement_algorithm", c.replacement_algo), Close >>

ToText(c) ==
  << Pair("scheduling_algorithm", c.scheduling_algo),
     Pair("time_quantum", c.time_quantum),
     Pair("simulation_speed", c.simulation_speed),
     Pair("step_mode", IF c.step_mode THEN "true" ELSE "false"),
     Line("memory_config") >>
  \o MemoryLines(c)
  \o << Line("processes") >>
  \o FlattenSeq([i \in DOMAIN c.processes |-> ProcessLines(c.processes[i])])
  \o << Close >>

-----------------------------------------------------------------------------
(* The parser: configurationFromJson. *)

NumberKeys ==
  [main          |-> {"time_quantum", "simulation_speed"},
   memory_config |-> {"total_memory_size", "page_size"},
   processes     |-> {"priority", "burst_time", "arrival_time", "memory_requirement"}]

\* The parser before the first line.  Its configuration starts as the default
\* one, processes included.
Beginning ==
  [config |-> DefaultConfiguration, process |-> ProcessConfig(5, 10, 0, 1),
   in_memory_config |-> FALSE, in_processes |-> FALSE, status |-> "reading"]

Section(s) == IF s.in_memory_config THEN "memory_config"
              ELSE IF s.in_processes THEN "processes" ELSE "main"

\* Fault for the checks: the list of processes ends where the file does.
AfterOuterBrace(s) == [s EXCEPT !.in_memory_config = FALSE]

\* A brace ends the section it is in, were it only that of one process.
AfterBrace(s) ==
  IF s.in_memory_config THEN [s EXCEPT !.in_memory_config = FALSE]
                        ELSE [s EXCEPT !.in_processes = FALSE]

\* page_size also sets num_frames, from the total size read so far; nothing
\* catches a division by zero.
WithMemoryNumber(s, key, n) ==
  LET read == [s EXCEPT !.config[key] = n]
  IN  CASE key = "total_memory_size" -> read
        [] key = "page_size" /\ n = 0 -> [read EXCEPT !.status = "crash"]
        [] key = "page_size" /\ n # 0 ->
             [read EXCEPT !.config.num_frames = Quotient(read.config.total_memory_size, n)]

\* The last of the four fields completes a process, if its burst is positive.
WithProcessNumber(s, key, n) ==
  LET read == [s EXCEPT !.process[key] = n]
  IN  IF key = "memory_requirement" /\ read.process.burst_time > 0
        THEN [read EXCEPT !.config.processes = Append(@, read.process),
                          !.process = Beginning.process]
        ELSE read

WithNumber(s, key, n) ==
  IF n = NotANumber THEN [s EXCEPT !.status = "error"]
  ELSE CASE Section(s) = "main"          -> [s EXCEPT !.config[key] = n]
         [] Section(s) = "memory_config" -> WithMemoryNumber(s, key, n)
         [] Section(s) = "processes"     -> WithProcessNumber(s, key, n)

\* Fault for the checks: words are taken as they are.
WithAnyWord(s, key, word) ==
  CASE Section(s) = "main" /\ key = "scheduling_algorithm" ->
         [s EXCEPT !.config.scheduling_algo = word]
    [] Section(s) = "main" /\ key = "step_mode" ->
         [s EXCEPT !.config.step_mode = (word = "true")]
    [] Section(s) = "memory_config" /\ key = "replacement_algorithm" ->
         [s EXCEPT !.config.replacement_algo = word]
    [] OTHER -> s

\* Unknown words stand for the first scheduling algorithm and for LRU.
WithWord(s, key, word) ==
  CASE Section(s) = "main" /\ key = "scheduling_algorithm" ->
         [s EXCEPT !.config.scheduling_algo =
                     IF word \in {"ROUND_ROBIN", "PRIORITY"} THEN word ELSE "FCFS"]
    [] Section(s) = "main" /\ key = "step_mode" ->
         [s EXCEPT !.config.step_mode = (word = "true")]
    [] Section(s) = "memory_config" /\ key = "replacement_algorithm" ->
         [s EXCEPT !.config.replacement_algo = IF word = "FIFO" THEN word ELSE "LRU"]
    [] OTHER -> s

ReadLine(s, line) ==
  CASE line.key = "memory_config" -> [s EXCEPT !.in_memory_config = TRUE]
    [] line.key = "processes"     -> [s EXCEPT !.in_processes = TRUE]
    [] line.key = "}"             -> AfterBrace(s)
    [] OTHER -> IF line.key \in NumberKeys[Section(s)]
                  THEN WithNumber(s, line.key, line.value)
                  ELSE WithWord(s, line.key, line.value)

\* An exception, or a signal, ends the reading.
AfterLine(s, line) == IF s.status = "reading" THEN ReadLine(s, line) ELSE s

FromText(lines) == FoldLeft(AfterLine, Beginning, lines)

\* loadConfiguration of a file that can be opened.
Accepts(lines) ==
  LET read == FromText(lines)
  IN  read.status = "reading" /\ ValidConfiguration(read.config)
=============================================================================
