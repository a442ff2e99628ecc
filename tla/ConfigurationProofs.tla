------------------------- MODULE ConfigurationProofs -------------------------
(***************************************************************************)
(* The claims about configurations, for all that a client may put          *)
(* together, all that a user may type, and however often a write fails.    *)
(*                                                                         *)
(* First the dashboard and the settings in force.  Then the parser, one    *)
(* line at a time: what it reads it types, and some lines cannot bring it  *)
(* down; the writer, and what is in a file that it wrote, that was torn    *)
(* or that was edited; and the invariants that follow.  Last, the parser   *)
(* at work on what the writer wrote.                                       *)
(***************************************************************************)
EXTENDS Configuration, FoldLemmas, TLAPS

\* The inductive invariant, of a record of controls and settings in force:
\* both sides have the four fields, whatever a file has put there, and all
\* but the speed agree.
Both(algo, quantum, speed, other, replacement) ==
  [shown  |-> Settings(algo, quantum, speed, replacement),
   engine |-> Settings(algo, quantum, other, replacement)]

Agrees(ui) ==
  \E algo, quantum, speed, other, replacement :
    ui = Both(algo, quantum, speed, other, replacement)

\* A control that is set, and its slot in GUIController, keep the two sides in
\* agreement: the scheduling algorithm (which takes the quantum with it),
LEMMA SetSchedulingAlgorithmAgrees ==
  ASSUME NEW ui, NEW algo, Agrees(ui)
  PROVE  Agrees(SetSchedulingAlgorithm(ui, algo))
<1>1. PICK a, q, n, m, r : ui = Both(a, q, n, m, r)
  BY DEF Agrees
<1>2. SetSchedulingAlgorithm(ui, algo) \in {ui, Both(algo, q, n, m, r)}
  BY <1>1 DEF SetSchedulingAlgorithm, Both, Settings
<1> QED  BY <1>2 DEF Agrees

\* the quantum (which takes the scheduling algorithm with it),
LEMMA SetTimeQuantumAgrees ==
  ASSUME NEW ui, NEW quantum, Agrees(ui)
  PROVE  Agrees(SetTimeQuantum(ui, quantum))
<1>1. PICK a, q, n, m, r : ui = Both(a, q, n, m, r)
  BY DEF Agrees
<1>2. SetTimeQuantum(ui, quantum) \in {ui, Both(a, InRange(quantum), n, m, r)}
  BY <1>1 DEF SetTimeQuantum, Both, Settings
<1> QED  BY <1>2 DEF Agrees

\* the speed,
LEMMA SetSimulationSpeedAgrees ==
  ASSUME NEW ui, NEW speed, Agrees(ui)
  PROVE  Agrees(SetSimulationSpeed(ui, speed))
<1>1. PICK a, q, n, m, r : ui = Both(a, q, n, m, r)
  BY DEF Agrees
<1>2. SetSimulationSpeed(ui, speed) \in {ui, Both(a, q, speed, speed, r)}
  BY <1>1 DEF SetSimulationSpeed, Both, Settings
<1> QED  BY <1>2 DEF Agrees

\* and the replacement algorithm.
LEMMA SetMemoryAlgorithmAgrees ==
  ASSUME NEW ui, NEW algo, Agrees(ui)
  PROVE  Agrees(SetMemoryAlgorithm(ui, algo))
<1>1. PICK a, q, n, m, r : ui = Both(a, q, n, m, r)
  BY DEF Agrees
<1>2. SetMemoryAlgorithm(ui, algo) \in {ui, Both(a, q, n, m, algo)}
  BY <1>1 DEF SetMemoryAlgorithm, Both, Settings
<1> QED  BY <1>2 DEF Agrees

\* Opening a file sets the four controls one after the other.
LEMMA ShowsAgrees ==
  ASSUME NEW ui, NEW c, Agrees(ui)
  PROVE  Agrees(Shows(ui, c))
BY SetSchedulingAlgorithmAgrees, SetTimeQuantumAgrees, SetSimulationSpeedAgrees,
   SetMemoryAlgorithmAgrees DEF Shows

\* What an action that Becomes a record leaves behind is that record.
LEMMA BecomesAgrees ==
  ASSUME NEW ui, Agrees(ui), Becomes(ui)
  PROVE  Agrees(UI)'
<1>1. PICK a, q, n, m, r : ui = Both(a, q, n, m, r)
  BY DEF Agrees
<1>2. UI' = Both(a, q, n, m, r)
  BY <1>1 DEF Becomes, UI, Both
<1> QED  BY <1>2 DEF Agrees

\* The start of the program: Dashboard and SimulationController have the same
\* defaults.
LEMMA InitAgrees == Init => Agrees(UI)
<1>1. Init => UI = Both("FCFS", 4, 1, 1, "LRU")
  BY DEF Init, UI, Both
<1> QED  BY <1>1 DEF Agrees

\* Every step keeps the agreement.
LEMMA NextAgrees == Agrees(UI) /\ [Next]_vars => Agrees(UI)'
<1> SUFFICES ASSUME Agrees(UI), [Next]_vars PROVE Agrees(UI)'
  OBVIOUS
<1>1. CASE Control
  BY <1>1, BecomesAgrees, SetSchedulingAlgorithmAgrees, SetTimeQuantumAgrees,
     SetSimulationSpeedAgrees, SetMemoryAlgorithmAgrees DEF Control
<1>2. CASE Start
  <2>1. PICK a, q, n, m, r : UI = Both(a, q, n, m, r)
    BY DEF Agrees
  <2>2. UI' \in {Both(a, q, n, m, r), Both(a, q, n, n, r), Both(a, q, n, 1, r)}
    BY <1>2, <2>1 DEF Start, UI, Both, Settings
  <2> QED  BY <2>2 DEF Agrees
<1>3. CASE Open
  <2>1. CASE Accepts(file)
    BY <1>3, <2>1, BecomesAgrees, ShowsAgrees DEF Open
  <2>2. CASE ~Accepts(file)
    BY <1>3, <2>2 DEF Open, gui, Agrees, UI
  <2> QED  BY <2>1, <2>2
<1>4. CASE UNCHANGED gui
  BY <1>4 DEF gui, Agrees, UI
<1>5. Control \/ Start \/ Open \/ UNCHANGED gui
  BY DEF Next, SaveSome, Save, SaveHalfWay, SaveNothing, Edit, Compose, Load, LoadNothing,
         RunSimulator, Crashed, gui, vars
<1> QED  BY <1>1, <1>2, <1>3, <1>4, <1>5

\* Whatever configurations are composed, saved, damaged, edited and opened,
\* the scheduling algorithm, the quantum and the replacement algorithm that
\* the dashboard shows are those the SimulationController works with.
THEOREM EngineFollowsAlways == Spec => []EngineFollowsDashboard
<1>1. Agrees(UI) => EngineFollowsDashboard
  <2>1. ASSUME NEW a, NEW q, NEW n, NEW m, NEW r, UI = Both(a, q, n, m, r)
        PROVE  EngineFollowsDashboard
    <3>1. shown = Settings(a, q, n, r) /\ engine = Settings(a, q, m, r)
      BY <2>1 DEF UI, Both
    <3>2. DOMAIN shown \ {"simulation_speed"}
            = {"scheduling_algo", "time_quantum", "replacement_algo"}
      BY <3>1 DEF Settings
    <3> QED  BY <3>1, <3>2 DEF Settings, EngineFollowsDashboard
  <2> QED  BY <2>1 DEF Agrees
<1> QED  BY <1>1, InitAgrees, NextAgrees, PTL DEF Spec

-----------------------------------------------------------------------------
(* The parser, line by line. *)

ParserStates ==
  [config : SimulationConfigs, process : ProcessConfigs,
   in_memory_config : BOOLEAN, in_processes : BOOLEAN,
   status : {"reading", "error", "crash"}]

NumberNames == {"time_quantum", "simulation_speed", "total_memory_size", "page_size",
                "priority", "burst_time", "arrival_time", "memory_requirement"}

\* The lines that are written, and that an editing user leaves: a number's key
\* has a number or what std::stoi refuses, and a page size is not negative.
Legible ==
  {l \in FileLines : l.key \in NumberNames => l.value \in Int \cup {NotANumber}}

\* Division as the writer and the parser use it.
LEMMA QuotientIs ==
  ASSUME NEW a \in Int, NEW b \in Int, b # 0
  PROVE  /\ Quotient(a, b) \in Int
         /\ a >= 0 /\ b > 0 => Quotient(a, b) = a \div b
<1> DEFINE Size(n) == IF n < 0 THEN -n ELSE n
           q == Size(a) \div Size(b)
<1>1. Size(a) \in Int /\ Size(b) \in Int /\ Size(b) > 0
  OBVIOUS
<1>2. q \in Int
  <2> HIDE DEF Size
  <2> QED BY <1>1
<1>3. a >= 0 /\ b > 0 => q = a \div b
  OBVIOUS
<1>4. Quotient(a, b) = IF (a < 0) <=> (b < 0) THEN q ELSE -q
  BY DEF Quotient
<1> HIDE DEF q
<1> QED BY <1>2, <1>3, <1>4

LEMMA NumberKeysAre ==
  /\ NumberKeys["main"] = {"time_quantum", "simulation_speed"}
  /\ NumberKeys["memory_config"] = {"total_memory_size", "page_size"}
  /\ NumberKeys["processes"] = {"priority", "burst_time", "arrival_time", "memory_requirement"}
  /\ DOMAIN NumberKeys = {"main", "memory_config", "processes"}
BY DEF NumberKeys

LEMMA NumbersAreNamed == ASSUME NEW l PROVE IsNumber(l) <=> l.key \in NumberNames
BY NumberKeysAre DEF IsNumber, NumberNames

LEMMA BeginningIsTyped == Beginning \in ParserStates
<1>1. DefaultConfiguration.processes \in Seq(ProcessConfigs)
  BY DEF DefaultConfiguration, ProcessConfig, ProcessConfigs
<1>2. DefaultConfiguration \in SimulationConfigs
  BY <1>1 DEF DefaultConfiguration, SimulationConfigs, Algorithms
<1>3. ProcessConfig(5, 10, 0, 1) \in ProcessConfigs
  BY DEF ProcessConfig, ProcessConfigs
<1> QED BY <1>2, <1>3 DEF Beginning, ParserStates

\* No line, in whatever section it stands, makes a setting of the wrong type.
LEMMA NumberIsTyped ==
  ASSUME NEW s \in ParserStates, NEW l \in Legible, l.key \in NumberKeys[Section(s)]
  PROVE  WithNumber(s, l.key, l.value) \in ParserStates
<1>1. CASE l.value = NotANumber
  BY <1>1 DEF WithNumber, ParserStates
<1> SUFFICES ASSUME l.value # NotANumber
             PROVE  WithNumber(s, l.key, l.value) \in ParserStates
  BY <1>1
<1>2. CASE Section(s) = "main"
  <2>1. l.key \in {"time_quantum", "simulation_speed"}
    BY <1>2, NumberKeysAre
  <2>2. l.value \in Int
    BY <2>1 DEF Legible, NumberNames
  <2>3. WithNumber(s, l.key, l.value) = [s EXCEPT !.config[l.key] = l.value]
    BY <1>2 DEF WithNumber
  <2>4. [s.config EXCEPT ![l.key] = l.value] \in SimulationConfigs
    BY <2>1, <2>2 DEF ParserStates, SimulationConfigs
  <2> QED BY <2>3, <2>4 DEF ParserStates
<1>3. CASE Section(s) = "memory_config"
  <2>1. l.key \in {"total_memory_size", "page_size"}
    BY <1>3, NumberKeysAre
  <2>2. l.value \in Int
    BY <2>1 DEF Legible, NumberNames
  <2> DEFINE read == [s EXCEPT !.config[l.key] = l.value]
  <2>3. WithNumber(s, l.key, l.value) = WithMemoryNumber(s, l.key, l.value)
    BY <1>3 DEF WithNumber
  <2>4. [s.config EXCEPT ![l.key] = l.value] \in SimulationConfigs
    BY <2>1, <2>2 DEF ParserStates, SimulationConfigs
  <2>5. read \in ParserStates
    BY <2>4 DEF ParserStates
  <2>6. CASE l.key = "total_memory_size"
    BY <2>3, <2>5, <2>6 DEF WithMemoryNumber
  <2>7. CASE l.key = "page_size" /\ l.value = 0
    <3>1. WithMemoryNumber(s, l.key, l.value) = [read EXCEPT !.status = "crash"]
      BY <2>7 DEF WithMemoryNumber
    <3> HIDE DEF read
    <3> QED BY <2>3, <2>5, <3>1 DEF ParserStates
  <2>8. CASE l.key = "page_size" /\ l.value # 0
    <3> DEFINE q == Quotient(read.config.total_memory_size, l.value)
    <3>1. WithMemoryNumber(s, l.key, l.value) = [read EXCEPT !.config.num_frames = q]
      BY <2>8 DEF WithMemoryNumber
    <3>2. q \in Int
      <4> HIDE DEF read
      <4>1. read.config.total_memory_size \in Int
        BY <2>5 DEF ParserStates, SimulationConfigs
      <4> QED BY <2>2, <2>8, <4>1, QuotientIs
    <3> HIDE DEF read, q
    <3>3. [read.config EXCEPT !.num_frames = q] \in SimulationConfigs
      BY <2>5, <3>2 DEF ParserStates, SimulationConfigs
    <3> QED BY <2>3, <2>5, <3>1, <3>3 DEF ParserStates
  <2> QED BY <2>1, <2>6, <2>7, <2>8
<1>4. CASE Section(s) = "processes"
  <2>1. l.key \in {"priority", "burst_time", "arrival_time", "memory_requirement"}
    BY <1>4, NumberKeysAre
  <2>2. l.value \in Int
    BY <2>1 DEF Legible, NumberNames
  <2> DEFINE read == [s EXCEPT !.process[l.key] = l.value]
  <2>3. WithNumber(s, l.key, l.value) = WithProcessNumber(s, l.key, l.value)
    BY <1>4 DEF WithNumber
  <2>4. [s.process EXCEPT ![l.key] = l.value] \in ProcessConfigs
    BY <2>1, <2>2 DEF ParserStates, ProcessConfigs
  <2>5. read \in ParserStates
    BY <2>4 DEF ParserStates
  <2> DEFINE c == [read.config EXCEPT !.processes = Append(@, read.process)]
             next == [read EXCEPT !.config.processes = Append(@, read.process),
                                  !.process = Beginning.process]
  <2>6. WithProcessNumber(s, l.key, l.value) \in {read, next}
    BY DEF WithProcessNumber
  <2>7. next \in ParserStates
    <3> HIDE DEF read
    <3>1. Append(read.config.processes, read.process) \in Seq(ProcessConfigs)
      BY <2>5 DEF ParserStates, SimulationConfigs
    <3>2. c \in SimulationConfigs
      BY <2>5, <3>1 DEF ParserStates, SimulationConfigs
    <3>3. Beginning.process \in ProcessConfigs
      BY BeginningIsTyped DEF ParserStates
    <3> DEFINE grown == [read EXCEPT !.config = c]
    <3>4. grown \in ParserStates
      <4> HIDE DEF c
      <4> QED BY <2>5, <3>2 DEF ParserStates
    <3>5. next = [grown EXCEPT !.process = Beginning.process]
      BY <2>5 DEF ParserStates
    <3> HIDE DEF grown, next
    <3> QED BY <3>3, <3>4, <3>5 DEF ParserStates
  <2> HIDE DEF read, next
  <2> QED BY <2>3, <2>5, <2>6, <2>7
<1> QED BY <1>2, <1>3, <1>4 DEF Section

LEMMA WordIsTyped ==
  ASSUME NEW s \in ParserStates, NEW key, NEW word
  PROVE  WithWord(s, key, word) \in ParserStates
<1>1. CASE Section(s) = "main" /\ key = "scheduling_algorithm"
  <2> DEFINE a == IF word \in {"ROUND_ROBIN", "PRIORITY"} THEN word ELSE "FCFS"
  <2>1. WithWord(s, key, word) = [s EXCEPT !.config.scheduling_algo = a]
    BY <1>1 DEF WithWord
  <2>2. a \in Algorithms
    BY DEF Algorithms
  <2> HIDE DEF a
  <2>3. [s.config EXCEPT !.scheduling_algo = a] \in SimulationConfigs
    BY <2>2 DEF ParserStates, SimulationConfigs
  <2> QED BY <2>1, <2>3 DEF ParserStates
<1>2. CASE Section(s) = "main" /\ key = "step_mode"
  <2>1. WithWord(s, key, word) = [s EXCEPT !.config.step_mode = (word = "true")]
    BY <1>2 DEF WithWord
  <2>2. [s.config EXCEPT !.step_mode = (word = "true")] \in SimulationConfigs
    BY DEF ParserStates, SimulationConfigs
  <2> QED BY <2>1, <2>2 DEF ParserStates
<1>3. CASE Section(s) = "memory_config" /\ key = "replacement_algorithm"
  <2> DEFINE a == IF word = "FIFO" THEN word ELSE "LRU"
  <2>1. WithWord(s, key, word) = [s EXCEPT !.config.replacement_algo = a]
    BY <1>3 DEF WithWord
  <2>2. a \in {"FIFO", "LRU"}
    OBVIOUS
  <2> HIDE DEF a
  <2>3. [s.config EXCEPT !.replacement_algo = a] \in SimulationConfigs
    BY <2>2 DEF ParserStates, SimulationConfigs
  <2> QED BY <2>1, <2>3 DEF ParserStates
<1>4. CASE /\ ~(Section(s) = "main" /\ key \in {"scheduling_algorithm", "step_mode"})
           /\ ~(Section(s) = "memory_config" /\ key = "replacement_algorithm")
  BY <1>4 DEF WithWord
<1> QED BY <1>1, <1>2, <1>3, <1>4

LEMMA LineIsTyped ==
  ASSUME NEW s \in ParserStates, NEW l \in Legible
  PROVE  AfterLine(s, l) \in ParserStates
<1>1. AfterBrace(s) \in ParserStates
  BY DEF AfterBrace, ParserStates
<1>2. [s EXCEPT !.in_memory_config = TRUE] \in ParserStates
      /\ [s EXCEPT !.in_processes = TRUE] \in ParserStates
  BY DEF ParserStates
<1>3. ReadLine(s, l) \in ParserStates
  <2>1. CASE l.key \in NumberKeys[Section(s)]
    BY <1>1, <1>2, <2>1, NumberIsTyped DEF ReadLine
  <2>2. CASE l.key \notin NumberKeys[Section(s)]
    BY <1>1, <1>2, <2>2, WordIsTyped DEF ReadLine
  <2> QED BY <2>1, <2>2
<1> QED BY <1>3 DEF AfterLine

\* The fold by which FromText reads takes the lines in their order.
LEMMA LastPosition ==
  ASSUME NEW n \in Nat, NEW s \in SUBSET (1 .. n), s # {}
  PROVE  Max(s) \in s /\ \A i \in s : Max(s) >= i
<1> DEFINE S == {n - i : i \in s}
<1>1. S \in SUBSET Nat /\ S # {}
  <2>1. \A i \in s : i \in Int /\ n - i \in Nat
    OBVIOUS
  <2>2. \E i \in s : n - i \in S
    OBVIOUS
  <2> QED BY <2>1, <2>2
<1>2. PICK m \in S : \A x \in S : m <= x
  <2> HIDE DEF S
  <2> QED BY <1>1, LeastExists
<1>3. n - m \in s /\ \A i \in s : n - m >= i
  <2>1. PICK k \in s : m = n - k
    OBVIOUS
  <2>2. \A i \in s : m <= n - i
    BY <1>2
  <2>3. k \in Int /\ \A i \in s : i \in Int
    OBVIOUS
  <2> HIDE DEF S
  <2> QED BY <2>1, <2>2, <2>3
<1>4. \E x \in s : \A y \in s : x >= y
  BY <1>3
<1> QED BY <1>4 DEF Max

\* The states the parser goes through.
Reads(st, lines) ==
  /\ st[0] = Beginning
  /\ \A i \in 1 .. Len(lines) : st[i] = AfterLine(st[i - 1], lines[i])

LEMMA ParserRuns ==
  ASSUME NEW lines \in Seq(Legible)
  PROVE  \E st \in [0 .. Len(lines) -> ParserStates] :
           Reads(st, lines) /\ FromText(lines) = st[Len(lines)]
<1> DEFINE n == Len(lines)
           D == 1 .. n
           c == [s \in SUBSET D |-> Max(s)]
           h == [p \in D \X ParserStates |-> AfterLine(p[2], lines[p[1]])]
           Eq(g) == g = [s \in SUBSET D |->
                     IF s = {} THEN Beginning
                     ELSE LET x == Max(s) IN AfterLine(g[s \ {x}], lines[x])]
           it == CHOOSE g : Eq(g)
           st == [i \in 0 .. n |-> it[1 .. i]]
<1>1. n \in Nat /\ IsFiniteSet(D) /\ D = DOMAIN lines
  BY FS_Interval
<1>2. \A s \in SUBSET D : s # {} => c[s] = Max(s) /\ c[s] \in s
  <2> HIDE DEF n
  <2> QED BY <1>1, LastPosition
<1>3. \A i \in D, v \in ParserStates :
        h[<<i, v>>] = AfterLine(v, lines[i]) /\ h[<<i, v>>] \in ParserStates
  BY LineIsTyped
<1>4. PICK g \in [SUBSET D -> ParserStates] : FoldOf(g, Beginning, c, h, D)
  <2>1. Combines(h, D, ParserStates) /\ Chooses(c, D)
    BY <1>2, <1>3 DEF Combines, Chooses
  <2> HIDE DEF c, h, D
  <2> QED BY <1>1, <2>1, BeginningIsTyped, FoldExists
<1>5. Eq(g)
  <2>1. ASSUME NEW s \in SUBSET D, s # {}
        PROVE  g[s] = AfterLine(g[s \ {Max(s)}], lines[Max(s)])
    <3>1. c[s] = Max(s) /\ c[s] \in D /\ s \ {c[s]} \in SUBSET D
      BY <1>2, <2>1
    <3>2. g[s] = h[<<c[s], g[s \ {c[s]}]>>]
      BY <1>4, <2>1 DEF FoldOf
    <3> HIDE DEF c, h, D
    <3> QED BY <1>3, <1>4, <3>1, <3>2
  <2>2. g[{}] = Beginning
    BY <1>4 DEF FoldOf
  <2> HIDE DEF c, h, D
  <2> QED BY <1>4, <2>1, <2>2
<1>6. Eq(it)
  <2>1. \E x : Eq(x)
    BY <1>5
  <2> HIDE DEF Eq
  <2> QED BY <2>1
<1>7. FromText(lines) = it[D]
  BY <1>1, Zenon DEF FromText, FoldLeft, MapThenFoldSet
<1> HIDE DEF it
<1>8. st[0] = Beginning /\ st[n] = it[D]
  <2>1. 1 .. 0 = {} /\ {} \in SUBSET D
    OBVIOUS
  <2>2. it[{}] = Beginning
    BY <1>6, <2>1
  <2> QED BY <1>1, <2>1, <2>2
<1>9. ASSUME NEW i \in D PROVE st[i] = AfterLine(st[i - 1], lines[i])
  <2> DEFINE s == 1 .. i
  <2>1. s \in SUBSET D /\ s # {} /\ s \ {i} = 1 .. (i - 1) /\ i - 1 \in 0 .. n /\ i \in 0 .. n
    BY <1>1
  <2>2. Max(s) = i
    <3>1. s \in SUBSET (1 .. i) /\ s # {} /\ i \in s /\ i \in Nat
      BY <1>1
    <3>2. Max(s) \in s /\ Max(s) >= i
      <4> HIDE DEF s
      <4> QED BY <3>1, LastPosition
    <3> QED BY <3>2
  <2>3. it[s] = AfterLine(it[s \ {Max(s)}], lines[Max(s)])
    <3> HIDE DEF s
    <3> QED BY <1>6, <2>1
  <2>4. st[i] = it[s] /\ st[i - 1] = it[s \ {i}]
    BY <2>1
  <2> HIDE DEF s, st
  <2> QED BY <2>2, <2>3, <2>4
<1> HIDE DEF st
<1> DEFINE Good == {i \in Nat : i <= n => st[i] \in ParserStates}
<1>10. Nat \subseteq Good
  <2>1. 0 \in Good
    BY <1>8, BeginningIsTyped
  <2>2. ASSUME NEW i \in Nat, i \in Good PROVE i + 1 \in Good
    <3>1. CASE i + 1 <= n
      <4>1. i + 1 \in D /\ i <= n /\ (i + 1) - 1 = i
        BY <1>1, <3>1
      <4>2. st[i + 1] = AfterLine(st[i], lines[i + 1])
        BY <1>9, <4>1
      <4>3. st[i] \in ParserStates /\ lines[i + 1] \in Legible
        BY <2>2, <4>1
      <4> QED BY <4>2, <4>3, LineIsTyped
    <3>2. CASE ~(i + 1 <= n)
      BY <3>2
    <3> QED BY <3>1, <3>2
  <2> HIDE DEF Good
  <2> QED BY <2>1, <2>2, NumberInduction
<1>11. st \in [0 .. n -> ParserStates]
  <2>1. \A i \in 0 .. n : st[i] \in ParserStates
    BY <1>1, <1>10
  <2> QED BY <2>1 DEF st
<1> QED BY <1>7, <1>8, <1>9, <1>11 DEF Reads

\* What is read has the types of SimulationConfig, whatever is in the file.
LEMMA ReadingIsTyped ==
  ASSUME NEW lines \in Seq(Legible)
  PROVE  FromText(lines) \in ParserStates
BY ParserRuns

\* Only a page size of 0 ends the program.
Harmless == {l \in Legible : l.key = "page_size" => l.value # 0}

LEMMA LineIsHarmless ==
  ASSUME NEW s \in ParserStates, s.status # "crash", NEW l \in Harmless
  PROVE  AfterLine(s, l).status # "crash"
<1> DEFINE Fine(t) == t.status # "crash"
<1>1. l \in Legible
  BY DEF Harmless
<1>2. Fine(AfterBrace(s)) /\ Fine([s EXCEPT !.in_memory_config = TRUE])
      /\ Fine([s EXCEPT !.in_processes = TRUE])
  BY DEF AfterBrace, ParserStates
<1>3. Fine(WithWord(s, l.key, l.value))
  BY DEF WithWord, ParserStates
<1>4. ASSUME l.key \in NumberKeys[Section(s)] PROVE Fine(WithNumber(s, l.key, l.value))
  <2>1. CASE l.value = NotANumber
    BY <2>1 DEF WithNumber, ParserStates
  <2>2. CASE l.value # NotANumber /\ Section(s) = "main"
    BY <2>2 DEF WithNumber, ParserStates
  <2>3. CASE l.value # NotANumber /\ Section(s) = "memory_config"
    <3>1. l.key \in {"total_memory_size", "page_size"}
      BY <1>4, <2>3, NumberKeysAre
    <3>2. WithNumber(s, l.key, l.value) = WithMemoryNumber(s, l.key, l.value)
      BY <2>3 DEF WithNumber
    <3>3. l.key = "page_size" => l.value # 0
      BY DEF Harmless
    <3> QED BY <3>1, <3>2, <3>3 DEF WithMemoryNumber, ParserStates
  <2>4. CASE l.value # NotANumber /\ Section(s) = "processes"
    <3>1. WithNumber(s, l.key, l.value) = WithProcessNumber(s, l.key, l.value)
      BY <2>4 DEF WithNumber
    <3> QED BY <3>1 DEF WithProcessNumber, ParserStates
  <2> QED BY <2>1, <2>2, <2>3, <2>4 DEF Section
<1>5. Fine(ReadLine(s, l))
  <2> HIDE DEF Fine
  <2>1. CASE l.key \in NumberKeys[Section(s)]
    BY <1>2, <1>4, <2>1 DEF ReadLine
  <2>2. CASE l.key \notin NumberKeys[Section(s)]
    BY <1>2, <1>3, <2>2 DEF ReadLine
  <2> QED BY <2>1, <2>2
<1> QED BY <1>5 DEF AfterLine

\* Whatever lines a file has, in whatever order: configurationFromJson comes to
\* an end, by itself or with an exception, unless one of them is a page size
\* of 0.
THEOREM HarmlessFile ==
  ASSUME NEW lines \in Seq(Harmless)
  PROVE  FromText(lines).status # "crash"
<1>1. lines \in Seq(Legible)
  BY DEF Harmless
<1>2. PICK st \in [0 .. Len(lines) -> ParserStates] :
        Reads(st, lines) /\ FromText(lines) = st[Len(lines)]
  BY <1>1, ParserRuns
<1> DEFINE n == Len(lines)
           Good == {i \in Nat : i <= n => st[i].status # "crash"}
<1>3. n \in Nat
  OBVIOUS
<1>4. 0 \in Good
  BY <1>2 DEF Reads, Beginning
<1>5. ASSUME NEW i \in Nat, i \in Good, i + 1 <= n PROVE st[i + 1].status # "crash"
  <2>1. i + 1 \in 1 .. n /\ i \in 0 .. n /\ (i + 1) - 1 = i /\ i <= n
    BY <1>3, <1>5
  <2>2. st[i + 1] = AfterLine(st[i], lines[i + 1])
    BY <1>2, <2>1 DEF Reads
  <2>3. st[i] \in ParserStates /\ st[i].status # "crash" /\ lines[i + 1] \in Harmless
    BY <1>2, <1>5, <2>1
  <2> QED BY <2>2, <2>3, LineIsHarmless
<1>6. Nat \subseteq Good
  <2>1. \A i \in Nat : i \in Good => i + 1 \in Good
    BY <1>5
  <2> HIDE DEF Good
  <2> QED BY <1>4, <2>1, NumberInduction
<1> QED BY <1>2, <1>3, <1>6

-----------------------------------------------------------------------------
(* The writer. *)

\* The lines of a file that a save has completed, and of one that it has torn.
Written == {l \in Harmless : l.key \in NumberNames => l.value \in Int}

\* Sequences put together one after the other: what they are made of, and that
\* the first one comes first.
LEMMA Concatenated ==
  ASSUME NEW S, NEW a \in Seq(S), NEW b \in Seq(S)
  PROVE  /\ a \o b \in Seq(S) /\ Len(a \o b) = Len(a) + Len(b)
         /\ \A i \in 1 .. Len(a) : (a \o b)[i] = a[i]
         /\ \A i \in 1 .. Len(b) : (a \o b)[Len(a) + i] = b[i]
OBVIOUS

LEMMA Flattened ==
  ASSUME NEW S, NEW seqs \in Seq(Seq(S)), Len(seqs) >= 1
  PROVE  /\ FlattenSeq(seqs) \in Seq(S)
         /\ Len(FlattenSeq(seqs)) >= Len(seqs[1])
         /\ \A i \in 1 .. Len(seqs[1]) : FlattenSeq(seqs)[i] = seqs[1][i]
<1> DEFINE n == Len(seqs)
           V == Seq(S)
           empty == <<>>
           h == [p \in (1 .. n) \X V |-> IF p[1] = 1 THEN seqs[1] ELSE p[2] \o seqs[p[1]]]
           Eq(f) == f = [i \in 1 .. n |-> IF i = 1 THEN seqs[i] ELSE f[i - 1] \o seqs[i]]
           it == CHOOSE f : Eq(f)
           Begins(t) == t \in Seq(S) /\ Len(t) >= Len(seqs[1])
                        /\ \A i \in 1 .. Len(seqs[1]) : t[i] = seqs[1][i]
<1>1. n \in Nat /\ n >= 1 /\ \A i \in 1 .. n : seqs[i] \in V
  OBVIOUS
<1>2. \A i \in 1 .. n, v \in V :
        h[<<i, v>>] = (IF i = 1 THEN seqs[1] ELSE v \o seqs[i]) /\ h[<<i, v>>] \in V
  <2>1. \A i \in 1 .. n, v \in V : v \o seqs[i] \in V /\ seqs[1] \in V
    BY <1>1, Concatenated
  <2> HIDE DEF V, n
  <2> QED BY <2>1
<1>3. empty \in V
  OBVIOUS
<1>4. PICK f \in [0 .. n -> V] :
        f[0] = empty /\ \A i \in 1 .. n : f[i] = h[<<i, f[i - 1]>>]
  <2>1. Combines(h, 1 .. n, V)
    <3> HIDE DEF h, V, n
    <3> QED BY <1>2 DEF Combines
  <2>2. n \in Nat
    BY <1>1
  <2>3. \E f \in [0 .. n -> V] : RecursionOf(f, empty, h, n)
    <3> HIDE DEF h, V, n, empty
    <3> QED BY <2>1, <2>2, <1>3, RecursionExists
  <2> HIDE DEF h, V, n, empty
  <2> QED BY <2>3 DEF RecursionOf
<1> DEFINE g == [i \in 1 .. n |-> f[i]]
<1>5. Eq(g)
  <2>1. ASSUME NEW i \in 1 .. n
        PROVE  g[i] = IF i = 1 THEN seqs[i] ELSE g[i - 1] \o seqs[i]
    <3>1. f[i - 1] \in V /\ g[i] = f[i] /\ (i # 1 => g[i - 1] = f[i - 1])
      <4>1. i - 1 \in 0 .. n /\ (i # 1 => i - 1 \in 1 .. n)
        BY <1>1
      <4> HIDE DEF V, n
      <4> QED BY <1>4, <4>1
    <3>2. f[i] = IF i = 1 THEN seqs[1] ELSE f[i - 1] \o seqs[i]
      <4> HIDE DEF h, V, n
      <4> QED BY <1>2, <1>4, <3>1
    <3> HIDE DEF g
    <3> QED BY <3>1, <3>2
  <2> QED BY <2>1
<1>6. Eq(it)
  <2>1. \E x : Eq(x)
    BY <1>5
  <2> HIDE DEF Eq
  <2> QED BY <2>1
<1>7. FlattenSeq(seqs) = it[n]
  <2>1. n # 0
    BY <1>1
  <2> QED BY <2>1, Zenon DEF FlattenSeq
<1> HIDE DEF it
<1> DEFINE Good == {i \in Nat : i + 1 <= n => Begins(it[i + 1])}
<1>8. 0 \in Good
  <2>1. it[1] = seqs[1]
    BY <1>1, <1>6
  <2>2. Begins(seqs[1])
    BY <1>1
  <2> HIDE DEF Begins
  <2> QED BY <2>1, <2>2
<1>9. ASSUME NEW i \in Nat, i \in Good, (i + 1) + 1 <= n PROVE Begins(it[(i + 1) + 1])
  <2>1. (i + 1) + 1 \in 1 .. n /\ (i + 1) + 1 # 1 /\ ((i + 1) + 1) - 1 = i + 1 /\ i + 1 <= n
    BY <1>1, <1>9
  <2>2. it[(i + 1) + 1] = it[i + 1] \o seqs[(i + 1) + 1]
    <3> HIDE DEF n
    <3> QED BY <1>6, <2>1
  <2>3. Begins(it[i + 1]) /\ seqs[(i + 1) + 1] \in Seq(S)
    BY <1>9, <2>1
  <2>4. ASSUME NEW a, NEW b \in Seq(S), Begins(a) PROVE Begins(a \o b)
    <3>1. a \o b \in Seq(S) /\ Len(a \o b) >= Len(a) /\ \A k \in 1 .. Len(a) : (a \o b)[k] = a[k]
      BY <2>4, Concatenated
    <3>2. Len(seqs[1]) \in Nat /\ Len(a) \in Nat
      BY <1>1, <2>4
    <3> QED BY <2>4, <3>1, <3>2
  <2> HIDE DEF Begins
  <2> QED BY <2>2, <2>3, <2>4
<1>10. Nat \subseteq Good
  <2>1. \A i \in Nat : i \in Good => i + 1 \in Good
    <3> HIDE DEF Begins
    <3> QED BY <1>9
  <2> HIDE DEF Good
  <2> QED BY <1>8, <2>1, NumberInduction
<1>11. Begins(it[n])
  <2>1. n - 1 \in Good /\ (n - 1) + 1 = n
    <3>1. n - 1 \in Nat /\ (n - 1) + 1 = n
      BY <1>1
    <3> HIDE DEF Good
    <3> QED BY <1>10, <3>1
  <2> HIDE DEF Begins
  <2> QED BY <2>1, <1>1
<1> QED BY <1>7, <1>11

\* The lines of the list of processes.
OfProcess == {l \in Written : l.key \in NumberKeys["processes"] \cup {"}"}}

LEMMA NumberLine ==
  ASSUME NEW key \in Keys, NEW v \in Int, key = "page_size" => v > 0
  PROVE  Pair(key, v) \in Written
<1>1. Pair(key, v).key = key /\ Pair(key, v).value = v /\ Pair(key, v) \in FileLines
  BY DEF Pair, FileLines
<1>2. key = "page_size" => v \in Nat /\ v # 0
  OBVIOUS
<1> QED BY <1>1, <1>2 DEF Written, Harmless, Legible

LEMMA WordLine ==
  ASSUME NEW key \in Keys, NEW v \in Words, key \notin NumberNames
  PROVE  Pair(key, v) \in Written
<1>1. Pair(key, v).key = key /\ Pair(key, v).value = v /\ Pair(key, v) \in FileLines
  BY DEF Pair, FileLines
<1>2. key # "page_size"
  BY DEF NumberNames
<1> QED BY <1>1, <1>2 DEF Written, Harmless, Legible

LEMMA CloseLine == Close \in OfProcess
<1>1. Close = Pair("}", "") /\ Close.key = "}" /\ "}" \notin NumberNames
      /\ "}" \in Keys /\ "" \in Words
  BY DEF Close, Line, Pair, NumberNames, Keys, Words
<1>2. Close \in Written
  BY <1>1, WordLine
<1> QED BY <1>1, <1>2 DEF OfProcess

LEMMA ProcessLinesAre ==
  ASSUME NEW p \in ProcessConfigs
  PROVE  ProcessLines(p) \in Seq(OfProcess) /\ Len(ProcessLines(p)) = 5
<1>1. /\ p.priority \in Int /\ p.burst_time \in Int
      /\ p.arrival_time \in Int /\ p.memory_requirement \in Int
  BY DEF ProcessConfigs
<1>2. ASSUME NEW key \in Keys, NEW v \in Int, key \in NumberKeys["processes"]
      PROVE  Pair(key, v) \in OfProcess
  <2>1. key # "page_size" /\ Pair(key, v).key = key
    BY <1>2, NumberKeysAre DEF Pair
  <2>2. Pair(key, v) \in Written
    BY <2>1, NumberLine
  <2> QED BY <1>2, <2>1, <2>2 DEF OfProcess
<1>3. /\ Pair("priority", p.priority) \in OfProcess
      /\ Pair("burst_time", p.burst_time) \in OfProcess
      /\ Pair("arrival_time", p.arrival_time) \in OfProcess
      /\ Pair("memory_requirement", p.memory_requirement) \in OfProcess
      /\ Close \in OfProcess
  BY <1>1, <1>2, CloseLine, NumberKeysAre DEF Keys
<1> QED BY <1>3 DEF ProcessLines

\* The settings come before the list of processes, and the list begins with
\* the first process.
Heading(c) ==
  << Pair("scheduling_algorithm", c.scheduling_algo),
     Pair("time_quantum", c.time_quantum),
     Pair("simulation_speed", c.simulation_speed),
     Pair("step_mode", IF c.step_mode THEN "true" ELSE "false"),
     Line("memory_config"),
     Pair("total_memory_size", c.total_memory_size),
     Pair("page_size", c.page_size),
     Pair("replacement_algorithm", c.replacement_algo), Close,
     Line("processes") >>

LEMMA HeadingIs ==
  ASSUME NEW c \in SimulationConfigs, c.page_size > 0
  PROVE  Heading(c) \in Seq(Written) /\ Len(Heading(c)) = 10
<1>1. /\ c.time_quantum \in Int /\ c.simulation_speed \in Int
      /\ c.total_memory_size \in Int /\ c.page_size \in Nat /\ c.page_size # 0
      /\ c.scheduling_algo \in Algorithms /\ c.replacement_algo \in {"FIFO", "LRU"}
  BY DEF SimulationConfigs
<1> DEFINE step == IF c.step_mode THEN "true" ELSE "false"
<1>4. c.scheduling_algo \in Words /\ c.replacement_algo \in Words /\ step \in Words
  BY <1>1 DEF Words
<1> HIDE DEF step
<1>2. /\ Pair("scheduling_algorithm", c.scheduling_algo) \in Written
      /\ Pair("step_mode", step) \in Written
      /\ Pair("replacement_algorithm", c.replacement_algo) \in Written
  BY <1>4, WordLine DEF NumberNames, Keys
<1>5. /\ Pair("time_quantum", c.time_quantum) \in Written
      /\ Pair("simulation_speed", c.simulation_speed) \in Written
      /\ Pair("total_memory_size", c.total_memory_size) \in Written
      /\ Pair("page_size", c.page_size) \in Written
  <2>1. Pair("time_quantum", c.time_quantum) \in Written
    BY <1>1, NumberLine DEF Keys
  <2>2. Pair("simulation_speed", c.simulation_speed) \in Written
    BY <1>1, NumberLine DEF Keys
  <2>3. Pair("total_memory_size", c.total_memory_size) \in Written
    BY <1>1, NumberLine DEF Keys
  <2>4. Pair("page_size", c.page_size) \in Written
    <3> DEFINE key == "page_size"
               v == c.page_size
    <3>1. key \in Keys /\ v \in Int /\ v > 0
      BY <1>1 DEF Keys
    <3> HIDE DEF key, v
    <3>2. Pair(key, v) \in Written
      BY <3>1, NumberLine
    <3> QED BY <3>2 DEF key, v
  <2> QED BY <2>1, <2>2, <2>3, <2>4
<1>3. Line("memory_config") \in Written /\ Line("processes") \in Written /\ Close \in Written
  <2>1. Pair("memory_config", "") \in Written /\ Pair("processes", "") \in Written
    BY WordLine DEF NumberNames, Keys, Words
  <2> QED BY <2>1, CloseLine DEF OfProcess, Line, Pair
<1> QED BY <1>2, <1>3, <1>5 DEF Heading, step

\* Two sequences with the same elements.
LEMMA SameSequence ==
  ASSUME NEW S, NEW a \in Seq(S), NEW b \in Seq(S), Len(a) = Len(b),
         \A i \in 1 .. Len(b) : a[i] = b[i]
  PROVE  a = b
OBVIOUS

\* Three sequences that are the parts of a fourth.
LEMMA ThreeParts ==
  ASSUME NEW S, NEW a \in Seq(S), NEW b \in Seq(S), NEW e \in Seq(S), NEW t \in Seq(S),
         Len(t) = Len(a) + Len(b) + Len(e),
         \A i \in 1 .. Len(a) : t[i] = a[i],
         \A i \in 1 .. Len(b) : t[Len(a) + i] = b[i],
         \A i \in 1 .. Len(e) : t[Len(a) + Len(b) + i] = e[i]
  PROVE  (a \o b) \o e = t
<1> DEFINE u == a \o b
<1>1. u \in Seq(S) /\ Len(u) = Len(a) + Len(b)
      /\ (\A i \in 1 .. Len(a) : u[i] = a[i]) /\ \A i \in 1 .. Len(b) : u[Len(a) + i] = b[i]
  BY Concatenated
<1>2. \A i \in 1 .. Len(u) : u[i] = t[i]
  <2>1. ASSUME NEW i \in 1 .. Len(u), i > Len(a) PROVE u[i] = t[i]
    <3>1. i - Len(a) \in 1 .. Len(b) /\ Len(a) + (i - Len(a)) = i
      BY <1>1, <2>1
    <3> HIDE DEF u
    <3> QED BY <1>1, <3>1
  <2>2. ASSUME NEW i \in 1 .. Len(u), ~(i > Len(a)) PROVE u[i] = t[i]
    <3>1. i \in 1 .. Len(a)
      BY <1>1, <2>2
    <3> HIDE DEF u
    <3> QED BY <1>1, <3>1
  <2> HIDE DEF u
  <2> QED BY <2>1, <2>2
<1> HIDE DEF u
<1>3. u \o e \in Seq(S) /\ Len(u \o e) = Len(u) + Len(e)
      /\ (\A i \in 1 .. Len(u) : (u \o e)[i] = u[i])
      /\ \A i \in 1 .. Len(e) : (u \o e)[Len(u) + i] = e[i]
  BY <1>1, Concatenated
<1>4. ASSUME NEW i \in 1 .. Len(t), i > Len(u) PROVE (u \o e)[i] = t[i]
  <2> DEFINE k == i - Len(u)
  <2>1. k \in 1 .. Len(e) /\ Len(u) + k = i /\ Len(a) + Len(b) + k = i
    BY <1>1, <1>4
  <2> HIDE DEF k
  <2>2. (u \o e)[Len(u) + k] = e[k] /\ t[Len(a) + Len(b) + k] = e[k]
    BY <1>3, <2>1
  <2> QED BY <2>1, <2>2
<1>5. \A i \in 1 .. Len(t) : (u \o e)[i] = t[i]
  BY <1>1, <1>2, <1>3, <1>4
<1>6. u \o e = t
  <2>1. Len(u \o e) = Len(t) /\ u \o e \in Seq(S)
    BY <1>1, <1>3
  <2> QED BY <2>1, <1>5, SameSequence
<1> QED BY <1>6 DEF u

LEMMA TextIs ==
  ASSUME NEW c \in SimulationConfigs, c.page_size > 0, Len(c.processes) >= 1
  PROVE  \E list \in Seq(OfProcess) :
           /\ ToText(c) = Heading(c) \o list
           /\ Len(list) >= 5
           /\ \A i \in 1 .. 5 : list[i] = ProcessLines(c.processes[1])[i]
<1> DEFINE seqs == [i \in DOMAIN c.processes |-> ProcessLines(c.processes[i])]
           F == FlattenSeq(seqs)
           start == << Pair("scheduling_algorithm", c.scheduling_algo),
                       Pair("time_quantum", c.time_quantum),
                       Pair("simulation_speed", c.simulation_speed),
                       Pair("step_mode", IF c.step_mode THEN "true" ELSE "false"),
                       Line("memory_config") >>
<1>1. c.processes \in Seq(ProcessConfigs)
  BY DEF SimulationConfigs
<1>2. seqs \in Seq(Seq(OfProcess)) /\ Len(seqs) >= 1 /\ seqs[1] = ProcessLines(c.processes[1])
  <2>1. \A i \in DOMAIN c.processes : ProcessLines(c.processes[i]) \in Seq(OfProcess)
    BY <1>1, ProcessLinesAre
  <2>2. DOMAIN c.processes = 1 .. Len(c.processes) /\ Len(c.processes) \in Nat
    BY <1>1
  <2> QED BY <2>1, <2>2
<1>3. Len(seqs[1]) = 5
  BY <1>1, <1>2, ProcessLinesAre
<1> HIDE DEF seqs
<1>4. F \in Seq(OfProcess) /\ Len(F) >= 5
      /\ \A i \in 1 .. 5 : F[i] = ProcessLines(c.processes[1])[i]
  BY <1>2, <1>3, Flattened
<1>5. ToText(c) = (((start \o MemoryLines(c)) \o << Line("processes") >>) \o F) \o << Close >>
  BY DEF ToText, seqs
<1>6. (start \o MemoryLines(c)) \o << Line("processes") >> = Heading(c)
  <2> DEFINE L == {Heading(c)[i] : i \in 1 .. 10}
             m == MemoryLines(c)
             e == << Line("processes") >>
             t == Heading(c)
  <2>1. \A i \in 1 .. 10 : Heading(c)[i] \in L
    OBVIOUS
  <2>2. start \in Seq(L) /\ m \in Seq(L) /\ e \in Seq(L) /\ t \in Seq(L)
    BY <2>1 DEF Heading, MemoryLines
  <2>3. /\ start = << t[1], t[2], t[3], t[4], t[5] >>
        /\ m = << t[6], t[7], t[8], t[9] >>
        /\ e = << t[10] >>
    BY DEF Heading, MemoryLines
  <2>4. Len(t) = 10
    BY DEF Heading
  <2> HIDE DEF L, start, m, e, t
  <2>5. Len(start) = 5 /\ Len(m) = 4 /\ Len(e) = 1
    BY <2>3
  <2>6. /\ Len(t) = Len(start) + Len(m) + Len(e)
        /\ \A i \in 1 .. Len(start) : t[i] = start[i]
        /\ \A i \in 1 .. Len(m) : t[Len(start) + i] = m[i]
        /\ \A i \in 1 .. Len(e) : t[Len(start) + Len(m) + i] = e[i]
    BY <2>3, <2>4, <2>5
  <2>7. (start \o m) \o e = t
    BY <2>2, <2>6, ThreeParts
  <2> QED BY <2>7 DEF m, e, t
<1>7. << Close >> \in Seq(OfProcess)
  BY CloseLine
<1> HIDE DEF F, start
<1>8. F \o << Close >> \in Seq(OfProcess) /\ Len(F \o << Close >>) >= 5
      /\ \A i \in 1 .. 5 : (F \o << Close >>)[i] = F[i]
  BY <1>4, <1>7
<1>9. (Heading(c) \o F) \o << Close >> = Heading(c) \o (F \o << Close >>)
  <2>1. OfProcess \subseteq Written
    BY DEF OfProcess
  <2>2. Heading(c) \in Seq(Written) /\ F \in Seq(Written) /\ << Close >> \in Seq(Written)
    BY <1>4, <1>7, <2>1, HeadingIs
  <2> QED BY <2>2
<1> QED BY <1>4, <1>5, <1>6, <1>8, <1>9

LEMMA TextIsWritten ==
  ASSUME NEW c \in SimulationConfigs, ValidConfiguration(c)
  PROVE  ToText(c) \in Seq(Written)
<1>1. c.page_size > 0 /\ Len(c.processes) >= 1
  <2>1. c.processes \in Seq(ProcessConfigs)
    BY DEF SimulationConfigs
  <2>2. ValidMemory(c.total_memory_size, c.page_size) /\ Len(c.processes) \in 1 .. 100
    BY DEF ValidConfiguration
  <2>3. c.page_size > 0
    BY <2>2 DEF ValidMemory
  <2>4. Len(c.processes) >= 1
    <3> DEFINE n == Len(c.processes)
    <3>1. n \in 1 .. 100
      BY <2>2
    <3> HIDE DEF n
    <3>2. n >= 1
      BY <3>1
    <3> QED BY <3>2 DEF n
  <2> QED BY <2>3, <2>4
<1>2. PICK list \in Seq(OfProcess) : ToText(c) = Heading(c) \o list
  BY <1>1, TextIs
<1>3. list \in Seq(Written)
  <2>1. OfProcess \subseteq Written
    BY DEF OfProcess
  <2> QED BY <2>1
<1> QED BY <1>1, <1>2, <1>3, HeadingIs

\* A file whose writing stopped half-way, and one that a user has edited.
LEMMA TornIsHarmless ==
  ASSUME NEW lines \in Seq(Written), NEW torn \in Torn(lines)
  PROVE  torn \in Seq(Harmless)
<1>1. Written \subseteq Harmless
  BY DEF Written
<1>2. PICK n \in 0 .. Len(lines) - 1 :
        torn \in {SubSeq(lines, 1, n)}
                \cup {Append(SubSeq(lines, 1, n), cut) : cut \in CutShort(lines[n + 1])}
  BY DEF Torn
<1>3. SubSeq(lines, 1, n) \in Seq(Harmless) /\ lines[n + 1] \in Written
  BY <1>1
<1>4. ASSUME NEW l \in Written, NEW cut \in CutShort(l) PROVE cut \in Harmless
  <2>1. l.key \in Keys
    BY DEF Written, Harmless, Legible, FileLines
  <2>2. CASE IsNumber(l)
    <3>1. l.key \in NumberNames /\ l.value \in Int
      BY <2>2, NumbersAreNamed DEF Written
    <3>2. PICK n1 \in {Quotient(l.value, 10), Quotient(l.value, 100), NotANumber} \ {0} :
                 cut = Pair(l.key, n1)
      BY <2>2 DEF CutShort
    <3>3. n1 \in Int \cup {NotANumber}
      <4> DEFINE ten == 10
                 hundred == 100
      <4>1. ten \in Int \ {0} /\ hundred \in Int \ {0}
        OBVIOUS
      <4>2. n1 \in {Quotient(l.value, ten), Quotient(l.value, hundred), NotANumber}
        BY <3>2
      <4> HIDE DEF ten, hundred
      <4>3. Quotient(l.value, ten) \in Int /\ Quotient(l.value, hundred) \in Int
        BY <3>1, <4>1, QuotientIs
      <4> QED BY <4>2, <4>3
    <3>4. cut.key = l.key /\ cut.value = n1 /\ cut \in FileLines
      BY <2>1, <3>2, <3>3 DEF Pair, FileLines
    <3> QED BY <3>2, <3>3, <3>4 DEF Harmless, Legible
  <2>3. CASE ~IsNumber(l)
    <3>1. cut = Pair(l.key, "") /\ l.key \notin NumberNames
      BY <2>3, NumbersAreNamed DEF CutShort
    <3>2. Pair(l.key, "") \in Written
      <4>1. "" \in Words
        BY DEF Words
      <4> QED BY <2>1, <3>1, <4>1, WordLine
    <3> QED BY <1>1, <3>1, <3>2
  <2> QED BY <2>2, <2>3
<1>5. \A cut \in CutShort(lines[n + 1]) : Append(SubSeq(lines, 1, n), cut) \in Seq(Harmless)
  BY <1>3, <1>4
<1> QED BY <1>2, <1>3, <1>5

LEMMA EditedIsLegible ==
  ASSUME NEW lines \in Seq(Legible), NEW i \in DOMAIN lines
  PROVE  /\ IsNumber(lines[i]) =>
              \A n \in Typed : [lines EXCEPT ![i].value = n] \in Seq(Legible)
         /\ RemoveAt(lines, i) \in Seq(Legible)
<1>1. ASSUME IsNumber(lines[i]), NEW n \in Typed
      PROVE  [lines EXCEPT ![i].value = n] \in Seq(Legible)
  <2> DEFINE l == [lines[i] EXCEPT !.value = n]
  <2>1. n \in Int \cup {NotANumber}
    BY TypedAssumption
  <2>2. l \in Legible
    BY <2>1 DEF Legible, FileLines
  <2>3. [lines EXCEPT ![i].value = n] = [lines EXCEPT ![i] = l]
    OBVIOUS
  <2> HIDE DEF l
  <2> QED BY <2>2, <2>3
<1>2. RemoveAt(lines, i) \in Seq(Legible)
  <2>1. SubSeq(lines, 1, i - 1) \in Seq(Legible) /\ SubSeq(lines, i + 1, Len(lines)) \in Seq(Legible)
    OBVIOUS
  <2> QED BY <2>1 DEF RemoveAt
<1> QED BY <1>1, <1>2

-----------------------------------------------------------------------------
(* The types, and what only an edit brings about. *)

\* The inductive invariant: the client's configuration and both sides of the
\* dashboard are typed, the file holds lines the parser can read, and unless a
\* user has edited it, none of them has a page size of 0.
Sides == [scheduling_algo : Algorithms, time_quantum : 1 .. 20,
          simulation_speed : 1 .. 10, replacement_algo : {"FIFO", "LRU"}]

FileInv ==
  /\ config \in SimulationConfigs
  /\ file # NoFile => file \in Seq(Legible) /\ (~edited => file \in Seq(Harmless))
  /\ crashed => edited
  /\ client \in BOOLEAN /\ crashed \in BOOLEAN /\ edited \in BOOLEAN
  /\ mishaps \in 0 .. MaxMishaps
  /\ answer \in {"none", "save", "load"} \X BOOLEAN

SidesInv == shown \in Sides /\ engine \in Sides

LEMMA DefaultIsTyped == DefaultConfiguration \in SimulationConfigs
BY BeginningIsTyped DEF Beginning, ParserStates

LEMMA InitTyped == Init => FileInv /\ SidesInv
<1> SUFFICES ASSUME Init PROVE FileInv /\ SidesInv
  OBVIOUS
<1>1. FileInv
  <2>1. mishaps \in 0 .. MaxMishaps
    BY MishapsAssumption DEF Init
  <2>2. answer \in {"none", "save", "load"} \X BOOLEAN
    BY DEF Init
  <2> QED BY <2>1, <2>2, DefaultIsTyped DEF Init, FileInv
<1>2. shown \in Sides /\ engine \in Sides
  BY DEF Init, Settings, Sides, Algorithms
<1> QED BY <1>1, <1>2 DEF SidesInv

\* The controls take what they are given into their range, and pass it on.
UITyped(ui) == ui \in [shown : Sides, engine : Sides]

LEMMA ControlsAreTyped ==
  ASSUME NEW ui, UITyped(ui)
  PROVE  /\ \A a \in Algorithms : UITyped(SetSchedulingAlgorithm(ui, a))
         /\ \A q \in Int : UITyped(SetTimeQuantum(ui, q))
         /\ \A n : UITyped(SetSimulationSpeed(ui, n))
         /\ \A a \in {"FIFO", "LRU"} : UITyped(SetMemoryAlgorithm(ui, a))
<1> DEFINE Two(s, e) == [shown |-> s, engine |-> e]
<1>1. /\ ui.shown \in Sides /\ ui.engine \in Sides
      /\ ui = Two(ui.shown, ui.engine)
  BY DEF UITyped
<1>2. ASSUME NEW s \in Sides, NEW e \in Sides PROVE UITyped(Two(s, e))
  BY DEF UITyped
<1>3. ASSUME NEW a \in Algorithms PROVE UITyped(SetSchedulingAlgorithm(ui, a))
  <2> DEFINE s == [ui.shown EXCEPT !.scheduling_algo = a]
             e == [ui.engine EXCEPT !.scheduling_algo = a,
                                    !.time_quantum = ui.shown.time_quantum]
  <2>1. s \in Sides /\ e \in Sides
    BY <1>1 DEF Sides
  <2>2. SetSchedulingAlgorithm(ui, a) \in {ui, Two(s, e)}
    BY <1>1 DEF SetSchedulingAlgorithm
  <2> HIDE DEF s, e, Two
  <2> QED BY <1>2, <2>1, <2>2
<1>4. ASSUME NEW q \in Int PROVE UITyped(SetTimeQuantum(ui, q))
  <2> DEFINE r == InRange(q)
             s == [ui.shown EXCEPT !.time_quantum = r]
             e == [ui.engine EXCEPT !.time_quantum = r,
                                    !.scheduling_algo = ui.shown.scheduling_algo]
  <2>1. r \in 1 .. 20
    BY DEF InRange
  <2> HIDE DEF r
  <2>2. s \in Sides /\ e \in Sides
    BY <1>1, <2>1 DEF Sides
  <2>3. SetTimeQuantum(ui, q) \in {ui, Two(s, e)}
    BY <1>1 DEF SetTimeQuantum, r
  <2> HIDE DEF s, e, Two
  <2> QED BY <1>2, <2>2, <2>3
<1>5. ASSUME NEW n PROVE UITyped(SetSimulationSpeed(ui, n))
  <2> DEFINE s == [ui.shown EXCEPT !.simulation_speed = n]
             e == [ui.engine EXCEPT !.simulation_speed = n]
  <2>1. n \in 1 .. 10 => s \in Sides /\ e \in Sides
    BY <1>1 DEF Sides
  <2>2. \/ SetSimulationSpeed(ui, n) = ui
        \/ n \in 1 .. 10 /\ SetSimulationSpeed(ui, n) = Two(s, e)
    <3>1. CASE n \notin 1 .. 10 \/ n = ui.shown.simulation_speed
      BY <3>1 DEF SetSimulationSpeed
    <3>2. CASE n \in 1 .. 10 /\ n # ui.shown.simulation_speed
      BY <1>1, <3>2 DEF SetSimulationSpeed
    <3> QED BY <3>1, <3>2
  <2> HIDE DEF s, e, Two
  <2> QED BY <1>2, <2>1, <2>2
<1>6. ASSUME NEW a \in {"FIFO", "LRU"} PROVE UITyped(SetMemoryAlgorithm(ui, a))
  <2> DEFINE s == [ui.shown EXCEPT !.replacement_algo = a]
             e == [ui.engine EXCEPT !.replacement_algo = a]
  <2>1. s \in Sides /\ e \in Sides
    BY <1>1 DEF Sides
  <2>2. SetMemoryAlgorithm(ui, a) \in {ui, Two(s, e)}
    BY <1>1 DEF SetMemoryAlgorithm
  <2> HIDE DEF s, e, Two
  <2> QED BY <1>2, <2>1, <2>2
<1> QED BY <1>3, <1>4, <1>5, <1>6

LEMMA ShowsTyped ==
  ASSUME NEW ui, UITyped(ui), NEW c \in SimulationConfigs
  PROVE  UITyped(Shows(ui, c))
<1>1. c.scheduling_algo \in Algorithms /\ c.time_quantum \in Int
      /\ c.replacement_algo \in {"FIFO", "LRU"}
  BY DEF SimulationConfigs
<1> QED BY <1>1, ControlsAreTyped DEF Shows

LEMMA NextTyped == FileInv /\ SidesInv /\ [Next]_vars => (FileInv /\ SidesInv)'
<1> SUFFICES ASSUME FileInv, SidesInv, [Next]_vars PROVE FileInv' /\ SidesInv'
  OBVIOUS
<1>1. UITyped(UI) /\ Written \subseteq Harmless /\ Harmless \subseteq Legible
  BY DEF SidesInv, UITyped, UI, Written, Harmless
<1>2. ASSUME NEW ui, UITyped(ui), Becomes(ui) PROVE SidesInv'
  BY <1>2 DEF UITyped, Becomes, SidesInv
<1>3. OfControls \in SimulationConfigs
  <2>1. <<>> \in Seq(ProcessConfigs)
    OBVIOUS
  <2> QED BY <2>1 DEF SidesInv, Sides, OfControls, SimulationConfigs
<1>4. file # NoFile => FromText(file) \in ParserStates
  BY ReadingIsTyped DEF FileInv
<1>5. CASE Compose
  BY <1>5, ClientAssumption DEF Compose, gui, history, FileInv, SidesInv
<1>6. CASE SaveSome
  <2>1. PICK c \in SimulationConfigs : Save(c) \/ SaveHalfWay(c) \/ SaveNothing(c)
    BY <1>3, <1>6 DEF SaveSome, FileInv
  <2>2. CASE Save(c)
    <3>1. file' \in Seq(Written)
      BY <2>2, TextIsWritten DEF Save
    <3>2. file' \in Seq(Harmless) /\ file' \in Seq(Legible)
      BY <1>1, <3>1
    <3> QED BY <2>2, <3>2 DEF Save, gui, FileInv, SidesInv
  <2>3. CASE SaveHalfWay(c)
    <3>1. file' \in Seq(Harmless)
      <4>1. ToText(c) \in Seq(Written) /\ file' \in Torn(ToText(c))
        BY <2>3, TextIsWritten DEF SaveHalfWay
      <4> QED BY <4>1, TornIsHarmless
    <3>2. mishaps' \in 0 .. MaxMishaps
      BY <2>3, MishapsAssumption DEF SaveHalfWay, FileInv
    <3>3. file' \in Seq(Legible)
      BY <1>1, <3>1
    <3> QED BY <2>3, <3>1, <3>2, <3>3 DEF SaveHalfWay, gui, FileInv, SidesInv
  <2>4. CASE SaveNothing(c)
    BY <2>4 DEF SaveNothing, gui, history, FileInv, SidesInv
  <2> QED BY <2>1, <2>2, <2>3, <2>4
<1>7. CASE Load
  <2>1. FromText(file) \in ParserStates /\ (~edited => FromText(file).status # "crash")
    BY <1>4, <1>7, HarmlessFile DEF Load, FileInv
  <2>2. config' \in SimulationConfigs /\ crashed' \in BOOLEAN /\ (crashed' => edited)
    BY <1>7, <2>1 DEF Load, ParserStates, FileInv
  <2>3. Accepts(file) \in BOOLEAN
    BY DEF Accepts, ValidConfiguration
  <2> QED BY <1>7, <2>2, <2>3 DEF Load, gui, history, FileInv, SidesInv
<1>8. CASE LoadNothing
  BY <1>8 DEF LoadNothing, gui, history, FileInv, SidesInv
<1>9. CASE RunSimulator
  BY <1>9, DefaultIsTyped DEF RunSimulator, gui, history, FileInv, SidesInv
<1>10. CASE Edit
  <2>1. PICK i \in DOMAIN file :
          \/ IsNumber(file[i]) /\ \E n \in Typed : file' = [file EXCEPT ![i].value = n]
          \/ file' = RemoveAt(file, i)
    BY <1>10 DEF Edit
  <2>2. file \in Seq(Legible)
    BY <1>10 DEF Edit, FileInv
  <2>3. file' \in Seq(Legible)
    BY <2>1, <2>2, EditedIsLegible
  <2>4. mishaps' \in 0 .. MaxMishaps
    BY <1>10, MishapsAssumption DEF Edit, FileInv
  <2> QED BY <1>10, <2>3, <2>4 DEF Edit, gui, FileInv, SidesInv
<1>11. CASE Control
  <2>1. SidesInv'
    <3>1. Quanta \subseteq Int
      BY ControlsAssumption
    <3> QED BY <1>1, <1>2, <1>11, <3>1, ControlsAreTyped DEF Control, Algorithms
  <2> QED BY <1>11, <2>1 DEF Control, history, FileInv
<1>12. CASE Start
  <2>1. engine' \in Sides
    BY <1>12 DEF Start, SidesInv, Sides
  <2> QED BY <1>12, <2>1 DEF Start, history, FileInv, SidesInv
<1>13. CASE Open
  <2>1. FromText(file) \in ParserStates /\ (~edited => FromText(file).status # "crash")
    BY <1>4, <1>13, HarmlessFile DEF Open, FileInv
  <2>2. FromText(file).config \in SimulationConfigs
    BY <2>1 DEF ParserStates
  <2>3. SidesInv'
    BY <1>1, <1>2, <1>13, <2>2, ShowsTyped DEF Open, gui, SidesInv
  <2>4. crashed' \in BOOLEAN /\ (crashed' => edited)
    BY <1>13, <2>1 DEF Open, FileInv
  <2> QED BY <1>13, <2>3, <2>4 DEF Open, history, FileInv
<1>14. CASE Crashed \/ UNCHANGED vars
  BY <1>14 DEF Crashed, vars, FileInv, SidesInv
<1> QED BY <1>5, <1>6, <1>7, <1>8, <1>9, <1>10, <1>11, <1>12, <1>13, <1>14 DEF Next

\* Whatever is composed, saved, torn, edited and loaded, no setting becomes
\* one that is no algorithm or no number.
THEOREM ConfigurationsAreTyped == Spec => []TypeOK
<1>1. FileInv /\ SidesInv => TypeOK
  <2> SUFFICES ASSUME FileInv, SidesInv PROVE TypeOK
    OBVIOUS
  <2>1. /\ config.scheduling_algo \in Algorithms /\ config.replacement_algo \in {"FIFO", "LRU"}
        /\ config.step_mode \in BOOLEAN
        /\ config["time_quantum"] \in Int /\ config["simulation_speed"] \in Int
        /\ config["total_memory_size"] \in Int /\ config["page_size"] \in Int
        /\ config["num_frames"] \in Int
    BY DEF FileInv, SimulationConfigs
  <2>2. \A s \in {shown, engine} :
          s \in [scheduling_algo : Algorithms, time_quantum : Int,
                simulation_speed : 1 .. 10, replacement_algo : {"FIFO", "LRU"}]
    BY DEF SidesInv, Sides
  <2> QED BY <2>1, <2>2 DEF FileInv, TypeOK
<1> QED BY <1>1, InitTyped, NextTyped, PTL DEF Spec

\* A page size of 0, which ends the program, comes from no save.
THEOREM OnlyEditsCrashAlways == Spec => []OnlyEditsCrash
<1>1. FileInv => OnlyEditsCrash
  BY DEF FileInv, OnlyEditsCrash
<1> QED BY <1>1, InitTyped, NextTyped, PTL DEF Spec

\* No file and no control brings the quantum out of the range of the spin box.
THEOREM QuantumStaysUsableAlways == Spec => []QuantumStaysUsable
<1>1. SidesInv => QuantumStaysUsable
  BY DEF SidesInv, Sides, QuantumStaysUsable
<1> QED BY <1>1, InitTyped, NextTyped, PTL DEF Spec

-----------------------------------------------------------------------------
(* Reading what was written. *)

\* A state of the parser that has met with no error.
Settled(a, q, n, step, total, page, frames, r, list) ==
  [scheduling_algo |-> a, time_quantum |-> q, simulation_speed |-> n, step_mode |-> step,
   total_memory_size |-> total, page_size |-> page, num_frames |-> frames,
   replacement_algo |-> r, processes |-> list]

Reading(c, p, inMemory, inProcesses) ==
  [config |-> c, process |-> p, in_memory_config |-> inMemory,
   in_processes |-> inProcesses, status |-> "reading"]

\* A word is taken in the main section or in that of the memory.
LEMMA WordIsRead ==
  ASSUME NEW s, s.status = "reading", NEW w,
         NEW key \in {"scheduling_algorithm", "step_mode", "replacement_algorithm"},
         Section(s) \in {"main", "memory_config"}
  PROVE  AfterLine(s, Pair(key, w)) = WithWord(s, key, w)
<1> DEFINE l == Pair(key, w)
<1>1. l.key = key /\ l.value = w
  BY DEF Pair
<1>2. l.key \notin NumberKeys[Section(s)]
  <2>1. key \notin {"time_quantum", "simulation_speed"}
        /\ key \notin {"total_memory_size", "page_size"}
    OBVIOUS
  <2> HIDE DEF l
  <2> QED BY <1>1, <2>1, NumberKeysAre
<1>3. l.key # "memory_config" /\ l.key # "processes" /\ l.key # "}"
  BY <1>1
<1> HIDE DEF l
<1>4. ReadLine(s, l) = WithWord(s, l.key, l.value)
  BY <1>2, <1>3 DEF ReadLine
<1> QED BY <1>1, <1>4 DEF AfterLine, l

\* A setting takes a value.
With(c, key, v) == [c EXCEPT ![key] = v]

WithPages(c, page) ==
  LET read == With(c, "page_size", page)
  IN  With(read, "num_frames", Quotient(read.total_memory_size, page))

\* The lines of the heading, one after the other.
LEMMA AlgorithmIsRead ==
  ASSUME NEW c, NEW p, NEW b \in Algorithms
  PROVE  AfterLine(Reading(c, p, FALSE, FALSE), Pair("scheduling_algorithm", b))
           = Reading(With(c, "scheduling_algo", b), p, FALSE, FALSE)
<1> DEFINE s == Reading(c, p, FALSE, FALSE)
<1>1. Section(s) = "main" /\ s.status = "reading"
  BY DEF Section, Reading
<1>2. AfterLine(s, Pair("scheduling_algorithm", b)) = WithWord(s, "scheduling_algorithm", b)
  BY <1>1, WordIsRead
<1>3. WithWord(s, "scheduling_algorithm", b) = [s EXCEPT !.config.scheduling_algo = b]
  BY <1>1 DEF WithWord, Algorithms
<1> QED BY <1>2, <1>3 DEF Reading, With

LEMMA QuantumIsRead ==
  ASSUME NEW c, NEW p, NEW k \in Int
  PROVE  AfterLine(Reading(c, p, FALSE, FALSE), Pair("time_quantum", k))
           = Reading(With(c, "time_quantum", k), p, FALSE, FALSE)
<1> DEFINE s == Reading(c, p, FALSE, FALSE)
<1>1. Section(s) = "main" /\ s.status = "reading"
  BY DEF Section, Reading
<1>2. k # NotANumber /\ "time_quantum" \in NumberKeys["main"]
  BY NotANumberAssumption, NumberKeysAre
<1>3. AfterLine(s, Pair("time_quantum", k)) = WithNumber(s, "time_quantum", k)
  BY <1>1, <1>2 DEF AfterLine, ReadLine, Pair
<1>4. WithNumber(s, "time_quantum", k) = [s EXCEPT !.config.time_quantum = k]
  BY <1>1, <1>2 DEF WithNumber
<1> QED BY <1>3, <1>4 DEF Reading, With

LEMMA SpeedIsRead ==
  ASSUME NEW c, NEW p, NEW k \in Int
  PROVE  AfterLine(Reading(c, p, FALSE, FALSE), Pair("simulation_speed", k))
           = Reading(With(c, "simulation_speed", k), p, FALSE, FALSE)
<1> DEFINE s == Reading(c, p, FALSE, FALSE)
<1>1. Section(s) = "main" /\ s.status = "reading"
  BY DEF Section, Reading
<1>2. k # NotANumber /\ "simulation_speed" \in NumberKeys["main"]
  BY NotANumberAssumption, NumberKeysAre
<1>3. AfterLine(s, Pair("simulation_speed", k)) = WithNumber(s, "simulation_speed", k)
  BY <1>1, <1>2 DEF AfterLine, ReadLine, Pair
<1>4. WithNumber(s, "simulation_speed", k) = [s EXCEPT !.config.simulation_speed = k]
  BY <1>1, <1>2 DEF WithNumber
<1> QED BY <1>3, <1>4 DEF Reading, With

LEMMA StepModeIsRead ==
  ASSUME NEW c, NEW p, NEW b \in BOOLEAN
  PROVE  AfterLine(Reading(c, p, FALSE, FALSE), Pair("step_mode", IF b THEN "true" ELSE "false"))
           = Reading(With(c, "step_mode", b), p, FALSE, FALSE)
<1> DEFINE s == Reading(c, p, FALSE, FALSE)
<1>1. Section(s) = "main" /\ s.status = "reading"
  BY DEF Section, Reading
<1> DEFINE w == IF b THEN "true" ELSE "false"
<1>2. AfterLine(s, Pair("step_mode", w)) = WithWord(s, "step_mode", w)
  BY <1>1, WordIsRead
<1>3. WithWord(s, "step_mode", w) = [s EXCEPT !.config.step_mode = (w = "true")]
  BY <1>1 DEF WithWord
<1>4. (w = "true") = b
  OBVIOUS
<1> HIDE DEF w
<1> QED BY <1>2, <1>3, <1>4 DEF Reading, With, w

LEMMA TotalIsRead ==
  ASSUME NEW c, NEW p, NEW k \in Int
  PROVE  AfterLine(Reading(c, p, TRUE, FALSE), Pair("total_memory_size", k))
           = Reading(With(c, "total_memory_size", k), p, TRUE, FALSE)
<1> DEFINE s == Reading(c, p, TRUE, FALSE)
<1>1. Section(s) = "memory_config" /\ s.status = "reading"
  BY DEF Section, Reading
<1>2. k # NotANumber /\ "total_memory_size" \in NumberKeys["memory_config"]
  BY NotANumberAssumption, NumberKeysAre
<1>3. AfterLine(s, Pair("total_memory_size", k)) = WithNumber(s, "total_memory_size", k)
  BY <1>1, <1>2 DEF AfterLine, ReadLine, Pair
<1>4. WithNumber(s, "total_memory_size", k) = WithMemoryNumber(s, "total_memory_size", k)
  BY <1>1, <1>2 DEF WithNumber
<1>5. WithMemoryNumber(s, "total_memory_size", k) = [s EXCEPT !.config.total_memory_size = k]
  BY DEF WithMemoryNumber
<1> QED BY <1>3, <1>4, <1>5 DEF Reading, With

LEMMA PageSizeIsRead ==
  ASSUME NEW c, NEW p, NEW k \in Int, k # 0
  PROVE  AfterLine(Reading(c, p, TRUE, FALSE), Pair("page_size", k))
           = Reading(WithPages(c, k), p, TRUE, FALSE)
<1> DEFINE s == Reading(c, p, TRUE, FALSE)
<1>1. Section(s) = "memory_config" /\ s.status = "reading"
  BY DEF Section, Reading
<1>2. k # NotANumber /\ "page_size" \in NumberKeys["memory_config"]
  BY NotANumberAssumption, NumberKeysAre
<1>3. AfterLine(s, Pair("page_size", k)) = WithNumber(s, "page_size", k)
  BY <1>1, <1>2 DEF AfterLine, ReadLine, Pair
<1>4. WithNumber(s, "page_size", k) = WithMemoryNumber(s, "page_size", k)
  BY <1>1, <1>2 DEF WithNumber
<1> DEFINE read == [s EXCEPT !.config.page_size = k]
<1>5. WithMemoryNumber(s, "page_size", k)
        = [read EXCEPT !.config.num_frames = Quotient(read.config.total_memory_size, k)]
  BY DEF WithMemoryNumber
<1>6. read = Reading(With(c, "page_size", k), p, TRUE, FALSE)
  <2>1. ASSUME NEW t, t = read PROVE t = Reading(With(c, "page_size", k), p, TRUE, FALSE)
    BY <2>1 DEF Reading, With
  <2> QED BY <2>1
<1>7. read.config = With(c, "page_size", k)
  <2> HIDE DEF read
  <2> QED BY <1>6 DEF Reading
<1> HIDE DEF read
<1> QED BY <1>3, <1>4, <1>5, <1>6, <1>7 DEF Reading, With, WithPages

LEMMA ReplacementIsRead ==
  ASSUME NEW c, NEW p, NEW b \in {"FIFO", "LRU"}
  PROVE  AfterLine(Reading(c, p, TRUE, FALSE), Pair("replacement_algorithm", b))
           = Reading(With(c, "replacement_algo", b), p, TRUE, FALSE)
<1> DEFINE s == Reading(c, p, TRUE, FALSE)
<1>1. Section(s) = "memory_config" /\ s.status = "reading"
  BY DEF Section, Reading
<1>2. AfterLine(s, Pair("replacement_algorithm", b)) = WithWord(s, "replacement_algorithm", b)
  BY <1>1, WordIsRead
<1>3. WithWord(s, "replacement_algorithm", b) = [s EXCEPT !.config.replacement_algo = b]
  BY <1>1 DEF WithWord
<1> QED BY <1>2, <1>3 DEF Reading, With

LEMMA SectionIsRead ==
  ASSUME NEW c, NEW p
  PROVE  /\ AfterLine(Reading(c, p, FALSE, FALSE), Line("memory_config"))
              = Reading(c, p, TRUE, FALSE)
         /\ AfterLine(Reading(c, p, TRUE, FALSE), Close) = Reading(c, p, FALSE, FALSE)
         /\ AfterLine(Reading(c, p, FALSE, FALSE), Line("processes"))
              = Reading(c, p, FALSE, TRUE)
BY DEF AfterLine, ReadLine, AfterBrace, Close, Line, Reading

LEMMA BraceIsRead ==
  ASSUME NEW c, NEW p, NEW s, NEW t,
         s = Reading(c, p, FALSE, TRUE), t = [s EXCEPT !.in_processes = FALSE]
  PROVE  t = Reading(c, p, FALSE, FALSE)
BY DEF Reading

ReadsProcess(st, pr) ==
  /\ st[11] = AfterLine(st[10], Pair("priority", pr.priority))
  /\ st[12] = AfterLine(st[11], Pair("burst_time", pr.burst_time))
  /\ st[13] = AfterLine(st[12], Pair("arrival_time", pr.arrival_time))
  /\ st[14] = AfterLine(st[13], Pair("memory_requirement", pr.memory_requirement))
  /\ st[15] = AfterLine(st[14], Close)

\* The lines of a process, and of the brace that ends the list after the first.
LEMMA ProcessIsRead ==
  ASSUME NEW c, NEW pr \in ProcessConfigs, pr.burst_time > 0, NEW st, ReadsProcess(st, pr),
         st[10] = Reading(c, Beginning.process, FALSE, TRUE)
  PROVE  st[15] = Reading(With(c, "processes", Append(c.processes, pr)),
                          Beginning.process, FALSE, FALSE)
<1> DEFINE more == With(c, "processes", Append(c.processes, pr))
           fresh == Beginning.process
           s0 == st[10]
           s1 == st[11]
           s2 == st[12]
           s3 == st[13]
           s4 == st[14]
<1>1. ASSUME NEW p, NEW key \in NumberKeys["processes"], NEW k \in Int
      PROVE  AfterLine(Reading(c, p, FALSE, TRUE), Pair(key, k))
               = WithProcessNumber(Reading(c, p, FALSE, TRUE), key, k)
  <2> DEFINE s == Reading(c, p, FALSE, TRUE)
             l == Pair(key, k)
  <2>1. Section(s) = "processes" /\ s.status = "reading" /\ k # NotANumber
    BY NotANumberAssumption DEF Section, Reading
  <2>2. l.key = key /\ l.value = k
    BY DEF Pair
  <2>3. l.key # "memory_config" /\ l.key # "processes" /\ l.key # "}"
    BY <2>2, NumberKeysAre
  <2> HIDE DEF s, l
  <2>4. ReadLine(s, l) = WithNumber(s, key, k)
    BY <2>1, <2>2, <2>3 DEF ReadLine
  <2>5. WithNumber(s, key, k) = WithProcessNumber(s, key, k)
    BY <2>1 DEF WithNumber
  <2> QED BY <2>1, <2>4, <2>5 DEF AfterLine, s, l
<1>2. /\ "priority" \in NumberKeys["processes"] /\ "burst_time" \in NumberKeys["processes"]
      /\ "arrival_time" \in NumberKeys["processes"]
      /\ "memory_requirement" \in NumberKeys["processes"]
  BY NumberKeysAre
<1>3. /\ pr.priority \in Int /\ pr.burst_time \in Int
      /\ pr.arrival_time \in Int /\ pr.memory_requirement \in Int
  BY DEF ProcessConfigs
<1> DEFINE P(p) == Reading(c, p, FALSE, TRUE)
           p1 == [fresh EXCEPT !.priority = pr.priority]
           p2 == [p1 EXCEPT !.burst_time = pr.burst_time]
           p3 == [p2 EXCEPT !.arrival_time = pr.arrival_time]
           p4 == [p3 EXCEPT !.memory_requirement = pr.memory_requirement]
<1>4. ASSUME NEW p, NEW k
      PROVE  /\ WithProcessNumber(P(p), "priority", k) = P([p EXCEPT !.priority = k])
             /\ WithProcessNumber(P(p), "burst_time", k) = P([p EXCEPT !.burst_time = k])
             /\ WithProcessNumber(P(p), "arrival_time", k) = P([p EXCEPT !.arrival_time = k])
  BY DEF WithProcessNumber, Reading
<1>11. ASSUME NEW p, NEW key \in NumberKeys["processes"], NEW k \in Int
       PROVE  AfterLine(P(p), Pair(key, k)) = WithProcessNumber(P(p), key, k)
  BY <1>1
<1>12. /\ s0 = P(fresh)
       /\ s1 = AfterLine(s0, Pair("priority", pr.priority))
       /\ s2 = AfterLine(s1, Pair("burst_time", pr.burst_time))
       /\ s3 = AfterLine(s2, Pair("arrival_time", pr.arrival_time))
       /\ s4 = AfterLine(s3, Pair("memory_requirement", pr.memory_requirement))
       /\ st[15] = AfterLine(s4, Close)
  BY DEF ReadsProcess
<1> HIDE DEF s0, s1, s2, s3, s4
<1>5. s1 = P(p1)
  <2>1. s0 = P(fresh)
    BY <1>12
  <2> HIDE DEF P, fresh
  <2>2. s1 = WithProcessNumber(P(fresh), "priority", pr.priority)
    BY <1>2, <1>3, <1>11, <1>12, <2>1
  <2> QED BY <1>4, <2>2
<1>6. s2 = P(p2)
  <2> HIDE DEF p1, P
  <2>1. s2 = WithProcessNumber(P(p1), "burst_time", pr.burst_time)
    BY <1>2, <1>3, <1>5, <1>11, <1>12
  <2> QED BY <1>4, <2>1
<1>7. s3 = P(p3)
  <2> HIDE DEF p2, P
  <2>1. s3 = WithProcessNumber(P(p2), "arrival_time", pr.arrival_time)
    BY <1>2, <1>3, <1>6, <1>11, <1>12
  <2> QED BY <1>4, <2>1
<1>8. p4 = pr
  BY DEF ProcessConfigs, Beginning, ProcessConfig
<1>9. s4 = Reading(more, fresh, FALSE, TRUE)
  <2> DEFINE read == P(p4)
  <2>1. s4 = WithProcessNumber(P(p3), "memory_requirement", pr.memory_requirement)
    <3> HIDE DEF p3
    <3> QED BY <1>1, <1>2, <1>3, <1>7, <1>12
  <2>2. [P(p3) EXCEPT !.process.memory_requirement = pr.memory_requirement] = read
    <3>1. ASSUME NEW p, NEW k, NEW s, NEW t, s = P(p),
                 t = [s EXCEPT !.process.memory_requirement = k]
          PROVE  t = P([p EXCEPT !.memory_requirement = k])
      BY <3>1 DEF Reading
    <3> HIDE DEF p3, P
    <3> QED BY <3>1
  <2>3. read.process.burst_time > 0
    <3> HIDE DEF p4
    <3> QED BY <1>8 DEF Reading
  <2>4. s4 = [read EXCEPT !.config.processes = Append(@, read.process),
                          !.process = Beginning.process]
    <3> HIDE DEF read, p3, P
    <3> QED BY <2>1, <2>2, <2>3 DEF WithProcessNumber
  <2>5. [c EXCEPT !.processes = Append(@, pr)] = more
    BY DEF With
  <2>6. read = Reading(c, pr, FALSE, TRUE)
    BY <1>8
  <2> HIDE DEF read, more
  <2> QED BY <2>4, <2>5, <2>6 DEF Reading
<1>10. AfterLine(s4, Close) = Reading(more, fresh, FALSE, FALSE)
  <2> HIDE DEF more, fresh
  <2>1. s4.status = "reading" /\ ~s4.in_memory_config
    BY <1>9 DEF Reading
  <2>2. AfterLine(s4, Close) = [s4 EXCEPT !.in_processes = FALSE]
    BY <2>1 DEF AfterLine, ReadLine, AfterBrace, Close, Line
  <2> QED BY <1>9, <2>2, BraceIsRead
<1> QED BY <1>10, <1>12

\* After that brace the other processes are taken for settings that nobody
\* knows.
LEMMA RestIsSkipped ==
  ASSUME NEW c, NEW p, NEW l \in OfProcess
  PROVE  AfterLine(Reading(c, p, FALSE, FALSE), l) = Reading(c, p, FALSE, FALSE)
<1> DEFINE s == Reading(c, p, FALSE, FALSE)
<1>1. Section(s) = "main" /\ s.status = "reading"
  BY DEF Section, Reading
<1>2. CASE l.key = "}"
  BY <1>2 DEF AfterLine, ReadLine, AfterBrace, Reading
<1>3. CASE l.key \in NumberKeys["processes"]
  <2>1. l.key \in {"priority", "burst_time", "arrival_time", "memory_requirement"}
    BY <1>3, NumberKeysAre
  <2>2. l.key \notin NumberKeys[Section(s)]
    <3> HIDE DEF s
    <3> QED BY <1>1, <2>1, NumberKeysAre
  <2> HIDE DEF s
  <2>3. ReadLine(s, l) = WithWord(s, l.key, l.value)
    BY <2>1, <2>2 DEF ReadLine
  <2>4. WithWord(s, l.key, l.value) = s
    BY <1>1, <2>1 DEF WithWord
  <2> QED BY <1>1, <2>3, <2>4 DEF AfterLine, s
<1> QED BY <1>2, <1>3 DEF OfProcess

ReadsHeading(st, c) ==
  st[0] = Beginning /\ \A i \in 1 .. 10 : st[i] = AfterLine(st[i - 1], Heading(c)[i])

\* The heading of a configuration's file brings its settings back.
LEMMA HeadingGives ==
  ASSUME NEW c \in SimulationConfigs, c.page_size > 0, NEW st, ReadsHeading(st, c)
  PROVE  st[10] = Reading(Settled(c.scheduling_algo, c.time_quantum, c.simulation_speed,
                                  c.step_mode, c.total_memory_size, c.page_size,
                                  Quotient(c.total_memory_size, c.page_size), c.replacement_algo,
                                  DefaultConfiguration.processes),
                          Beginning.process, FALSE, TRUE)
<1> DEFINE fresh == Beginning.process
           d == DefaultConfiguration
           q == c.time_quantum
           n == c.simulation_speed
           step == c.step_mode
           total == c.total_memory_size
           page == c.page_size
           c1 == With(d, "scheduling_algo", c.scheduling_algo)
           c2 == With(c1, "time_quantum", q)
           c3 == With(c2, "simulation_speed", n)
           c4 == With(c3, "step_mode", step)
           c5 == With(c4, "total_memory_size", total)
           c6 == WithPages(c5, page)
           c7 == With(c6, "replacement_algo", c.replacement_algo)
<1>1. /\ c.scheduling_algo \in Algorithms /\ c.replacement_algo \in {"FIFO", "LRU"}
      /\ q \in Int /\ n \in Int /\ step \in BOOLEAN
      /\ total \in Int /\ page \in Int \ {0}
  BY DEF SimulationConfigs
<1>2. /\ st[1] = AfterLine(st[0], Pair("scheduling_algorithm", c.scheduling_algo))
      /\ st[2] = AfterLine(st[1], Pair("time_quantum", q))
      /\ st[3] = AfterLine(st[2], Pair("simulation_speed", n))
      /\ st[4] = AfterLine(st[3], Pair("step_mode", IF step THEN "true" ELSE "false"))
      /\ st[5] = AfterLine(st[4], Line("memory_config"))
      /\ st[6] = AfterLine(st[5], Pair("total_memory_size", total))
      /\ st[7] = AfterLine(st[6], Pair("page_size", page))
      /\ st[8] = AfterLine(st[7], Pair("replacement_algorithm", c.replacement_algo))
      /\ st[9] = AfterLine(st[8], Close)
      /\ st[10] = AfterLine(st[9], Line("processes"))
  BY DEF ReadsHeading, Heading
<1>3. st[0] = Reading(d, fresh, FALSE, FALSE)
  BY DEF ReadsHeading, Beginning, Reading
<1> HIDE DEF fresh, d, q, n, step, total, page, c1, c2, c3, c4, c5, c6, c7
<1>4. st[1] = Reading(c1, fresh, FALSE, FALSE)
  BY <1>1, <1>2, <1>3, AlgorithmIsRead DEF c1
<1>5. st[2] = Reading(c2, fresh, FALSE, FALSE)
  BY <1>1, <1>2, <1>4, QuantumIsRead DEF c2
<1>6. st[3] = Reading(c3, fresh, FALSE, FALSE)
  BY <1>1, <1>2, <1>5, SpeedIsRead DEF c3
<1>7. st[4] = Reading(c4, fresh, FALSE, FALSE)
  BY <1>1, <1>2, <1>6, StepModeIsRead DEF c4
<1>8. st[5] = Reading(c4, fresh, TRUE, FALSE)
  BY <1>1, <1>2, <1>7, SectionIsRead
<1>9. st[6] = Reading(c5, fresh, TRUE, FALSE)
  BY <1>1, <1>2, <1>8, TotalIsRead DEF c5
<1>10. st[7] = Reading(c6, fresh, TRUE, FALSE)
  BY <1>1, <1>2, <1>9, PageSizeIsRead DEF c6
<1>11. st[8] = Reading(c7, fresh, TRUE, FALSE)
  BY <1>1, <1>2, <1>10, ReplacementIsRead DEF c7
<1>12. st[9] = Reading(c7, fresh, FALSE, FALSE)
  BY <1>1, <1>2, <1>11, SectionIsRead
<1>13. st[10] = Reading(c7, fresh, FALSE, TRUE)
  BY <1>1, <1>2, <1>12, SectionIsRead
<1>14. c7 = Settled(c.scheduling_algo, q, n, step,
                 total, page, Quotient(total, page), c.replacement_algo, d.processes)
  BY DEF With, WithPages, Settled, DefaultConfiguration, d, c1, c2, c3, c4, c5, c6, c7
<1> QED BY <1>13, <1>14 DEF fresh, d, q, n, step, total, page

\* What comes back of a configuration that was saved.
Reread(c) ==
  Settled(c.scheduling_algo, c.time_quantum, c.simulation_speed, c.step_mode,
          c.total_memory_size, c.page_size, Quotient(c.total_memory_size, c.page_size),
          c.replacement_algo, Append(DefaultConfiguration.processes, c.processes[1]))

LEMMA ValidIs ==
  ASSUME NEW c \in SimulationConfigs, ValidConfiguration(c)
  PROVE  /\ c.total_memory_size > 0 /\ c.page_size > 0
         /\ c.total_memory_size % c.page_size = 0
         /\ c.simulation_speed \in 1 .. 10
         /\ c.scheduling_algo = "ROUND_ROBIN" => c.time_quantum > 0
         /\ Len(c.processes) >= 1
         /\ c.processes[1] \in ProcessConfigs /\ ValidProcess(c.processes[1])
<1>1. c.processes \in Seq(ProcessConfigs)
  BY DEF SimulationConfigs
<1>2. ValidMemory(c.total_memory_size, c.page_size) /\ Len(c.processes) \in 1 .. 100
      /\ \A i \in DOMAIN c.processes : ValidProcess(c.processes[i])
  BY DEF ValidConfiguration
<1>3. 1 \in DOMAIN c.processes /\ Len(c.processes) >= 1
  <2> DEFINE n == Len(c.processes)
  <2>1. n \in 1 .. 100
    BY <1>2
  <2>2. DOMAIN c.processes = 1 .. n
    BY <1>1
  <2> HIDE DEF n
  <2>3. ASSUME NEW m \in 1 .. 100 PROVE m >= 1 /\ 1 \in 1 .. m
    OBVIOUS
  <2>4. n >= 1 /\ 1 \in 1 .. n
    BY <2>1, <2>3
  <2> QED BY <2>2, <2>4 DEF n
<1>4. c.processes[1] \in ProcessConfigs /\ ValidProcess(c.processes[1])
  BY <1>1, <1>2, <1>3
<1>5. c.simulation_speed \in 1 .. 10 /\ (c.scheduling_algo = "ROUND_ROBIN" => c.time_quantum > 0)
  BY DEF ValidConfiguration
<1>6. c.total_memory_size > 0 /\ c.page_size > 0 /\ c.total_memory_size % c.page_size = 0
  BY <1>2 DEF ValidMemory
<1> QED BY <1>3, <1>4, <1>5, <1>6

\* configurationFromJson on what configurationToJson writes of any valid
\* configuration: every setting comes back, num_frames as the quotient of the
\* sizes; of the list, the first process is read, after the default ones, and
\* the brace that closes it closes the section: what follows is skipped.
THEOREM ReadingBack ==
  ASSUME NEW c \in SimulationConfigs, ValidConfiguration(c)
  PROVE  FromText(ToText(c)) = Reading(Reread(c), Beginning.process, FALSE, FALSE)
<1> DEFINE T == ToText(c)
           H == Heading(c)
           n == Len(T)
           pr == c.processes[1]
           final == Reading(Reread(c), Beginning.process, FALSE, FALSE)
<1>1. PICK list \in Seq(OfProcess) :
        /\ T = H \o list
        /\ Len(list) >= 5
        /\ \A i \in 1 .. 5 : list[i] = ProcessLines(pr)[i]
  BY ValidIs, TextIs
<1>2. H \in Seq(Written) /\ Len(H) = 10
  BY ValidIs, HeadingIs
<1>3. T \in Seq(Legible)
  <2>1. T \in Seq(Written) /\ Written \subseteq Legible
    BY TextIsWritten DEF Written, Harmless
  <2> HIDE DEF T
  <2> QED BY <2>1
<1> DEFINE m == Len(list)
<1>4. /\ n = 10 + m /\ n \in Nat /\ m \in Nat /\ m >= 5
      /\ (\A i \in 1 .. 10 : T[i] = H[i]) /\ \A i \in 1 .. m : T[10 + i] = list[i]
  <2>1. list \in Seq(Written)
    <3>1. OfProcess \subseteq Written
      BY DEF OfProcess
    <3> QED BY <3>1
  <2> DEFINE h == Len(H)
  <2>2. n = h + m /\ (\A i \in 1 .. h : T[i] = H[i]) /\ \A i \in 1 .. m : T[h + i] = list[i]
    <3>1. H \in Seq(Written) /\ T = H \o list
      BY <1>1, <1>2
    <3> HIDE DEF T, H
    <3> QED BY <2>1, <3>1, Concatenated
  <2>3. m \in Nat /\ m >= 5 /\ h = 10
    BY <1>1, <1>2
  <2> HIDE DEF T, H, n, m, h
  <2> QED BY <2>2, <2>3
<1>5. PICK st \in [0 .. n -> ParserStates] : Reads(st, T) /\ FromText(T) = st[n]
  BY <1>3, ParserRuns
<1> HIDE DEF T, H, n, m
<1>6. \A i \in 1 .. n : st[i] = AfterLine(st[i - 1], T[i])
  BY <1>5 DEF Reads, n
<1>7. ReadsHeading(st, c)
  <2>1. st[0] = Beginning
    BY <1>5 DEF Reads
  <2>2. ASSUME NEW i \in 1 .. 10 PROVE st[i] = AfterLine(st[i - 1], H[i])
    <3>1. i \in 1 .. n
      BY <1>4
    <3> QED BY <1>4, <1>6, <3>1
  <2> QED BY <2>1, <2>2 DEF ReadsHeading, H
<1>8. ReadsProcess(st, pr)
  <2>1. ASSUME NEW i \in 1 .. 5 PROVE st[10 + i] = AfterLine(st[10 + i - 1], ProcessLines(pr)[i])
    <3>1. 10 + i \in 1 .. n /\ i \in 1 .. m
      BY <1>4
    <3>2. T[10 + i] = ProcessLines(pr)[i]
      BY <1>1, <1>4, <3>1
    <3> QED BY <1>6, <3>1, <3>2
  <2> HIDE DEF pr
  <2> QED BY <2>1 DEF ProcessLines, ReadsProcess
<1>9. pr \in ProcessConfigs /\ pr.burst_time > 0
  BY ValidIs DEF ValidProcess
<1>10. st[15] = final
  <2> DEFINE d == DefaultConfiguration.processes
             c0 == Settled(c.scheduling_algo, c.time_quantum, c.simulation_speed,
                           c.step_mode, c.total_memory_size, c.page_size,
                           Quotient(c.total_memory_size, c.page_size), c.replacement_algo, d)
             c1 == With(c0, "processes", Append(c0.processes, pr))
  <2>1. st[10] = Reading(c0, Beginning.process, FALSE, TRUE)
    BY <1>7, ValidIs, HeadingGives
  <2>2. st[15] = Reading(c1, Beginning.process, FALSE, FALSE)
    <3> HIDE DEF c0, pr
    <3> QED BY <1>8, <1>9, <2>1, ProcessIsRead
  <2>3. c1 = Reread(c)
    <3> DEFINE grown == Append(d, pr)
    <3>1. c0.processes = d
      BY DEF Settled
    <3>2. ASSUME NEW v, NEW t, t = With(c0, "processes", v)
          PROVE  t = Settled(c.scheduling_algo, c.time_quantum, c.simulation_speed,
                             c.step_mode, c.total_memory_size, c.page_size,
                             Quotient(c.total_memory_size, c.page_size), c.replacement_algo, v)
      <4> HIDE DEF d
      <4> QED BY <3>2 DEF With, Settled
    <3>3. c1 = With(c0, "processes", grown)
      BY <3>1
    <3> HIDE DEF grown, c1, c0
    <3> QED BY <3>2, <3>3 DEF Reread, grown
  <2> HIDE DEF c1
  <2> QED BY <2>2, <2>3 DEF final
<1> HIDE DEF final, pr
<1> DEFINE Good == {i \in Nat : 15 + i <= n => st[15 + i] = final}
<1>11. ASSUME NEW i \in Nat, i \in Good, 15 + (i + 1) <= n PROVE st[15 + (i + 1)] = final
  <2> DEFINE k == 15 + (i + 1)
  <2>1. k \in 1 .. n /\ k - 1 = 15 + i /\ 15 + i <= n /\ k - 10 \in 1 .. m
        /\ 10 + (k - 10) = k
    BY <1>4, <1>11
  <2> HIDE DEF k
  <2>2. st[k] = AfterLine(st[k - 1], T[k])
    BY <1>6, <2>1
  <2>3. st[k - 1] = final
    BY <1>11, <2>1
  <2>4. T[k] \in OfProcess
    <3> DEFINE j == k - 10
    <3>1. j \in 1 .. m /\ 10 + j = k
      BY <2>1
    <3>2. list[j] \in OfProcess
      BY <3>1 DEF m
    <3> HIDE DEF j
    <3> QED BY <1>4, <3>1, <3>2
  <2> QED BY <2>2, <2>3, <2>4, RestIsSkipped DEF final, k
<1>12. Nat \subseteq Good
  <2>1. 0 \in Good
    BY <1>10
  <2>2. \A i \in Nat : i \in Good => i + 1 \in Good
    BY <1>11
  <2> HIDE DEF Good
  <2> QED BY <2>1, <2>2, NumberInduction
<1>13. st[n] = final
  <2>1. n - 15 \in Nat /\ 15 + (n - 15) = n
    BY <1>4
  <2>2. n - 15 \in Good
    <3> HIDE DEF Good
    <3> QED BY <1>12, <2>1
  <2> QED BY <1>4, <2>1, <2>2
<1> QED BY <1>5, <1>13 DEF T, final

\* The parser accepts what it reads back: four processes, all of them valid.
LEMMA RereadIsValid ==
  ASSUME NEW c \in SimulationConfigs, ValidConfiguration(c)
  PROVE  ValidConfiguration(Reread(c)) /\ Len(Reread(c).processes) = 4
<1> DEFINE d == DefaultConfiguration.processes
           pr == c.processes[1]
           list == Append(d, pr)
           r == Reread(c)
<1>1. /\ r.simulation_speed = c.simulation_speed /\ r.scheduling_algo = c.scheduling_algo
      /\ r.time_quantum = c.time_quantum /\ r.total_memory_size = c.total_memory_size
      /\ r.page_size = c.page_size /\ r.processes = list
  BY DEF Reread, Settled
<1>2. pr \in ProcessConfigs /\ ValidProcess(pr)
  BY ValidIs
<1>3. /\ d \in Seq(ProcessConfigs) /\ Len(d) = 3
      /\ \A i \in 1 .. 3 : ValidProcess(d[i])
  <2>1. /\ d = << ProcessConfig(5, 10, 0, 2), ProcessConfig(3, 8, 2, 1), ProcessConfig(7, 6, 4, 3) >>
        /\ \A a, b, e, f \in Int : ProcessConfig(a, b, e, f) \in ProcessConfigs
    BY DEF DefaultConfiguration, ProcessConfig, ProcessConfigs
  <2>2. /\ ValidProcess(ProcessConfig(5, 10, 0, 2)) /\ ValidProcess(ProcessConfig(3, 8, 2, 1))
        /\ ValidProcess(ProcessConfig(7, 6, 4, 3))
    BY DEF ProcessConfig, ValidProcess
  <2> HIDE DEF d
  <2> QED BY <2>1, <2>2
<1>4. /\ list \in Seq(ProcessConfigs) /\ Len(list) = 4 /\ list[4] = pr
      /\ \A i \in 1 .. 3 : list[i] = d[i]
  <2> HIDE DEF d, pr
  <2>1. /\ list \in Seq(ProcessConfigs) /\ Len(list) = Len(d) + 1
        /\ list[Len(d) + 1] = pr
        /\ \A i \in 1 .. Len(d) : list[i] = d[i]
    <3>1. d \in Seq(ProcessConfigs) /\ pr \in ProcessConfigs
      BY <1>2, <1>3
    <3>2. /\ Append(d, pr) \in Seq(ProcessConfigs) /\ Len(Append(d, pr)) = Len(d) + 1
          /\ Append(d, pr)[Len(d) + 1] = pr
      BY ONLY <3>1
    <3>3. ASSUME NEW i \in 1 .. Len(d) PROVE Append(d, pr)[i] = d[i]
      BY ONLY <3>1
    <3> QED BY ONLY <3>2, <3>3
  <2> HIDE DEF list
  <2> QED BY <1>3, <2>1
<1>5. \A i \in DOMAIN list : ValidProcess(list[i])
  <2>1. DOMAIN list = 1 .. 4
    <3> HIDE DEF list
    <3> QED BY <1>4
  <2> HIDE DEF d, pr, list
  <2>2. \A i \in 1 .. 4 : i = 4 \/ i \in 1 .. 3
    OBVIOUS
  <2> QED BY <1>2, <1>3, <1>4, <2>1, <2>2
<1>6. /\ c.simulation_speed \in 1 .. 10
      /\ c.scheduling_algo = "ROUND_ROBIN" => c.time_quantum > 0
      /\ ValidMemory(c.total_memory_size, c.page_size)
  BY DEF ValidConfiguration
<1> HIDE DEF list, r
<1>7. Len(list) \in 1 .. 100
  BY <1>4
<1>8. ValidConfiguration(r)
  BY <1>1, <1>5, <1>6, <1>7 DEF ValidConfiguration
<1> QED BY <1>1, <1>4, <1>8 DEF r

\* The second inductive invariant: what the file is known to hold is in it, and
\* what the last load brought is what the parser reads there.
SavedInv ==
  saved # NoConfiguration =>
    /\ saved \in SimulationConfigs /\ ValidConfiguration(saved)
    /\ file = ToText(saved)
    /\ answer[1] = "load" => answer[2] = Accepts(file) /\ config = FromText(file).config

LEMMA InitSaved == Init => SavedInv
BY DEF Init, SavedInv

LEMMA NextSaved == FileInv /\ SidesInv /\ SavedInv /\ [Next]_vars => SavedInv'
<1> SUFFICES ASSUME FileInv, SidesInv, SavedInv, [Next]_vars PROVE SavedInv'
  OBVIOUS
<1>1. OfControls \in SimulationConfigs
  <2>1. <<>> \in Seq(ProcessConfigs)
    OBVIOUS
  <2> QED BY <2>1 DEF SidesInv, Sides, OfControls, SimulationConfigs
<1>2. CASE SaveSome
  <2>1. PICK c \in SimulationConfigs : Save(c) \/ SaveHalfWay(c) \/ SaveNothing(c)
    BY <1>1, <1>2 DEF SaveSome, FileInv
  <2>2. CASE Save(c)
    BY <2>2 DEF Save, SavedInv
  <2>3. CASE SaveHalfWay(c)
    BY <2>3 DEF SaveHalfWay, SavedInv
  <2>4. CASE SaveNothing(c)
    BY <2>4 DEF SaveNothing, history, SavedInv
  <2> QED BY <2>1, <2>2, <2>3, <2>4
<1>3. CASE Load
  BY <1>3 DEF Load, history, SavedInv
<1>4. CASE LoadNothing
  <2>1. ASSUME saved # NoConfiguration PROVE FALSE
    <3>1. file \in Seq(Written)
      BY <2>1, TextIsWritten DEF SavedInv
    <3>2. Written \subseteq FileLines
      BY DEF Written, Harmless, Legible
    <3>3. file \in Seq(FileLines)
      BY <3>1, <3>2
    <3> QED BY <1>4, <3>3, NoFileAssumption DEF LoadNothing
  <2> QED BY <1>4, <2>1 DEF LoadNothing, history, SavedInv
<1>5. CASE Compose \/ RunSimulator
  <2>1. answer' = <<"none", TRUE>> /\ UNCHANGED <<file, saved>>
    BY <1>5 DEF Compose, RunSimulator, history
  <2>2. answer'[1] # "load"
    <3>1. answer'[1] = "none"
      BY <2>1
    <3> QED BY <3>1
  <2> QED BY <2>1, <2>2 DEF SavedInv
<1>6. CASE Edit
  BY <1>6 DEF Edit, SavedInv
<1>7. CASE Control \/ Start \/ Open \/ Crashed \/ UNCHANGED vars
  BY <1>7 DEF Control, Start, Open, Crashed, vars, history, SavedInv
<1> QED BY <1>2, <1>3, <1>4, <1>5, <1>6, <1>7 DEF Next

LEMMA SavedIsRead ==
  SavedInv /\ saved # NoConfiguration /\ answer[1] = "load" =>
    /\ saved \in SimulationConfigs /\ ValidConfiguration(saved)
    /\ config = Reread(saved) /\ answer[2]
<1> SUFFICES ASSUME SavedInv, saved # NoConfiguration, answer[1] = "load"
             PROVE  /\ saved \in SimulationConfigs /\ ValidConfiguration(saved)
                    /\ config = Reread(saved) /\ answer[2]
  OBVIOUS
<1>1. /\ saved \in SimulationConfigs /\ ValidConfiguration(saved)
      /\ file = ToText(saved)
      /\ answer[2] = Accepts(file) /\ config = FromText(file).config
  BY DEF SavedInv
<1>2. FromText(file) = Reading(Reread(saved), Beginning.process, FALSE, FALSE)
  BY <1>1, ReadingBack
<1>3. FromText(file).config = Reread(saved) /\ FromText(file).status = "reading"
  BY <1>2 DEF Reading
<1>4. Accepts(file)
  BY <1>1, <1>3, RereadIsValid DEF Accepts
<1> QED BY <1>1, <1>3, <1>4

\* A file that a save has completed and nobody has touched is accepted, and
\* brings back every setting that is written, whatever was in the file or in
\* the client's configuration before.
THEOREM SettingsSurviveAlways == Spec => []SettingsSurvive
<1>1. SavedInv => SettingsSurvive
  <2> SUFFICES ASSUME SavedInv, saved # NoConfiguration, answer[1] = "load"
               PROVE  /\ answer[2]
                      /\ \A field \in DOMAIN config \ {"processes", "num_frames"} :
                           config[field] = saved[field]
                      /\ config.num_frames * config.page_size = config.total_memory_size
    BY DEF SettingsSurvive
  <2>1. /\ saved \in SimulationConfigs /\ ValidConfiguration(saved)
        /\ config = Reread(saved) /\ answer[2]
    BY SavedIsRead
  <2> DEFINE total == saved.total_memory_size
             page == saved.page_size
  <2>2. config.num_frames = Quotient(total, page) /\ config.page_size = page
        /\ config.total_memory_size = total
    BY <2>1 DEF Reread, Settled
  <2>3. Quotient(total, page) * page = total
    <3>1. /\ total \in Int /\ page \in Int /\ total > 0 /\ page > 0
          /\ total % page = 0
      BY <2>1, ValidIs DEF SimulationConfigs
    <3> HIDE DEF total, page
    <3>2. Quotient(total, page) = total \div page
      BY <3>1, QuotientIs
    <3> QED BY <3>1, <3>2
  <2>4. \A field \in DOMAIN config \ {"processes", "num_frames"} : config[field] = saved[field]
    BY <2>1 DEF Reread, Settled
  <2> HIDE DEF total, page
  <2> QED BY <2>1, <2>2, <2>3, <2>4
<1> QED BY <1>1, InitTyped, NextTyped, InitSaved, NextSaved, PTL DEF Spec

\* However often the client saves what it has loaded, the list stays at the
\* default processes and one more.
THEOREM RoundsDoNotPileUpAlways == Spec => []RoundsDoNotPileUp
<1>1. SavedInv => RoundsDoNotPileUp
  <2> SUFFICES ASSUME SavedInv, saved # NoConfiguration, answer[1] = "load"
               PROVE  Len(config.processes) <= Len(DefaultConfiguration.processes) + 1
    BY DEF RoundsDoNotPileUp
  <2>1. Len(config.processes) = 4
    BY SavedIsRead, RereadIsValid
  <2>2. Len(DefaultConfiguration.processes) = 3
    BY DEF DefaultConfiguration
  <2> QED BY <2>1, <2>2
<1> QED BY <1>1, InitTyped, NextTyped, InitSaved, NextSaved, PTL DEF Spec
=============================================================================
