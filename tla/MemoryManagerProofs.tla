------------------------ MODULE MemoryManagerProofs ------------------------
(* Theorems about MemoryManager, for any set of processes, any number of    *)
(* frames and of pages, and both replacement algorithms.                    *)
EXTENDS MemoryManager, FoldLemmas, FunctionTheorems

-----------------------------------------------------------------------------
(* Ranks: what repeated calls of findFreeFrame return.                      *)

\* The predecessors of a member of a finite set are finitely many.
LEMMA RankType ==
  ASSUME NEW S \in SUBSET Nat, IsFiniteSet(S), NEW f \in S
  PROVE  IsFiniteSet({g \in S : g < f}) /\ Rank(f, S) \in Nat
<1>1. IsFiniteSet({g \in S : g < f})
  BY FS_Subset
<1> QED BY <1>1, FS_CardinalityType DEF Rank

\* Ranks grow with the frame numbers.
LEMMA RankGrows ==
  ASSUME NEW S \in SUBSET Nat, IsFiniteSet(S), NEW f \in S, NEW g \in S, f < g
  PROVE  Rank(f, S) < Rank(g, S)
<1> DEFINE F == {x \in S : x < f}
           G == {x \in S : x < g}
<1>1. IsFiniteSet(F) /\ IsFiniteSet(G) /\ Cardinality(F) \in Nat /\ Cardinality(G) \in Nat
  BY RankType DEF Rank
<1>2. F \cup {f} \subseteq G /\ f \notin F
  <2>1. f \in Nat /\ g \in Nat /\ \A x \in S : x \in Nat
    OBVIOUS
  <2>2. \A x \in S : x < f => x < g /\ x # f
    BY <2>1
  <2> QED BY <2>2
<1>3. Cardinality(F \cup {f}) = Cardinality(F) + 1
  BY <1>1, <1>2, FS_AddElement
<1>4. Cardinality(F \cup {f}) <= Cardinality(G)
  BY <1>1, <1>2, FS_Subset
<1> QED BY <1>1, <1>3, <1>4 DEF Rank

\* A nonempty finite set of frames has a highest one: that of the largest rank.
LEMMA HighestExists ==
  ASSUME NEW S \in SUBSET Nat, IsFiniteSet(S), S # {}
  PROVE  \E m \in S : \A x \in S : x <= m
<1> DEFINE Above(f) == Cardinality(S) - Rank(f, S)
           D == {Above(f) : f \in S}
<1>1. ASSUME NEW f \in S
      PROVE  Above(f) \in Nat /\ Rank(f, S) \in Nat /\ Cardinality(S) \in Nat
  <2>1. Rank(f, S) \in Nat /\ Cardinality(S) \in Nat
    BY RankType, FS_CardinalityType
  <2>2. Rank(f, S) <= Cardinality(S)
    <3>1. {g \in S : g < f} \in SUBSET S
      OBVIOUS
    <3> QED BY <3>1, FS_Subset DEF Rank
  <2> QED BY <2>1, <2>2
<1>2. D \in SUBSET Nat /\ D # {}
  BY <1>1
<1>3. PICK d \in D : \A x \in D : d <= x
  <2> HIDE DEF D
  <2> QED BY <1>2, LeastExists
<1>4. PICK m \in S : d = Above(m)
  BY <1>3
<1>5. ASSUME NEW x \in S, m < x PROVE FALSE
  <2>1. Rank(m, S) < Rank(x, S)
    BY <1>5, RankGrows
  <2>2. Above(m) <= Above(x)
    BY <1>3, <1>4
  <2> QED BY <1>1, <2>1, <2>2
<1> QED BY <1>5

\* The highest frame has all the others below it.
LEMMA HighestRank ==
  ASSUME NEW S \in SUBSET Nat, IsFiniteSet(S), NEW m \in S, \A x \in S : x <= m
  PROVE  Rank(m, S) = Cardinality(S) - 1
<1>1. \A g \in S : g < m <=> g # m
  <2>1. m \in Nat /\ \A x \in S : x \in Nat
    OBVIOUS
  <2> QED BY <2>1
<1>2. {g \in S : g < m} = S \ {m}
  BY <1>1
<1> QED BY <1>2, FS_RemoveElement DEF Rank

\* Every rank below the size of the set is somebody's.
LEMMA RankExists ==
  ASSUME NEW S \in SUBSET Nat, IsFiniteSet(S), NEW k \in Nat, k < Cardinality(S)
  PROVE  \E f \in S : Rank(f, S) = k
<1> DEFINE B == {f \in S : Rank(f, S) >= k}
<1>1. Cardinality(S) \in Nat /\ S # {}
  BY FS_CardinalityType, FS_EmptySet
<1>2. B # {}
  <2>1. PICK h \in S : \A x \in S : x <= h
    BY <1>1, HighestExists
  <2>2. Rank(h, S) = Cardinality(S) - 1
    BY <2>1, HighestRank
  <2> QED BY <1>1, <2>2
<1>3. PICK m \in B : \A x \in B : m <= x
  <2>1. B \in SUBSET Nat
    OBVIOUS
  <2> HIDE DEF B
  <2> QED BY <1>2, <2>1, LeastExists
<1>a. m \in S /\ Rank(m, S) >= k /\ Rank(m, S) \in Nat
  BY RankType
<1>4. SUFFICES ASSUME Rank(m, S) > k PROVE FALSE
  BY <1>a
<1> DEFINE P == {g \in S : g < m}
<1>5. P \in SUBSET Nat /\ IsFiniteSet(P) /\ Cardinality(P) = Rank(m, S) /\ Rank(m, S) \in Nat
  BY RankType DEF Rank
<1>6. P # {}
  BY <1>4, <1>5, FS_EmptySet
<1>7. PICK h \in P : \A x \in P : x <= h
  BY <1>5, <1>6, HighestExists
<1>8. {g \in S : g < h} = P \ {h}
  <2>1. h \in Nat /\ m \in Nat /\ h < m /\ \A g \in S : g \in Nat
    BY <1>a, <1>5
  <2>2. \A g \in S : g < h <=> g < m /\ g # h
    BY <1>7, <2>1
  <2> QED BY <2>2
<1>9. Rank(h, S) = Cardinality(P) - 1
  BY <1>5, <1>7, <1>8, FS_RemoveElement DEF Rank
<1>10. h \in B /\ h < m
  BY <1>4, <1>5, <1>7, <1>9
<1> QED BY <1>3, <1>7, <1>10

-----------------------------------------------------------------------------
(* Page tables.                                                             *)

Entries ==
  {e \in [virtual_page : Pages, physical_frame : Frames \cup {-1}, is_valid : BOOLEAN] :
     e.is_valid => e.physical_frame \in Frames}

OneEntryPerPage(table) ==
  \A i, j \in DOMAIN table : table[i].virtual_page = table[j].virtual_page => i = j

\* Pages and frames are numbers from 0; no process has the number of a free frame.
LEMMA Numbers == /\ Frames \subseteq Nat /\ IsFiniteSet(Frames) /\ Cardinality(Frames) = NumFrames
                 /\ Pages \subseteq Nat /\ NoProcess \notin Processes /\ -1 \notin Pages
<1>1. IsFiniteSet(Frames) /\ Cardinality(Frames) = NumFrames
  BY SizeAssumption, FS_Interval DEF Frames
<1>2. Frames \subseteq Nat /\ Pages \subseteq Nat /\ -1 \notin Pages
  BY SizeAssumption DEF Frames, Pages
<1>3. NoProcess \notin Processes
  BY ProcessesAssumption DEF NoProcess
<1> QED BY <1>1, <1>2, <1>3

\* The two kinds of entries that are written are entries.
LEMMA WrittenEntries ==
  ASSUME NEW v \in Pages, NEW f \in Frames
  PROVE  /\ Entry(v, f) \in Entries /\ Entry(v, f).virtual_page = v
         /\ Entry(v, f).physical_frame = f /\ Entry(v, f).is_valid
         /\ Invalid(v) \in Entries /\ Invalid(v).virtual_page = v /\ ~Invalid(v).is_valid
BY DEF Entry, Invalid, Entries

\* new is table with e for the entry of page v, or for none, and all the others.
IsUpdateOf(new, table, v, e) ==
  /\ new \in Seq(Entries) /\ OneEntryPerPage(new)
  /\ \A i \in DOMAIN table : table[i].virtual_page # v => i \in DOMAIN new /\ new[i] = table[i]
  /\ \A i \in DOMAIN new :
       \/ new[i] = e
       \/ i \in DOMAIN table /\ new[i] = table[i] /\ table[i].virtual_page # v
  /\ e.is_valid => \E i \in DOMAIN new : new[i] = e

\* updatePageTableEntry leaves one entry for the page, the one written (none
\* if there was none and the one written is invalid), and all the others.
LEMMA UpdatedTable ==
  ASSUME NEW table \in Seq(Entries), OneEntryPerPage(table),
         NEW v \in Pages, NEW e \in Entries, e.virtual_page = v
  PROVE  IsUpdateOf(Updated(table, v, e), table, v, e)
<1> DEFINE found == {i \in DOMAIN table : table[i].virtual_page = v}
           new == Updated(table, v, e)
<1> SUFFICES IsUpdateOf(new, table, v, e)
  OBVIOUS
<1> USE DEF IsUpdateOf
<1>0. DOMAIN table = 1 .. Len(table) /\ Len(table) \in Nat
  OBVIOUS
<1>1. CASE found # {}
  <2>1. PICK k \in found : TRUE
    BY <1>1
  <2>2. \A i \in found : i = k
    BY <2>1 DEF OneEntryPerPage
  <2>3. (CHOOSE i \in found : \A j \in found : i <= j) = k
    <3>1. k <= k
      BY <1>0, <2>1
    <3>2. \E i \in found : \A j \in found : i <= j
      BY <2>1, <2>2, <3>1
    <3> QED BY <2>2, <3>2
  <2>4. new = [table EXCEPT ![k] = e]
    BY <1>1, <2>3 DEF Updated
  <2>5. /\ k \in DOMAIN table /\ table[k].virtual_page = v
        /\ \A i \in DOMAIN table : i # k => table[i].virtual_page # v
    BY <2>1, <2>2
  <2>6. new \in Seq(Entries) /\ DOMAIN new = DOMAIN table
        /\ new[k] = e /\ \A i \in DOMAIN table : i # k => new[i] = table[i]
    BY <2>4, <2>5
  <2>7. OneEntryPerPage(new)
    BY <2>5, <2>6 DEF OneEntryPerPage
  <2> HIDE DEF new
  <2> QED BY <2>5, <2>6, <2>7
<1>2. CASE found = {} /\ e.is_valid
  <2>1. new = Append(table, e)
    BY <1>2 DEF Updated
  <2>2. \A i \in DOMAIN table : table[i].virtual_page # v
    BY <1>2
  <2>3. /\ new \in Seq(Entries) /\ DOMAIN new = 1 .. Len(table) + 1
        /\ new[Len(table) + 1] = e /\ \A i \in DOMAIN table : new[i] = table[i]
    BY <1>0, <2>1
  <2>4. \A i \in DOMAIN new : i \in DOMAIN table \/ i = Len(table) + 1
    BY <1>0, <2>3
  <2>5. OneEntryPerPage(new)
    BY <2>2, <2>3, <2>4 DEF OneEntryPerPage
  <2>6. Len(table) + 1 \in DOMAIN new /\ \A i \in DOMAIN table : i \in DOMAIN new
    BY <1>0, <2>3
  <2> HIDE DEF new
  <2> QED BY <2>2, <2>3, <2>4, <2>5, <2>6
<1>3. CASE found = {} /\ ~e.is_valid
  <2>1. new = table
    BY <1>3 DEF Updated
  <2>2. \A i \in DOMAIN table : table[i].virtual_page # v
    BY <1>3
  <2> HIDE DEF new
  <2> QED BY <1>3, <2>1, <2>2
<1> QED BY <1>1, <1>2, <1>3

-----------------------------------------------------------------------------
(* FramesAndTablesAgree, with the types it needs.                           *)

TypeInv == TypeOK /\ tables \in [Processes -> Seq(Entries)]
MapInv == TypeInv /\ FramesAndTablesAgree

\* The parts of the agreement, by name.
EntriesNameTheirFrames ==
  \A p \in Processes : \A i \in DOMAIN tables[p] :
    tables[p][i].is_valid =>
      /\ owner[tables[p][i].physical_frame] = p
      /\ page[tables[p][i].physical_frame] = tables[p][i].virtual_page
FramesAreNamed ==
  \A f \in Allocated : \E i \in DOMAIN tables[owner[f]] :
    tables[owner[f]][i] = Entry(page[f], f)
TablesAreMaps == \A p \in Processes : OneEntryPerPage(tables[p])

\* The property is the conjunction of its parts.
LEMMA AgreementParts ==
  FramesAndTablesAgree <=> EntriesNameTheirFrames /\ FramesAreNamed /\ TablesAreMaps
BY DEF FramesAndTablesAgree, EntriesNameTheirFrames, FramesAreNamed, TablesAreMaps,
       OneEntryPerPage

\* The types of the tables follow from the sort of their entries.
LEMMA TablesTyped ==
  ASSUME NEW T \in [Processes -> Seq(Entries)], NEW p \in Processes, NEW i \in DOMAIN T[p]
  PROVE  /\ T[p][i].virtual_page \in Pages /\ T[p][i].physical_frame \in Frames \cup {-1}
         /\ T[p][i].is_valid => T[p][i].physical_frame \in Frames
<1>1. T[p] \in Seq(Entries)
  OBVIOUS
<1>2. T[p][i] \in Entries
  BY <1>1
<1> QED BY <1>2 DEF Entries

\* All frames are free and all tables empty in the initial state.
LEMMA InitMapInv == Init => MapInv
<1> SUFFICES ASSUME Init PROVE MapInv
  OBVIOUS
<1> USE Numbers
<1>1. \A p \in Processes : tables[p] = <<>>
  BY DEF Init
<1>2. tables \in [Processes -> Seq(Entries)]
  BY DEF Init
<1>3. TypeInv
  BY <1>1, <1>2 DEF Init, TypeInv, TypeOK
<1>4. Allocated = {}
  BY DEF Init, Allocated, FreeFrames
<1>5. FramesAndTablesAgree
  BY <1>1, <1>4 DEF FramesAndTablesAgree
<1> QED BY <1>3, <1>5 DEF MapInv

\* The frames that allocatePages takes, one for each page.
LEMMA FramesTaken ==
  ASSUME NEW free \in SUBSET Frames, NEW n \in Nat, n <= Cardinality(free)
  PROVE  /\ \A i \in 1 .. n : /\ InOrderOfRank(n, free)[i] \in free
                              /\ Rank(InOrderOfRank(n, free)[i], free) = i - 1
         /\ \A f \in free : Rank(f, free) < n =>
              /\ Rank(f, free) \in 0 .. n - 1
              /\ InOrderOfRank(n, free)[Rank(f, free) + 1] = f
<1> DEFINE frame == InOrderOfRank(n, free)
<1>1. free \in SUBSET Nat /\ IsFiniteSet(free) /\ Cardinality(free) \in Nat
  BY Numbers, FS_Subset, FS_CardinalityType
<1>2. ASSUME NEW i \in 1 .. n
      PROVE  frame[i] \in free /\ Rank(frame[i], free) = i - 1
  <2>1. i - 1 \in Nat /\ i - 1 < Cardinality(free)
    BY <1>1
  <2>2. \E f \in free : Rank(f, free) = i - 1
    BY <1>1, <2>1, RankExists
  <2>3. OfRank(i - 1, free) \in free /\ Rank(OfRank(i - 1, free), free) = i - 1
    BY <2>2 DEF OfRank
  <2>4. frame[i] = OfRank(i - 1, free)
    BY DEF InOrderOfRank
  <2> QED BY <2>3, <2>4
<1>3. ASSUME NEW f \in free, Rank(f, free) < n
      PROVE  Rank(f, free) \in 0 .. n - 1 /\ frame[Rank(f, free) + 1] = f
  <2>0. Rank(f, free) \in Nat
    BY <1>1, RankType
  <2>1. Rank(f, free) \in 0 .. n - 1
    BY <1>3, <2>0
  <2>a. PICK i \in 1 .. n : i = Rank(f, free) + 1
    BY <2>1
  <2> DEFINE g == frame[i]
  <2>2. g \in free /\ Rank(g, free) = Rank(f, free)
    <3>1. g \in free /\ Rank(g, free) = i - 1
      BY <1>2
    <3> QED BY <2>1, <2>a, <3>1
  <2>3. ~(g < f) /\ ~(f < g)
    <3>1. g < f => Rank(g, free) < Rank(f, free)
      BY <1>1, <2>2, RankGrows
    <3>2. f < g => Rank(f, free) < Rank(g, free)
      BY <1>1, <2>2, RankGrows
    <3> QED BY <2>0, <2>2, <3>1, <3>2
  <2>4. f \in Nat /\ g \in Nat
    BY <1>1, <2>2
  <2>5. g = f
    BY <2>3, <2>4
  <2> QED BY <2>1, <2>a, <2>5
<1> QED BY <1>2, <1>3

\* What the steps may use of the invariant.
LEMMA MapFacts ==
  ASSUME MapInv
  PROVE  /\ TypeOK /\ tables \in [Processes -> Seq(Entries)]
         /\ EntriesNameTheirFrames /\ FramesAreNamed /\ TablesAreMaps
         /\ \A f \in Allocated : f \in Frames /\ owner[f] \in Processes /\ page[f] \in Pages
         /\ \A p \in Processes : \A i \in DOMAIN tables[p] :
              tables[p][i].is_valid => tables[p][i].physical_frame \in Allocated
<1>1. /\ TypeOK /\ tables \in [Processes -> Seq(Entries)]
      /\ EntriesNameTheirFrames /\ FramesAreNamed /\ TablesAreMaps
  BY AgreementParts DEF MapInv, TypeInv
<1>2. ASSUME NEW f \in Allocated
      PROVE  f \in Frames /\ owner[f] \in Processes /\ page[f] \in Pages
  <2>1. f \in Frames /\ owner[f] \in Processes
    BY <1>1 DEF Allocated, FreeFrames, TypeOK
  <2>2. PICK i \in DOMAIN tables[owner[f]] : tables[owner[f]][i] = Entry(page[f], f)
    BY <1>1 DEF FramesAreNamed
  <2>3. tables[owner[f]][i].virtual_page \in Pages
    BY <1>1, <2>1, TablesTyped
  <2>4. tables[owner[f]][i].virtual_page = page[f]
    BY <2>2 DEF Entry
  <2> QED BY <2>1, <2>3, <2>4
<1>3. ASSUME NEW p \in Processes, NEW i \in DOMAIN tables[p], tables[p][i].is_valid
      PROVE  tables[p][i].physical_frame \in Allocated
  <2> DEFINE f == tables[p][i].physical_frame
  <2>1. owner[f] = p /\ page[f] = tables[p][i].virtual_page
    BY <1>1, <1>3 DEF EntriesNameTheirFrames
  <2>2. f \in Frames
    BY <1>1, <1>3, TablesTyped
  <2> QED BY <2>1, <2>2, Numbers DEF Allocated, FreeFrames
<1> QED BY <1>1, <1>2, <1>3

\* allocatePages: the frames taken, in order of rank, are named by the entries
\* of a table that was empty.
LEMMA AllocateMapInv ==
  ASSUME MapInv, NEW p \in Processes, NEW n \in 1 .. MaxPages, AllocatePages(p, n)
  PROVE  MapInv'
<1> USE Numbers
<1> DEFINE free == FreeFrames
           taken == {f \in free : Rank(f, free) < n}
           frame == InOrderOfRank(n, free)
           new == [i \in 1 .. n |-> Entry(i - 1, frame[i])]
<1>0. /\ TypeOK /\ tables \in [Processes -> Seq(Entries)]
      /\ EntriesNameTheirFrames /\ FramesAreNamed /\ TablesAreMaps
      /\ \A f \in Allocated : f \in Frames /\ owner[f] \in Processes /\ page[f] \in Pages
      /\ \A q \in Processes : \A i \in DOMAIN tables[q] :
           tables[q][i].is_valid => tables[q][i].physical_frame \in Allocated
  BY MapFacts
<1>1. /\ free \in SUBSET Frames /\ n \in Nat /\ n <= Cardinality(free) /\ n <= MaxPages
      /\ MaxPages \in Nat /\ tables[p] = <<>>
  <2>1. free \in SUBSET Frames /\ Cardinality(free) \in Nat
    BY FS_Subset, FS_CardinalityType DEF FreeFrames
  <2> QED BY <2>1, SizeAssumption DEF AllocatePages, HasNoPages
<1>2. /\ \A i \in 1 .. n : frame[i] \in free /\ Rank(frame[i], free) = i - 1
      /\ \A f \in taken : Rank(f, free) \in 0 .. n - 1 /\ frame[Rank(f, free) + 1] = f
  BY <1>1, FramesTaken
<1>3. ASSUME NEW i \in 1 .. n
      PROVE  /\ i \in Int /\ i - 1 \in Pages /\ frame[i] \in taken /\ frame[i] \in Frames
             /\ Rank(frame[i], free) = i - 1
  <2>1. i \in Int /\ i - 1 \in Pages /\ i - 1 < n
    BY <1>1 DEF Pages
  <2>2. frame[i] \in free /\ Rank(frame[i], free) = i - 1
    BY <1>2
  <2>3. frame[i] \in taken
    BY <2>1, <2>2
  <2> QED BY <1>1, <2>1, <2>2, <2>3
<1>4. /\ owner' = [f \in Frames |-> IF f \in taken THEN p ELSE owner[f]]
      /\ page' = [f \in Frames |-> IF f \in taken THEN Rank(f, free) ELSE page[f]]
      /\ allocated_at' = [f \in Frames |-> IF f \in taken THEN current_time ELSE allocated_at[f]]
      /\ accessed_at' = [f \in Frames |-> IF f \in taken THEN current_time ELSE accessed_at[f]]
      /\ tables' = [tables EXCEPT ![p] = @ \o new]
      /\ UNCHANGED <<current_time, algo>>
  BY DEF AllocatePages
<1> HIDE DEF free, frame, taken
<1>5. /\ new \in Seq(Entries) /\ DOMAIN new = 1 .. n
      /\ \A i \in 1 .. n : new[i] = Entry(i - 1, frame[i])
  <2>1. \A i \in 1 .. n : Entry(i - 1, frame[i]) \in Entries
    BY <1>3, WrittenEntries
  <2> QED BY <1>1, <2>1
<1> HIDE DEF new
<1>6. /\ tables' \in [Processes -> Seq(Entries)] /\ tables'[p] = new
      /\ \A q \in Processes \ {p} : tables'[q] = tables[q]
  <2>1. <<>> \o new = new
    BY <1>5
  <2>2. tables' = [tables EXCEPT ![p] = new]
    BY <1>1, <1>4, <2>1
  <2> QED BY <1>0, <1>5, <2>2
<1>7. /\ \A f \in taken : f \in Frames /\ owner'[f] = p /\ page'[f] = Rank(f, free)
                          /\ page'[f] \in Pages
      /\ \A f \in Frames \ taken : owner'[f] = owner[f] /\ page'[f] = page[f]
      /\ \A f \in taken : f \notin Allocated
  <2>1. taken \in SUBSET Frames /\ taken \cap Allocated = {}
    BY <1>1 DEF taken, free, Allocated
  <2>2. \A f \in taken : Rank(f, free) \in Pages
    BY <1>1, <1>2 DEF Pages
  <2> QED BY <1>4, <2>1, <2>2
<1>8. TypeInv'
  <2>1. owner' \in [Frames -> Processes \cup {NoProcess}] /\ page' \in [Frames -> Pages \cup {-1}]
    BY <1>0, <1>4, <1>7 DEF TypeOK
  <2>2. allocated_at' \in [Frames -> Nat] /\ accessed_at' \in [Frames -> Nat]
    BY <1>0, <1>4 DEF TypeOK
  <2>3. current_time' \in Nat /\ algo' \in ReplacementAlgorithms
    BY <1>0, <1>4 DEF TypeOK
  <2> QED BY <1>6, <2>1, <2>2, <2>3, TablesTyped DEF TypeInv, TypeOK
<1>9. EntriesNameTheirFrames'
  <2> SUFFICES ASSUME NEW q \in Processes, NEW i \in DOMAIN tables'[q], tables'[q][i].is_valid
               PROVE  /\ owner'[tables'[q][i].physical_frame] = q
                      /\ page'[tables'[q][i].physical_frame] = tables'[q][i].virtual_page
    BY DEF EntriesNameTheirFrames
  <2>1. CASE q = p
    <3>1. i \in 1 .. n /\ tables'[q][i] = Entry(i - 1, frame[i])
      BY <1>5, <1>6, <2>1
    <3>2. tables'[q][i].physical_frame = frame[i] /\ tables'[q][i].virtual_page = i - 1
      BY <1>3, <3>1, WrittenEntries
    <3> QED BY <1>3, <1>7, <2>1, <3>1, <3>2
  <2>2. CASE q # p
    <3>1. tables'[q] = tables[q]
      BY <1>6, <2>2
    <3>2. tables[q][i].physical_frame \in Allocated
      BY <1>0, <3>1
    <3>3. tables[q][i].physical_frame \in Frames \ taken
      BY <1>0, <1>7, <3>2
    <3>4. /\ owner[tables[q][i].physical_frame] = q
          /\ page[tables[q][i].physical_frame] = tables[q][i].virtual_page
      BY <1>0, <3>1 DEF EntriesNameTheirFrames
    <3> QED BY <1>7, <3>1, <3>3, <3>4
  <2> QED BY <2>1, <2>2
<1>10. FramesAreNamed'
  <2> SUFFICES ASSUME NEW f \in Frames, owner'[f] # NoProcess
               PROVE  \E i \in DOMAIN tables'[owner'[f]] :
                        tables'[owner'[f]][i] = Entry(page'[f], f)
    BY DEF FramesAreNamed, Allocated, FreeFrames
  <2>1. CASE f \in taken
    <3>1. PICK i \in 1 .. n : i = Rank(f, free) + 1
      BY <1>2, <2>1
    <3>2. frame[i] = f /\ i - 1 = page'[f] /\ owner'[f] = p
      BY <1>2, <1>7, <2>1, <3>1
    <3> QED BY <1>5, <1>6, <3>2
  <2>2. CASE f \notin taken
    <3>1. owner'[f] = owner[f] /\ page'[f] = page[f] /\ f \in Allocated
      BY <1>7, <2>2 DEF Allocated, FreeFrames
    <3>2. PICK i \in DOMAIN tables[owner[f]] : tables[owner[f]][i] = Entry(page[f], f)
      BY <1>0, <3>1 DEF FramesAreNamed
    <3>3. owner[f] # p
      BY <1>1, <3>2
    <3> QED BY <1>0, <1>6, <3>1, <3>2, <3>3
  <2> QED BY <2>1, <2>2
<1>11. TablesAreMaps'
  <2>1. OneEntryPerPage(new)
    <3> SUFFICES ASSUME NEW i \in 1 .. n, NEW j \in 1 .. n,
                        new[i].virtual_page = new[j].virtual_page
                 PROVE  i = j
      BY <1>5 DEF OneEntryPerPage
    <3>1. /\ i \in Int /\ i - 1 \in Pages /\ frame[i] \in Frames
          /\ j \in Int /\ j - 1 \in Pages /\ frame[j] \in Frames
      BY <1>3
    <3>2. new[i] = Entry(i - 1, frame[i]) /\ new[j] = Entry(j - 1, frame[j])
      BY <1>5
    <3>3. i - 1 = j - 1
      BY <3>2 DEF Entry
    <3> QED BY <3>1, <3>3
  <2> QED BY <1>0, <1>6, <2>1 DEF TablesAreMaps, OneEntryPerPage
<1> QED BY <1>8, <1>9, <1>10, <1>11
  DEF MapInv, FramesAndTablesAgree, EntriesNameTheirFrames, FramesAreNamed, TablesAreMaps,
      OneEntryPerPage

\* deallocatePages: the frames freed are those the emptied table named.
LEMMA DeallocateMapInv ==
  ASSUME MapInv, NEW p \in Processes, DeallocatePages(p)
  PROVE  MapInv'
<1> USE Numbers
<1>0. /\ TypeOK /\ tables \in [Processes -> Seq(Entries)]
      /\ EntriesNameTheirFrames /\ FramesAreNamed /\ TablesAreMaps
      /\ \A q \in Processes : \A i \in DOMAIN tables[q] :
           tables[q][i].is_valid => tables[q][i].physical_frame \in Allocated
  BY MapFacts
<1>1. /\ owner' = [f \in Frames |-> IF owner[f] = p THEN NoProcess ELSE owner[f]]
      /\ page' = [f \in Frames |-> IF owner[f] = p THEN -1 ELSE page[f]]
      /\ allocated_at' = [f \in Frames |-> IF owner[f] = p THEN 0 ELSE allocated_at[f]]
      /\ accessed_at' = [f \in Frames |-> IF owner[f] = p THEN 0 ELSE accessed_at[f]]
      /\ tables' = [tables EXCEPT ![p] = <<>>]
      /\ UNCHANGED <<current_time, algo>>
  BY DEF DeallocatePages, MarkedFree
<1>2. /\ tables' \in [Processes -> Seq(Entries)] /\ tables'[p] = <<>>
      /\ \A q \in Processes \ {p} : tables'[q] = tables[q]
  BY <1>0, <1>1
<1>3. /\ \A f \in Frames : owner[f] = p => owner'[f] = NoProcess
      /\ \A f \in Frames : owner[f] # p => owner'[f] = owner[f] /\ page'[f] = page[f]
  BY <1>1
<1>4. TypeInv'
  <2>1. owner' \in [Frames -> Processes \cup {NoProcess}] /\ page' \in [Frames -> Pages \cup {-1}]
    BY <1>0, <1>1 DEF TypeOK
  <2>2. /\ allocated_at' \in [Frames -> Nat] /\ accessed_at' \in [Frames -> Nat]
        /\ current_time' \in Nat /\ algo' \in ReplacementAlgorithms
    BY <1>0, <1>1 DEF TypeOK
  <2> QED BY <1>2, <2>1, <2>2, TablesTyped DEF TypeInv, TypeOK
<1>5. EntriesNameTheirFrames'
  <2> SUFFICES ASSUME NEW q \in Processes, NEW i \in DOMAIN tables'[q], tables'[q][i].is_valid
               PROVE  /\ owner'[tables'[q][i].physical_frame] = q
                      /\ page'[tables'[q][i].physical_frame] = tables'[q][i].virtual_page
    BY DEF EntriesNameTheirFrames
  <2>1. q # p /\ tables'[q] = tables[q]
    BY <1>2
  <2>2. tables[q][i].physical_frame \in Frames
    BY <1>0, <2>1 DEF Allocated
  <2>3. /\ owner[tables[q][i].physical_frame] = q
        /\ page[tables[q][i].physical_frame] = tables[q][i].virtual_page
    BY <1>0, <2>1 DEF EntriesNameTheirFrames
  <2> QED BY <1>3, <2>1, <2>2, <2>3
<1>6. FramesAreNamed'
  <2> SUFFICES ASSUME NEW f \in Frames, owner'[f] # NoProcess
               PROVE  \E i \in DOMAIN tables'[owner'[f]] :
                        tables'[owner'[f]][i] = Entry(page'[f], f)
    BY DEF FramesAreNamed, Allocated, FreeFrames
  <2>1. owner[f] # p /\ owner'[f] = owner[f] /\ page'[f] = page[f]
    BY <1>3
  <2>2. f \in Allocated /\ owner[f] \in Processes
    BY <1>0, <2>1 DEF Allocated, FreeFrames, TypeOK
  <2> QED BY <1>0, <1>2, <2>1, <2>2 DEF FramesAreNamed
<1>7. TablesAreMaps'
  <2>1. ASSUME NEW q \in Processes \ {p} PROVE OneEntryPerPage(tables'[q])
    BY <1>0, <1>2 DEF TablesAreMaps
  <2>2. OneEntryPerPage(tables'[p])
    BY <1>2 DEF OneEntryPerPage
  <2> QED BY <2>1, <2>2 DEF TablesAreMaps
<1> QED BY <1>4, <1>5, <1>6, <1>7
  DEF MapInv, FramesAndTablesAgree, EntriesNameTheirFrames, FramesAreNamed, TablesAreMaps,
      OneEntryPerPage

\* Taking the mapping of frame f away: no valid entry names f any more, and
\* every other frame is still named.
LEMMA MappingRemovedFacts ==
  ASSUME MapInv, NEW f \in Frames
  PROVE  /\ MappingRemoved(f) \in [Processes -> Seq(Entries)]
         /\ \A q \in Processes : OneEntryPerPage(MappingRemoved(f)[q])
         /\ \A q \in Processes : \A i \in DOMAIN MappingRemoved(f)[q] :
              MappingRemoved(f)[q][i].is_valid =>
                /\ i \in DOMAIN tables[q] /\ MappingRemoved(f)[q][i] = tables[q][i]
                /\ tables[q][i].physical_frame # f
         /\ \A g \in Allocated \ {f} :
              \E i \in DOMAIN MappingRemoved(f)[owner[g]] :
                MappingRemoved(f)[owner[g]][i] = Entry(page[g], g)
<1> USE Numbers
<1>0. /\ TypeOK /\ tables \in [Processes -> Seq(Entries)]
      /\ EntriesNameTheirFrames /\ FramesAreNamed /\ TablesAreMaps
      /\ \A g \in Allocated : g \in Frames /\ owner[g] \in Processes /\ page[g] \in Pages
      /\ \A q \in Processes : \A i \in DOMAIN tables[q] :
           tables[q][i].is_valid => tables[q][i].physical_frame \in Allocated
  BY MapFacts
<1>1. CASE f \notin Allocated
  <2>1. MappingRemoved(f) = tables
    BY <1>1 DEF MappingRemoved
  <2>2. \A q \in Processes : OneEntryPerPage(tables[q])
    BY <1>0 DEF TablesAreMaps
  <2>3. \A q \in Processes : \A i \in DOMAIN tables[q] :
          tables[q][i].is_valid => tables[q][i].physical_frame # f
    BY <1>0, <1>1
  <2>4. \A g \in Allocated : \E i \in DOMAIN tables[owner[g]] :
          tables[owner[g]][i] = Entry(page[g], g)
    BY <1>0 DEF FramesAreNamed
  <2> QED BY <1>0, <2>1, <2>2, <2>3, <2>4
<1>2. CASE f \in Allocated
  <2> DEFINE r == owner[f]
             e == Invalid(page[f])
             new == Updated(tables[r], page[f], e)
             mid == MappingRemoved(f)
  <2>1. r \in Processes /\ page[f] \in Pages /\ tables[r] \in Seq(Entries)
        /\ OneEntryPerPage(tables[r])
    BY <1>0, <1>2 DEF TablesAreMaps
  <2>2. e \in Entries /\ e.virtual_page = page[f] /\ ~e.is_valid
    BY <2>1, WrittenEntries
  <2>3. IsUpdateOf(new, tables[r], page[f], e)
    BY <2>1, <2>2, UpdatedTable
  <2> HIDE DEF new
  <2>4. mid \in [Processes -> Seq(Entries)] /\ mid[r] = new
        /\ \A q \in Processes \ {r} : mid[q] = tables[q]
    <3>1. mid = [tables EXCEPT ![r] = new]
      BY <1>2 DEF MappingRemoved, new
    <3>2. r \in Processes /\ new \in Seq(Entries)
      BY <2>1, <2>3 DEF IsUpdateOf
    <3> HIDE DEF r, mid
    <3> QED BY <1>0, <3>1, <3>2
  <2> HIDE DEF mid
  <2>5. ASSUME NEW q \in Processes PROVE OneEntryPerPage(mid[q])
    BY <1>0, <2>3, <2>4 DEF TablesAreMaps, IsUpdateOf
  <2>6. ASSUME NEW q \in Processes, NEW i \in DOMAIN mid[q], mid[q][i].is_valid
        PROVE  /\ i \in DOMAIN tables[q] /\ mid[q][i] = tables[q][i]
               /\ tables[q][i].physical_frame # f
    <3>1. /\ i \in DOMAIN tables[q] /\ mid[q][i] = tables[q][i]
          /\ q = r => tables[q][i].virtual_page # page[f]
      BY <2>2, <2>3, <2>4, <2>6 DEF IsUpdateOf
    <3>2. tables[q][i].is_valid
      BY <2>6, <3>1
    <3>3. /\ owner[tables[q][i].physical_frame] = q
          /\ page[tables[q][i].physical_frame] = tables[q][i].virtual_page
      BY <1>0, <3>1, <3>2 DEF EntriesNameTheirFrames
    <3> QED BY <3>1, <3>3
  <2>7. ASSUME NEW g \in Allocated \ {f}
        PROVE  \E i \in DOMAIN mid[owner[g]] : mid[owner[g]][i] = Entry(page[g], g)
    <3>1. owner[g] \in Processes
      BY <1>0
    <3>2. PICK i \in DOMAIN tables[owner[g]] : tables[owner[g]][i] = Entry(page[g], g)
      BY <1>0 DEF FramesAreNamed
    <3>3. CASE owner[g] # r
      BY <2>4, <3>1, <3>2, <3>3
    <3>4. CASE owner[g] = r
      <4>1. PICK j \in DOMAIN tables[r] : tables[r][j] = Entry(page[f], f)
        BY <1>0, <1>2 DEF FramesAreNamed
      <4>2. page[g] # page[f]
        <5> SUFFICES ASSUME page[g] = page[f] PROVE FALSE
          OBVIOUS
        <5>1. tables[r][i].virtual_page = tables[r][j].virtual_page
          BY <3>2, <3>4, <4>1 DEF Entry
        <5>2. i = j
          BY <2>1, <3>4, <5>1 DEF OneEntryPerPage
        <5>3. Entry(page[g], g).physical_frame = Entry(page[f], f).physical_frame
          BY <3>2, <3>4, <4>1, <5>2
        <5> QED BY <5>3 DEF Entry
      <4>3. tables[r][i].virtual_page # page[f]
        BY <3>2, <3>4, <4>2 DEF Entry
      <4> QED BY <2>3, <2>4, <3>2, <3>4, <4>3 DEF IsUpdateOf
    <3> QED BY <3>3, <3>4
  <2> QED BY <2>4, <2>5, <2>6, <2>7 DEF mid
<1> QED BY <1>1, <1>2

\* handlePageFault: the page thrown out, if any, is the only one that loses
\* its entry, and the frame is named by the page it was given to.
LEMMA FaultMapInv ==
  ASSUME MapInv, NEW p \in Processes, NEW v \in Pages, HandlePageFault(p, v)
  PROVE  MapInv'
<1> USE Numbers
<1>0. /\ TypeOK /\ EntriesNameTheirFrames
      /\ \A g \in Allocated : g \in Frames /\ owner[g] \in Processes /\ page[g] \in Pages
      /\ \A q \in Processes : \A i \in DOMAIN tables[q] :
           tables[q][i].is_valid => tables[q][i].physical_frame \in Allocated
  BY MapFacts
<1>1. \A i \in DOMAIN tables[p] : tables[p][i].virtual_page = v => ~tables[p][i].is_valid
  BY DEF HandlePageFault, IsPageInMemory, ValidEntries
<1>2. PICK f \in Frames :
        /\ owner' = [owner EXCEPT ![f] = p] /\ page' = [page EXCEPT ![f] = v]
        /\ allocated_at' = [allocated_at EXCEPT ![f] = current_time]
        /\ accessed_at' = [accessed_at EXCEPT ![f] = current_time]
        /\ tables' = [MappingRemoved(f) EXCEPT ![p] = Updated(@, v, Entry(v, f))]
        /\ UNCHANGED <<current_time, algo>>
  BY DEF HandlePageFault
<1> DEFINE mid == MappingRemoved(f)
           e == Entry(v, f)
           new == Updated(mid[p], v, e)
<1>3. /\ mid \in [Processes -> Seq(Entries)]
      /\ \A q \in Processes : OneEntryPerPage(mid[q])
      /\ \A q \in Processes : \A i \in DOMAIN mid[q] : mid[q][i].is_valid =>
           /\ i \in DOMAIN tables[q] /\ mid[q][i] = tables[q][i]
           /\ tables[q][i].physical_frame # f
      /\ \A g \in Allocated \ {f} : \E i \in DOMAIN mid[owner[g]] :
           mid[owner[g]][i] = Entry(page[g], g)
  BY MappingRemovedFacts
<1>4. tables' = [mid EXCEPT ![p] = new]
  BY <1>2
<1> HIDE DEF mid
<1>5. /\ e \in Entries /\ e.virtual_page = v /\ e.physical_frame = f /\ e.is_valid
  BY WrittenEntries
<1> HIDE DEF e
<1>6. IsUpdateOf(new, mid[p], v, e)
  BY <1>3, <1>5, UpdatedTable
<1> HIDE DEF new
<1>7. /\ tables' \in [Processes -> Seq(Entries)] /\ tables'[p] = new
      /\ \A q \in Processes \ {p} : tables'[q] = mid[q]
  <2>1. new \in Seq(Entries)
    BY <1>6 DEF IsUpdateOf
  <2> QED BY <1>3, <1>4, <2>1
<1>8. /\ owner'[f] = p /\ page'[f] = v
      /\ \A g \in Frames \ {f} : owner'[g] = owner[g] /\ page'[g] = page[g]
  BY <1>0, <1>2 DEF TypeOK
<1>9. TypeInv'
  <2>1. /\ owner' \in [Frames -> Processes \cup {NoProcess}] /\ page' \in [Frames -> Pages \cup {-1}]
        /\ allocated_at' \in [Frames -> Nat] /\ accessed_at' \in [Frames -> Nat]
        /\ current_time' \in Nat /\ algo' \in ReplacementAlgorithms
    BY <1>0, <1>2 DEF TypeOK
  <2> QED BY <1>7, <2>1, TablesTyped DEF TypeInv, TypeOK
<1>10. EntriesNameTheirFrames'
  <2> SUFFICES ASSUME NEW q \in Processes, NEW i \in DOMAIN tables'[q], tables'[q][i].is_valid
               PROVE  /\ owner'[tables'[q][i].physical_frame] = q
                      /\ page'[tables'[q][i].physical_frame] = tables'[q][i].virtual_page
    BY DEF EntriesNameTheirFrames
  <2>1. CASE q = p /\ tables'[q][i] = e
    BY <1>5, <1>8, <2>1
  <2>2. CASE i \in DOMAIN mid[q] /\ tables'[q][i] = mid[q][i]
    <3>1. /\ i \in DOMAIN tables[q] /\ tables'[q][i] = tables[q][i]
          /\ tables[q][i].physical_frame # f /\ tables[q][i].is_valid
      BY <1>3, <2>2
    <3>2. tables[q][i].physical_frame \in Frames \ {f}
      BY <1>0, <3>1
    <3>3. /\ owner[tables[q][i].physical_frame] = q
          /\ page[tables[q][i].physical_frame] = tables[q][i].virtual_page
      BY <1>0, <3>1 DEF EntriesNameTheirFrames
    <3> QED BY <1>8, <3>1, <3>2, <3>3
  <2> QED BY <1>6, <1>7, <2>1, <2>2 DEF IsUpdateOf
<1>11. FramesAreNamed'
  <2> SUFFICES ASSUME NEW g \in Frames, owner'[g] # NoProcess
               PROVE  \E i \in DOMAIN tables'[owner'[g]] :
                        tables'[owner'[g]][i] = Entry(page'[g], g)
    BY DEF FramesAreNamed, Allocated, FreeFrames
  <2>1. CASE g = f
    <3>1. \E i \in DOMAIN new : new[i] = Entry(v, f)
      BY <1>5, <1>6 DEF IsUpdateOf, e
    <3> QED BY <1>7, <1>8, <2>1, <3>1
  <2>2. CASE g # f
    <3>1. owner'[g] = owner[g] /\ page'[g] = page[g] /\ g \in Allocated
      BY <1>8, <2>2 DEF Allocated, FreeFrames
    <3>2. owner[g] \in Processes /\ page[g] \in Pages
      BY <1>0, <3>1
    <3>3. PICK i \in DOMAIN mid[owner[g]] : mid[owner[g]][i] = Entry(page[g], g)
      BY <1>3, <2>2, <3>1
    <3>4. CASE owner[g] # p
      BY <1>7, <3>1, <3>2, <3>3, <3>4
    <3>5. CASE owner[g] = p
      <4>1. mid[p][i].is_valid /\ mid[p][i].virtual_page = page[g]
        BY <3>3, <3>5 DEF Entry
      <4>2. i \in DOMAIN tables[p] /\ mid[p][i] = tables[p][i]
        BY <1>3, <3>3, <3>5, <4>1
      <4>3. mid[p][i].virtual_page # v
        BY <1>1, <4>1, <4>2
      <4> QED BY <1>6, <1>7, <3>1, <3>3, <3>5, <4>3 DEF IsUpdateOf
    <3> QED BY <3>4, <3>5
  <2> QED BY <2>1, <2>2
<1>12. TablesAreMaps'
  <2>1. ASSUME NEW q \in Processes \ {p} PROVE OneEntryPerPage(tables'[q])
    BY <1>3, <1>7
  <2>2. OneEntryPerPage(tables'[p])
    BY <1>6, <1>7 DEF IsUpdateOf
  <2> QED BY <2>1, <2>2 DEF TablesAreMaps
<1> QED BY <1>9, <1>10, <1>11, <1>12
  DEF MapInv, FramesAndTablesAgree, EntriesNameTheirFrames, FramesAreNamed, TablesAreMaps,
      OneEntryPerPage

\* A call that moves no frame and no entry keeps the agreement.
LEMMA MappingUntouched ==
  ASSUME MapInv, UNCHANGED <<owner, page, tables>>,
         allocated_at' \in [Frames -> Nat], accessed_at' \in [Frames -> Nat],
         current_time' \in Nat, algo' \in ReplacementAlgorithms
  PROVE  MapInv'
<1>1. TypeInv'
  BY DEF MapInv, TypeInv, TypeOK
<1>2. FramesAndTablesAgree'
  BY DEF MapInv, FramesAndTablesAgree, Allocated, FreeFrames
<1> QED BY <1>1, <1>2 DEF MapInv

\* reset empties both sides.
LEMMA ResetMapInv ==
  ASSUME MapInv, Reset
  PROVE  MapInv'
<1> USE Numbers
<1>1. /\ owner' = [f \in Frames |-> NoProcess] /\ page' = [f \in Frames |-> -1]
      /\ allocated_at' = [f \in Frames |-> 0] /\ accessed_at' = [f \in Frames |-> 0]
      /\ tables' = [p \in Processes |-> <<>>] /\ current_time' = 0 /\ algo' = algo
  BY DEF Reset, MarkedFree
<1>2. tables' \in [Processes -> Seq(Entries)] /\ \A p \in Processes : tables'[p] = <<>>
  BY <1>1
<1>3. TypeInv'
  BY <1>1, <1>2 DEF MapInv, TypeInv, TypeOK
<1>4. Allocated' = {}
  BY <1>1 DEF Allocated, FreeFrames
<1>5. FramesAndTablesAgree'
  BY <1>2, <1>4 DEF FramesAndTablesAgree
<1> QED BY <1>3, <1>5 DEF MapInv

\* Every call keeps frames and page tables two views of one mapping.
LEMMA MapInvStep == MapInv /\ [Next]_vars => MapInv'
<1> SUFFICES ASSUME MapInv, [Next]_vars PROVE MapInv'
  OBVIOUS
<1>0. TypeOK
  BY DEF MapInv, TypeInv
<1>1. ASSUME NEW p \in Processes, NEW n \in 1 .. MaxPages, AllocatePages(p, n) PROVE MapInv'
  BY <1>1, AllocateMapInv
<1>2. ASSUME NEW p \in Processes, DeallocatePages(p) PROVE MapInv'
  BY <1>2, DeallocateMapInv
<1>3. ASSUME NEW p \in Processes, NEW v \in Pages, HandlePageFault(p, v) PROVE MapInv'
  BY <1>3, FaultMapInv
<1>4. ASSUME NEW p \in Processes, NEW v \in Pages, NEW now \in current_time .. current_time + 1,
             AccessPage(p, v, now)
      PROVE  MapInv'
  <2>1. now \in Nat
    BY <1>0 DEF TypeOK
  <2>2. accessed_at' \in [Frames -> Nat]
    BY <1>0, <1>4, <2>1 DEF AccessPage, TypeOK
  <2> QED BY <1>0, <1>4, <2>1, <2>2, MappingUntouched DEF AccessPage, TypeOK
<1>5. ASSUME NEW a \in ReplacementAlgorithms, SetReplacementAlgorithm(a) PROVE MapInv'
  BY <1>0, <1>5, MappingUntouched DEF SetReplacementAlgorithm, frameVars, TypeOK
<1>6. CASE Reset
  BY <1>6, ResetMapInv
<1>7. CASE UNCHANGED vars
  BY <1>0, <1>7, MappingUntouched DEF vars, TypeOK
<1> QED BY <1>1, <1>2, <1>3, <1>4, <1>5, <1>6, <1>7 DEF Next

(* Frames, pages, times and entries keep their types through every sequence  *)
(* of allocations, releases, faults, accesses and resets.                    *)
THEOREM MemoryTypeCorrect == Spec => []TypeOK
<1>1. MapInv => TypeOK
  BY DEF MapInv, TypeInv
<1> QED BY <1>1, InitMapInv, MapInvStep, PTL DEF Spec

(* For any number of processes, frames and pages and under both replacement  *)
(* algorithms, frames and page tables are two views of one mapping: what a   *)
(* table translates is in the frame, what is in a frame is translated, and   *)
(* no page is entered twice.                                                 *)
THEOREM FramesAndTablesAlwaysAgree == Spec => []FramesAndTablesAgree
<1>1. MapInv => FramesAndTablesAgree
  BY DEF MapInv
<1> QED BY <1>1, InitMapInv, MapInvStep, PTL DEF Spec

-----------------------------------------------------------------------------
(* MemoryManager implements Paging, for any set of processes, any number of *)
(* frames and of pages, and both replacement algorithms.                    *)

-----------------------------------------------------------------------------
(* The resident pages, read off the frames.                                 *)

Place(f) == <<owner[f], page[f]>>
Placed == {Place(f) : f \in Allocated}
FramesShowResident == Resident = Placed

\* By the agreement of frames and tables, a page is resident if it is in a
\* frame, and no page is in two.
LEMMA ResidentIsPlaced ==
  MapInv => /\ Resident = Placed
            /\ \A f, g \in Allocated : Place(f) = Place(g) => f = g
<1> SUFFICES ASSUME MapInv
             PROVE  /\ Resident = Placed
                    /\ \A f, g \in Allocated : Place(f) = Place(g) => f = g
  OBVIOUS
<1>0. /\ TypeOK /\ tables \in [Processes -> Seq(Entries)]
      /\ EntriesNameTheirFrames /\ FramesAreNamed /\ TablesAreMaps
      /\ \A f \in Allocated : f \in Frames /\ owner[f] \in Processes /\ page[f] \in Pages
      /\ \A p \in Processes : \A i \in DOMAIN tables[p] :
           tables[p][i].is_valid => tables[p][i].physical_frame \in Allocated
  BY MapFacts
<1>1. ASSUME NEW p \in Processes, NEW v \in Pages, IsPageInMemory(p, v)
      PROVE  <<p, v>> \in Placed
  <2>1. PICK i \in DOMAIN tables[p] : tables[p][i].virtual_page = v /\ tables[p][i].is_valid
    BY <1>1 DEF IsPageInMemory, ValidEntries
  <2>2. /\ tables[p][i].physical_frame \in Allocated
        /\ owner[tables[p][i].physical_frame] = p
        /\ page[tables[p][i].physical_frame] = v
    BY <1>0, <2>1 DEF EntriesNameTheirFrames
  <2> QED BY <2>2 DEF Placed, Place
<1>2. ASSUME NEW f \in Allocated
      PROVE  Place(f) \in Resident
  <2>1. PICK i \in DOMAIN tables[owner[f]] : tables[owner[f]][i] = Entry(page[f], f)
    BY <1>0 DEF FramesAreNamed
  <2>2. IsPageInMemory(owner[f], page[f])
    BY <2>1 DEF IsPageInMemory, ValidEntries, Entry
  <2> QED BY <1>0, <2>2 DEF Place, Resident
<1>3. ASSUME NEW f \in Allocated, NEW g \in Allocated, Place(f) = Place(g)
      PROVE  f = g
  <2>1. owner[f] = owner[g] /\ page[f] = page[g] /\ owner[f] \in Processes
    BY <1>0, <1>3 DEF Place
  <2>2. PICK i \in DOMAIN tables[owner[f]] : tables[owner[f]][i] = Entry(page[f], f)
    BY <1>0 DEF FramesAreNamed
  <2>3. PICK j \in DOMAIN tables[owner[f]] : tables[owner[f]][j] = Entry(page[f], g)
    BY <1>0, <2>1 DEF FramesAreNamed
  <2>4. i = j
    BY <1>0, <2>1, <2>2, <2>3 DEF TablesAreMaps, OneEntryPerPage, Entry
  <2> QED BY <2>2, <2>3, <2>4 DEF Entry
<1>4. Resident \subseteq Placed
  BY <1>1 DEF Resident
<1>5. Placed \subseteq Resident
  BY <1>2 DEF Placed
<1> QED BY <1>3, <1>4, <1>5

\* The same after a step.
LEMMA ResidentIsPlacedNext == MapInv' => Resident' = Placed'
<1>1. MapInv => FramesShowResident
  BY ResidentIsPlaced DEF FramesShowResident
<1>2. MapInv' => FramesShowResident'
  BY <1>1, PTL
<1> QED BY <1>2 DEF FramesShowResident

\* As many pages are resident as frames are not free.
LEMMA ResidentCount ==
  ASSUME MapInv
  PROVE  /\ Cardinality(FreeFrames) \in Nat /\ IsFiniteSet(FreeFrames)
         /\ Cardinality(Resident) = NumFrames - Cardinality(FreeFrames)
<1>1. /\ IsFiniteSet(FreeFrames) /\ IsFiniteSet(Allocated)
      /\ Cardinality(FreeFrames) \in Nat /\ Cardinality(Allocated) \in Nat
  BY Numbers, FS_Subset, FS_CardinalityType DEF FreeFrames, Allocated
<1>2. Cardinality(Allocated) = NumFrames - Cardinality(FreeFrames)
  <2>1. Frames \cap FreeFrames = FreeFrames
    BY DEF FreeFrames
  <2>2. Cardinality(Frames \ FreeFrames) = Cardinality(Frames) - Cardinality(Frames \cap FreeFrames)
    BY Numbers, FS_Difference
  <2> QED BY Numbers, <2>1, <2>2 DEF Allocated
<1> DEFINE M == [f \in Allocated |-> Place(f)]
<1>3. M \in Bijection(Allocated, Resident)
  <2>1. /\ Resident = Placed
        /\ \A f, g \in Allocated : Place(f) = Place(g) => f = g
    BY ResidentIsPlaced
  <2>2. M \in [Allocated -> Resident]
    BY <2>1 DEF Placed
  <2>3. \A f, g \in Allocated : M[f] = M[g] => f = g
    BY <2>1
  <2>4. \A t \in Resident : \E f \in Allocated : M[f] = t
    BY <2>1 DEF Placed
  <2> HIDE DEF M
  <2> QED BY <2>2, <2>3, <2>4, Fun_IsBij
<1>4. ExistsBijection(Allocated, Resident)
  BY <1>3 DEF ExistsBijection
<1> QED BY <1>1, <1>2, <1>4, FS_Bijection

\* Paging counts as MemoryManager does.
LEMMA SameCardinality == \A S : Abstract!Cardinality(S) = Cardinality(S)
BY DEF Abstract!Cardinality, Cardinality

-----------------------------------------------------------------------------
(* Every step of MemoryManager, on the resident pages.                      *)

\* Memory is empty in the initial state.
LEMMA InitMaps == Init => Abstract!Init
<1> SUFFICES ASSUME Init PROVE Abstract!Init
  OBVIOUS
<1>1. Allocated = {}
  BY DEF Init, Allocated, FreeFrames
<1>2. Resident = Placed
  BY InitMapInv, ResidentIsPlaced
<1> QED BY <1>1, <1>2 DEF Placed, Abstract!Init

\* allocatePages: the pages 0 .. n - 1 of a process that had none, together.
LEMMA AllocateMaps ==
  ASSUME MapInv, MapInv', NEW p \in Processes, NEW n \in 1 .. MaxPages, AllocatePages(p, n)
  PROVE  Abstract!Next
<1> DEFINE S == 0 .. n - 1
           taken == {f \in FreeFrames : Rank(f, FreeFrames) < n}
<1>1. Resident = Placed /\ Resident' = Placed'
  BY ResidentIsPlaced, ResidentIsPlacedNext
<1>2. /\ Cardinality(FreeFrames) \in Nat /\ Cardinality(Resident) = NumFrames - Cardinality(FreeFrames)
      /\ FreeFrames \in SUBSET Frames
  BY ResidentCount DEF FreeFrames
<1>3. /\ n \in Nat /\ n > 0 /\ n <= Cardinality(FreeFrames) /\ n <= MaxPages
      /\ NumFrames \in Nat /\ MaxPages \in Nat
  BY <1>2, SizeAssumption DEF AllocatePages
<1>4. S \in SUBSET Pages /\ S # {} /\ Cardinality(S) = n
  <2>1. S \in SUBSET Pages /\ 0 \in S
    BY <1>3 DEF Pages
  <2>2. Cardinality(S) = n
    BY <1>3, FS_Interval
  <2> QED BY <2>1, <2>2
<1>5. S \cap Abstract!PagesOf(p) = {}
  <2>1. tables[p] = <<>>
    BY DEF AllocatePages, HasNoPages
  <2>2. \A v : ~IsPageInMemory(p, v)
    BY <2>1 DEF IsPageInMemory, ValidEntries
  <2> QED BY <2>2 DEF Abstract!PagesOf, Resident
<1>6. Cardinality(Resident) + Cardinality(S) <= NumFrames
  BY <1>2, <1>3, <1>4
<1>7. /\ owner' = [f \in Frames |-> IF f \in taken THEN p ELSE owner[f]]
      /\ page' = [f \in Frames |-> IF f \in taken THEN Rank(f, FreeFrames) ELSE page[f]]
  BY DEF AllocatePages
<1>8. /\ \A f \in taken : Rank(f, FreeFrames) \in S
      /\ \A k \in S : \E f \in taken : Rank(f, FreeFrames) = k
  <2>1. /\ \A i \in 1 .. n : /\ InOrderOfRank(n, FreeFrames)[i] \in FreeFrames
                             /\ Rank(InOrderOfRank(n, FreeFrames)[i], FreeFrames) = i - 1
        /\ \A f \in FreeFrames : Rank(f, FreeFrames) < n => Rank(f, FreeFrames) \in S
    BY <1>2, <1>3, FramesTaken
  <2>2. ASSUME NEW k \in S PROVE \E f \in taken : Rank(f, FreeFrames) = k
    <3>1. k + 1 \in 1 .. n /\ (k + 1) - 1 = k /\ k < n
      BY <1>3
    <3>2. PICK f \in FreeFrames : Rank(f, FreeFrames) = k
      BY <2>1, <3>1
    <3> QED BY <3>1, <3>2
  <2> QED BY <2>1, <2>2
<1> HIDE DEF S
<1>9. /\ taken \in SUBSET Frames /\ taken \cap Allocated = {}
      /\ Allocated' = Allocated \cup taken
  BY <1>2, <1>7, Numbers DEF Allocated, FreeFrames
<1> HIDE DEF taken
<1>10. /\ \A f \in taken : Place(f)' = <<p, Rank(f, FreeFrames)>>
       /\ \A f \in Allocated : Place(f)' = Place(f)
  BY <1>7, <1>9 DEF Place, Allocated
<1>11. Placed' = Placed \cup ({p} \X S)
  <2>1. \A t \in Placed' : t \in Placed \/ t \in {p} \X S
    BY <1>8, <1>9, <1>10 DEF Placed
  <2>2. \A t \in Placed : t \in Placed'
    BY <1>9, <1>10 DEF Placed
  <2>3. ASSUME NEW k \in S PROVE <<p, k>> \in Placed'
    <3>1. PICK f \in taken : Rank(f, FreeFrames) = k
      BY <1>8
    <3>2. Place(f)' = <<p, k>> /\ f \in Allocated'
      BY <1>9, <1>10, <3>1
    <3> QED BY <3>2 DEF Placed
  <2>4. \A t \in {p} \X S : t \in Placed'
    BY <2>3
  <2> QED BY <2>1, <2>2, <2>4
<1>12. Abstract!Load(p, S)
  BY SameCardinality, <1>1, <1>4, <1>5, <1>6, <1>11 DEF Abstract!Load
<1> QED BY <1>4, <1>12 DEF Abstract!Next

\* deallocatePages: the pages of the process, no others.
LEMMA DeallocateMaps ==
  ASSUME MapInv, MapInv', NEW p \in Processes, DeallocatePages(p)
  PROVE  Abstract!Next
<1>1. Resident = Placed /\ Resident' = Placed'
  BY ResidentIsPlaced, ResidentIsPlacedNext
<1>0. /\ \A f \in Allocated : f \in Frames /\ owner[f] \in Processes /\ page[f] \in Pages
      /\ p # NoProcess
  BY MapFacts, Numbers
<1>2. /\ owner' = [f \in Frames |-> IF owner[f] = p THEN NoProcess ELSE owner[f]]
      /\ page' = [f \in Frames |-> IF owner[f] = p THEN -1 ELSE page[f]]
  BY DEF DeallocatePages, MarkedFree
<1>3. Allocated' = {f \in Allocated : owner[f] # p}
  BY <1>2 DEF Allocated, FreeFrames
<1>4. \A f \in Allocated' : Place(f)' = Place(f)
  BY <1>2, <1>3 DEF Place, Allocated
<1>5. Placed' = Placed \ ({p} \X Pages)
  <2>1. \A f \in Allocated : Place(f) \in {p} \X Pages <=> owner[f] = p
    BY <1>0 DEF Place
  <2>2. \A t \in Placed' : t \in Placed /\ t \notin {p} \X Pages
    BY <1>3, <1>4, <2>1 DEF Placed
  <2>3. ASSUME NEW t \in Placed, t \notin {p} \X Pages PROVE t \in Placed'
    <3>1. PICK f \in Allocated : t = Place(f)
      BY DEF Placed
    <3>2. f \in Allocated'
      BY <1>3, <2>1, <2>3, <3>1
    <3> QED BY <1>4, <3>1, <3>2 DEF Placed
  <2> QED BY <2>2, <2>3
<1>6. Abstract!Leave(p)
  BY <1>1, <1>5 DEF Abstract!Leave
<1> QED BY <1>6 DEF Abstract!Next

\* handlePageFault: one more page while a frame is free, else one for another.
LEMMA FaultMaps ==
  ASSUME MapInv, MapInv', NEW p \in Processes, NEW v \in Pages, HandlePageFault(p, v)
  PROVE  Abstract!Next
<1>1. /\ Resident = Placed /\ Resident' = Placed'
      /\ \A f, g \in Allocated : Place(f) = Place(g) => f = g
  BY ResidentIsPlaced, ResidentIsPlacedNext
<1>2. /\ Cardinality(FreeFrames) \in Nat /\ IsFiniteSet(FreeFrames)
      /\ Cardinality(Resident) = NumFrames - Cardinality(FreeFrames) /\ NumFrames \in Nat
  BY ResidentCount, SizeAssumption
<1>3. <<p, v>> \notin Resident
  BY DEF HandlePageFault, Resident
<1>4. PICK f \in Frames :
        /\ FrameForFault(f)
        /\ owner' = [owner EXCEPT ![f] = p] /\ page' = [page EXCEPT ![f] = v]
  BY DEF HandlePageFault
<1>5. /\ Place(f)' = <<p, v>> /\ Allocated' = Allocated \cup {f}
      /\ \A g \in Allocated \ {f} : Place(g)' = Place(g)
  <2>1. TypeOK /\ p # NoProcess
    BY MapFacts, Numbers
  <2>2. /\ owner'[f] = p /\ page'[f] = v
        /\ \A g \in Frames \ {f} : owner'[g] = owner[g] /\ page'[g] = page[g]
    BY <1>4, <2>1 DEF TypeOK
  <2> QED BY <2>1, <2>2 DEF Place, Allocated, FreeFrames
<1>6. CASE FreeFrames # {}
  <2>1. f \notin Allocated
    BY <1>4, <1>6 DEF FrameForFault, Allocated
  <2>2. Placed' = Placed \cup ({p} \X {v})
    BY <1>5, <2>1 DEF Placed
  <2>3. Cardinality(FreeFrames) > 0
    BY <1>2, <1>6, FS_EmptySet
  <2>4. Cardinality({v}) = 1
    BY FS_Singleton
  <2>5. Abstract!Load(p, {v})
    <3>1. Cardinality(Resident) + Cardinality({v}) <= NumFrames
      BY <1>2, <2>3, <2>4
    <3>2. {v} \cap Abstract!PagesOf(p) = {}
      BY <1>3 DEF Abstract!PagesOf
    <3> QED BY SameCardinality, <1>1, <2>2, <3>1, <3>2 DEF Abstract!Load
  <2>6. {v} \in SUBSET Pages
    OBVIOUS
  <2> QED BY <2>5, <2>6 DEF Abstract!Next
<1>7. CASE FreeFrames = {}
  <2>1. f \in Allocated
    BY <1>4, <1>7 DEF FrameForFault, IsVictim
  <2>2. Place(f) \in Resident
    BY <1>1, <2>1 DEF Placed
  <2>3. Placed' = (Placed \ {Place(f)}) \cup {<<p, v>>}
    <3>1. \A t \in Placed' : t \in (Placed \ {Place(f)}) \cup {<<p, v>>}
      BY <1>1, <1>5, <2>1 DEF Placed
    <3>2. \A t \in Placed : t # Place(f) => t \in Placed'
      BY <1>5, <2>1 DEF Placed
    <3>3. <<p, v>> \in Placed'
      BY <1>5, <2>1 DEF Placed
    <3> QED BY <3>1, <3>2, <3>3
  <2>4. Cardinality(Resident) = NumFrames
    BY <1>2, <1>7, FS_EmptySet
  <2>5. Abstract!Replace(Place(f), p, v)
    BY SameCardinality, <1>1, <1>3, <2>2, <2>3, <2>4 DEF Abstract!Replace
  <2> QED BY <2>2, <2>5 DEF Abstract!Next
<1> QED BY <1>6, <1>7

\* reset empties memory.
LEMMA ResetMaps ==
  ASSUME MapInv', Reset
  PROVE  Abstract!Next
<1>1. Resident' = Placed'
  BY ResidentIsPlaced, ResidentIsPlacedNext
<1>2. Allocated' = {}
  BY DEF Reset, MarkedFree, Allocated, FreeFrames
<1>3. Abstract!Clear
  BY <1>1, <1>2 DEF Placed, Abstract!Clear
<1> QED BY <1>3 DEF Abstract!Next

\* Every step of MemoryManager is one of Paging, or changes nothing there.
LEMMA StepMaps ==
  ASSUME MapInv, MapInv', [Next]_vars
  PROVE  [Abstract!Next]_Resident
<1>1. ASSUME NEW p \in Processes, NEW n \in 1 .. MaxPages, AllocatePages(p, n)
      PROVE  Abstract!Next
  BY <1>1, AllocateMaps
<1>2. ASSUME NEW p \in Processes, DeallocatePages(p) PROVE Abstract!Next
  BY <1>2, DeallocateMaps
<1>3. ASSUME NEW p \in Processes, NEW v \in Pages, HandlePageFault(p, v) PROVE Abstract!Next
  BY <1>3, FaultMaps
<1>4. CASE UNCHANGED tables
  BY <1>4 DEF Resident, IsPageInMemory, ValidEntries
<1>5. CASE Reset
  BY <1>5, ResetMaps
<1> QED
  BY <1>1, <1>2, <1>3, <1>4, <1>5 DEF Next, AccessPage, SetReplacementAlgorithm, vars

(* The frames and page tables implement paged memory: pages come together    *)
(* and only while there is room, a page is thrown out only for another and   *)
(* only when memory is full, and a process that ends takes exactly its own.  *)
THEOREM MemoryManagerImplementsPaging == Spec => ImplementsPaging
<1>1. MapInv /\ [Next]_vars => MapInv' /\ [Abstract!Next]_Resident
  BY MapInvStep, StepMaps
<1> QED BY <1>1, InitMapInv, InitMaps, PTL DEF Spec, ImplementsPaging, Abstract!Spec
-----------------------------------------------------------------------------
(* FIFOEvictsFirstIn.  A frame is stamped when it is loaded, so the stamps   *)
(* of the frames in use are in the order in which they were loaded, and none *)
(* is ahead of the clock.                                                    *)

OrderInv ==
  /\ \A f \in Frames : allocated_at[f] <= current_time
  /\ came_before \subseteq Allocated \X Allocated
  /\ \A f, g \in Frames : <<g, f>> \in came_before => allocated_at[g] <= allocated_at[f]

LEMMA InitOrder == Init => OrderInv
BY DEF Init, OrderInv

\* Frames are taken, and stamped with the clock.
LEMMA AllocateOrder ==
  ASSUME TypeOK, OrderInv, NEW p \in Processes, NEW n \in 1 .. MaxPages, AllocatePages(p, n)
  PROVE  OrderInv'
<1> DEFINE taken == {f \in FreeFrames : Rank(f, FreeFrames) < n}
<1>1. /\ \A f \in taken : f \in Frames /\ f \notin Allocated
      /\ \A f \in Frames : /\ owner'[f] = IF f \in taken THEN p ELSE owner[f]
                           /\ allocated_at'[f] = IF f \in taken THEN current_time
                                                                ELSE allocated_at[f]
      /\ came_before' = came_before \cup (Allocated \X taken)
                                    \cup {gf \in taken \X taken : gf[1] < gf[2]}
      /\ current_time' = current_time /\ current_time \in Nat
  BY DEF AllocatePages, FreeFrames, Allocated, TypeOK
<1>2. p # NoProcess
  BY ProcessesAssumption DEF NoProcess
<1> HIDE DEF taken
<1>3. \A f \in Allocated : f \in Frames /\ f \notin taken
  BY <1>1 DEF Allocated
<1>4. (Allocated \cup taken) \subseteq Allocated'
  BY <1>1, <1>2, <1>3 DEF Allocated, FreeFrames
<1>5. \A f \in Frames : allocated_at'[f] <= current_time'
  BY <1>1 DEF OrderInv
<1>6. came_before' \subseteq (Allocated \cup taken) \X (Allocated \cup taken)
  BY <1>1 DEF OrderInv
<1>7. ASSUME NEW f \in Frames, NEW g \in Frames, <<g, f>> \in came_before'
      PROVE  allocated_at'[g] <= allocated_at'[f]
  <2>1. CASE f \in taken
    BY <1>1, <1>5, <2>1
  <2>2. CASE f \notin taken
    <3>1. <<g, f>> \in came_before
      BY <1>1, <1>7, <2>2
    <3>2. g \in Allocated
      BY <3>1 DEF OrderInv
    <3> QED BY <1>1, <1>3, <2>2, <3>1, <3>2 DEF OrderInv
  <2> QED BY <2>1, <2>2
<1>8. came_before' \subseteq Allocated' \X Allocated'
  BY <1>4, <1>6
<1> QED BY <1>5, <1>7, <1>8 DEF OrderInv

\* What is released takes no part in the order any more.
LEMMA DeallocateOrder ==
  ASSUME TypeOK, OrderInv, NEW p \in Processes, DeallocatePages(p)
  PROVE  OrderInv'
<1> DEFINE mine == {f \in Frames : owner[f] = p}
<1>1. /\ \A f \in Frames : /\ owner'[f] = IF f \in mine THEN NoProcess ELSE owner[f]
                           /\ allocated_at'[f] = IF f \in mine THEN 0 ELSE allocated_at[f]
      /\ came_before' = came_before \cap ((Frames \ mine) \X (Frames \ mine))
      /\ current_time' = current_time /\ current_time \in Nat
  BY DEF DeallocatePages, MarkedFree, Without, TypeOK
<1> HIDE DEF mine
<1>2. \A f \in Allocated : f \notin mine => f \in Allocated'
  BY <1>1 DEF Allocated, FreeFrames
<1>3. came_before' \subseteq Allocated' \X Allocated'
  BY <1>1, <1>2 DEF OrderInv
<1>4. \A f \in Frames : allocated_at'[f] <= current_time'
  BY <1>1 DEF OrderInv
<1>5. ASSUME NEW f \in Frames, NEW g \in Frames, <<g, f>> \in came_before'
      PROVE  allocated_at'[g] <= allocated_at'[f]
  <2>1. <<g, f>> \in came_before /\ f \notin mine /\ g \notin mine
    BY <1>1, <1>5
  <2> QED BY <1>1, <2>1 DEF OrderInv
<1> QED BY <1>3, <1>4, <1>5 DEF OrderInv

\* The page that is loaded is the youngest; the one it replaces is gone.
LEMMA FaultOrder ==
  ASSUME TypeOK, OrderInv, NEW p \in Processes, NEW v \in Pages, HandlePageFault(p, v)
  PROVE  OrderInv'
<1>1. PICK f \in Frames :
        /\ owner' = [owner EXCEPT ![f] = p]
        /\ allocated_at' = [allocated_at EXCEPT ![f] = current_time]
        /\ came_before' = Without({f}) \cup ((Allocated \ {f}) \X {f})
        /\ current_time' = current_time
  BY DEF HandlePageFault
<1>2. p # NoProcess
  BY ProcessesAssumption DEF NoProcess
<1>3. /\ \A g \in Frames : /\ owner'[g] = IF g = f THEN p ELSE owner[g]
                           /\ allocated_at'[g] = IF g = f THEN current_time ELSE allocated_at[g]
      /\ current_time \in Nat
  BY <1>1 DEF TypeOK
<1>4. f \in Allocated' /\ \A g \in Allocated : g \in Allocated'
  BY <1>2, <1>3 DEF Allocated, FreeFrames
<1>5. came_before' \subseteq Allocated' \X Allocated'
  BY <1>1, <1>4 DEF OrderInv, Without
<1>6. \A g \in Frames : allocated_at'[g] <= current_time'
  BY <1>1, <1>3 DEF OrderInv
<1>7. ASSUME NEW h \in Frames, NEW g \in Frames, <<g, h>> \in came_before'
      PROVE  allocated_at'[g] <= allocated_at'[h]
  <2>1. CASE h = f
    BY <1>1, <1>3, <1>6, <2>1
  <2>2. CASE h # f
    <3>1. <<g, h>> \in came_before /\ g # f
      BY <1>1, <1>7, <2>2 DEF Without
    <3> QED BY <1>3, <2>2, <3>1 DEF OrderInv
  <2> QED BY <2>1, <2>2
<1> QED BY <1>5, <1>6, <1>7 DEF OrderInv

\* A reset empties memory and puts the clock back.
LEMMA ResetOrder == Reset => OrderInv'
<1> SUFFICES ASSUME Reset PROVE OrderInv'
  OBVIOUS
<1>1. /\ \A f \in Frames : allocated_at'[f] = 0
      /\ current_time' = 0 /\ came_before' = {}
  BY DEF Reset
<1> QED BY <1>1 DEF OrderInv

\* The clock goes on and stamps stay.
LEMMA OrderStep == TypeOK /\ OrderInv /\ [Next]_vars => OrderInv'
<1> SUFFICES ASSUME TypeOK, OrderInv, [Next]_vars PROVE OrderInv'
  OBVIOUS
<1>1. ASSUME UNCHANGED <<owner, allocated_at, came_before>>,
             current_time' \in Nat, current_time' >= current_time
      PROVE  OrderInv'
  BY <1>1 DEF OrderInv, Allocated, FreeFrames, TypeOK
<1>2. ASSUME NEW p \in Processes, NEW v \in Pages, NEW now \in current_time .. current_time + 1,
             AccessPage(p, v, now)
      PROVE  OrderInv'
  BY <1>1, <1>2 DEF AccessPage, TypeOK
<1>3. ASSUME NEW a \in ReplacementAlgorithms, SetReplacementAlgorithm(a) PROVE OrderInv'
  BY <1>1, <1>3 DEF SetReplacementAlgorithm, frameVars, TypeOK
<1>4. CASE UNCHANGED vars
  BY <1>1, <1>4 DEF vars, TypeOK
<1> QED BY <1>2, <1>3, <1>4, AllocateOrder, DeallocateOrder, FaultOrder, ResetOrder DEF Next

\* Only a page fault throws a page out, and what it throws out is the victim.
LEMMA EvictedIsVictim ==
  ASSUME TypeOK, [Next]_vars, NEW f \in Frames, Evicted(f)
  PROVE  IsVictim(f)
<1>1. /\ FreeFrames = {} /\ owner'[f] # NoProcess
      /\ owner[f] # owner'[f] \/ page[f] # page'[f]
  BY DEF Evicted
<1>2. ASSUME NEW p \in Processes, NEW n \in 1 .. MaxPages, AllocatePages(p, n) PROVE FALSE
  <2>1. Cardinality(FreeFrames) = 0
    BY <1>1, FS_EmptySet
  <2>2. n \in Nat /\ n > 0 /\ Cardinality(FreeFrames) >= n
    BY <1>2, SizeAssumption DEF AllocatePages
  <2> QED BY <2>1, <2>2
<1>3. ASSUME NEW p \in Processes, DeallocatePages(p) PROVE FALSE
  BY <1>1, <1>3 DEF DeallocatePages, MarkedFree
<1>4. ASSUME NEW p \in Processes, NEW v \in Pages, HandlePageFault(p, v) PROVE IsVictim(f)
  <2>1. PICK h \in Frames : /\ FrameForFault(h)
                            /\ owner' = [owner EXCEPT ![h] = p]
                            /\ page' = [page EXCEPT ![h] = v]
    BY <1>4 DEF HandlePageFault
  <2>2. f = h
    BY <1>1, <2>1 DEF TypeOK
  <2> QED BY <1>1, <2>1, <2>2 DEF FrameForFault
<1>5. CASE Reset
  BY <1>1, <1>5 DEF Reset, MarkedFree
<1>6. CASE UNCHANGED <<owner, page>>
  BY <1>1, <1>6
<1>7. ASSUME NEW p \in Processes, NEW v \in Pages, NEW now, AccessPage(p, v, now)
      PROVE  IsVictim(f)
  BY <1>6, <1>7 DEF AccessPage
<1>8. ASSUME NEW a, SetReplacementAlgorithm(a) PROVE IsVictim(f)
  BY <1>6, <1>8 DEF SetReplacementAlgorithm, frameVars
<1>9. CASE UNCHANGED vars
  BY <1>6, <1>9 DEF vars
<1> QED BY <1>2, <1>3, <1>4, <1>5, <1>7, <1>8, <1>9 DEF Next

\* Under FIFO a page that came before the victim carries the victim's stamp,
\* for any number of processes, frames and pages, and whatever accesses,
\* releases, resets and changes of the algorithm come in between.
THEOREM FIFOEvictsFirstInAlways == Spec => FIFOEvictsFirstIn
<1>1. ASSUME TypeOK, OrderInv, [Next]_vars
      PROVE  [algo = "FIFO" =>
                \A f, g \in Frames : Evicted(f) /\ <<g, f>> \in came_before
                                       => allocated_at[g] = allocated_at[f]]_vars
  <2> SUFFICES ASSUME algo = "FIFO", NEW f \in Frames, NEW g \in Frames,
                      Evicted(f), <<g, f>> \in came_before
               PROVE  allocated_at[g] = allocated_at[f]
    OBVIOUS
  <2>1. IsVictim(f)
    BY <1>1, EvictedIsVictim
  <2>2. g \in Allocated /\ allocated_at[g] <= allocated_at[f]
    BY <1>1 DEF OrderInv
  <2>3. allocated_at[f] <= allocated_at[g]
    BY <1>1, <2>1, <2>2 DEF IsVictim, TypeOK
  <2> QED BY <1>1, <2>2, <2>3 DEF TypeOK
<1>2. Spec => []TypeOK /\ [][Next]_vars
  BY MemoryTypeCorrect, PTL DEF Spec
<1>3. Spec => []OrderInv
  BY <1>2, InitOrder, OrderStep, PTL DEF Spec
<1> QED BY <1>1, <1>2, <1>3, PTL DEF FIFOEvictsFirstIn
=============================================================================
