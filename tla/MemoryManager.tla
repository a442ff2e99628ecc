--------------------------- MODULE MemoryManager ---------------------------
(***************************************************************************)
(* src/src/kernel/MemoryManager.cpp: page frames, page tables and the two  *)
(* replacement algorithms.  Every public method takes memory_mutex_ for    *)
(* its whole body, so a call is one action.  The fault and replacement     *)
(* counters are left out, and a process without a page table is one whose  *)
(* table is empty.                                                         *)
(*                                                                         *)
(* The callers: SimulationController allocates once for a pid it has just  *)
(* made, accesses page 0 of the running process with the current tick and  *)
(* deallocates at completion; the unit tests also call handlePageFault.    *)
(* The class does not check this discipline (a second allocatePages, or a  *)
(* fault on a resident page, would enter the page twice); it is a guard of *)
(* the model: HasNoPages and ~IsPageInMemory below.                        *)
(***************************************************************************)
EXTENDS Integers, Sequences, FiniteSets

CONSTANTS
  Processes,       \* pids
  NumFrames,       \* config_.num_frames
  MaxPages,        \* bound: virtual pages are 0 .. MaxPages - 1
  MaxTime          \* bound: the clock a caller passes stays below it

ASSUME ProcessesAssumption == Processes \subseteq Nat \ {0} /\ IsFiniteSet(Processes)
ASSUME SizeAssumption == NumFrames \in Nat /\ MaxPages \in Nat \ {0} /\ MaxTime \in Nat

Frames == 0 .. NumFrames - 1
Pages == 0 .. MaxPages - 1
NoProcess == -1
ReplacementAlgorithms == {"FIFO", "LRU"}

VARIABLES
  owner, page,          \* PageFrame: process_id (NoProcess: free), page_number
  allocated_at,         \* PageFrame: allocation_time
  accessed_at,          \* PageFrame: last_access_time
  tables,               \* page_tables_: sequences of page table entries
  current_time, algo,
  came_before           \* history: <<g, f>>, what is in g was loaded before what is in f

frameVars == <<owner, page, allocated_at, accessed_at>>
vars == <<owner, page, allocated_at, accessed_at, tables, current_time, algo, came_before>>

Entry(v, f) == [virtual_page |-> v, physical_frame |-> f, is_valid |-> TRUE]

Init ==
  /\ owner = [f \in Frames |-> NoProcess] /\ page = [f \in Frames |-> -1]
  /\ allocated_at = [f \in Frames |-> 0] /\ accessed_at = [f \in Frames |-> 0]
  /\ tables = [p \in Processes |-> <<>>]
  /\ current_time = 0 /\ algo \in ReplacementAlgorithms /\ came_before = {}

FreeFrames == {f \in Frames : owner[f] = NoProcess}
Allocated == Frames \ FreeFrames

\* getPhysicalFrame: the first valid entry of the page decides.
ValidEntries(p, v) ==
  {i \in DOMAIN tables[p] : tables[p][i].virtual_page = v /\ tables[p][i].is_valid}
IsPageInMemory(p, v) == ValidEntries(p, v) # {}
GetPhysicalFrame(p, v) ==
  tables[p][CHOOSE i \in ValidEntries(p, v) : \A j \in ValidEntries(p, v) : i <= j].physical_frame

Without(frames) == came_before \cap ((Frames \ frames) \X (Frames \ frames))

\* The position of a frame among the free ones: findFreeFrame takes the
\* lowest each time, so it is also the virtual page allocatePages gives it.
Rank(f, free) == Cardinality({g \in free : g < f})

-----------------------------------------------------------------------------

HasNoPages(p) == tables[p] = <<>>

OfRank(k, free) == CHOOSE f \in free : Rank(f, free) = k

\* The frames of the ranks below n, in order of rank.
InOrderOfRank(n, free) == [i \in 1 .. n |-> OfRank(i - 1, free)]

\* allocatePages, with enough free frames (without, it changes nothing).
AllocatePages(p, n) ==
  /\ HasNoPages(p)
  /\ n > 0 /\ Cardinality(FreeFrames) >= n
  /\ LET free == FreeFrames
         taken == {f \in free : Rank(f, free) < n}
         frame == InOrderOfRank(n, free)
     IN /\ owner' = [f \in Frames |-> IF f \in taken THEN p ELSE owner[f]]
        /\ page' = [f \in Frames |-> IF f \in taken THEN Rank(f, free) ELSE page[f]]
        /\ allocated_at' = [f \in Frames |-> IF f \in taken THEN current_time
                                                            ELSE allocated_at[f]]
        /\ accessed_at' = [f \in Frames |-> IF f \in taken THEN current_time
                                                           ELSE accessed_at[f]]
        /\ tables' = [tables EXCEPT ![p] = @ \o [i \in 1 .. n |-> Entry(i - 1, frame[i])]]
        /\ came_before' = came_before \cup (Allocated \X taken)
                                       \cup {gf \in taken \X taken : gf[1] < gf[2]}
  /\ UNCHANGED <<current_time, algo>>

\* Fault for the checks: a freed frame is marked with pid 0.
MarkedZero(frames) == [f \in Frames |-> IF f \in frames THEN 0 ELSE owner[f]]

\* The frames become free.
MarkedFree(frames) == [f \in Frames |-> IF f \in frames THEN NoProcess ELSE owner[f]]

DeallocatePages(p) ==
  LET mine == {f \in Frames : owner[f] = p} IN
  /\ owner' = MarkedFree(mine)
  /\ page' = [f \in Frames |-> IF f \in mine THEN -1 ELSE page[f]]
  /\ allocated_at' = [f \in Frames |-> IF f \in mine THEN 0 ELSE allocated_at[f]]
  /\ accessed_at' = [f \in Frames |-> IF f \in mine THEN 0 ELSE accessed_at[f]]
  /\ tables' = [tables EXCEPT ![p] = <<>>]
  /\ came_before' = Without(mine)
  /\ UNCHANGED <<current_time, algo>>

\* Fault for the checks: both algorithms look at the last access.
IsLeastRecentlyUsed(f) ==
  /\ f \in Allocated
  /\ \A g \in Allocated : \/ accessed_at[f] < accessed_at[g]
                          \/ accessed_at[f] = accessed_at[g] /\ f <= g

\* selectVictimFrame of both algorithms: the smallest time, the lowest frame
\* number among equals.
IsVictim(f) ==
  LET time == IF algo = "FIFO" THEN allocated_at ELSE accessed_at IN
  /\ f \in Allocated
  /\ \A g \in Allocated : time[f] < time[g] \/ (time[f] = time[g] /\ f <= g)

\* Fault for the checks: a page is thrown out as soon as there is one.
EagerFrameForFault(f) ==
  IF Allocated # {} THEN IsVictim(f) ELSE f \in FreeFrames /\ Rank(f, FreeFrames) = 0

\* The frame handlePageFault uses: the first free one, else the victim.
FrameForFault(f) ==
  IF FreeFrames # {} THEN f \in FreeFrames /\ Rank(f, FreeFrames) = 0 ELSE IsVictim(f)

\* updatePageTableEntry on one table: the first entry of the page is written;
\* a missing one is appended, if it is to be valid.
Updated(table, v, entry) ==
  LET found == {i \in DOMAIN table : table[i].virtual_page = v} IN
  IF found # {}
    THEN [table EXCEPT ![CHOOSE i \in found : \A j \in found : i <= j] = entry]
    ELSE IF entry.is_valid THEN Append(table, entry) ELSE table

Invalid(v) == [virtual_page |-> v, physical_frame |-> -1, is_valid |-> FALSE]

\* Fault for the checks: the page that loses its frame keeps its entry.
MappingKept(f) == tables

\* The page that loses frame f loses its mapping.
MappingRemoved(f) ==
  IF f \in Allocated
    THEN [tables EXCEPT ![owner[f]] = Updated(@, page[f], Invalid(page[f]))]
    ELSE tables

\* handlePageFault.  (With no frame at all it returns -1.)
HandlePageFault(p, v) ==
  /\ ~IsPageInMemory(p, v)
  /\ \E f \in Frames :
       /\ FrameForFault(f)
       /\ owner' = [owner EXCEPT ![f] = p] /\ page' = [page EXCEPT ![f] = v]
       /\ allocated_at' = [allocated_at EXCEPT ![f] = current_time]
       /\ accessed_at' = [accessed_at EXCEPT ![f] = current_time]
       /\ tables' = [MappingRemoved(f) EXCEPT ![p] = Updated(@, v, Entry(v, f))]
       /\ came_before' = Without({f}) \cup ((Allocated \ {f}) \X {f})
  /\ UNCHANGED <<current_time, algo>>

\* accessPage: the caller's clock is taken over even if the page is absent.
AccessPage(p, v, now) ==
  /\ current_time' = now
  /\ accessed_at' = IF IsPageInMemory(p, v)
                      THEN [accessed_at EXCEPT ![GetPhysicalFrame(p, v)] = now]
                      ELSE accessed_at
  /\ UNCHANGED <<owner, page, allocated_at, tables, algo, came_before>>

\* setReplacementAlgorithm: neither algorithm has a state of its own.
SetReplacementAlgorithm(a) ==
  /\ algo' = a
  /\ UNCHANGED <<frameVars, tables, current_time, came_before>>

Reset ==
  /\ owner' = MarkedFree(Frames) /\ page' = [f \in Frames |-> -1]
  /\ allocated_at' = [f \in Frames |-> 0] /\ accessed_at' = [f \in Frames |-> 0]
  /\ tables' = [p \in Processes |-> <<>>]
  /\ current_time' = 0 /\ came_before' = {}
  /\ UNCHANGED algo

\* The tick passed to accessPage never goes back.
Next ==
  \/ \E p \in Processes :
       \/ \E n \in 1 .. MaxPages : AllocatePages(p, n)
       \/ DeallocatePages(p)
       \/ \E v \in Pages : HandlePageFault(p, v)
       \/ \E v \in Pages, now \in current_time .. current_time + 1 :
            now < MaxTime /\ AccessPage(p, v, now)
  \/ \E a \in ReplacementAlgorithms : SetReplacementAlgorithm(a)
  \/ Reset

Spec == Init /\ [][Next]_vars

-----------------------------------------------------------------------------
(* Properties. *)

TypeOK ==
  /\ owner \in [Frames -> Processes \cup {NoProcess}]
  /\ page \in [Frames -> Pages \cup {-1}]
  /\ allocated_at \in [Frames -> Nat] /\ accessed_at \in [Frames -> Nat]
  /\ current_time \in Nat /\ algo \in ReplacementAlgorithms
  /\ \A p \in Processes : \A i \in DOMAIN tables[p] :
       /\ tables[p][i].virtual_page \in Pages
       /\ tables[p][i].physical_frame \in Frames \cup {-1}

\* Frames and page tables are two views of one mapping: a valid entry names a
\* frame that names it back, every allocated frame is named by an entry, and
\* no page has two entries.
FramesAndTablesAgree ==
  /\ \A p \in Processes : \A i \in DOMAIN tables[p] :
       tables[p][i].is_valid =>
         LET f == tables[p][i].physical_frame
         IN  owner[f] = p /\ page[f] = tables[p][i].virtual_page
  /\ \A f \in Allocated : \E i \in DOMAIN tables[owner[f]] :
       tables[owner[f]][i] = Entry(page[f], f)
  /\ \A p \in Processes : \A i, j \in DOMAIN tables[p] :
       tables[p][i].virtual_page = tables[p][j].virtual_page => i = j

\* The pages a translation finds: what isPageInMemory tells the callers.
Resident == {pv \in Processes \X Pages : IsPageInMemory(pv[1], pv[2])}

\* The page tables implement paged memory: the pages they translate are
\* loaded, replaced and released as Paging allows, never more of them than
\* there are frames.
Abstract == INSTANCE Paging WITH Capacity <- NumFrames, resident <- Resident

ImplementsPaging == Abstract!Spec

Evicted(f) == FreeFrames = {} /\ <<owner[f], page[f]>> # <<owner'[f], page'[f]>>
              /\ owner'[f] # NoProcess

\* FIFO replacement (requirements.md 3.5) throws out the page that came first,
\* as far as the coarse clock can tell: a page that came before the victim
\* carries the same time.  No access, release, reset or change of algorithm in
\* between makes a page look younger or older than it is.
FIFOEvictsFirstIn ==
  [][algo = "FIFO" =>
       \A f, g \in Frames : Evicted(f) /\ <<g, f>> \in came_before
                              => allocated_at[g] = allocated_at[f]]_vars
=============================================================================
