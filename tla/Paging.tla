------------------------------- MODULE Paging -------------------------------
(***************************************************************************)
(* What paged memory promises, without frames or page tables: a set of     *)
(* resident pages never larger than the memory.  A process gets pages all  *)
(* together, while there is room; a page is thrown out for another only    *)
(* when there is none; a process that leaves takes exactly its own pages.  *)
(***************************************************************************)
EXTENDS Naturals, FiniteSets

CONSTANTS Processes, Pages, Capacity

VARIABLE resident   \* set of <<process, page>>

Init == resident = {}

PagesOf(p) == {v \in Pages : <<p, v>> \in resident}

Load(p, S) ==
  /\ S # {} /\ S \cap PagesOf(p) = {}
  /\ Cardinality(resident) + Cardinality(S) <= Capacity
  /\ resident' = resident \cup ({p} \X S)

Replace(victim, p, v) ==
  /\ Cardinality(resident) = Capacity
  /\ victim \in resident /\ <<p, v>> \notin resident
  /\ resident' = (resident \ {victim}) \cup {<<p, v>>}

Leave(p) == resident' = resident \ ({p} \X Pages)

Clear == resident' = {}

Next ==
  \/ \E p \in Processes :
       \/ \E S \in SUBSET Pages : Load(p, S)
       \/ \E v \in Pages, victim \in resident : Replace(victim, p, v)
       \/ Leave(p)
  \/ Clear

Spec == Init /\ [][Next]_resident
=============================================================================
