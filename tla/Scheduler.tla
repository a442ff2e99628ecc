----------------------------- MODULE Scheduler -----------------------------
(***************************************************************************)
(* The selection rules of src/src/kernel/Scheduler.cpp, as predicates on   *)
(* the process they return.  A ready queue is the set of ready pids; the   *)
(* code passes a vector sorted by pid (ProcessManager.cpp 99-117), so the  *)
(* order of the vector is the order of the pids, std::min_element returns  *)
(* the smallest pid among equals, and an index counts the smaller pids.    *)
(*                                                                         *)
(* shouldPreempt, onTimeQuantumExpired and the round-robin scheduler's own *)
(* quantum counter are left out: no caller outside the tests uses them,    *)
(* and shouldPreempt is constantly false in all three classes.             *)
(***************************************************************************)
EXTENDS Integers, FiniteSets

\* The three values of enum SchedulingAlgorithm.
SchedulingAlgorithms == {"FCFS", "ROUND_ROBIN", "PRIORITY"}

\* p comes before every other member of ready in the order given by key,
\* the smaller pid first among equal keys: what std::min_element returns.
IsMinElement(p, ready, key) ==
  /\ p \in ready
  /\ \A q \in ready : \/ key[p] < key[q]
                      \/ key[p] = key[q] /\ p <= q

\* FCFSScheduler: the earliest arrival.
FCFSSelects(p, ready, arrival) == IsMinElement(p, ready, arrival)

\* PriorityScheduler: the smallest priority number.
PrioritySelects(p, ready, priority) == IsMinElement(p, ready, priority)

\* The position of p in the vector of ready processes, from 0.
IndexIn(p, ready) == Cardinality({q \in ready : q < p})

\* RoundRobinScheduler: the index after the last one used, modulo the
\* size the queue has NOW, whichever processes have entered or left it.
NextIndex(last_index, ready) == (last_index + 1) % Cardinality(ready)

RoundRobinSelects(p, ready, last_index) ==
  /\ p \in ready
  /\ IndexIn(p, ready) = NextIndex(last_index, ready)
=============================================================================
