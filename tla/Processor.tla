----------------------------- MODULE Processor -----------------------------
(***************************************************************************)
(* What a time step promises, without table, queue, quantum or statistics: *)
(* one processor, shared by jobs that come with an amount of work.  The    *)
(* clock advances, the processor may be taken from a job and given to      *)
(* another, and then the job that has it does exactly one unit.  A job is  *)
(* over when its work is done, not before, and never comes back.           *)
(***************************************************************************)
EXTENDS Integers

CONSTANTS
  Jobs,   \* the names of the jobs
  Works   \* the amounts of work a job may come with

VARIABLES
  stage,   \* of each job, in the words of enum ProcessState
  left,    \* the work left of each job
  clock,
  step     \* "idle": between time steps; "choose"; "run"

pvars == <<stage, left, clock, step>>

Stages == {"ABSENT", "NEW", "READY", "RUNNING", "TERMINATED"}
In(s) == {j \in Jobs : stage[j] = s}

Init ==
  /\ stage = [j \in Jobs |-> "ABSENT"] /\ left = [j \in Jobs |-> 0]
  /\ clock = 0 /\ step = "idle"

\* A job is submitted, at any time.
Submit(j, work) ==
  /\ stage[j] = "ABSENT" /\ work \in Nat /\ work > 0
  /\ stage' = [stage EXCEPT ![j] = "NEW"] /\ left' = [left EXCEPT ![j] = work]
  /\ UNCHANGED <<clock, step>>

Advance ==
  /\ step = "idle"
  /\ clock' = clock + 1 /\ step' = "choose"
  /\ UNCHANGED <<stage, left>>

\* Jobs whose time has come may have the processor from now on.
Admit(arrived) ==
  /\ step = "choose" /\ arrived \subseteq In("NEW")
  /\ stage' = [j \in Jobs |-> IF j \in arrived THEN "READY" ELSE stage[j]]
  /\ UNCHANGED <<left, clock, step>>

\* The processor is taken away, ...
Preempted == [j \in Jobs |-> IF stage[j] = "RUNNING" THEN "READY" ELSE stage[j]]

Preempt ==
  /\ step = "choose" /\ stage' = Preempted
  /\ UNCHANGED <<left, clock, step>>

\* ... or left to the job that has it, or to nobody if nobody has it, ...
Keep ==
  /\ step = "choose" /\ step' = "run"
  /\ UNCHANGED <<stage, left, clock>>

\* ... or taken away for the rest of the step, ...
Vacate ==
  /\ step = "choose" /\ step' = "run" /\ stage' = Preempted
  /\ UNCHANGED <<left, clock>>

\* ... or given to a job that has been READY.
Give(j) ==
  /\ step = "choose" /\ stage[j] = "READY"
  /\ stage' = [Preempted EXCEPT ![j] = "RUNNING"] /\ step' = "run"
  /\ UNCHANGED <<left, clock>>

Run(j) ==
  /\ step = "run" /\ stage[j] = "RUNNING"
  /\ left' = [left EXCEPT ![j] = @ - 1]
  /\ stage' = [stage EXCEPT ![j] = IF left[j] = 1 THEN "TERMINATED" ELSE @]
  /\ step' = "idle" /\ UNCHANGED clock

\* Nobody has the processor.
Idle ==
  /\ step = "run" /\ In("RUNNING") = {}
  /\ step' = "idle" /\ UNCHANGED <<stage, left, clock>>

\* Everything starts anew, between two steps.
Clear ==
  /\ step = "idle"
  /\ stage' = [j \in Jobs |-> "ABSENT"] /\ left' = [j \in Jobs |-> 0]
  /\ clock' = 0 /\ UNCHANGED step

Next ==
  \/ \E j \in Jobs : \/ \E work \in Works : Submit(j, work)
                     \/ Give(j) \/ Run(j)
  \/ \E arrived \in SUBSET Jobs : Admit(arrived)
  \/ Advance \/ Preempt \/ Keep \/ Vacate \/ Idle \/ Clear

Spec == Init /\ [][Next]_pvars
=============================================================================
