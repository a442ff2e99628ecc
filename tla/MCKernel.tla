------------------------------ MODULE MCKernel ------------------------------
(* Small instances of Kernel for TLC: the jobs the user may enter. *)
EXTENDS Kernel

Job(prio, burst_time, arrival_time, pages) ==
  [priority |-> prio, burst_time |-> burst_time,
   arrival_time |-> arrival_time, memory_requirement |-> pages]

\* Short and long, early and late, with and without memory; the last is
\* rejected by validateProcessParameters.
MCJobs == {Job(2, 3, 0, 2), Job(1, 1, 0, 1), Job(1, 2, 2, 0), Job(1, 1, -2, 1)}

\* For the run with the simulation thread: every job wants memory or not,
\* and one arrives late enough to come after another has finished.
MCThreadJobs == {Job(2, 3, 0, 1), Job(1, 1, 0, 0), Job(1, 2, 2, 2)}
=============================================================================
