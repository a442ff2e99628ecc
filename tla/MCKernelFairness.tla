-------------------------- MODULE MCKernelFairness --------------------------
(* Three equal jobs, each longer than two quanta. *)
EXTENDS KernelFairness

MCLongJobs == {[priority |-> 1, burst_time |-> 4, arrival_time |-> 0,
                memory_requirement |-> 0]}
=============================================================================
