----------------------------- MODULE MCDisplay -----------------------------
(* Display for TLC, with the jobs of MCKernel. *)
EXTENDS Display, MCKernel
=============================================================================
