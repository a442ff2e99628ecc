--------------------------- MODULE KernelFairness ---------------------------
(***************************************************************************)
(* Kernel with one history variable, to speak of the order in which round  *)
(* robin serves the ready processes: the tick of the last dispatch of each *)
(* process.  The variable reads the machine and never restricts it.        *)
(***************************************************************************)
EXTENDS Kernel

VARIABLE dispatched   \* tick of the last dispatch; -1: never since reset

hvars == <<vars, dispatched>>

HInit == Init /\ dispatched = Everywhere(-1)

DispatchedNow(p) ==
  phase = "scheduling" /\ state[p] = "READY" /\ state'[p] = "RUNNING"

HNext ==
  /\ Next
  /\ dispatched' = [p \in Pid |-> IF state'[p] = "ABSENT" THEN -1
                                  ELSE IF DispatchedNow(p) THEN current_time
                                  ELSE dispatched[p]]

HSpec == HInit /\ [][HNext]_hvars

\* design.md 707 (Property 5): round robin cycles through the processes in
\* order.  So no process gets the CPU a second time while another has been
\* READY since before its previous turn.
CyclesInOrder ==
  [][\A p, q \in Pid :
       (/\ algo = "ROUND_ROBIN" /\ DispatchedNow(p) /\ dispatched[p] # -1
        /\ q # p /\ state[q] = "READY" /\ state'[q] = "READY")
         => last_change[q] >= dispatched[p]]_hvars
=============================================================================
