-------------------------- MODULE MCConfiguration --------------------------
(* Configuration for TLC: what the client puts together.  In the first,    *)
(* every setting differs from the default one.                             *)
EXTENDS Configuration

MCRoundRobin ==
  [DefaultConfiguration EXCEPT
     !.scheduling_algo = "ROUND_ROBIN", !.time_quantum = 12, !.simulation_speed = 10,
     !.step_mode = TRUE, !.total_memory_size = 64, !.page_size = 16, !.num_frames = 4,
     !.replacement_algo = "FIFO",
     !.processes = <<ProcessConfig(1, 2, 0, 1), ProcessConfig(10, 1, 3, 0)>>]

\* Valid, with a quantum nobody looks at.
MCUnusedQuantum == [MCRoundRobin EXCEPT !.scheduling_algo = "PRIORITY", !.time_quantum = 0]

\* Invalid.
MCNoPages == [DefaultConfiguration EXCEPT !.page_size = 0]

MCConfigurations == {MCRoundRobin, MCUnusedQuantum, MCNoPages}
MCTyped == {-1, 0, 30}
=============================================================================
