------------------------------ MODULE MCPipes ------------------------------
(* A parent and two children, or two readers; slots and addresses are        *)
(* interchangeable, except for the slot of the process that is there at the  *)
(* start.                                                                    *)
EXTENDS Pipes, TLC

Symmetry == Permutations(Procs \ {First}) \cup Permutations(Files)
=============================================================================
