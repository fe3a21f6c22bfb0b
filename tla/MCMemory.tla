------------------------------ MODULE MCMemory ------------------------------
(* Three processes, a page of the program and one that comes and goes: fewer *)
(* frames than they could use.  The frames, and the places of the children,  *)
(* are interchangeable.                                                      *)
EXTENDS Memory, TLC

Symmetry == Permutations(Frames) \cup Permutations(Procs \ {First})
=============================================================================
