--------------------------- MODULE AddressSpaces ---------------------------
(***************************************************************************)
(* What fork, exec and the pages that come when they are touched promise   *)
(* to processes: each one has a memory of its own, a fork is a copy of it  *)
(* at that moment, and what one writes no other will ever see.             *)
(***************************************************************************)
CONSTANTS Procs, First, Pages, Image, Values, Zero, File, Unmapped, Gone

VARIABLE space               \* the memory of each process that lives

Program == [va \in Pages |-> IF va \in Image THEN File ELSE Unmapped]

Init == space = [p \in Procs |-> IF p = First THEN Program ELSE Gone]

Lives(p) == space[p] # Gone

Write(p, va) == /\ Lives(p) /\ space[p][va] # Unmapped
                /\ \E v \in Values : space' = [space EXCEPT ![p][va] = v]

\* Memory that was not there comes with zeros, or with a piece of a file.
Grow(p, va) == /\ Lives(p) /\ space[p][va] = Unmapped
               /\ \E v \in {Zero, File} : space' = [space EXCEPT ![p][va] = v]

Shrink(p, va) == /\ Lives(p) /\ va \notin Image
                 /\ space' = [space EXCEPT ![p][va] = Unmapped]

Fork(p, q) == /\ Lives(p) /\ ~Lives(q)
              /\ space' = [space EXCEPT ![q] = space[p]]

Spawn(p) == ~Lives(p) /\ space' = [space EXCEPT ![p] = Program]

Exec(p) == Lives(p) /\ space' = [space EXCEPT ![p] = Program]

Exit(p) == Lives(p) /\ space' = [space EXCEPT ![p] = Gone]

Next == \E p \in Procs : \/ Spawn(p) \/ Exec(p) \/ Exit(p)
                         \/ \E q \in Procs : Fork(p, q)
                         \/ \E va \in Pages : Write(p, va) \/ Grow(p, va) \/ Shrink(p, va)

Spec == Init /\ [][Next]_space
=============================================================================
