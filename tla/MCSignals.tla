----------------------------- MODULE MCSignals -----------------------------
(* A shell and the job it has started.                                       *)
EXTENDS Signals

MCParent == [p \in Procs |-> IF p = "job" THEN "sh" ELSE NoParent]

\* The shell catches its children, and the job its stop; each of them when it
\* has called signal(), which it may never do.
MCCaught == [p \in Procs |-> IF p = "job" THEN {SIGTSTP} ELSE {SIGCHLD}]
=============================================================================
