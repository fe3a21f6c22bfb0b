------------------------------ MODULE MCPorts ------------------------------
(* The ports, and who was asleep in the queue of one when it died.          *)
EXTENDS Ports

VARIABLE orphans   \* not in the code: the senders whose port has died under them

Asleep(p) == call[p].op = "send" /\ state[p] = "BLOCKED"

Orphaned == {p \in Procs : Asleep(p) /\ ports[call[p].port].in_use /\ ~ports'[call[p].port].in_use}

MCInit == Init /\ orphans = {}
MCNext == Next /\ orphans' = {p \in orphans \cup Orphaned : call'[p] # NoCall}
MCSpec == MCInit /\ [][MCNext]_<<vars, orphans>>
-----------------------------------------------------------------------------
\* "The server has died": a send that waits for room fails if the port dies
\* meanwhile (src/ipc.c:109).  It does not hold: the sender only looks at in_use,
\* and the number may be a new port of another owner by then, which gets what was
\* for the first.
TheDeadGetNoMail == [][\A p \in orphans : call'[p] = NoCall => answer'[p] # Ok]_<<vars, orphans>>
=============================================================================
