------------------------------- MODULE MCNet -------------------------------
(***************************************************************************)
(* Net for TLC: the calls that share state are put together in one script. *)
(***************************************************************************)
EXTENDS Net

MCScripts == {<<"time", "resolve">>, <<"bind", "put", "take">>, <<"open", "close">>, <<"ping">>, <<"info">>}
MCRetry   == {<<"resolve", "resolve">>}
MCOnce    == {<<"resolve">>}
MCRoom    == [p \in {"red"} \cup Progs |-> 1]

\* Somebody takes the port of one that has died, and the number of its socket,
\* only while a datagram is on its way: bound, not of the code.
OnItsWay ==
    {f \in air : f.t = "dgram"}
        \cup {i \in DOMAIN red.out : red.out[i].m.t = "dgram"}
        \cup {i \in DOMAIN q["red"] : q["red"][i].t = "frame" /\ q["red"][i].f.t = "dgram"}
AfterTheDead ==
    \A p \in Progs : prog'[p].k # prog[p].k =>
        prog'[p].todo = <<"bind", "put", "take">> /\ OnItsWay # {}
=============================================================================
