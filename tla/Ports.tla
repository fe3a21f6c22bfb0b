------------------------------- MODULE Ports -------------------------------
(***************************************************************************)
(* The message ports of src/ipc.c: a ring of PORT_QUEUE messages with two  *)
(* wait queues, its owner waiting for mail and the senders for room.  Each *)
(* turn of a loop of port_send() or port_recv() is one action: it is done  *)
(* with sched_lock held, and wq_wait() is where the turn ends.             *)
(*                                                                         *)
(* READY and RUNNING are one state here.  A process that dies is one that  *)
(* was in no call: a signal first cuts the call.                           *)
(***************************************************************************)
EXTENDS Integers, Sequences, FiniteSets

CONSTANTS Procs,       \* pids, which are never used twice
          Kernel,      \* owner 0, which is no process
          PortIds,
          PORT_QUEUE,
          Msgs,        \* what processes send
          Notices,     \* what the kernel posts
          NoMail       \* a slot of the ring with nothing in it

ASSUME PortsAssumption ==
    /\ IsFiniteSet(Procs)
    /\ Kernel \notin Procs /\ "nobody" \notin Procs \cup {Kernel}
    /\ PORT_QUEUE \in Nat \ {0}
    /\ NoMail \notin Msgs \cup Notices

Owners == Procs \cup {Kernel}
Mail   == Msgs \cup Notices

VARIABLES
    ports,           \* ports[]
    state,           \* of each process
    interrumpido,
    call,            \* the call it is in: port_send(), port_recv() or none
    answer           \* what its last call returned

vars == <<ports, state, interrumpido, call, answer>>

Port == [in_use : BOOLEAN,
         owner : Owners,
         q : [0 .. PORT_QUEUE - 1 -> Mail \cup {NoMail}],
         head : 0 .. PORT_QUEUE - 1,
         tail : 0 .. PORT_QUEUE - 1,
         count : 0 .. PORT_QUEUE,
         receivers : Seq(Procs),
         senders : Seq(Procs)]

NoCall    == [op |-> "none"]
SendCalls == [op : {"send"}, port : PortIds, msg : Mail]
RecvCalls == [op : {"recv"}, port : PortIds, as : Owners]

None   == [res |-> "none"]
Ok     == [res |-> "ok"]
Error  == [res |-> "error"]
Got(m) == [res |-> "got", msg |-> m]

Queued(s) == {s[i] : i \in DOMAIN s}
Distinct(s) == \A j, k \in DOMAIN s : s[j] = s[k] => j = k

\* A process is in one queue at most, that of its call, and just while it is
\* blocked; and the ring is where head, tail and count say it is.
TypeOK ==
    /\ ports \in [PortIds -> Port]
    /\ state \in [Procs -> {"RUNNING", "BLOCKED", "ZOMBIE"}]
    /\ interrumpido \in [Procs -> BOOLEAN]
    /\ call \in [Procs -> {NoCall} \cup SendCalls \cup RecvCalls]
    /\ answer \in [Procs -> {None, Ok, Error} \cup {Got(m) : m \in Mail}]
    /\ \A i \in PortIds :
          LET P == ports[i]
          IN  /\ P.tail = (P.head + P.count) % PORT_QUEUE
              /\ Distinct(P.receivers) /\ Distinct(P.senders)
              /\ \A p \in Procs :
                    /\ p \in Queued(P.senders) <=>
                          state[p] = "BLOCKED" /\ call[p].op = "send" /\ call[p].port = i
                    /\ p \in Queued(P.receivers) <=>
                          state[p] = "BLOCKED" /\ call[p].op = "recv" /\ call[p].port = i

\* A port as port_create() leaves it.
NewPort(o) == [in_use |-> TRUE, owner |-> o,
               q |-> [k \in 0 .. PORT_QUEUE - 1 |-> NoMail],
               head |-> 0, tail |-> 0, count |-> 0,
               receivers |-> <<>>, senders |-> <<>>]

Init ==
    /\ ports = [i \in PortIds |-> [NewPort(Kernel) EXCEPT !.in_use = FALSE]]
    /\ state = [p \in Procs |-> "RUNNING"]
    /\ interrumpido = [p \in Procs |-> FALSE]
    /\ call = [p \in Procs |-> NoCall]
    /\ answer = [p \in Procs |-> None]
-----------------------------------------------------------------------------
Rest(s)  == SubSeq(s, 2, Len(s))
First(s) == {s[i] : i \in DOMAIN s \cap {1}}

\* wq_wake_one() and wq_wake_all() put these in the run queue.
Awake(S) == state' = [p \in Procs |-> IF p \in S THEN "RUNNING" ELSE state[p]]

Put(P, m) == [P EXCEPT !.q = [@ EXCEPT ![P.tail] = m],
                       !.tail = (@ + 1) % PORT_QUEUE,
                       !.count = @ + 1]

\* What has been read stays in the ring and nobody looks at it again: it is
\* cleared so that states that differ in nothing else are one.
Drop(P) == [P EXCEPT !.q = [@ EXCEPT ![P.head] = NoMail],
                     !.head = (@ + 1) % PORT_QUEUE,
                     !.count = @ - 1]

\* Into the ring, and the first who waits for mail is woken.
Deliver(i, m) ==
    /\ ports' = [ports EXCEPT ![i] = [Put(ports[i], m) EXCEPT !.receivers = Rest(@)]]
    /\ Awake(First(ports[i].receivers))

InCall(p, op) == call[p].op = op /\ state[p] = "RUNNING"

\* The mark of a signal is only looked at after a wait, which clears it first.
Ask(p, c) ==
    /\ InCall(p, "none")
    /\ call' = [call EXCEPT ![p] = c]
    /\ answer' = [answer EXCEPT ![p] = None]
    /\ interrumpido' = [interrumpido EXCEPT ![p] = FALSE]
    /\ UNCHANGED <<ports, state>>

Return(p, a) ==
    /\ call' = [call EXCEPT ![p] = NoCall]
    /\ answer' = [answer EXCEPT ![p] = a]
    /\ interrumpido' = [interrumpido EXCEPT ![p] = FALSE]

\* One turn of port_send(), the first or the one after a wait: it fails...
SendFails(p) ==
    /\ InCall(p, "send")
    /\ interrumpido[p] \/ ~ports[call[p].port].in_use
    /\ Return(p, Error)
    /\ UNCHANGED <<ports, state>>

\* Room in the port, or no room.
MaySend(p) == /\ InCall(p, "send")
              /\ ~interrumpido[p]
              /\ ports[call[p].port].in_use

\* ... it waits for room...
SendWaits(p) ==
    /\ MaySend(p)
    /\ ports[call[p].port].count = PORT_QUEUE
    /\ ports' = [ports EXCEPT ![call[p].port].senders = Append(@, p)]
    /\ state' = [state EXCEPT ![p] = "BLOCKED"]
    /\ UNCHANGED <<interrumpido, call, answer>>

\* ... or it sends.
Sends(p) ==
    /\ MaySend(p)
    /\ ports[call[p].port].count < PORT_QUEUE
    /\ Deliver(call[p].port, call[p].msg)
    /\ Return(p, Ok)

PortSend(p) == SendFails(p) \/ SendWaits(p) \/ Sends(p)

\* Mutant: the owner is asked for before the wait and not after it.
MayRecvAnyone(p) == /\ InCall(p, "recv")
                    /\ ~interrumpido[p]
                    /\ ports[call[p].port].in_use

\* One turn of port_recv(), in the same way.
MayRecv(p) == /\ InCall(p, "recv")
              /\ ~interrumpido[p]
              /\ ports[call[p].port].in_use
              /\ ports[call[p].port].owner = call[p].as

RecvFails(p) ==
    /\ InCall(p, "recv")
    /\ ~MayRecv(p)
    /\ Return(p, Error)
    /\ UNCHANGED <<ports, state>>

RecvWaits(p) ==
    /\ MayRecv(p)
    /\ ports[call[p].port].count = 0
    /\ ports' = [ports EXCEPT ![call[p].port].receivers = Append(@, p)]
    /\ state' = [state EXCEPT ![p] = "BLOCKED"]
    /\ UNCHANGED <<interrumpido, call, answer>>

\* Mutant: the senders are only woken when the port was full.
ReceivesQuietly(p) ==
    LET i == call[p].port
        P == ports[i]
    IN  /\ MayRecv(p)
        /\ P.count > 0
        /\ ports' = [ports EXCEPT ![i] =
                        [Drop(P) EXCEPT !.senders = IF P.count = PORT_QUEUE THEN Rest(@) ELSE @]]
        /\ Awake(IF P.count = PORT_QUEUE THEN First(P.senders) ELSE {})
        /\ Return(p, Got(P.q[P.head]))

Receives(p) ==
    LET i == call[p].port
        P == ports[i]
    IN  /\ MayRecv(p)
        /\ P.count > 0
        /\ ports' = [ports EXCEPT ![i] = [Drop(P) EXCEPT !.senders = Rest(@)]]
        /\ Awake(First(P.senders))
        /\ Return(p, Got(P.q[P.head]))

PortRecv(p) == RecvFails(p) \/ RecvWaits(p) \/ Receives(p)

\* wq_remove(), from signal_locked(): whoever waits is taken out of the queue.
Without(s, p) ==
    IF p \in Queued(s)
    THEN LET at == CHOOSE k \in DOMAIN s : s[k] = p
         IN  [k \in 1 .. Len(s) - 1 |-> IF k < at THEN s[k] ELSE s[k + 1]]
    ELSE s

Signal(p) ==
    /\ state[p] = "BLOCKED"
    /\ state' = [state EXCEPT ![p] = "RUNNING"]
    /\ interrumpido' = [interrumpido EXCEPT ![p] = TRUE]
    /\ ports' = [i \in PortIds |-> [ports[i] EXCEPT !.receivers = Without(@, p),
                                                    !.senders = Without(@, p)]]
    /\ UNCHANGED <<call, answer>>
-----------------------------------------------------------------------------
\* port_create(): the port that is asked for, if nobody has it; whoever asks
\* for any port gets one that nobody has.  If there is none, or no memory,
\* nothing changes.
PortCreate(o, i) ==
    /\ ~ports[i].in_use
    /\ ports' = [ports EXCEPT ![i] = NewPort(o)]
    /\ UNCHANGED <<state, interrumpido, call, answer>>

\* Mutant: the notice is left and nobody is woken.
PortNotifyQuietly(i, m) ==
    /\ ports[i].in_use
    /\ ports[i].count < PORT_QUEUE
    /\ ports' = [ports EXCEPT ![i] = Put(@, m)]
    /\ UNCHANGED <<state, interrumpido, call, answer>>

\* port_notify(): a notice that does not fit is lost.
PortNotify(i, m) ==
    /\ ports[i].in_use
    /\ ports[i].count < PORT_QUEUE
    /\ Deliver(i, m)
    /\ UNCHANGED <<interrumpido, call, answer>>

\* Mutant: those who wait for room are left there.
IpcReleasePortsQuietly(p) ==
    LET mine == {i \in PortIds : ports[i].in_use /\ ports[i].owner = p}
    IN  /\ ports' = [i \in PortIds |->
                        IF i \in mine
                        THEN [ports[i] EXCEPT !.in_use = FALSE, !.receivers = <<>>,
                                              !.q = [k \in DOMAIN @ |-> NoMail]]
                        ELSE ports[i]]
        /\ state' = [state EXCEPT ![p] = "ZOMBIE"]

\* ipc_release_ports(), from task_exit_con(): the ports of the dead are gone,
\* and whoever waited there is woken to find out.
IpcReleasePorts(p) ==
    LET mine == {i \in PortIds : ports[i].in_use /\ ports[i].owner = p}
        waiting == UNION {Queued(ports[i].senders) \cup Queued(ports[i].receivers) : i \in mine}
    IN  /\ ports' = [i \in PortIds |->
                        IF i \in mine
                        THEN [ports[i] EXCEPT !.in_use = FALSE,
                                              !.senders = <<>>, !.receivers = <<>>,
                                              !.q = [k \in DOMAIN @ |-> NoMail]]
                        ELSE ports[i]]
        /\ state' = [q \in Procs |-> IF q = p THEN "ZOMBIE"
                                     ELSE IF q \in waiting THEN "RUNNING" ELSE state[q]]

TaskExit(p) ==
    /\ InCall(p, "none")
    /\ IpcReleasePorts(p)
    /\ UNCHANGED <<interrumpido, call, answer>>
-----------------------------------------------------------------------------
\* SYS_send, SYS_recv and SYS_port_create.
SysSend(p) == \E i \in PortIds, m \in Msgs : Ask(p, [op |-> "send", port |-> i, msg |-> m])
SysRecv(p) == \E i \in PortIds : Ask(p, [op |-> "recv", port |-> i, as |-> p])
SysPortCreate(p) == InCall(p, "none") /\ \E i \in PortIds : PortCreate(p, i)

Next == \/ \E p \in Procs : \/ SysSend(p) \/ SysRecv(p) \/ SysPortCreate(p)
                            \/ PortSend(p) \/ PortRecv(p) \/ Signal(p) \/ TaskExit(p)
        \/ \E i \in PortIds, m \in Notices : PortNotify(i, m)

Spec == Init /\ [][Next]_vars
-----------------------------------------------------------------------------
\* The mail of a port, in the order in which it was accepted.
Box   == [i \in PortIds |->
            IF ports[i].in_use
            THEN [k \in 1 .. ports[i].count |->
                     ports[i].q[(ports[i].head + k - 1) % PORT_QUEUE]]
            ELSE <<>>]
Owner == [i \in PortIds |-> IF ports[i].in_use THEN ports[i].owner ELSE "nobody"]

Abstract == INSTANCE Mailbox WITH box <- Box, owner <- Owner

\* The ring, the two queues and their wake-ups do what a mailbox does: what
\* was accepted is received once, in order, by the owner of that moment, and
\* every call has the answer of what it did.
IsAMailbox == Abstract!Spec

\* The owner does not sleep with mail in its port: send, notify and recv do not
\* lose the wake-up whatever the order in which the cores run them.
NobodySleepsOnMail ==
    \A i \in PortIds : ports[i].receivers # <<>> => ports[i].count = 0

\* Nor do senders sleep with room that nobody is on the way to take: each place
\* that is left free wakes one, and one that is cut by a signal does not take
\* the wake-up of another with it.
RoomIsOffered ==
    \A i \in PortIds :
        ports[i].senders # <<>> =>
            PORT_QUEUE - ports[i].count <=
                Cardinality({p \in Procs : InCall(p, "send") /\ call[p].port = i})

\* Nobody waits at a port that is not there any more, and whoever waits for the
\* mail of a port is its owner, also when the port has had another in between.
NobodyWaitsForTheDead ==
    \A i \in PortIds :
        /\ ports[i].senders # <<>> => ports[i].in_use
        /\ \A p \in Queued(ports[i].receivers) : ports[i].in_use /\ ports[i].owner = call[p].as
=============================================================================
