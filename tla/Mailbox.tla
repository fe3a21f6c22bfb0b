------------------------------ MODULE Mailbox ------------------------------
(***************************************************************************)
(* What the ports of src/ipc.c promise, without wait queues, rings or      *)
(* locks: a port is a queue of messages with an owner.  Anybody sends,     *)
(* only the owner receives, a message that was accepted stays in its place *)
(* until the owner takes it or dies, and every call has one answer.        *)
(***************************************************************************)
EXTENDS Naturals, Sequences

CONSTANTS PortIds, Procs, Owners, Mail, PORT_QUEUE

Nobody == "nobody"   \* owner of a port that does not exist

VARIABLES box, owner, call, answer

vars == <<box, owner, call, answer>>

NoCall    == [op |-> "none"]
SendCalls == [op : {"send"}, port : PortIds, msg : Mail]
RecvCalls == [op : {"recv"}, port : PortIds, as : Owners]

None   == [res |-> "none"]
Ok     == [res |-> "ok"]
Error  == [res |-> "error"]
Got(m) == [res |-> "got", msg |-> m]

Init ==
    /\ box = [i \in PortIds |-> <<>>]
    /\ owner = [i \in PortIds |-> Nobody]
    /\ call = [p \in Procs |-> NoCall]
    /\ answer = [p \in Procs |-> None]

Return(p, a) == /\ call' = [call EXCEPT ![p] = NoCall]
                /\ answer' = [answer EXCEPT ![p] = a]

Ask(p) ==
    /\ call[p] = NoCall
    /\ \E c \in SendCalls \cup RecvCalls : call' = [call EXCEPT ![p] = c]
    /\ answer' = [answer EXCEPT ![p] = None]
    /\ UNCHANGED <<box, owner>>

Accept(p) ==
    /\ call[p] \in SendCalls
    /\ LET c == call[p]
       IN  /\ owner[c.port] # Nobody
           /\ Len(box[c.port]) < PORT_QUEUE
           /\ box' = [box EXCEPT ![c.port] = Append(@, c.msg)]
    /\ Return(p, Ok)
    /\ UNCHANGED owner

Take(p) ==
    /\ call[p] \in RecvCalls
    /\ LET c == call[p]
       IN  /\ owner[c.port] = c.as
           /\ box[c.port] # <<>>
           /\ box' = [box EXCEPT ![c.port] = Tail(@)]
           /\ Return(p, Got(Head(box[c.port])))
    /\ UNCHANGED owner

\* The port is not there, it is somebody else's, or a signal has cut the wait.
Refuse(p) ==
    /\ call[p] # NoCall
    /\ Return(p, Error)
    /\ UNCHANGED <<box, owner>>

\* A notice of the kernel, which does not wait.
Post(i) ==
    /\ owner[i] # Nobody
    /\ Len(box[i]) < PORT_QUEUE
    /\ \E m \in Mail : box' = [box EXCEPT ![i] = Append(@, m)]
    /\ UNCHANGED <<owner, call, answer>>

Open(o, i) ==
    /\ owner[i] = Nobody
    /\ owner' = [owner EXCEPT ![i] = o]
    /\ UNCHANGED <<box, call, answer>>

Close(o) ==
    /\ owner' = [i \in PortIds |-> IF owner[i] = o THEN Nobody ELSE owner[i]]
    /\ box' = [i \in PortIds |-> IF owner[i] = o THEN <<>> ELSE box[i]]
    /\ UNCHANGED <<call, answer>>

Next == \/ \E p \in Procs : Ask(p) \/ Accept(p) \/ Take(p) \/ Refuse(p)
        \/ \E i \in PortIds : Post(i)
        \/ \E o \in Owners : Close(o) \/ \E i \in PortIds : Open(o, i)

Spec == Init /\ [][Next]_vars
=============================================================================
