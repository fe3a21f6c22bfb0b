---------------------------- MODULE PortsProofs ----------------------------
(***************************************************************************)
(* Proofs about Ports.tla, for any number of processes and of ports and    *)
(* any length of the ring: the types, that nobody sleeps over mail or at a *)
(* port that is gone, that room is offered to those who wait for it, and   *)
(* that a ring with its two queues is a mailbox.                           *)
(*                                                                         *)
(* Then those about FsClient.tla, which is built on the ports and whose    *)
(* proofs cite what is proved of each step of a port, for any number of    *)
(* processes, of servers that die and of signals: the types, the mutex,    *)
(* and that each transaction has the answer to its own request until one   *)
(* is cut.                                                                 *)
(***************************************************************************)
EXTENDS FsClient, FiniteSetTheorems, SequenceTheorems, TLAPS

\* The parts of the type invariant.
Typed ==
    /\ ports \in [PortIds -> Port]
    /\ state \in [Procs -> {"RUNNING", "BLOCKED", "ZOMBIE"}]
    /\ interrumpido \in [Procs -> BOOLEAN]
    /\ call \in [Procs -> {NoCall} \cup SendCalls \cup RecvCalls]
    /\ answer \in [Procs -> {None, Ok, Error} \cup {Got(m) : m \in Mail}]

Ring == \A i \in PortIds : ports[i].tail = (ports[i].head + ports[i].count) % PORT_QUEUE

\* There is mail where head and count say there is.
Full ==
    \A i \in PortIds : ports[i].in_use =>
        \A k \in 0 .. ports[i].count - 1 :
            ports[i].q[(ports[i].head + k) % PORT_QUEUE] \in Mail

Sleeps(p, op, i) == state[p] = "BLOCKED" /\ call[p].op = op /\ call[p].port = i

Queues ==
    \A i \in PortIds :
        /\ Distinct(ports[i].receivers)
        /\ Distinct(ports[i].senders)
        /\ \A p \in Procs :
              /\ p \in Queued(ports[i].senders) <=> Sleeps(p, "send", i)
              /\ p \in Queued(ports[i].receivers) <=> Sleeps(p, "recv", i)

\* For the mail of an owner asks one process at a time.
OneAsks ==
    \A p, q \in Procs :
        call[p].op = "recv" /\ call[q].op = "recv" /\ call[p].as = call[q].as => p = q

\* The inductive invariant, of whoever uses the ports in such a way.
PortsInv == /\ Typed
            /\ Ring
            /\ Full
            /\ Queues
            /\ OneAsks
            /\ NobodyWaitsForTheDead
            /\ NobodySleepsOnMail
-----------------------------------------------------------------------------
\* The ring goes round.
LEMMA Within == ASSUME NEW n \in Nat \ {0}, NEW x \in 0 .. n - 1 PROVE x % n = x
OBVIOUS

\* One turn round the ring.
LEMMA Around ==
    ASSUME NEW n \in Nat \ {0}, NEW x \in n .. 2 * n - 1 PROVE x % n = x - n
OBVIOUS

\* So many places after another one, in one turn or in two.
LEMMA Places ==
    ASSUME NEW n \in Nat \ {0}, NEW h \in 0 .. n - 1, NEW k \in 0 .. n - 1
    PROVE  /\ (h + k) % n \in 0 .. n - 1
           /\ (h + k) % n = IF h + k < n THEN h + k ELSE h + k - n
<1>1. CASE h + k < n
  BY <1>1, Within
<1>2. CASE h + k >= n
  BY <1>2, Around
<1>3. QED
  BY <1>1, <1>2

\* Different places stay different, counted from any head.
LEMMA OtherPlaces ==
    ASSUME NEW n \in Nat \ {0}, NEW h \in 0 .. n - 1,
           NEW j \in 0 .. n - 1, NEW k \in 0 .. n - 1, j # k
    PROVE  (h + j) % n # (h + k) % n
<1>1. (h + j) % n = IF h + j < n THEN h + j ELSE h + j - n
  BY Places
<1>2. (h + k) % n = IF h + k < n THEN h + k ELSE h + k - n
  BY Places
<1>3. QED
  BY <1>1, <1>2

\* The head is the first place, and no other is.
LEMMA FirstPlace ==
    ASSUME NEW n \in Nat \ {0}, NEW h \in 0 .. n - 1
    PROVE  /\ (h + 0) % n = h
           /\ \A k \in 1 .. n - 1 : (h + k) % n # h
<1>1. (h + 0) % n = h
  <2>1. h + 0 = h
    OBVIOUS
  <2>2. QED
    BY <2>1, Within
<1>2. ASSUME NEW k \in 1 .. n - 1 PROVE (h + k) % n # h
  BY <1>1, OtherPlaces
<1>3. QED
  BY <1>1, <1>2

\* One place on: from any place, or when the head moves.
LEMMA NextPlace ==
    ASSUME NEW n \in Nat \ {0}, NEW h \in 0 .. n - 1, NEW k \in 0 .. n - 1
    PROVE  /\ (h + 1) % n \in 0 .. n - 1
           /\ (((h + k) % n) + 1) % n = (h + (k + 1)) % n
           /\ (((h + 1) % n) + k) % n = (h + (k + 1)) % n
<1>1. (h + 1) % n = IF h + 1 < n THEN h + 1 ELSE 0
  <2>1. CASE h + 1 < n
    BY <2>1, Within
  <2>2. CASE h + 1 = n
    BY <2>2, Around
  <2>3. QED
    BY <2>1, <2>2
<1>2. (h + k) % n = IF h + k < n THEN h + k ELSE h + k - n
  BY Places
<1>3. (h + (k + 1)) % n = IF h + k + 1 < n THEN h + k + 1 ELSE h + k + 1 - n
  <2>1. CASE h + k + 1 < n
    BY <2>1, Within
  <2>2. CASE h + k + 1 >= n
    BY <2>2, Around
  <2>3. QED
    BY <2>1, <2>2
<1>4. (((h + k) % n) + 1) % n = (h + (k + 1)) % n
  <2>1. CASE ((h + k) % n) + 1 < n
    BY <2>1, <1>2, <1>3, Within
  <2>2. CASE ((h + k) % n) + 1 = n
    BY <2>2, <1>2, <1>3, Around, Within
  <2>3. QED
    BY <2>1, <2>2, <1>2
<1>5. (((h + 1) % n) + k) % n = (h + (k + 1)) % n
  <2>1. CASE h + 1 < n
    <3>1. (h + 1) % n = h + 1
      BY <2>1, <1>1
    <3>2. QED
      BY <3>1
  <2>2. CASE h + 1 = n
    <3>1. (h + 1) % n = 0 /\ k % n = k
      BY <2>2, <1>1, Within
    <3>2. h + k + 1 - n = k
      BY <2>2
    <3>3. QED
      BY <2>2, <3>1, <3>2, <1>3
  <2>3. QED
    BY <2>1, <2>2
<1>6. QED
  BY <1>1, <1>4, <1>5
-----------------------------------------------------------------------------
\* The queues: the first leaves, one joins, anybody leaves.
LEMMA RestOfQueue ==
    ASSUME NEW s \in Seq(Procs), Distinct(s)
    PROVE  /\ Rest(s) \in Seq(Procs)
           /\ Distinct(Rest(s))
           /\ Queued(Rest(s)) = Queued(s) \ First(s)
           /\ First(s) \subseteq Queued(s)
           /\ First(s) = IF s = <<>> THEN {} ELSE {s[1]}
           /\ s = <<>> => Rest(s) = <<>>
           /\ Len(s) <= 1 => Rest(s) = <<>>
<1>1. CASE s = <<>>
  BY <1>1 DEF Rest, First, Queued, Distinct
<1>2. CASE s # <<>>
  <2>1. /\ Rest(s) \in Seq(Procs) /\ Len(Rest(s)) = Len(s) - 1 /\ Len(s) \in Nat \ {0}
        /\ DOMAIN Rest(s) = 1 .. Len(s) - 1 /\ DOMAIN s = 1 .. Len(s)
        /\ \A k \in 1 .. Len(s) - 1 : Rest(s)[k] = s[k + 1]
    <3>1. Len(s) \in Nat \ {0} /\ DOMAIN s = 1 .. Len(s)
      BY <1>2
    <3>2. Rest(s) \in Seq(Procs) /\ Len(Rest(s)) = Len(s) - 1
      BY <3>1 DEF Rest
    <3>3. \A k \in 1 .. Len(s) - 1 : Rest(s)[k] = s[k + 1]
      BY <3>1 DEF Rest
    <3>4. QED
      BY <3>1, <3>2, <3>3
  <2>2. First(s) = {s[1]}
    BY <2>1 DEF First
  <2>3. Distinct(Rest(s))
    <3> SUFFICES ASSUME NEW j \in 1 .. Len(s) - 1, NEW k \in 1 .. Len(s) - 1,
                        Rest(s)[j] = Rest(s)[k]
        PROVE j = k
      BY <2>1 DEF Distinct
    <3>1. s[j + 1] = s[k + 1] /\ j + 1 \in 1 .. Len(s) /\ k + 1 \in 1 .. Len(s)
      BY <2>1
    <3>2. j + 1 = k + 1
      BY <3>1, <2>1 DEF Distinct
    <3>3. QED
      BY <3>2
  <2>4. ASSUME NEW x PROVE x \in Queued(Rest(s)) <=> x \in Queued(s) /\ x # s[1]
    <3>1. ASSUME x \in Queued(Rest(s)) PROVE x \in Queued(s) /\ x # s[1]
      <4>1. PICK k \in 1 .. Len(s) - 1 : x = s[k + 1]
        BY <2>1, <3>1 DEF Queued
      <4>2. k + 1 \in 1 .. Len(s) /\ k + 1 # 1
        BY <4>1, <2>1
      <4>3. QED
        BY <4>1, <4>2, <2>1 DEF Queued, Distinct
    <3>2. ASSUME x \in Queued(s), x # s[1] PROVE x \in Queued(Rest(s))
      <4>1. PICK k \in 1 .. Len(s) : x = s[k]
        BY <2>1, <3>2 DEF Queued
      <4>2. k - 1 \in 1 .. Len(s) - 1 /\ Rest(s)[k - 1] = s[k]
        BY <4>1, <3>2, <2>1
      <4>3. QED
        BY <4>1, <4>2, <2>1 DEF Queued
    <3>3. QED
      BY <3>1, <3>2
  <2>5. s[1] \in Queued(s)
    BY <2>1 DEF Queued
  <2>6. Len(s) <= 1 => Rest(s) = <<>>
    BY <2>1
  <2>7. QED
    BY <2>1, <2>2, <2>3, <2>4, <2>5, <2>6, <1>2
<1>3. QED
  BY <1>1, <1>2

\* Somebody joins the end of a queue.
LEMMA JoinQueue ==
    ASSUME NEW s \in Seq(Procs), Distinct(s), NEW p \in Procs, p \notin Queued(s)
    PROVE  /\ Append(s, p) \in Seq(Procs)
           /\ Distinct(Append(s, p))
           /\ Queued(Append(s, p)) = Queued(s) \cup {p}
<1>1. /\ Append(s, p) \in Seq(Procs) /\ Len(s) \in Nat
      /\ DOMAIN Append(s, p) = 1 .. Len(s) + 1 /\ DOMAIN s = 1 .. Len(s)
      /\ \A k \in 1 .. Len(s) : Append(s, p)[k] = s[k]
      /\ Append(s, p)[Len(s) + 1] = p
  OBVIOUS
<1>2. \A k \in 1 .. Len(s) : s[k] # p
  BY <1>1 DEF Queued
<1>3. Distinct(Append(s, p))
  BY <1>1, <1>2 DEF Distinct
<1>4. Queued(Append(s, p)) = Queued(s) \cup {p}
  BY <1>1 DEF Queued
<1>5. QED
  BY <1>1, <1>3, <1>4

\* Somebody leaves a queue from anywhere in it.
LEMMA LeaveQueue ==
    ASSUME NEW s \in Seq(Procs), Distinct(s), NEW p \in Procs
    PROVE  /\ Without(s, p) \in Seq(Procs)
           /\ Distinct(Without(s, p))
           /\ Queued(Without(s, p)) = Queued(s) \ {p}
           /\ s = <<>> => Without(s, p) = <<>>
<1>1. CASE p \notin Queued(s)
  BY <1>1 DEF Without
<1>2. CASE p \in Queued(s)
  <2> DEFINE j == CHOOSE k \in DOMAIN s : s[k] = p
             w == [k \in 1 .. Len(s) - 1 |-> IF k < j THEN s[k] ELSE s[k + 1]]
  <2>1. Without(s, p) = w
    BY <1>2 DEF Without
  <2>2. DOMAIN s = 1 .. Len(s) /\ Len(s) \in Nat /\ \A k \in 1 .. Len(s) : s[k] \in Procs
    OBVIOUS
  <2>3. j \in 1 .. Len(s) /\ s[j] = p
    BY <1>2, <2>2 DEF Queued
  <2> HIDE DEF j
  <2>4. w \in Seq(Procs) /\ DOMAIN w = 1 .. Len(s) - 1
    <3>1. \A k \in 1 .. Len(s) - 1 : w[k] \in Procs
      BY <2>2, <2>3
    <3>2. w \in [1 .. Len(s) - 1 -> Procs] /\ Len(s) - 1 \in Nat
      BY <3>1, <2>2, <2>3
    <3>3. QED
      BY <3>2
  <2>5. \A k \in 1 .. Len(s) - 1 : w[k] = IF k < j THEN s[k] ELSE s[k + 1]
    OBVIOUS
  <2> HIDE DEF w
  <2>6. Distinct(w)
    BY <2>2, <2>3, <2>4, <2>5 DEF Distinct
  <2>7. ASSUME NEW x PROVE x \in Queued(w) <=> x \in Queued(s) /\ x # p
    <3>1. ASSUME x \in Queued(w) PROVE x \in Queued(s) /\ x # p
      <4>1. PICK k \in 1 .. Len(s) - 1 : x = w[k]
        BY <2>4, <3>1 DEF Queued
      <4>2. PICK l \in 1 .. Len(s) : x = s[l] /\ l # j
        BY <4>1, <2>2, <2>3, <2>5
      <4>3. QED
        BY <4>2, <2>2, <2>3 DEF Queued, Distinct
    <3>2. ASSUME x \in Queued(s), x # p PROVE x \in Queued(w)
      <4>1. PICK l \in 1 .. Len(s) : x = s[l]
        BY <2>2, <3>2 DEF Queued
      <4>2. l < j \/ l > j
        BY <4>1, <2>3, <3>2
      <4>3. PICK k \in 1 .. Len(s) - 1 : x = w[k]
        <5>1. CASE l < j
          BY <5>1, <4>1, <2>2, <2>3, <2>5
        <5>2. CASE l > j
          <6>1. l - 1 \in 1 .. Len(s) - 1 /\ w[l - 1] = s[l]
            BY <5>2, <2>2, <2>3, <2>5
          <6>2. QED
            BY <6>1, <4>1
        <5>3. QED
          BY <4>2, <5>1, <5>2
      <4>4. QED
        BY <4>3, <2>4 DEF Queued
    <3>3. QED
      BY <3>1, <3>2
  <2>8. s # <<>>
    BY <2>2, <2>3
  <2>9. QED
    BY <2>1, <2>4, <2>6, <2>7, <2>8
<1>3. QED
  BY <1>1, <1>2
-----------------------------------------------------------------------------
\* Ports that nobody has opened.
LEMMA InitInv == Init => PortsInv
<1> SUFFICES ASSUME Init PROVE PortsInv
  OBVIOUS
<1> USE PortsAssumption
<1>1. \A i \in PortIds :
        /\ ports[i] \in Port
        /\ ports[i].receivers = <<>> /\ ports[i].senders = <<>>
        /\ ports[i].head = 0 /\ ports[i].tail = 0 /\ ports[i].count = 0
  <2> TAKE i \in PortIds
  <2>1. ports[i] = [NewPort(Kernel) EXCEPT !.in_use = FALSE]
    BY DEF Init
  <2> DEFINE q == [k \in 0 .. PORT_QUEUE - 1 |-> NoMail]
  <2>2. /\ 0 \in 0 .. PORT_QUEUE - 1 /\ 0 \in 0 .. PORT_QUEUE
        /\ q \in [0 .. PORT_QUEUE - 1 -> Mail \cup {NoMail}]
        /\ <<>> \in Seq(Procs) /\ Kernel \in Owners
    BY DEF Owners
  <2>3. ports[i] = [in_use |-> FALSE, owner |-> Kernel, q |-> q, head |-> 0, tail |-> 0,
                    count |-> 0, receivers |-> <<>>, senders |-> <<>>]
    BY <2>1 DEF NewPort
  <2> HIDE DEF q
  <2>4. QED
    BY <2>2, <2>3 DEF Port
<1>2. Typed
  BY <1>1 DEF Init, Typed
<1>3. Ring /\ Full
  BY <1>1, Within DEF Ring, Full
<1>4. \A i \in PortIds : Queued(ports[i].receivers) = {} /\ Queued(ports[i].senders) = {}
  BY <1>1 DEF Queued
<1>5. Queues
  <2>1. \A i \in PortIds : Distinct(ports[i].receivers) /\ Distinct(ports[i].senders)
    BY <1>1 DEF Distinct
  <2>2. \A p \in Procs, i \in PortIds : ~Sleeps(p, "send", i) /\ ~Sleeps(p, "recv", i)
    BY DEF Init, Sleeps
  <2>3. QED
    BY <1>4, <2>1, <2>2 DEF Queues
<1>6. OneAsks
  BY DEF Init, OneAsks, NoCall
<1>7. NobodyWaitsForTheDead /\ NobodySleepsOnMail
  BY <1>1, <1>4 DEF NobodyWaitsForTheDead, NobodySleepsOnMail
<1>8. QED
  BY <1>2, <1>3, <1>5, <1>6, <1>7 DEF PortsInv

\* A port has one owner, and only it waits for mail.
LEMMA OneReceiver ==
    ASSUME PortsInv, NEW i \in PortIds
    PROVE  /\ ports[i].receivers \in Seq(Procs) /\ ports[i].senders \in Seq(Procs)
           /\ Len(ports[i].receivers) <= 1
           /\ Rest(ports[i].receivers) = <<>>
           /\ First(ports[i].receivers) = Queued(ports[i].receivers)
<1> DEFINE s == ports[i].receivers
<1>1. s \in Seq(Procs) /\ ports[i].senders \in Seq(Procs) /\ Distinct(s)
  BY DEF PortsInv, Typed, Port, Queues
<1>2. \A p \in Queued(s) : p \in Procs /\ call[p].op = "recv"
  BY <1>1 DEF PortsInv, Queues, Sleeps, Queued
<1>3. \A p, q \in Queued(s) : p = q
  BY <1>2 DEF PortsInv, NobodyWaitsForTheDead, OneAsks
<1>4. Len(s) <= 1
  <2>1. SUFFICES ASSUME Len(s) > 1 PROVE FALSE
    BY <1>1
  <2>2. 1 \in DOMAIN s /\ 2 \in DOMAIN s
    BY <1>1, <2>1
  <2>3. s[1] \in Queued(s) /\ s[2] \in Queued(s)
    BY <2>2 DEF Queued
  <2>4. s[1] = s[2]
    BY <1>3, <2>3
  <2>5. QED
    BY <1>1, <2>2, <2>4 DEF Distinct
<1>5. Rest(s) = <<>> /\ First(s) = IF s = <<>> THEN {} ELSE {s[1]}
  BY <1>1, <1>4, RestOfQueue
<1>6. First(s) = Queued(s)
  <2>1. CASE s = <<>>
    BY <2>1, <1>5 DEF Queued
  <2>2. CASE s # <<>>
    <3>1. DOMAIN s = {1}
      BY <2>2, <1>1, <1>4
    <3>2. QED
      BY <3>1, <2>2, <1>5 DEF Queued
  <2>3. QED
    BY <2>1, <2>2
<1>7. QED
  BY <1>1, <1>4, <1>5, <1>6

\* port_send() and port_notify(): a message in the ring and the owner awake.
LEMMA Delivered ==
    ASSUME PortsInv, NEW i \in PortIds, NEW m \in Mail, Deliver(i, m),
           ports[i].count < PORT_QUEUE
    PROVE  /\ ports' \in [PortIds -> Port]
           /\ state' \in [Procs -> {"RUNNING", "BLOCKED", "ZOMBIE"}]
           /\ \A j \in PortIds : j # i => ports'[j] = ports[j]
           /\ ports'[i].in_use = ports[i].in_use
           /\ ports'[i].owner = ports[i].owner
           /\ ports'[i].q = [ports[i].q EXCEPT ![ports[i].tail] = m]
           /\ ports'[i].head = ports[i].head
           /\ ports'[i].tail = (ports[i].tail + 1) % PORT_QUEUE
           /\ ports'[i].count = ports[i].count + 1
           /\ ports'[i].receivers = <<>>
           /\ ports'[i].senders = ports[i].senders
           /\ \A p \in Procs : state'[p] = IF p \in Queued(ports[i].receivers)
                                           THEN "RUNNING" ELSE state[p]
<1> USE PortsAssumption
<1>1. /\ ports[i] \in Port /\ ports \in [PortIds -> Port]
      /\ state \in [Procs -> {"RUNNING", "BLOCKED", "ZOMBIE"}]
  BY DEF PortsInv, Typed
<1>2. /\ Rest(ports[i].receivers) = <<>>
      /\ First(ports[i].receivers) = Queued(ports[i].receivers)
  BY OneReceiver
<1> DEFINE N == [Put(ports[i], m) EXCEPT !.receivers = Rest(@)]
<1>3. ports' = [ports EXCEPT ![i] = N]
  BY <1>1 DEF Deliver
<1>4. /\ N.in_use = ports[i].in_use /\ N.owner = ports[i].owner
      /\ N.q = [ports[i].q EXCEPT ![ports[i].tail] = m]
      /\ N.head = ports[i].head
      /\ N.tail = (ports[i].tail + 1) % PORT_QUEUE
      /\ N.count = ports[i].count + 1
      /\ N.receivers = <<>> /\ N.senders = ports[i].senders
  BY <1>1, <1>2 DEF Put, Port
<1>5. N \in Port
  <2>1. (ports[i].tail + 1) % PORT_QUEUE \in 0 .. PORT_QUEUE - 1
    BY <1>1, NextPlace DEF Port
  <2>2. ports[i].count + 1 \in 0 .. PORT_QUEUE
    BY <1>1 DEF Port
  <2>3. [ports[i].q EXCEPT ![ports[i].tail] = m] \in [0 .. PORT_QUEUE - 1 -> Mail \cup {NoMail}]
    BY <1>1 DEF Port
  <2>4. <<>> \in Seq(Procs)
    OBVIOUS
  <2>5. QED
    BY <1>1, <1>2, <2>1, <2>2, <2>3, <2>4 DEF Put, Port
<1> HIDE DEF N
<1>6. ports' \in [PortIds -> Port] /\ ports'[i] = N /\ \A j \in PortIds : j # i => ports'[j] = ports[j]
  BY <1>1, <1>3, <1>5
<1>7. /\ state' \in [Procs -> {"RUNNING", "BLOCKED", "ZOMBIE"}]
      /\ \A p \in Procs : state'[p] = IF p \in Queued(ports[i].receivers)
                                      THEN "RUNNING" ELSE state[p]
  BY <1>1, <1>2 DEF Deliver, Awake
<1>8. QED
  BY <1>4, <1>6, <1>7

\* What that leaves of the invariant, whoever sends.
LEMMA DeliverKeeps ==
    ASSUME PortsInv, NEW i \in PortIds, NEW m \in Mail, Deliver(i, m),
           ports[i].count < PORT_QUEUE,
           \A p \in Procs : call'[p] = call[p] \/ (state[p] = "RUNNING" /\ call'[p] = NoCall)
    PROVE  (Ring /\ Full /\ Queues /\ OneAsks /\ NobodyWaitsForTheDead /\ NobodySleepsOnMail)'
<1> USE PortsAssumption
<1>1. /\ \A j \in PortIds : j # i => ports'[j] = ports[j]
      /\ ports'[i].in_use = ports[i].in_use
      /\ ports'[i].owner = ports[i].owner
      /\ ports'[i].q = [ports[i].q EXCEPT ![ports[i].tail] = m]
      /\ ports'[i].head = ports[i].head
      /\ ports'[i].tail = (ports[i].tail + 1) % PORT_QUEUE
      /\ ports'[i].count = ports[i].count + 1
      /\ ports'[i].receivers = <<>>
      /\ ports'[i].senders = ports[i].senders
      /\ \A p \in Procs : state'[p] = IF p \in Queued(ports[i].receivers)
                                      THEN "RUNNING" ELSE state[p]
  BY Delivered
<1>2. Ring'
  <2>1. /\ ports[i].head \in 0 .. PORT_QUEUE - 1 /\ ports[i].count \in 0 .. PORT_QUEUE - 1
        /\ ports[i].tail = (ports[i].head + ports[i].count) % PORT_QUEUE
    BY DEF PortsInv, Typed, Port, Ring
  <2>2. ports'[i].tail = (ports'[i].head + ports'[i].count) % PORT_QUEUE
    <3>1. (((ports[i].head + ports[i].count) % PORT_QUEUE) + 1) % PORT_QUEUE
              = (ports[i].head + (ports[i].count + 1)) % PORT_QUEUE
      BY <2>1, NextPlace
    <3>2. ports'[i].tail = (ports[i].tail + 1) % PORT_QUEUE /\ ports'[i].head = ports[i].head
          /\ ports'[i].count = ports[i].count + 1
      BY <1>1
    <3>3. QED
      BY <2>1, <3>1, <3>2
  <2>3. QED
    BY <1>1, <2>2 DEF PortsInv, Ring
<1>2a. Full'
  <2>1. /\ ports[i].head \in 0 .. PORT_QUEUE - 1 /\ ports[i].count \in 0 .. PORT_QUEUE - 1
        /\ ports[i].tail = (ports[i].head + ports[i].count) % PORT_QUEUE
        /\ ports[i].tail \in 0 .. PORT_QUEUE - 1
        /\ DOMAIN ports[i].q = 0 .. PORT_QUEUE - 1
    BY DEF PortsInv, Typed, Port, Ring
  <2>2. ASSUME ports[i].in_use, NEW k \in 0 .. ports[i].count
        PROVE  ports'[i].q[(ports[i].head + k) % PORT_QUEUE] \in Mail
    <3>1. CASE k = ports[i].count
      BY <3>1, <2>1, <1>1
    <3>2. CASE k # ports[i].count
      <4>1. k \in 0 .. PORT_QUEUE - 1 /\ k \in 0 .. ports[i].count - 1
        BY <3>2, <2>1
      <4>2. (ports[i].head + k) % PORT_QUEUE # ports[i].tail
        BY <3>2, <4>1, <2>1, OtherPlaces
      <4>3. (ports[i].head + k) % PORT_QUEUE \in 0 .. PORT_QUEUE - 1
        BY <4>1, <2>1, Places
      <4>4. ports[i].q[(ports[i].head + k) % PORT_QUEUE] \in Mail
        BY <4>1, <2>2 DEF PortsInv, Full
      <4>5. QED
        BY <4>2, <4>3, <4>4, <2>1, <1>1
    <3>3. QED
      BY <3>1, <3>2
  <2>3. 0 .. ports'[i].count - 1 = 0 .. ports[i].count
    BY <1>1, <2>1
  <2>4. QED
    BY <2>2, <2>3, <1>1 DEF PortsInv, Full
<1>3. \A p \in Procs, j \in PortIds :
        /\ Sleeps(p, "send", j)' <=> Sleeps(p, "send", j)
        /\ Sleeps(p, "recv", j)' <=> Sleeps(p, "recv", j) /\ p \notin Queued(ports[i].receivers)
  BY <1>1 DEF PortsInv, Queues, Sleeps, NoCall
<1>4. Queues'
  <2>1. ASSUME NEW j \in PortIds, NEW p \in Procs
        PROVE  /\ p \in Queued(ports'[j].senders) <=> Sleeps(p, "send", j)'
               /\ p \in Queued(ports'[j].receivers) <=> Sleeps(p, "recv", j)'
    <3>1. CASE j = i
      BY <3>1, <1>1, <1>3 DEF PortsInv, Queues, Queued
    <3>2. CASE j # i
      BY <3>2, <1>1, <1>3 DEF PortsInv, Queues, Sleeps
    <3>3. QED
      BY <3>1, <3>2
  <2>2. \A j \in PortIds : Distinct(ports'[j].receivers) /\ Distinct(ports'[j].senders)
    BY <1>1 DEF PortsInv, Queues, Distinct
  <2>3. QED
    BY <2>1, <2>2 DEF Queues
<1>5. OneAsks'
  BY DEF PortsInv, OneAsks, NoCall
<1>6. NobodyWaitsForTheDead'
  <2>1. \A j \in PortIds : ports'[j].senders = ports[j].senders /\ ports'[j].in_use = ports[j].in_use
                           /\ ports'[j].owner = ports[j].owner
    BY <1>1
  <2>2. ASSUME NEW j \in PortIds, NEW p \in Queued(ports'[j].receivers)
        PROVE  p \in Queued(ports[j].receivers) /\ call'[p] = call[p]
    <3>1. j # i /\ p \in Queued(ports[j].receivers)
      BY <1>1, <2>2 DEF Queued
    <3>2. p \in Procs /\ state[p] = "BLOCKED"
      BY <3>1, OneReceiver DEF PortsInv, Queues, Sleeps, Queued
    <3>3. QED
      BY <3>1, <3>2
  <2>3. QED
    BY <2>1, <2>2 DEF PortsInv, NobodyWaitsForTheDead
<1>7. NobodySleepsOnMail'
  BY <1>1 DEF PortsInv, NobodySleepsOnMail
<1>8. QED
  BY <1>2, <1>4, <1>5, <1>6, <1>7, <1>2a
-----------------------------------------------------------------------------
\* Processes ask for their own mail: that is why one asks.
ForItself == \A p \in Procs : call[p].op = "recv" => call[p].as = p

\* A call begins or ends: nothing changes for those who wait.
LEMMA CallKeeps ==
    ASSUME PortsInv, NEW p \in Procs, state[p] = "RUNNING", UNCHANGED <<ports, state>>,
           NEW c \in {NoCall} \cup SendCalls \cup RecvCalls,
           \A q \in Procs : c.op = "recv" /\ q # p /\ call[q].op = "recv" => call[q].as # c.as,
           NEW a \in {None, Ok, Error} \cup {Got(m) : m \in Mail},
           call' = [call EXCEPT ![p] = c],
           answer' = [answer EXCEPT ![p] = a],
           interrumpido' = [interrumpido EXCEPT ![p] = FALSE]
    PROVE  PortsInv'
<1>1. \A u \in Procs : call'[u] = IF u = p THEN c ELSE call[u]
  BY DEF PortsInv, Typed
<1>2. Typed'
  BY DEF PortsInv, Typed
<1>3. Ring' /\ Full' /\ NobodySleepsOnMail'
  BY DEF PortsInv, Ring, Full, NobodySleepsOnMail
<1>4. Queues'
  <2>1. ASSUME NEW u \in Procs, NEW i \in PortIds
        PROVE  /\ Sleeps(u, "send", i)' <=> Sleeps(u, "send", i)
               /\ Sleeps(u, "recv", i)' <=> Sleeps(u, "recv", i)
    BY <1>1 DEF Sleeps
  <2>2. QED
    BY <2>1 DEF PortsInv, Queues
<1>5. OneAsks'
  BY <1>1 DEF PortsInv, OneAsks
<1>6. NobodyWaitsForTheDead'
  <2>1. ASSUME NEW i \in PortIds, NEW u \in Queued(ports[i].receivers)
        PROVE  call'[u] = call[u]
    <3>1. u \in Procs
      BY OneReceiver, <2>1 DEF Queued
    <3>2. state[u] = "BLOCKED"
      BY <2>1, <3>1 DEF PortsInv, Queues, Sleeps
    <3>3. QED
      BY <1>1, <3>1, <3>2
  <2>2. QED
    BY <2>1 DEF PortsInv, NobodyWaitsForTheDead
<1>7. QED
  BY <1>2, <1>3, <1>4, <1>5, <1>6 DEF PortsInv

\* A call to send or to receive begins.
LEMMA AskKeeps ==
    ASSUME PortsInv, ForItself, NEW p \in Procs, SysSend(p) \/ SysRecv(p) PROVE PortsInv'
<1>1. PICK c \in SendCalls \cup RecvCalls : Ask(p, c) /\ (c.op = "recv" => c.as = p)
  <2>1. CASE SysSend(p)
    <3>1. PICK i \in PortIds, m \in Msgs : Ask(p, [op |-> "send", port |-> i, msg |-> m])
      BY <2>1 DEF SysSend
    <3>2. [op |-> "send", port |-> i, msg |-> m] \in SendCalls
      BY DEF SendCalls, Mail
    <3>3. QED
      BY <3>1, <3>2
  <2>2. CASE SysRecv(p)
    <3>1. PICK i \in PortIds : Ask(p, [op |-> "recv", port |-> i, as |-> p])
      BY <2>2 DEF SysRecv
    <3>2. [op |-> "recv", port |-> i, as |-> p] \in RecvCalls
      BY DEF RecvCalls, Owners
    <3>3. QED
      BY <3>1, <3>2
  <2>3. QED
    BY <2>1, <2>2
<1>2. /\ state[p] = "RUNNING" /\ UNCHANGED <<ports, state>>
      /\ call' = [call EXCEPT ![p] = c]
      /\ answer' = [answer EXCEPT ![p] = None]
      /\ interrumpido' = [interrumpido EXCEPT ![p] = FALSE]
  BY <1>1 DEF Ask, InCall
<1>3. \A q \in Procs : c.op = "recv" /\ q # p /\ call[q].op = "recv" => call[q].as # c.as
  BY <1>1 DEF ForItself
<1>4. QED
  BY <1>1, <1>2, <1>3, CallKeeps

\* A call ends with an error.
LEMMA FailKeeps ==
    ASSUME PortsInv, NEW p \in Procs, SendFails(p) \/ RecvFails(p) PROVE PortsInv'
<1>1. /\ state[p] = "RUNNING" /\ UNCHANGED <<ports, state>>
      /\ call' = [call EXCEPT ![p] = NoCall]
      /\ answer' = [answer EXCEPT ![p] = Error]
      /\ interrumpido' = [interrumpido EXCEPT ![p] = FALSE]
  BY DEF SendFails, RecvFails, Return, InCall
<1>2. NoCall.op # "recv"
  BY DEF NoCall
<1>3. QED
  BY <1>1, <1>2, CallKeeps

\* Whoever finds no room or no mail joins the queue it has to join.
LEMMA SendWaitsKeeps == ASSUME PortsInv, NEW p \in Procs, SendWaits(p) PROVE PortsInv'
<1> USE PortsAssumption
<1> DEFINE i == call[p].port
<1>1. /\ state[p] = "RUNNING" /\ call[p].op = "send"
      /\ call' = call /\ interrumpido' = interrumpido /\ answer' = answer
      /\ state' = [state EXCEPT ![p] = "BLOCKED"]
      /\ ports' = [ports EXCEPT ![i].senders = Append(@, p)]
      /\ ports[i].in_use
  BY DEF SendWaits, MaySend, InCall
<1>2. i \in PortIds
  BY <1>1 DEF PortsInv, Typed, SendCalls, RecvCalls, NoCall
<1> HIDE DEF i
<1>3. /\ ports[i].senders \in Seq(Procs) /\ Distinct(ports[i].senders)
      /\ p \notin Queued(ports[i].senders)
  BY <1>1, <1>2, OneReceiver DEF PortsInv, Queues, Sleeps
<1>4. /\ Append(ports[i].senders, p) \in Seq(Procs)
      /\ Distinct(Append(ports[i].senders, p))
      /\ Queued(Append(ports[i].senders, p)) = Queued(ports[i].senders) \cup {p}
  BY <1>3, JoinQueue
<1> DEFINE N == [ports[i] EXCEPT !.senders = Append(ports[i].senders, p)]
<1>4a. /\ N \in Port
       /\ N.in_use = ports[i].in_use /\ N.owner = ports[i].owner
       /\ N.head = ports[i].head /\ N.tail = ports[i].tail /\ N.count = ports[i].count
       /\ N.q = ports[i].q
       /\ N.receivers = ports[i].receivers /\ N.senders = Append(ports[i].senders, p)
  <2>1. ports[i] \in Port
    BY <1>2 DEF PortsInv, Typed
  <2>2. QED
    BY <2>1, <1>4 DEF Port
<1>4b. ports' = [ports EXCEPT ![i] = N]
  BY <1>1
<1> HIDE DEF N
<1>5. /\ ports' \in [PortIds -> Port]
      /\ \A j \in PortIds : ports'[j] = IF j = i THEN N ELSE ports[j]
  BY <1>2, <1>4a, <1>4b DEF PortsInv, Typed
<1>6. \A j \in PortIds :
        /\ ports'[j].in_use = ports[j].in_use /\ ports'[j].owner = ports[j].owner
        /\ ports'[j].head = ports[j].head /\ ports'[j].tail = ports[j].tail
        /\ ports'[j].count = ports[j].count /\ ports'[j].q = ports[j].q
        /\ ports'[j].receivers = ports[j].receivers
        /\ ports'[j].senders = IF j = i THEN Append(ports[i].senders, p) ELSE ports[j].senders
  BY <1>5, <1>4a
<1>7. Typed'
  BY <1>1, <1>5 DEF PortsInv, Typed
<1>8. Ring' /\ Full' /\ NobodySleepsOnMail' /\ OneAsks'
  BY <1>1, <1>6 DEF PortsInv, Ring, Full, NobodySleepsOnMail, OneAsks
<1>9. Queues'
  <2>1. \A j \in PortIds : Distinct(ports'[j].receivers) /\ Distinct(ports'[j].senders)
    BY <1>4, <1>6 DEF PortsInv, Queues
  <2>2. ASSUME NEW j \in PortIds, NEW u \in Procs
        PROVE  /\ Sleeps(u, "send", j)' <=> Sleeps(u, "send", j) \/ (u = p /\ j = i)
               /\ Sleeps(u, "recv", j)' <=> Sleeps(u, "recv", j)
    BY <1>1 DEF PortsInv, Typed, Sleeps, i
  <2>3. QED
    BY <1>4, <1>6, <2>1, <2>2 DEF PortsInv, Queues
<1>10. NobodyWaitsForTheDead'
  BY <1>1, <1>6 DEF PortsInv, NobodyWaitsForTheDead
<1>11. QED
  BY <1>7, <1>8, <1>9, <1>10 DEF PortsInv

\* The owner goes to sleep without mail.
LEMMA RecvWaitsKeeps == ASSUME PortsInv, NEW p \in Procs, RecvWaits(p) PROVE PortsInv'
<1> USE PortsAssumption
<1> DEFINE i == call[p].port
<1>1. /\ state[p] = "RUNNING" /\ call[p].op = "recv"
      /\ call' = call /\ interrumpido' = interrumpido /\ answer' = answer
      /\ state' = [state EXCEPT ![p] = "BLOCKED"]
      /\ ports' = [ports EXCEPT ![i].receivers = Append(@, p)]
      /\ ports[i].in_use /\ ports[i].owner = call[p].as /\ ports[i].count = 0
  BY DEF RecvWaits, MayRecv, InCall
<1>2. i \in PortIds
  BY <1>1 DEF PortsInv, Typed, SendCalls, RecvCalls, NoCall
<1> HIDE DEF i
<1>3. /\ ports[i].receivers \in Seq(Procs) /\ Distinct(ports[i].receivers)
      /\ p \notin Queued(ports[i].receivers)
  BY <1>1, <1>2, OneReceiver DEF PortsInv, Queues, Sleeps
<1>4. /\ Append(ports[i].receivers, p) \in Seq(Procs)
      /\ Distinct(Append(ports[i].receivers, p))
      /\ Queued(Append(ports[i].receivers, p)) = Queued(ports[i].receivers) \cup {p}
  BY <1>3, JoinQueue
<1> DEFINE N == [ports[i] EXCEPT !.receivers = Append(ports[i].receivers, p)]
<1>4a. /\ N \in Port
       /\ N.in_use = ports[i].in_use /\ N.owner = ports[i].owner
       /\ N.head = ports[i].head /\ N.tail = ports[i].tail /\ N.count = ports[i].count
       /\ N.q = ports[i].q
       /\ N.senders = ports[i].senders /\ N.receivers = Append(ports[i].receivers, p)
  <2>1. ports[i] \in Port
    BY <1>2 DEF PortsInv, Typed
  <2>2. QED
    BY <2>1, <1>4 DEF Port
<1>4b. ports' = [ports EXCEPT ![i] = N]
  BY <1>1
<1> HIDE DEF N
<1>5. /\ ports' \in [PortIds -> Port]
      /\ \A j \in PortIds : ports'[j] = IF j = i THEN N ELSE ports[j]
  BY <1>2, <1>4a, <1>4b DEF PortsInv, Typed
<1>6. \A j \in PortIds :
        /\ ports'[j].in_use = ports[j].in_use /\ ports'[j].owner = ports[j].owner
        /\ ports'[j].head = ports[j].head /\ ports'[j].tail = ports[j].tail
        /\ ports'[j].count = ports[j].count /\ ports'[j].q = ports[j].q
        /\ ports'[j].senders = ports[j].senders
        /\ ports'[j].receivers = IF j = i THEN Append(ports[i].receivers, p)
                                          ELSE ports[j].receivers
  BY <1>5, <1>4a
<1>7. Typed'
  BY <1>1, <1>5 DEF PortsInv, Typed
<1>8. Ring' /\ Full' /\ NobodySleepsOnMail' /\ OneAsks'
  BY <1>1, <1>6 DEF PortsInv, Ring, Full, NobodySleepsOnMail, OneAsks
<1>9. Queues'
  <2>1. \A j \in PortIds : Distinct(ports'[j].receivers) /\ Distinct(ports'[j].senders)
    BY <1>4, <1>6 DEF PortsInv, Queues
  <2>2. ASSUME NEW j \in PortIds, NEW u \in Procs
        PROVE  /\ Sleeps(u, "recv", j)' <=> Sleeps(u, "recv", j) \/ (u = p /\ j = i)
               /\ Sleeps(u, "send", j)' <=> Sleeps(u, "send", j)
    BY <1>1 DEF PortsInv, Typed, Sleeps, i
  <2>3. QED
    BY <1>4, <1>6, <2>1, <2>2 DEF PortsInv, Queues
<1>10. NobodyWaitsForTheDead'
  BY <1>1, <1>4, <1>6 DEF PortsInv, NobodyWaitsForTheDead
<1>11. QED
  BY <1>7, <1>8, <1>9, <1>10 DEF PortsInv

\* A sender leaves its message and goes.
LEMMA SendsKeeps == ASSUME PortsInv, NEW p \in Procs, Sends(p) PROVE PortsInv'
<1> DEFINE i == call[p].port
           m == call[p].msg
<1>1. /\ state[p] = "RUNNING" /\ call[p].op = "send"
      /\ Deliver(i, m) /\ ports[i].count < PORT_QUEUE
      /\ call' = [call EXCEPT ![p] = NoCall]
      /\ answer' = [answer EXCEPT ![p] = Ok]
      /\ interrumpido' = [interrumpido EXCEPT ![p] = FALSE]
  BY DEF Sends, MaySend, InCall, Return
<1>2. i \in PortIds /\ m \in Mail
  BY <1>1 DEF PortsInv, Typed, SendCalls, RecvCalls, NoCall
<1> HIDE DEF i, m
<1>3. \A u \in Procs : call'[u] = call[u] \/ (state[u] = "RUNNING" /\ call'[u] = NoCall)
  BY <1>1 DEF PortsInv, Typed
<1>4. Typed'
  <2>1. /\ ports' \in [PortIds -> Port]
        /\ state' \in [Procs -> {"RUNNING", "BLOCKED", "ZOMBIE"}]
    BY <1>1, <1>2, Delivered
  <2>2. QED
    BY <1>1, <2>1 DEF PortsInv, Typed
<1>5. QED
  BY <1>1, <1>2, <1>3, <1>4, DeliverKeeps DEF PortsInv

\* The kernel leaves a notice, if there is room.
LEMMA NotifyKeeps ==
    ASSUME PortsInv, NEW i \in PortIds, NEW m \in Notices, PortNotify(i, m) PROVE PortsInv'
<1>1. /\ Deliver(i, m) /\ ports[i].count < PORT_QUEUE /\ m \in Mail
      /\ call' = call /\ answer' = answer /\ interrumpido' = interrumpido
  BY DEF PortNotify, Mail
<1>2. Typed'
  <2>1. /\ ports' \in [PortIds -> Port]
        /\ state' \in [Procs -> {"RUNNING", "BLOCKED", "ZOMBIE"}]
    BY <1>1, Delivered
  <2>2. QED
    BY <1>1, <2>1 DEF PortsInv, Typed
<1>3. QED
  BY <1>1, <1>2, DeliverKeeps DEF PortsInv

\* port_recv() with mail: a message out of the ring and a sender awake.
LEMMA Received ==
    ASSUME PortsInv, NEW p \in Procs, NEW i \in PortIds, Receives(p), i = call[p].port
    PROVE  /\ ports' \in [PortIds -> Port]
           /\ state' \in [Procs -> {"RUNNING", "BLOCKED", "ZOMBIE"}]
           /\ \A j \in PortIds : j # i => ports'[j] = ports[j]
           /\ ports'[i].in_use = ports[i].in_use
           /\ ports'[i].owner = ports[i].owner
           /\ ports'[i].q = [ports[i].q EXCEPT ![ports[i].head] = NoMail]
           /\ ports'[i].head = (ports[i].head + 1) % PORT_QUEUE
           /\ ports'[i].tail = ports[i].tail
           /\ ports'[i].count = ports[i].count - 1
           /\ ports'[i].receivers = ports[i].receivers
           /\ ports'[i].senders = Rest(ports[i].senders)
           /\ \A u \in Procs : state'[u] = IF u \in First(ports[i].senders)
                                           THEN "RUNNING" ELSE state[u]
<1> USE PortsAssumption
<1>1. /\ ports[i] \in Port /\ ports \in [PortIds -> Port]
      /\ state \in [Procs -> {"RUNNING", "BLOCKED", "ZOMBIE"}]
      /\ ports[i].count > 0
  BY DEF PortsInv, Typed, Receives
<1>2. Rest(ports[i].senders) \in Seq(Procs)
  BY OneReceiver, RestOfQueue DEF PortsInv, Queues
<1> DEFINE N == [Drop(ports[i]) EXCEPT !.senders = Rest(@)]
<1>3. ports' = [ports EXCEPT ![i] = N]
  BY <1>1 DEF Receives
<1>4. /\ N.in_use = ports[i].in_use /\ N.owner = ports[i].owner
      /\ N.q = [ports[i].q EXCEPT ![ports[i].head] = NoMail]
      /\ N.head = (ports[i].head + 1) % PORT_QUEUE
      /\ N.tail = ports[i].tail
      /\ N.count = ports[i].count - 1
      /\ N.receivers = ports[i].receivers /\ N.senders = Rest(ports[i].senders)
  BY <1>1, <1>2 DEF Drop, Port
<1>5. N \in Port
  <2>1. (ports[i].head + 1) % PORT_QUEUE \in 0 .. PORT_QUEUE - 1
    BY <1>1, NextPlace DEF Port
  <2>2. ports[i].count - 1 \in 0 .. PORT_QUEUE
    <3>1. ports[i].count \in 0 .. PORT_QUEUE
      BY <1>1 DEF Port
    <3>2. QED
      BY <1>1, <3>1
  <2>3. [ports[i].q EXCEPT ![ports[i].head] = NoMail]
            \in [0 .. PORT_QUEUE - 1 -> Mail \cup {NoMail}]
    BY <1>1 DEF Port
  <2>4. QED
    BY ZenonT(60), <1>1, <1>2, <2>1, <2>2, <2>3 DEF Drop, Port
<1> HIDE DEF N
<1>6. ports' \in [PortIds -> Port] /\ ports'[i] = N /\ \A j \in PortIds : j # i => ports'[j] = ports[j]
  BY <1>1, <1>3, <1>5
<1>7. /\ state' \in [Procs -> {"RUNNING", "BLOCKED", "ZOMBIE"}]
      /\ \A u \in Procs : state'[u] = IF u \in First(ports[i].senders)
                                      THEN "RUNNING" ELSE state[u]
  BY <1>1 DEF Receives, Awake
<1>8. QED
  BY <1>4, <1>6, <1>7

\* The owner takes the first message and wakes a sender.
LEMMA ReceivesKeeps == ASSUME PortsInv, NEW p \in Procs, Receives(p) PROVE PortsInv'
<1> USE PortsAssumption
<1> DEFINE i == call[p].port
<1>1. /\ state[p] = "RUNNING" /\ call[p].op = "recv" /\ ports[i].count > 0
      /\ call' = [call EXCEPT ![p] = NoCall]
      /\ answer' = [answer EXCEPT ![p] = Got(ports[i].q[ports[i].head])]
      /\ interrumpido' = [interrumpido EXCEPT ![p] = FALSE]
  BY DEF Receives, MayRecv, InCall, Return
<1>1a. ports[i].in_use
  BY DEF Receives, MayRecv
<1>2. i \in PortIds
  BY <1>1 DEF PortsInv, Typed, SendCalls, RecvCalls, NoCall
<1>3. i = call[p].port
  OBVIOUS
<1> HIDE DEF i
<1>4. /\ ports' \in [PortIds -> Port]
      /\ state' \in [Procs -> {"RUNNING", "BLOCKED", "ZOMBIE"}]
      /\ \A j \in PortIds : j # i => ports'[j] = ports[j]
      /\ ports'[i].in_use = ports[i].in_use
      /\ ports'[i].owner = ports[i].owner
      /\ ports'[i].q = [ports[i].q EXCEPT ![ports[i].head] = NoMail]
      /\ ports'[i].head = (ports[i].head + 1) % PORT_QUEUE
      /\ ports'[i].tail = ports[i].tail
      /\ ports'[i].count = ports[i].count - 1
      /\ ports'[i].receivers = ports[i].receivers
      /\ ports'[i].senders = Rest(ports[i].senders)
      /\ \A u \in Procs : state'[u] = IF u \in First(ports[i].senders)
                                      THEN "RUNNING" ELSE state[u]
  BY <1>2, <1>3, Received
<1>5. /\ Distinct(Rest(ports[i].senders))
      /\ Queued(Rest(ports[i].senders)) = Queued(ports[i].senders) \ First(ports[i].senders)
      /\ First(ports[i].senders) \subseteq Queued(ports[i].senders)
      /\ ports[i].senders = <<>> => Rest(ports[i].senders) = <<>>
  BY <1>2, OneReceiver, RestOfQueue DEF PortsInv, Queues
<1>6. \A u \in Procs : call'[u] = IF u = p THEN NoCall ELSE call[u]
  BY <1>1 DEF PortsInv, Typed
<1>7a. /\ ports[i].head \in 0 .. PORT_QUEUE - 1 /\ ports[i].count - 1 \in 0 .. PORT_QUEUE - 1
       /\ ports[i].count \in 1 .. PORT_QUEUE
       /\ ports[i].tail = (ports[i].head + ports[i].count) % PORT_QUEUE
       /\ DOMAIN ports[i].q = 0 .. PORT_QUEUE - 1
  <2>1. ports[i].count \in 0 .. PORT_QUEUE
    BY <1>2 DEF PortsInv, Typed, Port
  <2>2. /\ ports[i].head \in 0 .. PORT_QUEUE - 1
        /\ ports[i].tail = (ports[i].head + ports[i].count) % PORT_QUEUE
        /\ DOMAIN ports[i].q = 0 .. PORT_QUEUE - 1
    BY <1>2 DEF PortsInv, Typed, Port, Ring
  <2>3. QED
    BY <1>1, <2>1, <2>2
<1>7. Ring'
  <2>2. (((ports[i].head + 1) % PORT_QUEUE) + (ports[i].count - 1)) % PORT_QUEUE
            = (ports[i].head + ((ports[i].count - 1) + 1)) % PORT_QUEUE
    BY <1>7a, NextPlace
  <2>3. ports'[i].tail = (ports'[i].head + ports'[i].count) % PORT_QUEUE
    <3>1. (ports[i].count - 1) + 1 = ports[i].count
      BY <1>7a
    <3>2. QED
      BY <1>4, <1>7a, <2>2, <3>1
  <2>4. QED
    BY <1>4, <2>3 DEF PortsInv, Ring
<1>8. Full'
  <2>1. /\ ports[i].head \in 0 .. PORT_QUEUE - 1
        /\ ports[i].count \in 1 .. PORT_QUEUE
        /\ DOMAIN ports[i].q = 0 .. PORT_QUEUE - 1
    BY <1>7a
  <2>2. ASSUME ports[i].in_use, NEW k \in 0 .. ports[i].count - 2
        PROVE  ports'[i].q[(ports'[i].head + k) % PORT_QUEUE] \in Mail
    <3>1. k \in 0 .. PORT_QUEUE - 1 /\ k + 1 \in 0 .. PORT_QUEUE - 1
          /\ k + 1 \in 0 .. ports[i].count - 1
      BY <2>1
    <3>2. (ports'[i].head + k) % PORT_QUEUE = (ports[i].head + (k + 1)) % PORT_QUEUE
      <4>1. (((ports[i].head + 1) % PORT_QUEUE) + k) % PORT_QUEUE
                = (ports[i].head + (k + 1)) % PORT_QUEUE
        BY <2>1, <3>1, NextPlace
      <4>2. QED
        BY <1>4, <4>1
    <3>3. (ports[i].head + (k + 1)) % PORT_QUEUE # ports[i].head
      <4>1. k + 1 \in 1 .. PORT_QUEUE - 1
        BY <3>1
      <4>2. QED
        BY <2>1, <4>1, FirstPlace
    <3>4. ports[i].q[(ports[i].head + (k + 1)) % PORT_QUEUE] \in Mail
      BY <2>2, <3>1, <1>2 DEF PortsInv, Full
    <3>5. (ports[i].head + (k + 1)) % PORT_QUEUE \in 0 .. PORT_QUEUE - 1
      BY <2>1, <3>1, Places
    <3>6. QED
      BY SMTT(60), <1>4, <2>1, <3>2, <3>3, <3>4, <3>5
  <2>3. 0 .. ports'[i].count - 1 = 0 .. ports[i].count - 2
    <3>1. (ports[i].count - 1) - 1 = ports[i].count - 2
      BY <2>1
    <3>2. QED
      BY <1>4, <3>1
  <2>4. QED
    BY <2>2, <2>3, <1>4 DEF PortsInv, Full
<1>9. Typed'
  <2>1. ports[i].q[ports[i].head] \in Mail
    <3>1. 0 \in 0 .. ports[i].count - 1 /\ ports[i].in_use
      BY <1>7a, <1>1a
    <3>2. (ports[i].head + 0) % PORT_QUEUE = ports[i].head
      BY <1>7a, FirstPlace
    <3>3. QED
      BY <3>1, <3>2, <1>2 DEF PortsInv, Full
  <2>2. answer' \in [Procs -> {None, Ok, Error} \cup {Got(m) : m \in Mail}]
    BY <1>1, <2>1 DEF PortsInv, Typed
  <2>3. QED
    BY <1>1, <1>4, <2>2 DEF PortsInv, Typed
<1>10. Queues'
  <2>1. \A j \in PortIds : Distinct(ports'[j].receivers) /\ Distinct(ports'[j].senders)
    BY <1>4, <1>5 DEF PortsInv, Queues
  <2>2. ASSUME NEW j \in PortIds, NEW u \in Procs
        PROVE  /\ Sleeps(u, "send", j)' <=> Sleeps(u, "send", j) /\ u \notin First(ports[i].senders)
               /\ Sleeps(u, "recv", j)' <=> Sleeps(u, "recv", j)
    <3>1. u \in First(ports[i].senders) => Sleeps(u, "send", i)
      BY <1>2, <1>5 DEF PortsInv, Queues
    <3>2. CASE u = p
      BY <3>2, <1>1, <1>4, <1>6 DEF Sleeps
    <3>3. CASE u # p
      BY <3>1, <3>3, <1>4, <1>6 DEF Sleeps
    <3>4. QED
      BY <3>2, <3>3
  <2>3. ASSUME NEW j \in PortIds, NEW u \in Procs
        PROVE  /\ u \in Queued(ports'[j].senders) <=> Sleeps(u, "send", j)'
               /\ u \in Queued(ports'[j].receivers) <=> Sleeps(u, "recv", j)'
    <3>1. CASE j = i
      BY <3>1, <1>4, <1>5, <2>2 DEF PortsInv, Queues
    <3>2. CASE j # i
      <4>1. u \in First(ports[i].senders) => ~Sleeps(u, "send", j)
        BY <3>2, <1>2, <1>5 DEF PortsInv, Queues, Sleeps
      <4>2. QED
        BY <3>2, <4>1, <1>4, <2>2 DEF PortsInv, Queues
    <3>3. QED
      BY <3>1, <3>2
  <2>4. QED
    BY <2>1, <2>3 DEF Queues
<1>11. OneAsks'
  BY <1>6 DEF PortsInv, OneAsks, NoCall
<1>12. NobodySleepsOnMail'
  BY <1>1, <1>2, <1>4 DEF PortsInv, NobodySleepsOnMail
<1>13. NobodyWaitsForTheDead'
  <2>1. ASSUME NEW j \in PortIds, NEW u \in Queued(ports[j].receivers)
        PROVE  call'[u] = call[u]
    <3>1. u \in Procs
      BY OneReceiver, <2>1 DEF Queued
    <3>2. state[u] = "BLOCKED"
      BY <2>1, <3>1 DEF PortsInv, Queues, Sleeps
    <3>3. QED
      BY <1>1, <1>6, <3>1, <3>2
  <2>2. QED
    BY <2>1, <1>4, <1>5 DEF PortsInv, NobodyWaitsForTheDead
<1>14. QED
  BY <1>7, <1>8, <1>9, <1>10, <1>11, <1>12, <1>13 DEF PortsInv

\* A signal takes whoever waits out of its queue.
LEMMA SignalKeeps == ASSUME PortsInv, NEW p \in Procs, Signal(p) PROVE PortsInv'
<1> USE PortsAssumption
<1>1. /\ state[p] = "BLOCKED" /\ call' = call /\ answer' = answer
      /\ state' = [state EXCEPT ![p] = "RUNNING"]
      /\ interrumpido' = [interrumpido EXCEPT ![p] = TRUE]
      /\ \A i \in PortIds : ports'[i] = [ports[i] EXCEPT !.receivers = Without(@, p),
                                                         !.senders = Without(@, p)]
      /\ DOMAIN ports' = PortIds
  BY DEF Signal
<1>2. ports' = [i \in PortIds |-> ports'[i]]
  BY DEF Signal
<1>3. ASSUME NEW i \in PortIds
      PROVE  LET r == Without(ports[i].receivers, p)
                 s == Without(ports[i].senders, p)
             IN  /\ r \in Seq(Procs) /\ s \in Seq(Procs)
                 /\ Distinct(r) /\ Distinct(s)
                 /\ Queued(r) = Queued(ports[i].receivers) \ {p}
                 /\ Queued(s) = Queued(ports[i].senders) \ {p}
                 /\ ports[i].receivers = <<>> => r = <<>>
                 /\ ports[i].senders = <<>> => s = <<>>
  BY OneReceiver, LeaveQueue DEF PortsInv, Queues
<1>4. ASSUME NEW i \in PortIds
      PROVE  /\ ports'[i] \in Port
             /\ ports'[i].in_use = ports[i].in_use /\ ports'[i].owner = ports[i].owner
             /\ ports'[i].head = ports[i].head /\ ports'[i].tail = ports[i].tail
             /\ ports'[i].count = ports[i].count /\ ports'[i].q = ports[i].q
             /\ ports'[i].receivers = Without(ports[i].receivers, p)
             /\ ports'[i].senders = Without(ports[i].senders, p)
  <2>1. ports[i] \in Port
    BY DEF PortsInv, Typed
  <2>2. /\ Without(ports[i].receivers, p) \in Seq(Procs)
        /\ Without(ports[i].senders, p) \in Seq(Procs)
    BY <1>3
  <2>3. ports'[i] = [ports[i] EXCEPT !.receivers = Without(ports[i].receivers, p),
                                     !.senders = Without(ports[i].senders, p)]
    BY <1>1
  <2>4. QED
    BY <2>1, <2>2, <2>3 DEF Port
<1>5. Typed'
  BY <1>1, <1>2, <1>4 DEF PortsInv, Typed
<1>6. Ring' /\ Full' /\ OneAsks'
  BY ZenonT(60), <1>1, <1>4 DEF PortsInv, Ring, Full, OneAsks
<1>7. Queues'
  <2>1. ASSUME NEW j \in PortIds, NEW u \in Procs
        PROVE  /\ Sleeps(u, "send", j)' <=> Sleeps(u, "send", j) /\ u # p
               /\ Sleeps(u, "recv", j)' <=> Sleeps(u, "recv", j) /\ u # p
    BY <1>1 DEF PortsInv, Typed, Sleeps
  <2>2. \A j \in PortIds : Distinct(ports'[j].receivers) /\ Distinct(ports'[j].senders)
    BY <1>3, <1>4
  <2>3. ASSUME NEW j \in PortIds, NEW u \in Procs
        PROVE  /\ u \in Queued(ports'[j].senders) <=> Sleeps(u, "send", j)'
               /\ u \in Queued(ports'[j].receivers) <=> Sleeps(u, "recv", j)'
    BY ZenonT(60), <1>3, <1>4, <2>1 DEF PortsInv, Queues
  <2>4. QED
    BY <2>2, <2>3 DEF Queues
<1>8. NobodyWaitsForTheDead'
  <2>1. ASSUME NEW i \in PortIds, ports'[i].senders # <<>> PROVE ports'[i].in_use
    <3>1. ports[i].senders # <<>> /\ ports'[i].in_use = ports[i].in_use
      BY <1>3, <1>4, <2>1
    <3>2. QED
      BY <3>1 DEF PortsInv, NobodyWaitsForTheDead
  <2>2. ASSUME NEW i \in PortIds, NEW u \in Queued(ports'[i].receivers)
        PROVE  ports'[i].in_use /\ ports'[i].owner = call'[u].as
    <3>1. u \in Queued(ports[i].receivers)
      BY <1>3, <1>4, <2>2
    <3>2. QED
      BY <1>1, <1>4, <3>1 DEF PortsInv, NobodyWaitsForTheDead
  <2>3. QED
    BY <2>1, <2>2 DEF NobodyWaitsForTheDead
<1>9. NobodySleepsOnMail'
  <2>1. ASSUME NEW i \in PortIds, ports'[i].receivers # <<>> PROVE ports'[i].count = 0
    <3>1. ports[i].receivers # <<>> /\ ports'[i].count = ports[i].count
      BY <1>3, <1>4, <2>1
    <3>2. QED
      BY <3>1 DEF PortsInv, NobodySleepsOnMail
  <2>2. QED
    BY <2>1 DEF NobodySleepsOnMail
<1>10. QED
  BY <1>5, <1>6, <1>7, <1>8, <1>9 DEF PortsInv

\* A port that nobody has, and where nobody waits, has an owner.
LEMMA CreateKeeps ==
    ASSUME PortsInv, NEW i \in PortIds, NEW o \in Owners, PortCreate(o, i) PROVE PortsInv'
<1> USE PortsAssumption
<1>1. /\ ~ports[i].in_use /\ ports' = [ports EXCEPT ![i] = NewPort(o)]
      /\ UNCHANGED <<state, interrumpido, call, answer>>
  BY DEF PortCreate
<1>2. /\ NewPort(o) \in Port
      /\ NewPort(o).receivers = <<>> /\ NewPort(o).senders = <<>>
      /\ NewPort(o).head = 0 /\ NewPort(o).tail = 0 /\ NewPort(o).count = 0
  <2> DEFINE q == [k \in 0 .. PORT_QUEUE - 1 |-> NoMail]
  <2>1. /\ 0 \in 0 .. PORT_QUEUE - 1 /\ 0 \in 0 .. PORT_QUEUE
        /\ q \in [0 .. PORT_QUEUE - 1 -> Mail \cup {NoMail}]
        /\ <<>> \in Seq(Procs)
    OBVIOUS
  <2>2. NewPort(o) = [in_use |-> TRUE, owner |-> o, q |-> q, head |-> 0, tail |-> 0,
                      count |-> 0, receivers |-> <<>>, senders |-> <<>>]
    BY DEF NewPort
  <2> HIDE DEF q
  <2>3. QED
    BY <2>1, <2>2 DEF Port
<1>3. \A j \in PortIds : ports'[j] = IF j = i THEN NewPort(o) ELSE ports[j]
  BY <1>1 DEF PortsInv, Typed
<1>4. Typed'
  BY <1>1, <1>2 DEF PortsInv, Typed
<1>5. Ring' /\ Full' /\ OneAsks' /\ NobodySleepsOnMail'
  <2>1. Ring'
    BY <1>2, <1>3, Within DEF PortsInv, Ring
  <2>2. Full'
    BY <1>2, <1>3 DEF PortsInv, Full
  <2>3. OneAsks' /\ NobodySleepsOnMail'
    BY <1>1, <1>2, <1>3 DEF PortsInv, OneAsks, NobodySleepsOnMail
  <2>4. QED
    BY <2>1, <2>2, <2>3
<1>6. Queued(ports[i].senders) = {} /\ Queued(ports[i].receivers) = {} /\ Queued(<<>>) = {}
  <2>1. ports[i].senders = <<>>
    BY <1>1 DEF PortsInv, NobodyWaitsForTheDead
  <2>2. Queued(ports[i].receivers) = {}
    BY <1>1 DEF PortsInv, NobodyWaitsForTheDead
  <2>3. Queued(<<>>) = {}
    BY DEF Queued
  <2>4. QED
    BY <2>1, <2>2, <2>3
<1>7. Queues'
  <2>1. \A j \in PortIds : Distinct(ports'[j].receivers) /\ Distinct(ports'[j].senders)
    BY <1>2, <1>3 DEF PortsInv, Queues, Distinct
  <2>2. ASSUME NEW j \in PortIds
        PROVE  /\ Queued(ports'[j].senders) = Queued(ports[j].senders)
               /\ Queued(ports'[j].receivers) = Queued(ports[j].receivers)
    BY <1>2, <1>3, <1>6
  <2>3. QED
    BY <1>1, <2>1, <2>2 DEF PortsInv, Queues, Sleeps
<1>8. NobodyWaitsForTheDead'
  BY <1>1, <1>2, <1>3, <1>6 DEF PortsInv, NobodyWaitsForTheDead
<1>9. QED
  BY <1>4, <1>5, <1>7, <1>8 DEF PortsInv

\* A process dies with its ports, and whoever waits there is woken.
LEMMA ExitKeeps == ASSUME PortsInv, NEW p \in Procs, TaskExit(p) PROVE PortsInv'
<1> USE PortsAssumption
<1> DEFINE mine == {i \in PortIds : ports[i].in_use /\ ports[i].owner = p}
           waiting == UNION {Queued(ports[i].senders) \cup Queued(ports[i].receivers) : i \in mine}
           Gone(i) == [ports[i] EXCEPT !.in_use = FALSE, !.senders = <<>>, !.receivers = <<>>,
                                       !.q = [k \in DOMAIN @ |-> NoMail]]
<1>1. /\ state[p] = "RUNNING" /\ call' = call /\ answer' = answer
      /\ interrumpido' = interrumpido
  BY DEF TaskExit, InCall
<1>2. /\ ports' = [i \in PortIds |-> IF i \in mine THEN Gone(i) ELSE ports[i]]
      /\ state' = [u \in Procs |-> IF u = p THEN "ZOMBIE"
                                   ELSE IF u \in waiting THEN "RUNNING" ELSE state[u]]
  BY DEF TaskExit, IpcReleasePorts
<1>3. ASSUME NEW i \in PortIds
      PROVE  /\ Gone(i) \in Port /\ ~Gone(i).in_use
             /\ Gone(i).head = ports[i].head /\ Gone(i).tail = ports[i].tail
             /\ Gone(i).count = ports[i].count
             /\ Gone(i).senders = <<>> /\ Gone(i).receivers = <<>>
  <2> DEFINE q == [k \in DOMAIN ports[i].q |-> NoMail]
  <2>1. ports[i] \in Port
    BY DEF PortsInv, Typed
  <2>2. q \in [0 .. PORT_QUEUE - 1 -> Mail \cup {NoMail}] /\ <<>> \in Seq(Procs)
    BY <2>1 DEF Port
  <2>3. Gone(i) = [ports[i] EXCEPT !.in_use = FALSE, !.senders = <<>>, !.receivers = <<>>,
                                   !.q = q]
    OBVIOUS
  <2> HIDE DEF q, Gone
  <2>4. QED
    BY <2>1, <2>2, <2>3 DEF Port
<1>4. /\ \A i \in mine : i \in PortIds /\ ports[i].in_use /\ ports[i].owner = p
      /\ \A i \in PortIds : i \notin mine => ~(ports[i].in_use /\ ports[i].owner = p)
  OBVIOUS
<1>5. \A u : u \in waiting <=> \E i \in mine : \/ u \in Queued(ports[i].senders)
                                               \/ u \in Queued(ports[i].receivers)
  OBVIOUS
<1> HIDE DEF mine, waiting, Gone
<1>6. \A i \in PortIds : ports'[i] = IF i \in mine THEN Gone(i) ELSE ports[i]
  BY <1>2
<1>7. \A u \in Procs : state'[u] = IF u = p THEN "ZOMBIE"
                                   ELSE IF u \in waiting THEN "RUNNING" ELSE state[u]
  BY <1>2
<1>8. Typed'
  <2>1. ports' \in [PortIds -> Port]
    BY <1>2, <1>3 DEF PortsInv, Typed
  <2>2. \A u \in Procs : state'[u] \in {"RUNNING", "BLOCKED", "ZOMBIE"}
    BY <1>7 DEF PortsInv, Typed
  <2>3. state' \in [Procs -> {"RUNNING", "BLOCKED", "ZOMBIE"}]
    BY <1>2, <2>2
  <2>4. QED
    BY <1>1, <2>1, <2>3 DEF PortsInv, Typed
<1>9. Ring' /\ Full' /\ OneAsks' /\ NobodySleepsOnMail'
  <2>1. Ring'
    BY <1>3, <1>6 DEF PortsInv, Ring
  <2>2. Full'
    BY <1>3, <1>6 DEF PortsInv, Full
  <2>3. OneAsks' /\ NobodySleepsOnMail'
    BY <1>1, <1>3, <1>6 DEF PortsInv, OneAsks, NobodySleepsOnMail
  <2>4. QED
    BY <2>1, <2>2, <2>3
<1>10. Queues'
  <2>1. \A j \in PortIds : Distinct(ports'[j].receivers) /\ Distinct(ports'[j].senders)
    BY <1>3, <1>6 DEF PortsInv, Queues, Distinct
  <2>2. ASSUME NEW j \in PortIds, NEW u \in Procs, NEW op \in {"send", "recv"}
        PROVE  Sleeps(u, op, j)' <=> Sleeps(u, op, j) /\ j \notin mine
    <3>1. \A i \in PortIds : u \in Queued(ports[i].senders) \/ u \in Queued(ports[i].receivers)
              => state[u] = "BLOCKED" /\ call[u].port = i
      BY DEF PortsInv, Queues, Sleeps
    <3>2. Sleeps(u, op, j) => u \in Queued(ports[j].senders) \/ u \in Queued(ports[j].receivers)
      BY DEF PortsInv, Queues
    <3>3. CASE u = p
      BY <3>3, <1>1, <1>7 DEF Sleeps
    <3>4. CASE u # p /\ u \in waiting
      <4>1. PICK i \in mine : u \in Queued(ports[i].senders) \/ u \in Queued(ports[i].receivers)
        BY <3>4, <1>5
      <4>2. call[u].port = i
        BY <4>1, <3>1, <1>4
      <4>3. QED
        BY <3>4, <4>2, <1>1, <1>7, <4>1 DEF Sleeps
    <3>5. CASE u # p /\ u \notin waiting
      <4>1. state'[u] = state[u]
        BY <3>5, <1>7
      <4>2. Sleeps(u, op, j) => j \notin mine
        BY <3>2, <3>5, <1>5
      <4>3. QED
        BY <4>1, <4>2, <1>1 DEF Sleeps
    <3>6. QED
      BY <3>3, <3>4, <3>5
  <2>3. ASSUME NEW j \in PortIds, NEW u \in Procs
        PROVE  /\ u \in Queued(ports'[j].senders) <=> Sleeps(u, "send", j)'
               /\ u \in Queued(ports'[j].receivers) <=> Sleeps(u, "recv", j)'
    <3>1. CASE j \in mine
      BY <3>1, <1>3, <1>6, <2>2 DEF Queued
    <3>2. CASE j \notin mine
      BY <3>2, <1>6, <2>2 DEF PortsInv, Queues
    <3>3. QED
      BY <3>1, <3>2
  <2>4. QED
    BY <2>1, <2>3 DEF Queues
<1>11. NobodyWaitsForTheDead'
  BY <1>1, <1>3, <1>6 DEF PortsInv, NobodyWaitsForTheDead, Queued
<1>12. QED
  BY <1>8, <1>9, <1>10, <1>11 DEF PortsInv
-----------------------------------------------------------------------------
\* One turn of port_send() or of port_recv().
LEMMA CallsKeep ==
    ASSUME PortsInv, NEW p \in Procs, PortSend(p) \/ PortRecv(p) PROVE PortsInv'
BY FailKeeps, SendWaitsKeeps, SendsKeeps, RecvWaitsKeeps, ReceivesKeeps DEF PortSend, PortRecv

\* SYS_recv is only for one's own ports.
LEMMA StillForItself == PortsInv /\ ForItself /\ [Next]_vars => ForItself'
<1> SUFFICES ASSUME PortsInv, ForItself, [Next]_vars PROVE ForItself'
  OBVIOUS
<1>1. \/ call' = call
      \/ \E p \in Procs : SysSend(p) \/ SysRecv(p)
      \/ \E p \in Procs : call' = [call EXCEPT ![p] = NoCall]
  BY DEF Next, vars, SysPortCreate, PortCreate, PortSend, SendFails, SendWaits, Sends, PortRecv,
         RecvFails, RecvWaits, Receives, Return, Signal, TaskExit, PortNotify
<1>2. CASE call' = call
  BY <1>2 DEF ForItself
<1>3. ASSUME NEW p \in Procs, SysSend(p) \/ SysRecv(p) PROVE ForItself'
  <2>1. PICK c : (c.op = "recv" => c.as = p) /\ call' = [call EXCEPT ![p] = c]
    BY <1>3 DEF SysSend, SysRecv, Ask
  <2>2. QED
    BY <2>1 DEF PortsInv, Typed, ForItself
<1>4. ASSUME NEW p \in Procs, call' = [call EXCEPT ![p] = NoCall] PROVE ForItself'
  BY <1>4 DEF PortsInv, Typed, ForItself, NoCall
<1>5. QED
  BY <1>1, <1>2, <1>3, <1>4

\* No step leaves the invariant.
LEMMA Steps == PortsInv /\ ForItself /\ [Next]_vars => PortsInv' /\ ForItself'
<1> SUFFICES ASSUME PortsInv, ForItself, [Next]_vars PROVE PortsInv'
  BY StillForItself
<1>1. CASE UNCHANGED vars
  BY <1>1 DEF vars, PortsInv, Typed, Ring, Full, Queues, OneAsks, NobodyWaitsForTheDead,
              NobodySleepsOnMail, Sleeps
<1>2. ASSUME NEW p \in Procs, SysSend(p) \/ SysRecv(p) PROVE PortsInv'
  BY <1>2, AskKeeps
<1>3. ASSUME NEW p \in Procs, SysPortCreate(p) PROVE PortsInv'
  BY <1>3, CreateKeeps DEF SysPortCreate, Owners
<1>4. ASSUME NEW p \in Procs, PortSend(p) \/ PortRecv(p) PROVE PortsInv'
  BY <1>4, CallsKeep
<1>5. ASSUME NEW p \in Procs, Signal(p) \/ TaskExit(p) PROVE PortsInv'
  BY <1>5, SignalKeeps, ExitKeeps
<1>6. ASSUME NEW i \in PortIds, NEW m \in Notices, PortNotify(i, m) PROVE PortsInv'
  BY <1>6, NotifyKeeps
<1>7. QED
  BY <1>1, <1>2, <1>3, <1>4, <1>5, <1>6 DEF Next

\* The invariant, in every reachable state.
LEMMA Invariant == Spec => [](PortsInv /\ ForItself)
<1>1. Init => ForItself
  BY DEF Init, ForItself, NoCall
<1>2. QED
  BY <1>1, InitInv, Steps, PTL DEF Spec

\* The ports are well formed: the ring is where its indices say it is, and a
\* process is in the queue of its call just while it is blocked.
THEOREM PortsTyped == Spec => []TypeOK
<1>1. PortsInv => TypeOK
  BY DEF PortsInv, Typed, Ring, Queues, Sleeps, TypeOK
<1>2. QED
  BY <1>1, Invariant, PTL

\* port_send(), port_notify() and port_recv() lose no wake-up: the owner never
\* sleeps with mail in its port, whatever the order of the cores.
THEOREM OwnersWakeUp == Spec => []NobodySleepsOnMail
<1>1. PortsInv => NobodySleepsOnMail
  BY DEF PortsInv
<1>2. QED
  BY <1>1, Invariant, PTL

\* ipc_release_ports() leaves nobody behind: nobody waits at a port that is
\* gone, nor for the mail of a port that has another owner by now.
THEOREM TheDeadLeaveNobody == Spec => []NobodyWaitsForTheDead
<1>1. PortsInv => NobodyWaitsForTheDead
  BY DEF PortsInv
<1>2. QED
  BY <1>1, Invariant, PTL
-----------------------------------------------------------------------------
\* The mail of a port is what its record says, and no other port's.
LEMMA SameMail ==
    ASSUME NEW i \in PortIds, ports'[i].in_use = ports[i].in_use,
           ports'[i].owner = ports[i].owner, ports'[i].head = ports[i].head,
           ports'[i].count = ports[i].count, ports'[i].q = ports[i].q
    PROVE  Box'[i] = Box[i] /\ Owner'[i] = Owner[i]
BY DEF Box, Owner

\* A function over the first n places is a sequence of mail.
LEMMA Sequence ==
    ASSUME NEW n \in Nat, NEW f, f = [k \in 1 .. n |-> f[k]], \A k \in 1 .. n : f[k] \in Mail
    PROVE  f \in Seq(Mail) /\ Len(f) = n
<1>1. f \in [1 .. n -> Mail]
  OBVIOUS
<1>2. QED
  BY <1>1

\* Append, place by place.
LEMMA AppendIs ==
    ASSUME NEW s \in Seq(Mail), NEW m \in Mail, NEW n \in Nat, n = Len(s)
    PROVE  Append(s, m) = [k \in 1 .. n + 1 |-> IF k = n + 1 THEN m ELSE s[k]]
<1> DEFINE f == [k \in 1 .. n + 1 |-> IF k = n + 1 THEN m ELSE s[k]]
<1>1. \A k \in 1 .. n + 1 : k # n + 1 => k \in 1 .. n
  OBVIOUS
<1>2. \A k \in 1 .. n : s[k] \in Mail
  OBVIOUS
<1>3. f = [k \in 1 .. n + 1 |-> f[k]] /\ \A k \in 1 .. n + 1 : f[k] \in Mail
  BY <1>1, <1>2
<1>4. /\ Append(s, m) \in Seq(Mail) /\ Len(Append(s, m)) = n + 1
      /\ \A k \in 1 .. n : Append(s, m)[k] = s[k]
      /\ Append(s, m)[n + 1] = m
  OBVIOUS
<1>5. \A k \in 1 .. n + 1 : Append(s, m)[k] = f[k]
  BY <1>1, <1>4
<1> HIDE DEF f
<1>6. n + 1 \in Nat
  OBVIOUS
<1>7. f \in Seq(Mail) /\ Len(f) = n + 1
  BY <1>3, <1>6, Sequence
<1>8. Append(s, m) = f
  BY <1>4, <1>5, <1>7, SeqEqual
<1>9. QED
  BY <1>8 DEF f

\* Tail, place by place.
LEMMA TailIs ==
    ASSUME NEW s \in Seq(Mail), NEW n \in Nat \ {0}, n = Len(s)
    PROVE  /\ s # <<>>
           /\ Head(s) = s[1]
           /\ Tail(s) = [k \in 1 .. n - 1 |-> s[k + 1]]
<1> DEFINE f == [k \in 1 .. n - 1 |-> s[k + 1]]
<1>1. \A k \in 1 .. n - 1 : k + 1 \in 1 .. n
  OBVIOUS
<1>2. \A k \in 1 .. n : s[k] \in Mail
  OBVIOUS
<1>3. f = [k \in 1 .. n - 1 |-> f[k]] /\ \A k \in 1 .. n - 1 : f[k] \in Mail
  BY <1>1, <1>2
<1>4. s # <<>>
  OBVIOUS
<1>5. /\ Head(s) = s[1] /\ Tail(s) \in Seq(Mail) /\ Len(Tail(s)) = n - 1
      /\ \A k \in 1 .. n - 1 : Tail(s)[k] = s[k + 1]
  BY <1>4, HeadTailProperties
<1>6. \A k \in 1 .. n - 1 : Tail(s)[k] = f[k]
  BY <1>5
<1> HIDE DEF f
<1>7. n - 1 \in Nat
  OBVIOUS
<1>8. f \in Seq(Mail) /\ Len(f) = n - 1
  BY <1>3, <1>7, Sequence
<1>9. Tail(s) = f
  BY <1>5, <1>6, <1>8, SeqEqual
<1>10. QED
  BY <1>4, <1>5, <1>9 DEF f

\* What a port in use holds, as the mailbox sees it.
LEMMA MailOf ==
    ASSUME PortsInv, NEW i \in PortIds, ports[i].in_use
    PROVE  /\ Box[i] = [k \in 1 .. ports[i].count |->
                           ports[i].q[(ports[i].head + k - 1) % PORT_QUEUE]]
           /\ Box[i] \in Seq(Mail)
           /\ Len(Box[i]) = ports[i].count
           /\ Owner[i] = ports[i].owner
           /\ Owner[i] # "nobody"
<1> USE PortsAssumption
<1> DEFINE b == [k \in 1 .. ports[i].count |->
                    ports[i].q[(ports[i].head + k - 1) % PORT_QUEUE]]
<1>1. Box[i] = b
  BY DEF Box
<1>2. /\ ports[i].count \in 0 .. PORT_QUEUE /\ ports[i].head \in 0 .. PORT_QUEUE - 1
      /\ ports[i].owner \in Procs \cup {Kernel}
  BY DEF PortsInv, Typed, Port, Owners
<1>3. ASSUME NEW k \in 1 .. ports[i].count PROVE b[k] \in Mail
  <2>1. k - 1 \in 0 .. ports[i].count - 1 /\ ports[i].head + k - 1 = ports[i].head + (k - 1)
    BY <1>2
  <2>2. ports[i].q[(ports[i].head + (k - 1)) % PORT_QUEUE] \in Mail
    BY <2>1 DEF PortsInv, Full
  <2>3. QED
    BY <2>1, <2>2
<1>4. b \in Seq(Mail) /\ Len(b) = ports[i].count
  <2>1. b = [k \in 1 .. ports[i].count |-> b[k]] /\ ports[i].count \in Nat
    BY <1>2
  <2> HIDE DEF b
  <2>2. QED
    BY <2>1, <1>3, Sequence
<1>5. Owner[i] = ports[i].owner
  BY DEF Owner
<1>6. QED
  BY <1>1, <1>2, <1>4, <1>5

\* Put() is Append, and Drop() is Tail.
LEMMA DeliverAppends ==
    ASSUME PortsInv, PortsInv', NEW i \in PortIds, NEW m \in Mail, Deliver(i, m),
           ports[i].count < PORT_QUEUE, ports[i].in_use
    PROVE  Box' = [Box EXCEPT ![i] = Append(@, m)] /\ Owner' = Owner
<1> USE PortsAssumption
<1>1. /\ \A j \in PortIds : j # i => ports'[j] = ports[j]
      /\ ports'[i].in_use /\ ports'[i].owner = ports[i].owner
      /\ ports'[i].q = [ports[i].q EXCEPT ![ports[i].tail] = m]
      /\ ports'[i].head = ports[i].head
      /\ ports'[i].count = ports[i].count + 1
  BY Delivered
<1>2. /\ ports[i].head \in 0 .. PORT_QUEUE - 1 /\ ports[i].count \in 0 .. PORT_QUEUE - 1
      /\ ports[i].tail = (ports[i].head + ports[i].count) % PORT_QUEUE
      /\ ports[i].tail \in 0 .. PORT_QUEUE - 1
      /\ DOMAIN ports[i].q = 0 .. PORT_QUEUE - 1
  BY SMTT(60) DEF PortsInv, Typed, Port, Ring
<1>3. /\ Box[i] \in Seq(Mail) /\ Len(Box[i]) = ports[i].count
      /\ Box[i] = [k \in 1 .. ports[i].count |->
                      ports[i].q[(ports[i].head + k - 1) % PORT_QUEUE]]
  BY <1>1, MailOf
<1>4. /\ Box'[i] = [k \in 1 .. ports[i].count + 1 |->
                       ports'[i].q[(ports[i].head + k - 1) % PORT_QUEUE]]
  BY <1>1 DEF Box
<1> DEFINE n == ports[i].count
           b == Box[i]
           at(k) == (ports[i].head + k - 1) % PORT_QUEUE
<1>5. ASSUME NEW k \in 1 .. n + 1
      PROVE  ports'[i].q[at(k)] = IF k = n + 1 THEN m ELSE b[k]
  <2>1. ports[i].head + k - 1 = ports[i].head + (k - 1) /\ k - 1 \in 0 .. PORT_QUEUE - 1
    BY <1>2
  <2>2. at(k) \in 0 .. PORT_QUEUE - 1
    BY <1>2, <2>1, Places
  <2>3. CASE k = n + 1
    <3>1. k - 1 = n
      BY <2>3, <1>2
    <3>2. at(k) = ports[i].tail
      BY <1>2, <2>1, <3>1
    <3>3. QED
      BY <1>1, <1>2, <2>3, <3>2
  <2>4. CASE k # n + 1
    <3>1. k \in 1 .. n /\ k - 1 # n
      BY <2>4, <1>2
    <3>2. at(k) # ports[i].tail
      BY <1>2, <2>1, <3>1, OtherPlaces
    <3>3. ports'[i].q[at(k)] = ports[i].q[at(k)]
      BY <1>1, <1>2, <2>2, <3>2
    <3>4. b[k] = ports[i].q[at(k)]
      BY <1>3, <3>1
    <3>5. QED
      BY <2>4, <3>3, <3>4
  <2>5. QED
    BY <2>3, <2>4
<1>6. Box'[i] = Append(Box[i], m)
  <2>1. Box'[i] = [k \in 1 .. n + 1 |-> ports'[i].q[at(k)]]
    BY <1>4
  <2>2. b \in Seq(Mail) /\ Len(b) = n /\ n \in Nat
    BY <1>2, <1>3
  <2> HIDE DEF n, b, at
  <2>3. Box'[i] = [k \in 1 .. n + 1 |-> IF k = n + 1 THEN m ELSE b[k]]
    BY <2>1, <1>5
  <2>4. Append(b, m) = [k \in 1 .. n + 1 |-> IF k = n + 1 THEN m ELSE b[k]]
    BY <2>2, AppendIs
  <2>5. QED
    BY <2>3, <2>4 DEF b
<1> HIDE DEF n, b, at
<1>7. \A j \in PortIds : j # i => Box'[j] = Box[j] /\ Owner'[j] = Owner[j]
  BY <1>1, SameMail
<1>8. Owner'[i] = Owner[i]
  BY <1>1 DEF Owner
<1>9. Box' = [j \in PortIds |-> Box'[j]] /\ Box = [j \in PortIds |-> Box[j]]
  BY DEF Box
<1>10. Owner' = [j \in PortIds |-> Owner'[j]] /\ Owner = [j \in PortIds |-> Owner[j]]
  BY DEF Owner
<1>11. Box' = [Box EXCEPT ![i] = Append(@, m)]
  BY <1>6, <1>7, <1>9
<1>12. Owner' = Owner
  BY <1>7, <1>8, <1>10
<1>13. QED
  BY <1>11, <1>12

\* To receive is to take the first of the mailbox.
LEMMA ReceiveTakes ==
    ASSUME PortsInv, PortsInv', NEW p \in Procs, NEW i \in PortIds, Receives(p),
           i = call[p].port
    PROVE  /\ Box' = [Box EXCEPT ![i] = Tail(@)] /\ Owner' = Owner
           /\ Box[i] # <<>>
           /\ Head(Box[i]) = ports[i].q[ports[i].head]
<1> USE PortsAssumption
<1>1. /\ \A j \in PortIds : j # i => ports'[j] = ports[j]
      /\ ports'[i].in_use = ports[i].in_use /\ ports'[i].owner = ports[i].owner
      /\ ports'[i].q = [ports[i].q EXCEPT ![ports[i].head] = NoMail]
      /\ ports'[i].head = (ports[i].head + 1) % PORT_QUEUE
      /\ ports'[i].count = ports[i].count - 1
  BY Received
<1>2. ports[i].in_use /\ ports[i].count > 0
  BY DEF Receives, MayRecv
<1>3. /\ ports[i].head \in 0 .. PORT_QUEUE - 1 /\ ports[i].count \in 1 .. PORT_QUEUE
      /\ DOMAIN ports[i].q = 0 .. PORT_QUEUE - 1
  <2>1. ports[i].count \in 0 .. PORT_QUEUE
    BY DEF PortsInv, Typed, Port
  <2>2. QED
    BY <1>2, <2>1 DEF PortsInv, Typed, Port
<1>4. /\ Box[i] \in Seq(Mail) /\ Len(Box[i]) = ports[i].count
      /\ Box[i] = [k \in 1 .. ports[i].count |->
                      ports[i].q[(ports[i].head + k - 1) % PORT_QUEUE]]
  BY <1>2, MailOf
<1>5. /\ Box'[i] = [k \in 1 .. ports[i].count - 1 |->
                       ports'[i].q[(ports'[i].head + k - 1) % PORT_QUEUE]]
  BY <1>1, <1>2 DEF Box
<1> DEFINE n == ports[i].count
           b == Box[i]
           h == ports[i].head
<1>3a. n \in Nat \ {0} /\ n \in 1 .. PORT_QUEUE /\ h \in 0 .. PORT_QUEUE - 1
  BY <1>3
<1>6. /\ b # <<>> /\ Head(b) = b[1]
      /\ Tail(b) = [k \in 1 .. n - 1 |-> b[k + 1]]
  <2>1. b \in Seq(Mail) /\ n = Len(b)
    BY <1>4
  <2> HIDE DEF n, b
  <2>2. QED
    BY <2>1, <1>3a, TailIs
<1>7. Head(b) = ports[i].q[h]
  <2>1. 1 \in 1 .. n /\ h + 1 - 1 = h + 0 /\ (h + 0) % PORT_QUEUE = h
    <3> HIDE DEF n, h
    <3>1. QED
      BY <1>3a, FirstPlace
  <2>2. b[1] = ports[i].q[(h + 1 - 1) % PORT_QUEUE]
    BY <1>4, <2>1
  <2>3. QED
    BY <2>1, <2>2, <1>6
<1>8. ASSUME NEW k \in 1 .. n - 1
      PROVE  ports'[i].q[(ports'[i].head + k - 1) % PORT_QUEUE] = b[k + 1]
  <2>1. /\ k - 1 \in 0 .. PORT_QUEUE - 1 /\ k \in 0 .. PORT_QUEUE - 1
        /\ k \in 1 .. PORT_QUEUE - 1 /\ k + 1 \in 1 .. n /\ (k - 1) + 1 = k
        /\ h + (k + 1) - 1 = h + k
    <3> HIDE DEF n, h
    <3>1. QED
      BY <1>3a
  <2>2. (((h + 1) % PORT_QUEUE) + (k - 1)) % PORT_QUEUE = (h + ((k - 1) + 1)) % PORT_QUEUE
    BY <1>3, <2>1, NextPlace
  <2>3. (h + 1) % PORT_QUEUE \in 0 .. PORT_QUEUE - 1
    BY <1>3, <2>1, NextPlace
  <2>4. ((h + 1) % PORT_QUEUE) + k - 1 = ((h + 1) % PORT_QUEUE) + (k - 1)
    BY <2>3
  <2>5. (ports'[i].head + k - 1) % PORT_QUEUE = (h + k) % PORT_QUEUE
    BY <1>1, <2>1, <2>2, <2>4
  <2>6. (h + k) % PORT_QUEUE # h
    BY <1>3, <2>1, FirstPlace
  <2>7. (h + k) % PORT_QUEUE \in 0 .. PORT_QUEUE - 1
    BY <1>3, <2>1, Places
  <2>8. ports'[i].q[(h + k) % PORT_QUEUE] = ports[i].q[(h + k) % PORT_QUEUE]
    BY <1>1, <1>3, <2>6, <2>7
  <2>9. b[k + 1] = ports[i].q[(h + (k + 1) - 1) % PORT_QUEUE]
    BY <1>4, <2>1
  <2>10. QED
    BY <2>1, <2>5, <2>8, <2>9
<1>9. Box'[i] = Tail(b)
  <2>1. Box'[i] = [k \in 1 .. n - 1 |->
                      ports'[i].q[(ports'[i].head + k - 1) % PORT_QUEUE]]
    BY <1>5
  <2> HIDE DEF n, b
  <2>2. QED
    BY ZenonT(60), <2>1, <1>6, <1>8
<1>10. \A j \in PortIds : j # i => Box'[j] = Box[j] /\ Owner'[j] = Owner[j]
  BY <1>1, SameMail
<1>11. Owner'[i] = Owner[i]
  BY <1>1 DEF Owner
<1>12. Box' = [j \in PortIds |-> Box'[j]] /\ Box = [j \in PortIds |-> Box[j]]
  BY DEF Box
<1>13. Owner' = [j \in PortIds |-> Owner'[j]] /\ Owner = [j \in PortIds |-> Owner[j]]
  BY DEF Owner
<1>14. Box' = [Box EXCEPT ![i] = Tail(@)]
  BY <1>9, <1>10, <1>12
<1>15. Owner' = Owner
  BY <1>10, <1>11, <1>13
<1>16. QED
  BY <1>6, <1>7, <1>14, <1>15
-----------------------------------------------------------------------------
\* What the calls do to the mail.  Whoever waits leaves it as it is...
LEMMA WaitsLeaveMail ==
    ASSUME PortsInv, NEW p \in Procs, SendWaits(p) \/ RecvWaits(p)
    PROVE  Box' = Box /\ Owner' = Owner
<1> DEFINE c == call[p]
<1>1. c.port \in PortIds
  BY DEF SendWaits, MaySend, RecvWaits, MayRecv, InCall, PortsInv, Typed, SendCalls, RecvCalls,
         NoCall
<1>2. \/ ports' = [ports EXCEPT ![c.port].senders = Append(@, p)]
      \/ ports' = [ports EXCEPT ![c.port].receivers = Append(@, p)]
  BY DEF SendWaits, RecvWaits
<1>3. ASSUME NEW i \in PortIds PROVE Box'[i] = Box[i] /\ Owner'[i] = Owner[i]
  <2>1. ports[i] \in Port
    BY DEF PortsInv, Typed
  <2>2. /\ ports'[i].in_use = ports[i].in_use /\ ports'[i].owner = ports[i].owner
        /\ ports'[i].head = ports[i].head /\ ports'[i].count = ports[i].count
        /\ ports'[i].q = ports[i].q
    <3>1. CASE i = c.port
      <4>1. \/ ports'[i] = [ports[i] EXCEPT !.senders = Append(@, p)]
            \/ ports'[i] = [ports[i] EXCEPT !.receivers = Append(@, p)]
        BY <3>1, <1>2 DEF PortsInv, Typed
      <4>2. QED
        BY <4>1, <2>1 DEF Port
    <3>2. CASE i # c.port
      BY <3>2, <1>2 DEF PortsInv, Typed
    <3>3. QED
      BY <3>1, <3>2
  <2>3. QED
    BY <2>2, SameMail
<1>4. QED
  BY <1>3 DEF Box, Owner

\* ... and so does a signal...
LEMMA SignalLeavesMail ==
    ASSUME PortsInv, NEW p \in Procs, Signal(p) PROVE Box' = Box /\ Owner' = Owner
<1>1. ASSUME NEW i \in PortIds
      PROVE  Box'[i] = Box[i] /\ Owner'[i] = Owner[i]
  <2>1. ports[i] \in Port
    BY DEF PortsInv, Typed
  <2>2. ports'[i] = [ports[i] EXCEPT !.receivers = Without(@, p), !.senders = Without(@, p)]
    BY DEF Signal
  <2>3. /\ ports'[i].in_use = ports[i].in_use /\ ports'[i].owner = ports[i].owner
        /\ ports'[i].head = ports[i].head /\ ports'[i].count = ports[i].count
        /\ ports'[i].q = ports[i].q
    BY <2>1, <2>2 DEF Port
  <2>4. QED
    BY <2>3, SameMail
<1>2. QED
  BY <1>1 DEF Box, Owner

\* ... a port that is new has none...
LEMMA CreateOpens ==
    ASSUME PortsInv, NEW o \in Owners, NEW i \in PortIds, PortCreate(o, i)
    PROVE  Box' = Box /\ Owner' = [Owner EXCEPT ![i] = o] /\ Owner[i] = "nobody"
<1>1. /\ ports' = [ports EXCEPT ![i] = NewPort(o)] /\ ~ports[i].in_use
  BY DEF PortCreate
<1>2. ports'[i] = NewPort(o) /\ \A j \in PortIds : j # i => ports'[j] = ports[j]
  BY <1>1 DEF PortsInv, Typed
<1>3. Box'[i] = <<>> /\ Owner'[i] = o
  BY <1>2 DEF Box, Owner, NewPort
<1>4. Box[i] = <<>> /\ Owner[i] = "nobody"
  BY <1>1 DEF Box, Owner
<1>5. \A j \in PortIds : j # i => Box'[j] = Box[j] /\ Owner'[j] = Owner[j]
  BY <1>2, SameMail
<1>6. Box' = Box
  <2>1. \A j \in PortIds : Box'[j] = Box[j]
    BY <1>3, <1>4, <1>5
  <2>2. QED
    BY <2>1 DEF Box
<1>7. Owner' = [Owner EXCEPT ![i] = o]
  <2>1. Owner' = [j \in PortIds |-> Owner'[j]] /\ Owner = [j \in PortIds |-> Owner[j]]
    BY DEF Owner
  <2>2. QED
    BY <2>1, <1>3, <1>5
<1>8. QED
  BY <1>4, <1>6, <1>7

\* ... and that of the dead is gone.
LEMMA ExitCloses ==
    ASSUME PortsInv, NEW p \in Procs, TaskExit(p)
    PROVE  /\ Owner' = [i \in PortIds |-> IF Owner[i] = p THEN "nobody" ELSE Owner[i]]
           /\ Box' = [i \in PortIds |-> IF Owner[i] = p THEN <<>> ELSE Box[i]]
<1> USE PortsAssumption
<1> DEFINE mine(i) == ports[i].in_use /\ ports[i].owner = p
<1>1. ASSUME NEW i \in PortIds
      PROVE  /\ mine(i) <=> Owner[i] = p
             /\ mine(i) => ~ports'[i].in_use
             /\ ~mine(i) => ports'[i] = ports[i]
  <2>1. ports[i] \in Port /\ p # "nobody"
    BY DEF PortsInv, Typed
  <2>2. mine(i) <=> Owner[i] = p
    BY <2>1 DEF Owner
  <2>3. /\ mine(i) => ~ports'[i].in_use
        /\ ~mine(i) => ports'[i] = ports[i]
    BY <2>1 DEF TaskExit, IpcReleasePorts, Port
  <2>4. QED
    BY <2>2, <2>3
<1> HIDE DEF mine
<1>2. Owner' = [i \in PortIds |-> IF Owner[i] = p THEN "nobody" ELSE Owner[i]]
  <2>1. \A i \in PortIds : Owner'[i] = IF Owner[i] = p THEN "nobody" ELSE Owner[i]
    BY <1>1 DEF Owner
  <2>2. Owner' = [i \in PortIds |-> Owner'[i]]
    BY DEF Owner
  <2>3. QED
    BY <2>1, <2>2
<1>3. Box' = [i \in PortIds |-> IF Owner[i] = p THEN <<>> ELSE Box[i]]
  <2>1. \A i \in PortIds : Box'[i] = IF Owner[i] = p THEN <<>> ELSE Box[i]
    BY <1>1 DEF Box
  <2>2. Box' = [i \in PortIds |-> Box'[i]]
    BY DEF Box
  <2>3. QED
    BY <2>1, <2>2
<1>4. QED
  BY <1>2, <1>3
-----------------------------------------------------------------------------
\* Each action is one of the mailbox's, or none.
LEMMA MapsSend ==
    ASSUME PortsInv, PortsInv', NEW p \in Procs, PortSend(p)
    PROVE  [Abstract!Next]_(Abstract!vars)
<1> USE PortsAssumption
<1> DEFINE c == call[p]
<1>1. c \in SendCalls
  BY DEF PortSend, SendFails, SendWaits, Sends, MaySend, InCall, PortsInv, Typed,
         SendCalls, RecvCalls, NoCall
<1>2. c.port \in PortIds /\ c.msg \in Mail
  BY <1>1 DEF SendCalls
<1>3. c # NoCall
  BY <1>1 DEF SendCalls, NoCall
<1>4. CASE SendFails(p)
  <2>1. Box' = Box /\ Owner' = Owner
    BY <1>4 DEF SendFails, Box, Owner
  <2>2. Abstract!Refuse(p)
    BY <1>3, <1>4, <2>1 DEF SendFails, Return, NoCall, Error,
       Abstract!Refuse, Abstract!Return, Abstract!NoCall, Abstract!Error
  <2>3. QED
    BY <2>2 DEF Abstract!Next
<1>5. CASE SendWaits(p)
  BY <1>5, WaitsLeaveMail DEF SendWaits, Abstract!vars
<1>6. CASE Sends(p)
  <2>1. /\ ports[c.port].in_use /\ ports[c.port].count < PORT_QUEUE
        /\ Deliver(c.port, c.msg) /\ Return(p, Ok)
    BY <1>6 DEF Sends, MaySend
  <2>2. Box' = [Box EXCEPT ![c.port] = Append(@, c.msg)] /\ Owner' = Owner
    BY <1>2, <2>1, DeliverAppends
  <2>3. Owner[c.port] # "nobody" /\ Len(Box[c.port]) = ports[c.port].count
    BY <1>2, <2>1, MailOf
  <2>4. Abstract!Accept(p)
    BY <1>1, <2>1, <2>2, <2>3 DEF Return, NoCall, Ok, SendCalls, Abstract!SendCalls,
       Abstract!Accept, Abstract!Return, Abstract!NoCall, Abstract!Ok, Abstract!Nobody
  <2>5. QED
    BY <2>4 DEF Abstract!Next
<1>7. QED
  BY <1>4, <1>5, <1>6 DEF PortSend

\* A turn inside receive is a step of the mailbox, or none.
LEMMA MapsRecv ==
    ASSUME PortsInv, PortsInv', NEW p \in Procs, PortRecv(p)
    PROVE  [Abstract!Next]_(Abstract!vars)
<1> USE PortsAssumption
<1> DEFINE c == call[p]
<1>1. c \in RecvCalls
  BY DEF PortRecv, RecvFails, RecvWaits, Receives, MayRecv, InCall, PortsInv, Typed,
         SendCalls, RecvCalls, NoCall
<1>2. c.port \in PortIds
  BY <1>1 DEF RecvCalls
<1>3. c # NoCall
  BY <1>1 DEF RecvCalls, NoCall
<1>4. CASE RecvFails(p)
  <2>1. Box' = Box /\ Owner' = Owner
    BY <1>4 DEF RecvFails, Box, Owner
  <2>2. Abstract!Refuse(p)
    BY <1>3, <1>4, <2>1 DEF RecvFails, Return, NoCall, Error,
       Abstract!Refuse, Abstract!Return, Abstract!NoCall, Abstract!Error
  <2>3. QED
    BY <2>2 DEF Abstract!Next
<1>5. CASE RecvWaits(p)
  BY <1>5, WaitsLeaveMail DEF RecvWaits, Abstract!vars
<1>6. CASE Receives(p)
  <2>1. /\ ports[c.port].in_use /\ ports[c.port].owner = c.as
        /\ Return(p, Got(ports[c.port].q[ports[c.port].head]))
    BY <1>6 DEF Receives, MayRecv
  <2>2. /\ Box' = [Box EXCEPT ![c.port] = Tail(@)] /\ Owner' = Owner
        /\ Box[c.port] # <<>>
        /\ Head(Box[c.port]) = ports[c.port].q[ports[c.port].head]
    BY <1>2, <1>6, ReceiveTakes
  <2>3. Owner[c.port] = c.as
    BY <1>2, <2>1, MailOf
  <2>4. Abstract!Take(p)
    BY <1>1, <2>1, <2>2, <2>3 DEF Return, NoCall, Got, RecvCalls, Abstract!RecvCalls,
       Abstract!Take, Abstract!Return, Abstract!NoCall, Abstract!Got
  <2>5. QED
    BY <2>4 DEF Abstract!Next
<1>7. QED
  BY <1>4, <1>5, <1>6 DEF PortRecv

\* The same for the beginnings of calls, opening, closing, notices and signals.
LEMMA MapsTheRest ==
    ASSUME PortsInv, PortsInv', [Next]_vars,
           ~ \E p \in Procs : PortSend(p) \/ PortRecv(p)
    PROVE  [Abstract!Next]_(Abstract!vars)
<1> USE PortsAssumption
<1>1. CASE UNCHANGED vars
  BY <1>1 DEF vars, Abstract!vars, Box, Owner
<1>2. ASSUME NEW p \in Procs, SysSend(p) \/ SysRecv(p) PROVE Abstract!Ask(p)
  <2>1. PICK c \in SendCalls \cup RecvCalls : Ask(p, c)
    <3>1. \A i \in PortIds, m \in Msgs : [op |-> "send", port |-> i, msg |-> m] \in SendCalls
      BY DEF SendCalls, Mail
    <3>2. \A i \in PortIds : [op |-> "recv", port |-> i, as |-> p] \in RecvCalls
      BY DEF RecvCalls, Owners
    <3>3. QED
      BY <1>2, <3>1, <3>2 DEF SysSend, SysRecv
  <2>2. call[p] = NoCall
    BY <2>1 DEF Ask, InCall, PortsInv, Typed, SendCalls, RecvCalls
  <2>3. Box' = Box /\ Owner' = Owner
    BY <2>1 DEF Ask, Box, Owner
  <2>4. QED
    BY <2>1, <2>2, <2>3 DEF Ask, NoCall, None, SendCalls, RecvCalls, Abstract!Ask,
       Abstract!NoCall, Abstract!None, Abstract!SendCalls, Abstract!RecvCalls
<1>3. ASSUME NEW p \in Procs, NEW i \in PortIds, PortCreate(p, i) PROVE Abstract!Open(p, i)
  <2>1. Box' = Box /\ Owner' = [Owner EXCEPT ![i] = p] /\ Owner[i] = "nobody"
    BY <1>3, CreateOpens DEF Owners
  <2>2. QED
    BY <1>3, <2>1 DEF PortCreate, Abstract!Open, Abstract!Nobody
<1>4. ASSUME NEW p \in Procs, Signal(p) PROVE UNCHANGED Abstract!vars
  BY <1>4, SignalLeavesMail DEF Signal, Abstract!vars
<1>5. ASSUME NEW p \in Procs, TaskExit(p) PROVE Abstract!Close(p)
  BY <1>5, ExitCloses DEF TaskExit, Abstract!Close, Abstract!Nobody
<1>6. ASSUME NEW i \in PortIds, NEW m \in Notices, PortNotify(i, m) PROVE Abstract!Post(i)
  <2>1. /\ ports[i].in_use /\ ports[i].count < PORT_QUEUE /\ Deliver(i, m) /\ m \in Mail
        /\ UNCHANGED <<call, answer>>
    BY <1>6 DEF PortNotify, Mail
  <2>2. Box' = [Box EXCEPT ![i] = Append(@, m)] /\ Owner' = Owner
    BY <2>1, DeliverAppends
  <2>3. Owner[i] # "nobody" /\ Len(Box[i]) = ports[i].count
    BY <2>1, MailOf
  <2>4. QED
    BY <2>1, <2>2, <2>3 DEF Abstract!Post, Abstract!Nobody
<1>7. Procs \subseteq Owners
  BY DEF Owners
<1>8. QED
  BY <1>1, <1>2, <1>3, <1>4, <1>5, <1>6, <1>7 DEF Next, SysPortCreate, Abstract!Next

\* The ring, the two wait queues and their wake-ups of src/ipc.c implement a
\* mailbox: what is accepted is received once, in order and by the owner of
\* that moment, for any number of ports, processes and slots.
THEOREM PortsAreMailboxes == Spec => IsAMailbox
<1>1. Init => Abstract!Init
  <2> SUFFICES ASSUME Init PROVE Abstract!Init
    OBVIOUS
  <2>1. \A i \in PortIds : ~ports[i].in_use
    BY DEF Init, NewPort
  <2>2. Box = [i \in PortIds |-> <<>>] /\ Owner = [i \in PortIds |-> "nobody"]
    BY <2>1 DEF Box, Owner
  <2>3. QED
    BY <2>2 DEF Init, NoCall, None, Abstract!Init, Abstract!Nobody, Abstract!NoCall,
       Abstract!None
<1>2. PortsInv /\ PortsInv' /\ [Next]_vars => [Abstract!Next]_(Abstract!vars)
  BY MapsSend, MapsRecv, MapsTheRest
<1>3. QED
  BY <1>1, <1>2, Invariant, PTL DEF Spec, IsAMailbox, Abstract!Spec
-----------------------------------------------------------------------------
\* Room.  Those who are on the way to take it are in port_send(), awake and not
\* cut; a process that waits has not been cut yet.
OnTheWay(i) == {p \in Procs : InCall(p, "send") /\ ~interrumpido[p] /\ call[p].port = i}

RoomInv ==
    /\ \A p \in Procs : state[p] = "BLOCKED" => ~interrumpido[p]
    /\ \A i \in PortIds :
          ports[i].senders # <<>> => PORT_QUEUE - ports[i].count <= Cardinality(OnTheWay(i))

\* Those on their way are finitely many.
LEMMA Counted ==
    ASSUME NEW i \in PortIds
    PROVE  IsFiniteSet(OnTheWay(i)) /\ Cardinality(OnTheWay(i)) \in Nat
BY PortsAssumption, FS_Subset, FS_CardinalityType DEF OnTheWay

\* A port whose room does not grow and whose senders are as many.
LEMMA RoomStays ==
    ASSUME PortsInv, PortsInv', RoomInv, NEW i \in PortIds,
           ports[i].senders = <<>> => ports'[i].senders = <<>>,
           ports'[i].count \in Nat, ports'[i].count >= ports[i].count,
           OnTheWay(i) \subseteq OnTheWay(i)'
    PROVE  ports'[i].senders # <<>> => PORT_QUEUE - ports'[i].count <= Cardinality(OnTheWay(i)')
<1>1. /\ IsFiniteSet(OnTheWay(i)') /\ Cardinality(OnTheWay(i)') \in Nat
      /\ Cardinality(OnTheWay(i)) \in Nat
  BY Counted, PortsAssumption, FS_Subset, FS_CardinalityType DEF OnTheWay
<1>2. Cardinality(OnTheWay(i)) <= Cardinality(OnTheWay(i)')
  BY <1>1, FS_Subset
<1>3. ports[i].count \in Nat
  BY PortsAssumption DEF PortsInv, Typed, Port
<1>4. QED
  BY <1>1, <1>2, <1>3, PortsAssumption DEF RoomInv

\* Nobody waits for room at the start.
LEMMA InitRoom == Init => RoomInv
BY DEF Init, NewPort, RoomInv

\* No step makes more room than it wakes senders for.
LEMMA RoomSteps == PortsInv /\ PortsInv' /\ RoomInv /\ [Next]_vars => RoomInv'
<1> SUFFICES ASSUME PortsInv, PortsInv', RoomInv, [Next]_vars PROVE RoomInv'
  OBVIOUS
<1> USE PortsAssumption
<1>0. \A i \in PortIds : /\ ports[i].count \in 0 .. PORT_QUEUE /\ ports'[i].count \in 0 .. PORT_QUEUE
                         /\ ports[i] \in Port
  BY DEF PortsInv, Typed, Port
<1>1. CASE UNCHANGED vars
  BY <1>1 DEF vars, RoomInv, OnTheWay, InCall
<1>2. ASSUME NEW p \in Procs, state[p] = "RUNNING", UNCHANGED <<ports, state>>,
             call[p].op = "send" => interrumpido[p] \/ ~ports[call[p].port].in_use,
             NEW c, call' = [call EXCEPT ![p] = c],
             interrumpido' = [interrumpido EXCEPT ![p] = FALSE]
      PROVE  RoomInv'
  <2>1. \A u \in Procs : u # p => call'[u] = call[u] /\ interrumpido'[u] = interrumpido[u]
    BY <1>2 DEF PortsInv, Typed
  <2>2. \A u \in Procs : state'[u] = "BLOCKED" => ~interrumpido'[u]
    BY <1>2, <2>1 DEF RoomInv
  <2>3. ASSUME NEW i \in PortIds
        PROVE  ports'[i].senders # <<>> => PORT_QUEUE - ports'[i].count <= Cardinality(OnTheWay(i)')
    <3>1. CASE p \notin OnTheWay(i)
      <4>1. OnTheWay(i) \subseteq OnTheWay(i)'
        BY <1>2, <2>1, <3>1 DEF OnTheWay, InCall
      <4>2. QED
        BY <4>1, <1>0, <1>2, RoomStays
    <3>2. CASE p \in OnTheWay(i)
      BY <1>2, <3>2 DEF OnTheWay, InCall, PortsInv, NobodyWaitsForTheDead
    <3>3. QED
      BY <3>1, <3>2
  <2>4. QED
    BY <2>2, <2>3 DEF RoomInv
<1>3. ASSUME NEW p \in Procs, SysSend(p) \/ SysRecv(p) PROVE RoomInv'
  <2>1. PICK c : Ask(p, c)
    BY <1>3 DEF SysSend, SysRecv
  <2>2. QED
    BY <2>1, <1>2 DEF Ask, InCall
<1>4. ASSUME NEW p \in Procs, SendFails(p) PROVE RoomInv'
  BY <1>4, <1>2 DEF SendFails, Return, InCall
<1>5. ASSUME NEW p \in Procs, RecvFails(p) PROVE RoomInv'
  BY <1>5, <1>2 DEF RecvFails, Return, InCall
<1>6. ASSUME NEW p \in Procs, SendWaits(p) PROVE RoomInv'
  <2> DEFINE j == call[p].port
  <2>1. /\ ports[j].count = PORT_QUEUE /\ ~interrumpido[p] /\ InCall(p, "send")
        /\ ports' = [ports EXCEPT ![j].senders = Append(@, p)]
        /\ state' = [state EXCEPT ![p] = "BLOCKED"]
        /\ UNCHANGED <<interrumpido, call, answer>>
    BY <1>6 DEF SendWaits, MaySend
  <2>2. j \in PortIds
    BY <2>1 DEF InCall, PortsInv, Typed, SendCalls, RecvCalls, NoCall
  <2>3. \A u \in Procs : state'[u] = "BLOCKED" => ~interrumpido'[u]
    BY <2>1 DEF RoomInv, PortsInv, Typed
  <2>4. ports'[j].count = ports[j].count /\ \A i \in PortIds : i # j => ports'[i] = ports[i]
    <3>1. ports'[j] = [ports[j] EXCEPT !.senders = Append(@, p)]
      BY <2>1, <2>2 DEF PortsInv, Typed
    <3>2. QED
      BY <2>1, <2>2, <3>1, <1>0 DEF PortsInv, Typed, Port
  <2>5. ASSUME NEW i \in PortIds
        PROVE  ports'[i].senders # <<>> => PORT_QUEUE - ports'[i].count <= Cardinality(OnTheWay(i)')
    <3>1. CASE i = j
      <4>1. ports'[i].count = PORT_QUEUE
        BY <2>1, <2>4, <3>1
      <4>2. Cardinality(OnTheWay(i)') \in Nat
        BY FS_Subset, FS_CardinalityType DEF OnTheWay
      <4>3. QED
        BY <4>1, <4>2
    <3>2. CASE i # j
      <4>1. OnTheWay(i) \subseteq OnTheWay(i)'
        BY <2>1, <3>2 DEF OnTheWay, InCall, PortsInv, Typed
      <4>2. QED
        BY <4>1, <1>0, <2>4, <3>2, RoomStays
    <3>3. QED
      BY <3>1, <3>2
  <2>6. QED
    BY <2>3, <2>5 DEF RoomInv
<1>7. ASSUME NEW i \in PortIds, NEW m \in Mail, Deliver(i, m), ports[i].count < PORT_QUEUE
      PROVE  /\ \A u \in Procs : state'[u] = "BLOCKED" => state[u] = "BLOCKED"
             /\ \A u \in Procs : state[u] = "RUNNING" => state'[u] = "RUNNING"
             /\ \A j \in PortIds : ports'[j].senders = ports[j].senders
             /\ \A j \in PortIds : ports'[j].count = IF j = i THEN ports[i].count + 1
                                                      ELSE ports[j].count
  <2>1. /\ \A u \in Procs : state'[u] = IF u \in Queued(ports[i].receivers)
                                        THEN "RUNNING" ELSE state[u]
        /\ \A j \in PortIds : j # i => ports'[j] = ports[j]
        /\ ports'[i].senders = ports[i].senders /\ ports'[i].count = ports[i].count + 1
    BY <1>7, Delivered
  <2>2. QED
    BY <2>1
<1>8. ASSUME NEW i \in PortIds, NEW m \in Notices, PortNotify(i, m) PROVE RoomInv'
  <2>1. /\ Deliver(i, m) /\ ports[i].count < PORT_QUEUE /\ m \in Mail
        /\ UNCHANGED <<interrumpido, call, answer>>
    BY <1>8 DEF PortNotify, Mail
  <2>2. ASSUME NEW j \in PortIds
        PROVE  ports'[j].senders # <<>> => PORT_QUEUE - ports'[j].count <= Cardinality(OnTheWay(j)')
    <3>1. OnTheWay(j) \subseteq OnTheWay(j)'
      BY <2>1, <1>7 DEF OnTheWay, InCall
    <3>2. ports'[j].senders = ports[j].senders /\ ports'[j].count >= ports[j].count
          /\ ports'[j].count \in Nat
      BY <2>1, <1>7, <1>0
    <3>3. QED
      BY <3>1, <3>2, RoomStays
  <2>3. QED
    BY <2>1, <2>2, <1>7 DEF RoomInv
<1>9. ASSUME NEW p \in Procs, Sends(p) PROVE RoomInv'
  <2>0. PICK i \in PortIds : i = call[p].port
    BY <1>9 DEF Sends, MaySend, InCall, PortsInv, Typed, SendCalls, RecvCalls, NoCall
  <2>1. /\ Deliver(i, call[p].msg) /\ ports[i].count < PORT_QUEUE
        /\ InCall(p, "send") /\ ~interrumpido[p]
        /\ call' = [call EXCEPT ![p] = NoCall]
        /\ interrumpido' = [interrumpido EXCEPT ![p] = FALSE]
    BY <1>9, <2>0 DEF Sends, MaySend, Return
  <2>2. call[p].msg \in Mail
    BY <2>1 DEF InCall, PortsInv, Typed, SendCalls, RecvCalls, NoCall
  <2>3. \A u \in Procs : u # p => call'[u] = call[u] /\ interrumpido'[u] = interrumpido[u]
    BY <2>1 DEF PortsInv, Typed
  <2>4. /\ \A u \in Procs : state'[u] = "BLOCKED" => state[u] = "BLOCKED"
        /\ \A u \in Procs : state[u] = "RUNNING" => state'[u] = "RUNNING"
        /\ \A j \in PortIds : ports'[j].senders = ports[j].senders
        /\ \A j \in PortIds : ports'[j].count = IF j = i THEN ports[i].count + 1
                                                 ELSE ports[j].count
    BY <2>1, <2>2, <1>7
  <2>5. \A u \in Procs : state'[u] = "BLOCKED" => ~interrumpido'[u]
    BY <2>1, <2>3, <2>4 DEF RoomInv, PortsInv, Typed
  <2>6. ASSUME NEW j \in PortIds
        PROVE  ports'[j].senders # <<>> => PORT_QUEUE - ports'[j].count <= Cardinality(OnTheWay(j)')
    <3>1. OnTheWay(j) \ {p} \subseteq OnTheWay(j)'
      BY <2>3, <2>4 DEF OnTheWay, InCall
    <3>2. CASE j # i
      <4>1. p \notin OnTheWay(j)
        BY <2>0, <3>2 DEF OnTheWay
      <4>2. OnTheWay(j) \subseteq OnTheWay(j)'
        BY <3>1, <4>1
      <4>3. QED
        BY <1>0, <2>4, <3>2, <4>2, RoomStays
    <3>3. CASE j = i
      <4>1. p \in OnTheWay(i)
        BY <2>0, <2>1 DEF OnTheWay
      <4>2. /\ IsFiniteSet(OnTheWay(i)) /\ IsFiniteSet(OnTheWay(i)')
            /\ Cardinality(OnTheWay(i)) \in Nat /\ Cardinality(OnTheWay(i)') \in Nat
        BY FS_Subset, FS_CardinalityType DEF OnTheWay
      <4>3. Cardinality(OnTheWay(i) \ {p}) = Cardinality(OnTheWay(i)) - 1
        BY <4>1, <4>2, FS_RemoveElement
      <4>4. Cardinality(OnTheWay(i) \ {p}) <= Cardinality(OnTheWay(i)')
        BY <3>1, <3>3, <4>2, FS_Subset
      <4>5. ASSUME ports[i].senders # <<>> PROVE PORT_QUEUE - ports[i].count <= Cardinality(OnTheWay(i))
        BY <2>2, <4>5 DEF RoomInv
      <4>6. ports[i].count \in Nat /\ ports'[i].count = ports[i].count + 1
            /\ ports'[i].senders = ports[i].senders
        BY <1>0, <2>2, <2>4
      <4> DEFINE a == Cardinality(OnTheWay(i))
                 b == Cardinality(OnTheWay(i)')
      <4>7. b >= a - 1 /\ a \in Nat /\ b \in Nat
        BY <4>2, <4>3, <4>4
      <4> HIDE DEF a, b
      <4>8. ports'[i].senders # <<>> => PORT_QUEUE - ports'[i].count <= b
        BY <4>5, <4>6, <4>7 DEF a
      <4>9. QED
        BY <3>3, <4>8 DEF b
    <3>4. QED
      BY <3>2, <3>3
  <2>7. QED
    BY <2>5, <2>6 DEF RoomInv
<1>10. ASSUME NEW p \in Procs, RecvWaits(p) PROVE RoomInv'
  <2>0. PICK j \in PortIds : j = call[p].port
    BY <1>10 DEF RecvWaits, MayRecv, InCall, PortsInv, Typed, SendCalls, RecvCalls, NoCall
  <2>1. /\ ~interrumpido[p] /\ InCall(p, "recv")
        /\ ports' = [ports EXCEPT ![j].receivers = Append(@, p)]
        /\ state' = [state EXCEPT ![p] = "BLOCKED"]
        /\ UNCHANGED <<interrumpido, call, answer>>
    BY <1>10, <2>0 DEF RecvWaits, MayRecv
  <2>2. \A u \in Procs : state'[u] = "BLOCKED" => ~interrumpido'[u]
    BY <2>1 DEF RoomInv, PortsInv, Typed
  <2>3. ASSUME NEW i \in PortIds
        PROVE  ports'[i].senders = ports[i].senders /\ ports'[i].count = ports[i].count
    <3>1. CASE i = j
      <4>1. ports'[j] = [ports[j] EXCEPT !.receivers = Append(@, p)]
        BY <2>1 DEF PortsInv, Typed
      <4>2. QED
        BY <3>1, <4>1, <1>0 DEF Port
    <3>2. CASE i # j
      BY <3>2, <2>1 DEF PortsInv, Typed
    <3>3. QED
      BY <3>1, <3>2
  <2>4. ASSUME NEW i \in PortIds PROVE OnTheWay(i) \subseteq OnTheWay(i)'
    BY <2>1 DEF OnTheWay, InCall, PortsInv, Typed
  <2>5. ASSUME NEW i \in PortIds
        PROVE  ports'[i].senders # <<>> => PORT_QUEUE - ports'[i].count <= Cardinality(OnTheWay(i)')
    BY <1>0, <2>3, <2>4, RoomStays
  <2>6. QED
    BY <2>2, <2>5 DEF RoomInv
<1>11. ASSUME NEW p \in Procs, Receives(p) PROVE RoomInv'
  <2>0. PICK i \in PortIds : i = call[p].port
    BY <1>11 DEF Receives, MayRecv, InCall, PortsInv, Typed, SendCalls, RecvCalls, NoCall
  <2>1. /\ InCall(p, "recv")
        /\ call' = [call EXCEPT ![p] = NoCall]
        /\ interrumpido' = [interrumpido EXCEPT ![p] = FALSE]
    BY <1>11 DEF Receives, MayRecv, Return
  <2>2. \A u \in Procs : u # p => call'[u] = call[u] /\ interrumpido'[u] = interrumpido[u]
    BY <2>1 DEF PortsInv, Typed
  <2>3. /\ \A j \in PortIds : j # i => ports'[j] = ports[j]
        /\ ports'[i].count = ports[i].count - 1
        /\ ports'[i].senders = Rest(ports[i].senders)
        /\ \A u \in Procs : state'[u] = IF u \in First(ports[i].senders)
                                        THEN "RUNNING" ELSE state[u]
    BY <1>11, <2>0, Received
  <2>4. /\ ports[i].senders \in Seq(Procs)
        /\ First(ports[i].senders) \subseteq Queued(ports[i].senders)
        /\ First(ports[i].senders) = IF ports[i].senders = <<>> THEN {} ELSE {ports[i].senders[1]}
        /\ ports[i].senders = <<>> => Rest(ports[i].senders) = <<>>
    BY OneReceiver, RestOfQueue DEF PortsInv, Queues
  <2>5. \A u \in Procs : state'[u] = "BLOCKED" => ~interrumpido'[u]
    BY <2>1, <2>2, <2>3 DEF RoomInv, PortsInv, Typed
  <2>6. ASSUME NEW j \in PortIds PROVE OnTheWay(j) \subseteq OnTheWay(j)'
    BY <2>1, <2>2, <2>3 DEF OnTheWay, InCall
  <2>7. ASSUME NEW j \in PortIds
        PROVE  ports'[j].senders # <<>> => PORT_QUEUE - ports'[j].count <= Cardinality(OnTheWay(j)')
    <3>1. CASE j # i
      BY <1>0, <2>3, <2>6, <3>1, RoomStays
    <3>2. CASE j = i /\ ports[i].senders = <<>>
      BY <2>3, <2>4, <3>2
    <3>3. CASE j = i /\ ports[i].senders # <<>>
      <4>1. PICK u \in Procs : u = ports[i].senders[1]
        BY <2>4, <3>3
      <4>2. u \in Queued(ports[i].senders)
        BY <2>4, <3>3, <4>1
      <4>3. state[u] = "BLOCKED" /\ call[u].op = "send" /\ call[u].port = i /\ ~interrumpido[u]
        BY <4>2 DEF PortsInv, Queues, Sleeps, RoomInv
      <4>4. u \notin OnTheWay(i) /\ u # p
        BY <2>1, <4>3 DEF OnTheWay, InCall
      <4>5. u \in OnTheWay(i)'
        BY <2>2, <2>3, <2>4, <3>3, <4>1, <4>3, <4>4 DEF OnTheWay, InCall
      <4>6. /\ IsFiniteSet(OnTheWay(i)) /\ IsFiniteSet(OnTheWay(i)')
            /\ Cardinality(OnTheWay(i)) \in Nat /\ Cardinality(OnTheWay(i)') \in Nat
        BY FS_Subset, FS_CardinalityType DEF OnTheWay
      <4>7. Cardinality(OnTheWay(i) \cup {u}) = Cardinality(OnTheWay(i)) + 1
        BY <4>4, <4>6, FS_AddElement
      <4>8. OnTheWay(i) \cup {u} \subseteq OnTheWay(i)'
        BY <2>6, <4>5
      <4>9. Cardinality(OnTheWay(i)) + 1 <= Cardinality(OnTheWay(i)')
        BY <4>6, <4>7, <4>8, FS_Subset
      <4>10. PORT_QUEUE - ports[i].count <= Cardinality(OnTheWay(i))
        BY <3>3 DEF RoomInv
      <4>11. ports[i].count \in Nat /\ ports'[i].count = ports[i].count - 1
        BY <1>0, <2>3
      <4> DEFINE a == Cardinality(OnTheWay(i))
                 b == Cardinality(OnTheWay(i)')
      <4>12. b >= a + 1 /\ a \in Nat /\ b \in Nat /\ PORT_QUEUE - ports[i].count <= a
        BY <4>6, <4>9, <4>10
      <4> HIDE DEF a, b
      <4>13. PORT_QUEUE - ports'[i].count <= b
        BY <4>11, <4>12
      <4>14. QED
        BY <3>3, <4>13 DEF b
    <3>4. QED
      BY <3>1, <3>2, <3>3
  <2>8. QED
    BY <2>5, <2>7 DEF RoomInv
<1>12. ASSUME NEW p \in Procs, Signal(p) PROVE RoomInv'
  <2>1. /\ state[p] = "BLOCKED" /\ UNCHANGED <<call, answer>>
        /\ state' = [state EXCEPT ![p] = "RUNNING"]
        /\ interrumpido' = [interrumpido EXCEPT ![p] = TRUE]
        /\ \A i \in PortIds : ports'[i] = [ports[i] EXCEPT !.receivers = Without(@, p),
                                                           !.senders = Without(@, p)]
    BY <1>12 DEF Signal
  <2>2. \A u \in Procs : state'[u] = "BLOCKED" => ~interrumpido'[u]
    BY <2>1 DEF RoomInv, PortsInv, Typed
  <2>3. ASSUME NEW i \in PortIds
        PROVE  /\ ports'[i].senders = Without(ports[i].senders, p)
               /\ ports'[i].count = ports[i].count
    BY <1>0, <2>1 DEF Port
  <2>4. ASSUME NEW i \in PortIds, ports[i].senders = <<>> PROVE ports'[i].senders = <<>>
    BY <2>3, <2>4, OneReceiver, LeaveQueue DEF PortsInv, Queues
  <2>5. ASSUME NEW i \in PortIds PROVE OnTheWay(i) \subseteq OnTheWay(i)'
    BY <2>1 DEF OnTheWay, InCall, PortsInv, Typed
  <2>6. ASSUME NEW i \in PortIds
        PROVE  ports'[i].senders # <<>> => PORT_QUEUE - ports'[i].count <= Cardinality(OnTheWay(i)')
    BY <1>0, <2>3, <2>4, <2>5, RoomStays
  <2>7. QED
    BY <2>2, <2>6 DEF RoomInv
<1>13. ASSUME NEW p \in Procs, NEW j \in PortIds, PortCreate(p, j) PROVE RoomInv'
  <2>1. /\ ports' = [ports EXCEPT ![j] = NewPort(p)]
        /\ UNCHANGED <<state, interrumpido, call, answer>>
    BY <1>13 DEF PortCreate
  <2>2. ports'[j].senders = <<>> /\ \A i \in PortIds : i # j => ports'[i] = ports[i]
    BY <2>1 DEF PortsInv, Typed, NewPort
  <2>3. \A i \in PortIds : OnTheWay(i)' = OnTheWay(i)
    BY <2>1 DEF OnTheWay, InCall
  <2>4. QED
    BY <2>1, <2>2, <2>3 DEF RoomInv
<1>14. ASSUME NEW p \in Procs, TaskExit(p) PROVE RoomInv'
  <2> DEFINE mine == {i \in PortIds : ports[i].in_use /\ ports[i].owner = p}
             waiting == UNION {Queued(ports[i].senders) \cup Queued(ports[i].receivers) : i \in mine}
  <2>1. /\ InCall(p, "none") /\ UNCHANGED <<interrumpido, call, answer>>
        /\ \A i \in PortIds : i \notin mine => ports'[i] = ports[i]
        /\ \A u \in Procs : state'[u] = IF u = p THEN "ZOMBIE"
                                        ELSE IF u \in waiting THEN "RUNNING" ELSE state[u]
    BY <1>14 DEF TaskExit, IpcReleasePorts
  <2>2. \A i \in mine : ports'[i].senders = <<>>
    BY <1>0, <1>14 DEF TaskExit, IpcReleasePorts, Port
  <2> HIDE DEF mine, waiting
  <2>3. \A u \in Procs : state'[u] = "BLOCKED" => state[u] = "BLOCKED"
    BY <2>1
  <2>4. ASSUME NEW i \in PortIds PROVE OnTheWay(i) \subseteq OnTheWay(i)'
    BY <2>1 DEF OnTheWay, InCall
  <2>5. ASSUME NEW i \in PortIds
        PROVE  ports'[i].senders # <<>> => PORT_QUEUE - ports'[i].count <= Cardinality(OnTheWay(i)')
    <3>1. CASE i \in mine
      BY <2>2, <3>1
    <3>2. CASE i \notin mine
      BY <1>0, <2>1, <2>4, <3>2, RoomStays
    <3>3. QED
      BY <3>1, <3>2
  <2>6. QED
    BY <2>1, <2>3, <2>5 DEF RoomInv
<1>15. QED
  BY <1>1, <1>3, <1>4, <1>5, <1>6, <1>8, <1>9, <1>10, <1>11, <1>12, <1>13, <1>14
     DEF Next, PortSend, PortRecv, SysPortCreate

\* port_recv() wakes one sender for each place it leaves, and a sender that a
\* signal takes away takes no wake-up of another with it: wherever senders
\* sleep, as many are on their way as there is room.
THEOREM RoomForThoseWhoWait == Spec => []RoomIsOffered
<1>1. PortsInv /\ RoomInv => RoomIsOffered
  <2> SUFFICES ASSUME PortsInv, RoomInv, NEW i \in PortIds, ports[i].senders # <<>>
               PROVE  PORT_QUEUE - ports[i].count
                        <= Cardinality({p \in Procs : InCall(p, "send") /\ call[p].port = i})
    BY DEF RoomIsOffered
  <2> DEFINE S == {p \in Procs : InCall(p, "send") /\ call[p].port = i}
  <2>1. OnTheWay(i) \subseteq S /\ S \subseteq Procs
    BY DEF OnTheWay
  <2> HIDE DEF S
  <2>2. /\ Cardinality(OnTheWay(i)) <= Cardinality(S)
        /\ Cardinality(OnTheWay(i)) \in Nat /\ Cardinality(S) \in Nat
    BY <2>1, PortsAssumption, FS_Subset, FS_CardinalityType, Counted
  <2>3. PORT_QUEUE - ports[i].count <= Cardinality(OnTheWay(i))
    BY DEF RoomInv
  <2>4. ports[i].count \in Nat
    BY PortsAssumption DEF PortsInv, Typed, Port
  <2>5. PORT_QUEUE - ports[i].count <= Cardinality(S)
    BY <2>2, <2>3, <2>4, PortsAssumption
  <2>6. QED
    BY <2>5 DEF S
<1>2. Init => RoomInv
  BY InitRoom
<1>3. QED
  BY <1>1, <1>2, RoomSteps, Invariant, PTL DEF Spec
-----------------------------------------------------------------------------
(* The file client. *)
\* Where each process is says what it may be asking of the ports.
Asking(c) ==
    /\ pc[c] \in {"user", "lock", "locked", "sending", "receiving", "unlock"}
    /\ pc[c] # "user" => asked[c] \in 1 .. MaxRequests
    /\ pc[c] \in {"user", "lock", "locked", "unlock"} => call[c] = NoCall
    /\ pc[c] = "sending" =>
          \/ call[c] = NoCall /\ answer[c] \in {Ok, Error}
          \/ call[c] = [op |-> "send", port |-> PORT_FILES, msg |-> Request(c)]
    /\ pc[c] = "receiving" =>
          \/ call[c] = NoCall /\ (answer[c] = Error \/ answer[c].res = "got")
          \/ call[c] = [op |-> "recv", port |-> PORT_KERNEL, as |-> Kernel]

Serving(s) ==
    /\ pc[s] \in {"user", "serve"}
    /\ \/ call[s] = NoCall
       \/ call[s] = [op |-> "recv", port |-> PORT_FILES, as |-> s]
       \/ call[s].op = "send" /\ call[s].port = PORT_KERNEL
    /\ pc[s] = "user" => call[s] = NoCall

Whereabouts ==
    /\ \A c \in Clients : Asking(c)
    /\ \A s \in Servers : Serving(s)
    /\ \A p \in Procs : call[p] # NoCall => answer[p] = None

FsTyped ==
    /\ fs_mtx \in [locked : BOOLEAN, owner : Owners, waiters : Seq(Procs)]
    /\ pc \in [Procs -> {"user", "lock", "locked", "sending", "receiving", "unlock", "serve"}]
    /\ asked \in [Clients -> 0 .. MaxRequests]
    /\ vain \in BOOLEAN

\* The mutex is of who is inside, and who waits for it is in its queue.
Mutex ==
    /\ Distinct(fs_mtx.waiters)
    /\ \A p \in Procs : InUse(p) <=> fs_mtx.locked /\ fs_mtx.owner = p
    /\ \A p \in Procs : p \in Queued(fs_mtx.waiters) <=> pc[p] = "lock" /\ state[p] = "BLOCKED"

\* Who has sent a request and not had its answer.
Expects(c) == \/ pc[c] = "sending" /\ answer[c] = Ok
              \/ pc[c] = "receiving" /\ answer[c].res # "got"

\* What a server has in its hands: a request, or the answer to it.
Hand(s) == IF call[s].op = "send" THEN <<call[s].msg>>
           ELSE IF answer[s].res = "got" THEN <<answer[s].msg>>
           ELSE <<>>

Spots == ({"port"} \X PortIds) \cup ({"hand"} \X Servers)
MailAt(x) == IF x[1] = "port" THEN Box[x[2]] ELSE Hand(x[2])

\* Until a transaction is cut after its request, there is one message at most
\* in the two ports and in the hands of all the servers: that of who expects it.
OneMessage ==
    ~vain =>
        /\ \A x, y \in Spots : MailAt(x) # <<>> /\ MailAt(y) # <<>> => x = y
        /\ \A x \in Spots : MailAt(x) # <<>> =>
               \E c \in Clients : Expects(c) /\ MailAt(x) = <<Request(c)>>

\* What has been received is for who received it.
ItsOwn(c) == pc[c] \in {"receiving", "unlock"} /\ answer[c].res = "got" /\ ~vain
                   => answer[c].msg = Request(c)

FsInv ==
    /\ PortsInv /\ FsTyped /\ Whereabouts /\ Mutex /\ LockIsHandedOn
    /\ OneMessage /\ \A c \in Clients : ItsOwn(c)
-----------------------------------------------------------------------------
\* Clients, servers and the kernel are different owners, and there are two ports.
LEMMA Constants ==
    /\ \A c \in Clients : c \in Procs /\ c # Kernel /\ c \notin Servers
    /\ \A s \in Servers : s \in Procs /\ s # Kernel
    /\ \A p \in Procs : p \in Clients \/ p \in Servers
    /\ PORT_FILES \in PortIds /\ PORT_KERNEL \in PortIds /\ PORT_FILES # PORT_KERNEL
    /\ \A i \in PortIds : i = PORT_FILES \/ i = PORT_KERNEL
BY FsClientAssumption, PortsAssumption

\* Who expects an answer is inside, and nobody else is.
LEMMA Inside ==
    ASSUME Mutex, NEW c \in Procs, InUse(c)
    PROVE  /\ fs_mtx.locked /\ fs_mtx.owner = c
           /\ \A d \in Procs : InUse(d) \/ Expects(d) => d = c
BY DEF Mutex, InUse, Expects

\* What is not in a call is in no queue of a port.
LEMMA NotQueued ==
    ASSUME PortsInv, NEW q \in Procs, call[q] = NoCall, NEW i \in PortIds
    PROVE  q \notin Queued(ports[i].senders) /\ q \notin Queued(ports[i].receivers)
BY DEF PortsInv, Queues, Sleeps, NoCall

\* The queues of the ports do not see who sleeps elsewhere.
LEMMA SleepsElsewhere ==
    ASSUME PortsInv, UNCHANGED <<ports, call, answer>>,
           interrumpido' \in [Procs -> BOOLEAN],
           state' \in [Procs -> {"RUNNING", "BLOCKED", "ZOMBIE"}],
           \A p \in Procs : state'[p] = state[p] \/ call[p] = NoCall
    PROVE  PortsInv'
<1>1. Typed' /\ Ring' /\ Full' /\ OneAsks' /\ NobodyWaitsForTheDead' /\ NobodySleepsOnMail'
  BY DEF PortsInv, Typed, Ring, Full, OneAsks, NobodyWaitsForTheDead, NobodySleepsOnMail
<1>2. \A p \in Procs, i \in PortIds :
         /\ Sleeps(p, "send", i)' <=> Sleeps(p, "send", i)
         /\ Sleeps(p, "recv", i)' <=> Sleeps(p, "recv", i)
  BY DEF Sleeps, NoCall
<1>3. Queues'
  BY <1>2 DEF PortsInv, Queues
<1>4. QED
  BY <1>1, <1>3 DEF PortsInv

\* A step of the mutex alone leaves the ports as they were.
LEMMA PortsAsTheyWere == ASSUME PortsInv, UNCHANGED vars PROVE PortsInv' /\ Box' = Box
BY DEF vars, PortsInv, Typed, Ring, Full, Queues, OneAsks, NobodyWaitsForTheDead,
       NobodySleepsOnMail, Sleeps, Box

\* A call begins, and no other asks for the mail of that owner.
LEMMA CallBegins ==
    ASSUME PortsInv, NEW p \in Procs, NEW c \in SendCalls \cup RecvCalls, Ask(p, c),
           \A q \in Procs : c.op = "recv" /\ q # p /\ call[q].op = "recv" => call[q].as # c.as
    PROVE  /\ PortsInv' /\ Box' = Box /\ UNCHANGED <<ports, state>>
           /\ call[p] = NoCall
           /\ \A q \in Procs : /\ call'[q] = IF q = p THEN c ELSE call[q]
                               /\ answer'[q] = IF q = p THEN None ELSE answer[q]
<1>1. /\ state[p] = "RUNNING" /\ UNCHANGED <<ports, state>> /\ call[p].op = "none"
      /\ call' = [call EXCEPT ![p] = c]
      /\ answer' = [answer EXCEPT ![p] = None]
      /\ interrumpido' = [interrumpido EXCEPT ![p] = FALSE]
  BY DEF Ask, InCall
<1>2. PortsInv'
  BY <1>1, CallKeeps
<1>3. call[p] = NoCall
  BY <1>1 DEF PortsInv, Typed, SendCalls, RecvCalls
<1>4. Box' = Box
  BY <1>1 DEF Box
<1>5. QED
  BY <1>1, <1>2, <1>3, <1>4 DEF PortsInv, Typed

\* Nobody enters or leaves the mutex.
LEMMA MutexStays ==
    ASSUME Mutex, LockIsHandedOn, fs_mtx' = fs_mtx,
           \A p \in Procs : InUse(p)' <=> InUse(p),
           \A p \in Procs : pc[p] = "lock" => pc'[p] = "lock" /\ state'[p] = state[p],
           \A p \in Procs : pc[p] # "lock" /\ pc'[p] = "lock" => state'[p] # "BLOCKED"
    PROVE  Mutex' /\ LockIsHandedOn'
<1>1. Mutex'
  BY DEF Mutex
<1>2. LockIsHandedOn'
  <2> SUFFICES ASSUME fs_mtx.waiters # <<>>, ~fs_mtx.locked
               PROVE  \E c \in Clients : Runs(c, "lock")'
    BY DEF LockIsHandedOn
  <2>1. PICK c \in Clients : pc[c] = "lock" /\ state[c] = "RUNNING"
    BY DEF LockIsHandedOn, Runs
  <2>2. QED
    BY <2>1, Constants DEF Runs
<1>3. QED
  BY <1>1, <1>2

\* No message comes into being, and who expects one goes on expecting it.
LEMMA MessagesStay ==
    ASSUME OneMessage, vain' = vain,
           \A i \in PortIds : Box'[i] = Box[i] \/ Box'[i] = <<>>,
           \A s \in Servers : Hand(s)' = Hand(s) \/ Hand(s)' = <<>>,
           \A c \in Clients : Expects(c) => Expects(c)' /\ Request(c)' = Request(c)
    PROVE  OneMessage'
<1> SUFFICES ASSUME ~vain
             PROVE  /\ \A x, y \in Spots : MailAt(x)' # <<>> /\ MailAt(y)' # <<>> => x = y
                    /\ \A x \in Spots : MailAt(x)' # <<>> =>
                          \E c \in Clients : Expects(c)' /\ MailAt(x)' = <<Request(c)'>>
  BY DEF OneMessage
<1>1. ASSUME NEW x \in Spots PROVE MailAt(x)' = MailAt(x) \/ MailAt(x)' = <<>>
  <2>1. CASE x \in {"port"} \X PortIds
    BY <2>1 DEF MailAt
  <2>2. CASE x \in {"hand"} \X Servers
    BY <2>2 DEF MailAt
  <2>3. QED
    BY <2>1, <2>2 DEF Spots
<1>2. ASSUME NEW x \in Spots, NEW y \in Spots, MailAt(x)' # <<>>, MailAt(y)' # <<>> PROVE x = y
  BY <1>1, <1>2 DEF OneMessage
<1>3. ASSUME NEW x \in Spots, MailAt(x)' # <<>>
      PROVE  \E c \in Clients : Expects(c)' /\ MailAt(x)' = <<Request(c)'>>
  <2>1. MailAt(x)' = MailAt(x) /\ MailAt(x) # <<>>
    BY <1>1, <1>3
  <2>2. PICK c \in Clients : Expects(c) /\ MailAt(x) = <<Request(c)>>
    BY <2>1 DEF OneMessage
  <2>3. QED
    BY <2>1, <2>2
<1>4. QED
  BY <1>2, <1>3
-----------------------------------------------------------------------------
\* Before the first transaction there is nothing anywhere.
LEMMA InitFs == FsInit => FsInv
<1> SUFFICES ASSUME FsInit PROVE FsInv
  OBVIOUS
<1>1. /\ fs_mtx = [locked |-> FALSE, owner |-> Kernel, waiters |-> <<>>]
      /\ pc = [p \in Procs |-> "user"] /\ asked = [c \in Clients |-> 0] /\ vain = FALSE
      /\ call = [p \in Procs |-> NoCall] /\ answer = [p \in Procs |-> None]
      /\ state = [p \in Procs |-> "RUNNING"]
      /\ \A i \in PortIds : ~ports[i].in_use
  BY DEF FsInit, Init, NewPort
<1>2. PortsInv
  BY InitInv DEF FsInit
<1>3. FsTyped
  <2>1. <<>> \in Seq(Procs) /\ Kernel \in Owners /\ 0 \in 0 .. MaxRequests
    BY FsClientAssumption DEF Owners
  <2>2. QED
    BY <1>1, <2>1 DEF FsTyped
<1>4. Whereabouts
  BY <1>1, Constants DEF Whereabouts, Asking, Serving, NoCall
<1>5. Mutex /\ LockIsHandedOn
  <2>1. Distinct(<<>>) /\ Queued(<<>>) = {}
    BY DEF Distinct, Queued
  <2>2. QED
    BY <1>1, <2>1 DEF Mutex, LockIsHandedOn, InUse
<1>6. OneMessage
  <2>1. \A i \in PortIds : Box[i] = <<>>
    BY <1>1 DEF Box
  <2>2. \A s \in Servers : Hand(s) = <<>>
    BY <1>1, Constants DEF Hand, NoCall, None
  <2>3. \A x \in Spots : MailAt(x) = <<>>
    BY <2>1, <2>2 DEF Spots, MailAt
  <2>4. QED
    BY <2>3 DEF OneMessage
<1>7. \A c \in Clients : ItsOwn(c)
  BY <1>1, Constants DEF ItsOwn
<1>8. QED
  BY <1>2, <1>3, <1>4, <1>5, <1>6, <1>7 DEF FsInv
-----------------------------------------------------------------------------
\* A client begins.
LEMMA TransactionKeeps == ASSUME FsInv, NEW c \in Clients, Transaction(c) PROVE FsInv'
<1>1. /\ pc[c] = "user" /\ state[c] = "RUNNING" /\ asked[c] < MaxRequests
      /\ asked' = [asked EXCEPT ![c] = @ + 1] /\ pc' = [pc EXCEPT ![c] = "lock"]
      /\ fs_mtx' = fs_mtx /\ vain' = vain /\ UNCHANGED vars
  BY DEF Transaction, Runs, Go
<1>2. UNCHANGED <<ports, state, interrumpido, call, answer>>
  BY <1>1 DEF vars
<1>3. /\ \A p \in Procs : pc'[p] = IF p = c THEN "lock" ELSE pc[p]
      /\ \A d \in Clients : asked'[d] = IF d = c THEN asked[c] + 1 ELSE asked[d]
      /\ asked[c] + 1 \in 1 .. MaxRequests /\ asked[c] + 1 \in 0 .. MaxRequests
  <2>1. asked[c] \in 0 .. MaxRequests /\ MaxRequests \in Nat
    BY FsClientAssumption DEF FsInv, FsTyped
  <2>2. QED
    BY <1>1, <2>1, Constants DEF FsInv, FsTyped
<1>4. PortsInv' /\ Box' = Box
  BY <1>1, PortsAsTheyWere DEF FsInv
<1>5. FsTyped'
  BY <1>1, <1>3 DEF FsInv, FsTyped
<1>6. Whereabouts'
  <2>1. ASSUME NEW d \in Clients PROVE Asking(d)'
    <3>1. CASE d = c
      <4>1. call[c] = NoCall
        BY <1>1 DEF FsInv, Whereabouts, Asking
      <4>2. QED
        BY <3>1, <4>1, <1>2, <1>3, Constants DEF Asking
    <3>2. CASE d # c
      BY <3>2, <1>2, <1>3, Constants DEF FsInv, Whereabouts, Asking, Request
    <3>3. QED
      BY <3>1, <3>2
  <2>2. ASSUME NEW s \in Servers PROVE Serving(s)'
    BY <1>2, <1>3, Constants DEF FsInv, Whereabouts, Serving
  <2>3. QED
    BY <1>2, <2>1, <2>2 DEF FsInv, Whereabouts
<1>7. Mutex' /\ LockIsHandedOn'
  BY <1>1, <1>2, <1>3, MutexStays DEF FsInv, InUse
<1>8. OneMessage'
  <2>1. \A s \in Servers : Hand(s)' = Hand(s)
    BY <1>2 DEF Hand
  <2>2. \A d \in Clients : Expects(d) => Expects(d)' /\ Request(d)' = Request(d)
    BY <1>1, <1>2, <1>3, Constants DEF Expects, Request
  <2>3. QED
    BY <1>1, <1>4, <2>1, <2>2, MessagesStay DEF FsInv
<1>9. ASSUME NEW d \in Clients PROVE ItsOwn(d)'
  BY <1>1, <1>2, <1>3, Constants DEF FsInv, ItsOwn, Request
<1>10. QED
  BY <1>4, <1>5, <1>6, <1>7, <1>8, <1>9 DEF FsInv

\* The mutex is taken...
LEMMA LockTakenKeeps ==
    ASSUME FsInv, NEW c \in Clients, MutexLock(c), ~fs_mtx.locked PROVE FsInv'
<1>1. /\ pc[c] = "lock" /\ state[c] = "RUNNING"
      /\ fs_mtx' = [fs_mtx EXCEPT !.locked = TRUE, !.owner = c]
      /\ pc' = [pc EXCEPT ![c] = "locked"]
      /\ UNCHANGED <<asked, vain>> /\ UNCHANGED vars
  BY DEF MutexLock, Runs, Go
<1>2. UNCHANGED <<ports, state, interrumpido, call, answer>>
  BY <1>1 DEF vars
<1>3. \A p \in Procs : pc'[p] = IF p = c THEN "locked" ELSE pc[p]
  BY <1>1 DEF FsInv, FsTyped
<1>4. /\ fs_mtx'.locked = TRUE /\ fs_mtx'.owner = c /\ fs_mtx'.waiters = fs_mtx.waiters
      /\ fs_mtx' \in [locked : BOOLEAN, owner : Owners, waiters : Seq(Procs)]
  BY <1>1, Constants DEF FsInv, FsTyped, Owners
<1>5. PortsInv' /\ Box' = Box
  BY <1>1, PortsAsTheyWere DEF FsInv
<1>6. FsTyped'
  BY <1>1, <1>4 DEF FsInv, FsTyped
<1>7. Whereabouts'
  <2>1. ASSUME NEW d \in Clients PROVE Asking(d)'
    BY <1>1, <1>2, <1>3, Constants DEF FsInv, Whereabouts, Asking, Request
  <2>2. ASSUME NEW s \in Servers PROVE Serving(s)'
    BY <1>2, <1>3, Constants DEF FsInv, Whereabouts, Serving
  <2>3. QED
    BY <1>2, <2>1, <2>2 DEF FsInv, Whereabouts
<1>8. Mutex'
  <2>1. ASSUME NEW p \in Procs PROVE InUse(p)' <=> fs_mtx'.locked /\ fs_mtx'.owner = p
    BY <1>3, <1>4 DEF FsInv, Mutex, InUse
  <2>2. ASSUME NEW p \in Procs
        PROVE  p \in Queued(fs_mtx'.waiters) <=> pc'[p] = "lock" /\ state'[p] = "BLOCKED"
    BY <1>1, <1>2, <1>3, <1>4 DEF FsInv, Mutex
  <2>3. QED
    BY <1>4, <2>1, <2>2 DEF FsInv, Mutex
<1>9. LockIsHandedOn'
  BY <1>4 DEF LockIsHandedOn
<1>10. OneMessage'
  <2>1. \A s \in Servers : Hand(s)' = Hand(s)
    BY <1>2 DEF Hand
  <2>2. \A d \in Clients : Expects(d) => Expects(d)' /\ Request(d)' = Request(d)
    BY <1>1, <1>2, <1>3, Constants DEF Expects, Request
  <2>3. QED
    BY <1>1, <1>5, <2>1, <2>2, MessagesStay DEF FsInv
<1>11. ASSUME NEW d \in Clients PROVE ItsOwn(d)'
  BY <1>1, <1>2, <1>3, Constants DEF FsInv, ItsOwn, Request
<1>12. QED
  BY <1>5, <1>6, <1>7, <1>8, <1>9, <1>10, <1>11 DEF FsInv

\* ... or waited for.
LEMMA LockWaitsKeeps ==
    ASSUME FsInv, NEW c \in Clients, MutexLock(c), fs_mtx.locked PROVE FsInv'
<1>1. /\ pc[c] = "lock" /\ state[c] = "RUNNING"
      /\ fs_mtx' = [fs_mtx EXCEPT !.waiters = Append(@, c)]
      /\ state' = [state EXCEPT ![c] = "BLOCKED"]
      /\ interrumpido' = [interrumpido EXCEPT ![c] = FALSE]
      /\ UNCHANGED <<ports, call, answer, pc, asked, vain>>
  BY DEF MutexLock, Runs
<1>2. c \in Procs /\ call[c] = NoCall
  BY <1>1, Constants DEF FsInv, Whereabouts, Asking
<1>3. \A p \in Procs : state'[p] = IF p = c THEN "BLOCKED" ELSE state[p]
  BY <1>1 DEF FsInv, PortsInv, Typed
<1>4. /\ fs_mtx.waiters \in Seq(Procs) /\ Distinct(fs_mtx.waiters)
      /\ c \notin Queued(fs_mtx.waiters)
  BY <1>1, <1>2 DEF FsInv, FsTyped, Mutex
<1>5. /\ Append(fs_mtx.waiters, c) \in Seq(Procs)
      /\ Distinct(Append(fs_mtx.waiters, c))
      /\ Queued(Append(fs_mtx.waiters, c)) = Queued(fs_mtx.waiters) \cup {c}
  BY <1>2, <1>4, JoinQueue
<1>6. /\ fs_mtx'.locked = fs_mtx.locked /\ fs_mtx'.owner = fs_mtx.owner
      /\ fs_mtx'.waiters = Append(fs_mtx.waiters, c)
      /\ fs_mtx' \in [locked : BOOLEAN, owner : Owners, waiters : Seq(Procs)]
  BY <1>1, <1>5 DEF FsInv, FsTyped
<1>7. PortsInv'
  <2>1. /\ interrumpido' \in [Procs -> BOOLEAN]
        /\ state' \in [Procs -> {"RUNNING", "BLOCKED", "ZOMBIE"}]
    BY <1>1 DEF FsInv, PortsInv, Typed
  <2>2. QED
    BY <1>1, <1>2, <1>3, <2>1, SleepsElsewhere DEF FsInv
<1>8. FsTyped'
  BY <1>1, <1>6 DEF FsInv, FsTyped
<1>9. Whereabouts'
  BY <1>1 DEF FsInv, Whereabouts, Asking, Serving, Request
<1>10. Mutex'
  <2>1. \A p \in Procs : InUse(p)' <=> fs_mtx'.locked /\ fs_mtx'.owner = p
    BY <1>1, <1>6 DEF FsInv, Mutex, InUse
  <2>2. \A p \in Procs : p \in Queued(fs_mtx'.waiters) <=> pc'[p] = "lock" /\ state'[p] = "BLOCKED"
    BY <1>1, <1>3, <1>5, <1>6 DEF FsInv, Mutex
  <2>3. QED
    BY <1>5, <1>6, <2>1, <2>2 DEF Mutex
<1>11. LockIsHandedOn'
  BY <1>6 DEF LockIsHandedOn
<1>12. OneMessage'
  BY <1>1, MessagesStay DEF FsInv, Hand, Expects, Request, Box
<1>13. ASSUME NEW d \in Clients PROVE ItsOwn(d)'
  BY <1>1 DEF FsInv, ItsOwn, Request
<1>14. QED
  BY <1>7, <1>8, <1>9, <1>10, <1>11, <1>12, <1>13 DEF FsInv


\* A port is created, by a client for the answers or by a server for the
\* requests, which goes on to serve.
LEMMA PortCreated ==
    ASSUME FsInv, NEW o \in Owners, NEW i \in PortIds, PortCreate(o, i),
           UNCHANGED <<fs_mtx, asked, vain>>,
           \/ pc' = pc
           \/ \E s \in Servers : pc[s] = "user" /\ pc' = [pc EXCEPT ![s] = "serve"]
    PROVE  FsInv'
<1>1. UNCHANGED <<state, interrumpido, call, answer>>
  BY DEF PortCreate
<1>2. PortsInv' /\ Box' = Box
  BY CreateKeeps, CreateOpens DEF FsInv
<1>3. /\ FsTyped'
      /\ \A p \in Procs : \/ pc'[p] = pc[p]
                          \/ p \in Servers /\ pc[p] = "user" /\ pc'[p] = "serve"
  BY DEF FsInv, FsTyped
<1>4. Whereabouts'
  <2>1. ASSUME NEW d \in Clients PROVE Asking(d)'
    BY <1>1, <1>3, Constants DEF FsInv, Whereabouts, Asking, Request
  <2>2. ASSUME NEW s \in Servers PROVE Serving(s)'
    BY <1>1, <1>3, Constants DEF FsInv, Whereabouts, Serving
  <2>3. QED
    BY <1>1, <2>1, <2>2 DEF FsInv, Whereabouts
<1>5. Mutex' /\ LockIsHandedOn'
  BY <1>1, <1>3, MutexStays DEF FsInv, InUse
<1>6. OneMessage'
  <2>1. \A s \in Servers : Hand(s)' = Hand(s)
    BY <1>1 DEF Hand
  <2>2. \A d \in Clients : Expects(d) => Expects(d)' /\ Request(d)' = Request(d)
    BY <1>1, <1>3, Constants DEF Expects, Request
  <2>3. QED
    BY <1>2, <2>1, <2>2, MessagesStay DEF FsInv
<1>7. ASSUME NEW d \in Clients PROVE ItsOwn(d)'
  BY <1>1, <1>3, Constants DEF FsInv, ItsOwn, Request
<1>8. QED
  BY <1>2, <1>3, <1>4, <1>5, <1>6, <1>7 DEF FsInv

\* The request is on its way: what waits for room in the port is not yet mail.
LEMMA SendRequestKeeps == ASSUME FsInv, NEW c \in Clients, SendRequest(c) PROVE FsInv'
<1> DEFINE k == [op |-> "send", port |-> PORT_FILES, msg |-> Request(c)]
<1>1. /\ pc[c] = "locked" /\ Ask(c, k) /\ pc' = [pc EXCEPT ![c] = "sending"]
      /\ UNCHANGED <<fs_mtx, asked, vain>>
  BY DEF SendRequest, Runs, Go
<1>2. k \in SendCalls
  <2>1. asked[c] \in 1 .. MaxRequests
    BY <1>1 DEF FsInv, Whereabouts, Asking
  <2>2. Request(c) \in Mail
    BY <2>1, FsClientAssumption DEF Request, Mail
  <2>3. QED
    BY <2>2, Constants DEF SendCalls
<1>3. k.op = "send"
  OBVIOUS
<1>3a. call'[c] = k /\ k = [op |-> "send", port |-> PORT_FILES, msg |-> Request(c)]
  BY <1>1, Constants DEF Ask, FsInv, PortsInv, Typed
<1> HIDE DEF k
<1>4. /\ PortsInv' /\ Box' = Box /\ UNCHANGED <<ports, state>>
      /\ call[c] = NoCall
      /\ \A q \in Procs : /\ call'[q] = IF q = c THEN k ELSE call[q]
                          /\ answer'[q] = IF q = c THEN None ELSE answer[q]
  BY <1>1, <1>2, <1>3, Constants, CallBegins DEF FsInv
<1>5. /\ FsTyped'
      /\ \A p \in Procs : pc'[p] = IF p = c THEN "sending" ELSE pc[p]
  BY <1>1 DEF FsInv, FsTyped
<1>6. Whereabouts'
  <2>1. ASSUME NEW d \in Clients PROVE Asking(d)'
    BY <1>1, <1>3a, <1>4, <1>5, Constants DEF FsInv, Whereabouts, Asking, Request
  <2>2. ASSUME NEW s \in Servers PROVE Serving(s)'
    BY <1>4, <1>5, Constants DEF FsInv, Whereabouts, Serving
  <2>3. QED
    BY <1>4, <2>1, <2>2 DEF FsInv, Whereabouts
<1>7. Mutex' /\ LockIsHandedOn'
  BY <1>1, <1>4, <1>5, MutexStays DEF FsInv, InUse
<1>8. OneMessage'
  <2>1. \A s \in Servers : Hand(s)' = Hand(s)
    BY <1>4, Constants DEF Hand
  <2>2. \A d \in Clients : Expects(d) => Expects(d)' /\ Request(d)' = Request(d)
    BY <1>1, <1>4, <1>5, Constants DEF Expects, Request
  <2>3. QED
    BY <1>1, <1>4, <2>1, <2>2, MessagesStay DEF FsInv
<1>9. ASSUME NEW d \in Clients PROVE ItsOwn(d)'
  BY <1>1, <1>4, <1>5, Constants DEF FsInv, ItsOwn, Request
<1>10. QED
  BY <1>4, <1>5, <1>6, <1>7, <1>8, <1>9 DEF FsInv

\* The request has been sent, and the answer is waited for...
LEMMA ReceiveAnswerKeeps ==
    ASSUME FsInv, NEW c \in Clients, ReceiveAnswer(c), answer[c] = Ok PROVE FsInv'
<1> DEFINE k == [op |-> "recv", port |-> PORT_KERNEL, as |-> Kernel]
<1>1. /\ pc[c] = "sending" /\ Ask(c, k) /\ pc' = [pc EXCEPT ![c] = "receiving"]
      /\ UNCHANGED <<fs_mtx, asked, vain>>
  BY DEF ReceiveAnswer, Runs, Go
<1>2. k \in RecvCalls /\ k.op = "recv" /\ k.as = Kernel
  BY Constants DEF RecvCalls, Owners
<1>3. call'[c] = k /\ k = [op |-> "recv", port |-> PORT_KERNEL, as |-> Kernel]
  BY <1>1, Constants DEF Ask, FsInv, PortsInv, Typed
<1> HIDE DEF k
<1>3a. \A q \in Procs : q # c /\ call[q].op = "recv" => call[q].as # Kernel
  <2> SUFFICES ASSUME NEW q \in Procs, q # c, call[q].op = "recv", call[q].as = Kernel
               PROVE  FALSE
    OBVIOUS
  <2>1. CASE q \in Clients
    <3>1. Asking(q)
      BY <2>1 DEF FsInv, Whereabouts
    <3>2. pc[q] = "receiving"
      BY <3>1 DEF Asking, NoCall
    <3>3. QED
      BY <1>1, <3>2, Inside, Constants DEF FsInv, InUse
  <2>2. CASE q \in Servers
    <3>1. Serving(q)
      BY <2>2 DEF FsInv, Whereabouts
    <3>2. QED
      BY <2>2, <3>1, Constants DEF Serving, NoCall
  <2>3. QED
    BY <2>1, <2>2, Constants
<1>4. /\ PortsInv' /\ Box' = Box /\ UNCHANGED <<ports, state>>
      /\ call[c] = NoCall
      /\ \A q \in Procs : /\ call'[q] = IF q = c THEN k ELSE call[q]
                          /\ answer'[q] = IF q = c THEN None ELSE answer[q]
  BY <1>1, <1>2, <1>3a, Constants, CallBegins DEF FsInv
<1>5. /\ FsTyped'
      /\ \A p \in Procs : pc'[p] = IF p = c THEN "receiving" ELSE pc[p]
  BY <1>1 DEF FsInv, FsTyped
<1>6. Whereabouts'
  <2>1. ASSUME NEW d \in Clients PROVE Asking(d)'
    BY <1>1, <1>3, <1>4, <1>5, Constants DEF FsInv, Whereabouts, Asking, Request
  <2>2. ASSUME NEW s \in Servers PROVE Serving(s)'
    BY <1>4, <1>5, Constants DEF FsInv, Whereabouts, Serving
  <2>3. QED
    BY <1>4, <2>1, <2>2 DEF FsInv, Whereabouts
<1>7. Mutex' /\ LockIsHandedOn'
  BY <1>1, <1>4, <1>5, MutexStays DEF FsInv, InUse
<1>8. OneMessage'
  <2>1. \A s \in Servers : Hand(s)' = Hand(s)
    BY <1>4, Constants DEF Hand
  <2>2. \A d \in Clients : Expects(d) => Expects(d)' /\ Request(d)' = Request(d)
    BY <1>1, <1>4, <1>5, Constants DEF Expects, Request, None
  <2>3. QED
    BY <1>1, <1>4, <2>1, <2>2, MessagesStay DEF FsInv
<1>9. ASSUME NEW d \in Clients PROVE ItsOwn(d)'
  BY <1>1, <1>4, <1>5, Constants DEF FsInv, ItsOwn, Request, None
<1>10. QED
  BY <1>4, <1>5, <1>6, <1>7, <1>8, <1>9 DEF FsInv

\* ... or the transaction is over: its request was not sent, or its answer came,
\* or nobody will wait for it.
LEMMA OverKeeps ==
    ASSUME FsInv, NEW c \in Clients,
           Answered(c) \/ (ReceiveAnswer(c) /\ answer[c] # Ok)
    PROVE  FsInv'
<1>1. /\ pc[c] \in {"sending", "receiving"} /\ pc' = [pc EXCEPT ![c] = "unlock"]
      /\ call[c] = NoCall /\ UNCHANGED <<fs_mtx, asked>> /\ UNCHANGED vars
      /\ \/ pc[c] = "receiving" /\ vain' = (vain \/ answer[c] = Error)
         \/ pc[c] = "sending" /\ answer[c] # Ok /\ vain' = vain
  BY DEF Answered, ReceiveAnswer, Runs, Go
<1>2. UNCHANGED <<ports, state, interrumpido, call, answer>>
  BY <1>1 DEF vars
<1>3. \A p \in Procs : pc'[p] = IF p = c THEN "unlock" ELSE pc[p]
  BY <1>1 DEF FsInv, FsTyped
<1>4. PortsInv' /\ Box' = Box
  BY <1>1, PortsAsTheyWere DEF FsInv
<1>5. FsTyped'
  <2>1. vain' \in BOOLEAN
    BY <1>1 DEF FsInv, FsTyped
  <2>2. QED
    BY <1>1, <2>1 DEF FsInv, FsTyped
<1>6. Whereabouts'
  <2>1. ASSUME NEW d \in Clients PROVE Asking(d)'
    BY <1>1, <1>2, <1>3, Constants DEF FsInv, Whereabouts, Asking, Request
  <2>2. ASSUME NEW s \in Servers PROVE Serving(s)'
    BY <1>2, <1>3, Constants DEF FsInv, Whereabouts, Serving
  <2>3. QED
    BY <1>2, <2>1, <2>2 DEF FsInv, Whereabouts
<1>7. Mutex' /\ LockIsHandedOn'
  BY <1>1, <1>2, <1>3, MutexStays DEF FsInv, InUse
<1>8. CASE vain'
  BY <1>4, <1>5, <1>6, <1>7, <1>8 DEF FsInv, OneMessage, ItsOwn
<1>9. CASE ~vain'
  <2>0. Asking(c) /\ vain \in BOOLEAN
    BY DEF FsInv, Whereabouts, FsTyped
  <2>1. /\ ~vain /\ vain' = vain
        /\ answer[c] = Error => pc[c] = "sending"
    BY ZenonT(30), <1>1, <1>9, <2>0
  <2>2. pc[c] = "sending" => answer[c] = Error
    BY <1>1, <2>0, <2>1 DEF Asking, NoCall
  <2>3. pc[c] = "receiving" => answer[c].res = "got"
    BY <1>1, <2>0, <2>1 DEF Asking, NoCall
  <2>4. ~Expects(c)
    BY <1>1, <2>2, <2>3 DEF Expects
  <2>5. OneMessage'
    <3>1. \A s \in Servers : Hand(s)' = Hand(s)
      BY <1>2 DEF Hand
    <3>2. \A d \in Clients : Expects(d) => Expects(d)' /\ Request(d)' = Request(d)
      BY <1>1, <1>2, <1>3, <2>4, Constants DEF Expects, Request
    <3>3. QED
      BY <1>4, <2>1, <3>1, <3>2, MessagesStay DEF FsInv
  <2>6. ASSUME NEW d \in Clients PROVE ItsOwn(d)'
    <3>1. CASE d = c
      <4>1. answer[c].res = "got" => pc[c] = "receiving"
        BY <1>1, <2>2 DEF Error
      <4>2. QED
        BY <3>1, <4>1, <1>1, <1>2, <2>1 DEF FsInv, ItsOwn, Request
    <3>2. CASE d # c
      BY <3>2, <1>1, <1>2, <1>3, <2>1, Constants DEF FsInv, ItsOwn, Request
    <3>3. QED
      BY <3>1, <3>2
  <2>7. QED
    BY <1>4, <1>5, <1>6, <1>7, <2>5, <2>6 DEF FsInv
<1>10. QED
  BY <1>8, <1>9

\* The port for the answers could not be created: the transaction is over with
\* an error, and its request was never sent.
LEMMA NoPortKeeps ==
    ASSUME FsInv, NEW c \in Clients,
           pc[c] = "locked", pc' = [pc EXCEPT ![c] = "unlock"],
           answer' = [answer EXCEPT ![c] = Error],
           UNCHANGED <<ports, state, interrumpido, call>>, UNCHANGED <<fs_mtx, asked, vain>>
    PROVE  FsInv'
<1>1. /\ \A p \in Procs : pc'[p] = IF p = c THEN "unlock" ELSE pc[p]
      /\ \A p \in Procs : answer'[p] = IF p = c THEN Error ELSE answer[p]
  BY Constants DEF FsInv, FsTyped, PortsInv, Typed
<1>2. PortsInv' /\ Box' = Box
  <2>1. Typed'
    BY DEF FsInv, PortsInv, Typed
  <2>2. QED
    BY <2>1 DEF FsInv, PortsInv, Ring, Full, Queues, OneAsks, NobodyWaitsForTheDead,
                NobodySleepsOnMail, Sleeps, Box
<1>3. FsTyped'
  BY DEF FsInv, FsTyped
<1>4. Whereabouts'
  <2>1. ASSUME NEW d \in Clients PROVE Asking(d)'
    BY <1>1, Constants DEF FsInv, Whereabouts, Asking, Request
  <2>2. ASSUME NEW s \in Servers PROVE Serving(s)'
    BY <1>1, Constants DEF FsInv, Whereabouts, Serving
  <2>3. QED
    <3>1. call[c] = NoCall
      BY DEF FsInv, Whereabouts, Asking
    <3>2. QED
      BY <1>1, <2>1, <2>2, <3>1 DEF FsInv, Whereabouts
<1>5. Mutex' /\ LockIsHandedOn'
  <2>1. \A p \in Procs : InUse(p)' <=> InUse(p)
    BY <1>1 DEF InUse
  <2>2. \A p \in Procs : /\ pc[p] = "lock" => pc'[p] = "lock" /\ state'[p] = state[p]
                         /\ pc[p] # "lock" => pc'[p] # "lock"
    BY <1>1
  <2>3. QED
    BY <2>1, <2>2, MutexStays DEF FsInv
<1>6. OneMessage'
  <2>1. \A s \in Servers : Hand(s)' = Hand(s)
    BY <1>1, Constants DEF Hand
  <2>2. \A d \in Clients : Expects(d) => Expects(d)' /\ Request(d)' = Request(d)
    BY <1>1, Constants DEF Expects, Request
  <2>3. QED
    BY <1>2, <2>1, <2>2, MessagesStay DEF FsInv
<1>7. ASSUME NEW d \in Clients PROVE ItsOwn(d)'
  BY <1>1, Constants DEF FsInv, ItsOwn, Request, Error
<1>8. QED
  BY <1>2, <1>3, <1>4, <1>5, <1>6, <1>7 DEF FsInv

\* mutex_unlock(): the first that waits is on its way to take it.
LEMMA MutexUnlockKeeps == ASSUME FsInv, NEW c \in Clients, MutexUnlock(c) PROVE FsInv'
<1> DEFINE w == fs_mtx.waiters
<1>1. /\ pc[c] = "unlock" /\ state[c] = "RUNNING" /\ pc' = [pc EXCEPT ![c] = "user"]
      /\ fs_mtx' = [locked |-> FALSE, owner |-> Kernel, waiters |-> Rest(w)]
      /\ state' = [p \in Procs |-> IF p \in First(w) THEN "RUNNING" ELSE state[p]]
      /\ UNCHANGED <<asked, vain, ports, interrumpido, call, answer>>
  BY DEF MutexUnlock, Runs, Go, Awake
<1>2. /\ w \in Seq(Procs) /\ Distinct(w)
      /\ \A p \in Procs : p \in Queued(w) <=> pc[p] = "lock" /\ state[p] = "BLOCKED"
  BY DEF FsInv, FsTyped, Mutex
<1>2a. /\ fs_mtx'.locked = FALSE /\ fs_mtx'.owner = Kernel /\ fs_mtx'.waiters = Rest(w)
       /\ w = fs_mtx.waiters
  BY <1>1
<1> HIDE DEF w
<1>3. /\ Rest(w) \in Seq(Procs) /\ Distinct(Rest(w))
      /\ Queued(Rest(w)) = Queued(w) \ First(w)
      /\ First(w) \subseteq Queued(w)
      /\ First(w) = IF w = <<>> THEN {} ELSE {w[1]}
      /\ w = <<>> => Rest(w) = <<>>
  BY <1>2, RestOfQueue
<1>4. /\ \A p \in Procs : pc'[p] = IF p = c THEN "user" ELSE pc[p]
      /\ \A p \in Procs : state'[p] = IF p \in First(w) THEN "RUNNING" ELSE state[p]
  BY <1>1 DEF FsInv, FsTyped
<1>5. \A p \in First(w) : p \in Procs /\ p \in Clients /\ pc[p] = "lock" /\ call[p] = NoCall
  <2> SUFFICES ASSUME NEW p \in First(w)
               PROVE  p \in Procs /\ p \in Clients /\ pc[p] = "lock" /\ call[p] = NoCall
    OBVIOUS
  <2>1. p \in Procs /\ pc[p] = "lock"
    BY <1>2, <1>3 DEF Queued
  <2>2. p \in Clients
    BY <2>1, Constants DEF FsInv, Whereabouts, Serving
  <2>3. Asking(p)
    BY <2>2 DEF FsInv, Whereabouts
  <2>4. QED
    BY <2>1, <2>2, <2>3 DEF Asking
<1>6. PortsInv'
  <2>1. /\ interrumpido' \in [Procs -> BOOLEAN]
        /\ state' \in [Procs -> {"RUNNING", "BLOCKED", "ZOMBIE"}]
    BY <1>1 DEF FsInv, PortsInv, Typed
  <2>2. QED
    BY <1>1, <1>4, <1>5, <2>1, SleepsElsewhere DEF FsInv
<1>7. FsTyped'
  BY <1>1, <1>3 DEF FsInv, FsTyped, Owners
<1>8. Whereabouts'
  <2>1. ASSUME NEW d \in Clients PROVE Asking(d)'
    BY <1>1, <1>4, Constants DEF FsInv, Whereabouts, Asking, Request
  <2>2. ASSUME NEW s \in Servers PROVE Serving(s)'
    BY <1>1, <1>4, Constants DEF FsInv, Whereabouts, Serving
  <2>3. QED
    BY <1>1, <2>1, <2>2 DEF FsInv, Whereabouts
<1>9. Mutex'
  <2>1. InUse(c)
    BY <1>1 DEF InUse
  <2>2. ASSUME NEW p \in Procs PROVE ~InUse(p)'
    <3>1. InUse(p) => p = c
      BY <2>1, Inside, Constants DEF FsInv
    <3>2. QED
      BY <3>1, <1>4 DEF InUse
  <2>3. ASSUME NEW p \in Procs
        PROVE  p \in Queued(Rest(w)) <=> pc'[p] = "lock" /\ state'[p] = "BLOCKED"
    BY <1>1, <1>2, <1>3, <1>4
  <2>4. QED
    BY <1>2a, <1>3, <2>2, <2>3 DEF Mutex
<1>10. LockIsHandedOn'
  <2> SUFFICES ASSUME Rest(w) # <<>> PROVE \E d \in Clients : Runs(d, "lock")'
    BY <1>2a DEF LockIsHandedOn
  <2>1. w[1] \in First(w)
    BY <1>3
  <2>2. /\ w[1] \in Clients /\ w[1] \in Procs /\ pc'[w[1]] = "lock" /\ state'[w[1]] = "RUNNING"
    BY <1>1, <1>4, <1>5, <2>1
  <2>3. QED
    BY <2>2 DEF Runs
<1>11. OneMessage'
  <2>1. \A d \in Clients : Expects(d) => Expects(d)' /\ Request(d)' = Request(d)
    BY <1>1, <1>4, Constants DEF Expects, Request
  <2>2. \A s \in Servers : Hand(s)' = Hand(s)
    BY <1>1 DEF Hand
  <2>3. Box' = Box
    BY <1>1 DEF Box
  <2>4. QED
    BY <1>1, <2>1, <2>2, <2>3, MessagesStay DEF FsInv
<1>12. ASSUME NEW d \in Clients PROVE ItsOwn(d)'
  BY <1>1, <1>4, Constants DEF FsInv, ItsOwn, Request
<1>13. QED
  BY <1>6, <1>7, <1>8, <1>9, <1>10, <1>11, <1>12 DEF FsInv
-----------------------------------------------------------------------------
\* The server waits for a request, or sends the answer to the one it has.
LEMMA ServerAsks ==
    ASSUME FsInv, NEW s \in Servers, NEW k \in SendCalls \cup RecvCalls,
           Ask(s, k), pc[s] = "serve", UNCHANGED fsVars,
           \/ k = [op |-> "recv", port |-> PORT_FILES, as |-> s] /\ answer[s].res # "got"
           \/ k.op = "send" /\ k.port = PORT_KERNEL /\ answer[s].res = "got" /\ k.msg = answer[s].msg
    PROVE  FsInv'
<1>1. UNCHANGED <<fs_mtx, pc, asked, vain>>
  BY DEF fsVars
<1>2. \A q \in Procs : k.op = "recv" /\ q # s /\ call[q].op = "recv" => call[q].as # k.as
  <2> SUFFICES ASSUME NEW q \in Procs, k.op = "recv", q # s, call[q].op = "recv" PROVE call[q].as # s
    OBVIOUS
  <2>1. CASE q \in Clients
    <3>1. Asking(q)
      BY <2>1 DEF FsInv, Whereabouts
    <3>2. QED
      BY <3>1, Constants DEF Asking, NoCall
  <2>2. CASE q \in Servers
    <3>1. Serving(q)
      BY <2>2 DEF FsInv, Whereabouts
    <3>2. QED
      BY <3>1, Constants DEF Serving, NoCall
  <2>3. QED
    BY <2>1, <2>2, Constants
<1>3. /\ PortsInv' /\ Box' = Box /\ UNCHANGED <<ports, state>>
      /\ call[s] = NoCall
      /\ \A q \in Procs : /\ call'[q] = IF q = s THEN k ELSE call[q]
                          /\ answer'[q] = IF q = s THEN None ELSE answer[q]
  BY <1>2, Constants, CallBegins DEF FsInv
<1>4. FsTyped'
  BY <1>1 DEF FsInv, FsTyped
<1>5. Whereabouts'
  <2>1. ASSUME NEW d \in Clients PROVE Asking(d)'
    BY <1>1, <1>3, Constants DEF FsInv, Whereabouts, Asking, Request
  <2>2. ASSUME NEW t \in Servers PROVE Serving(t)'
    BY <1>1, <1>3, Constants DEF FsInv, Whereabouts, Serving
  <2>3. QED
    BY <1>3, <2>1, <2>2 DEF FsInv, Whereabouts
<1>6. Mutex' /\ LockIsHandedOn'
  BY <1>1, <1>3, MutexStays DEF FsInv, InUse
<1>7. OneMessage'
  <2>1. ASSUME NEW t \in Servers PROVE Hand(t)' = Hand(t)
    <3>1. CASE t = s
      BY <3>1, <1>3, Constants DEF Hand, NoCall, None
    <3>2. CASE t # s
      BY <3>2, <1>3, Constants DEF Hand
    <3>3. QED
      BY <3>1, <3>2
  <2>2. \A d \in Clients : Expects(d) => Expects(d)' /\ Request(d)' = Request(d)
    BY <1>1, <1>3, Constants DEF Expects, Request
  <2>3. QED
    BY <1>1, <1>3, <2>1, <2>2, MessagesStay DEF FsInv
<1>8. ASSUME NEW d \in Clients PROVE ItsOwn(d)'
  BY <1>1, <1>3, Constants DEF FsInv, ItsOwn, Request
<1>9. QED
  BY <1>3, <1>4, <1>5, <1>6, <1>7, <1>8 DEF FsInv

\* The loop of a server, its death, and another in its place.
LEMMA ServerKeeps == ASSUME FsInv, NEW s \in Servers, Server(s) PROVE FsInv'
<1>1. CASE StartServer(s)
  <2>1. /\ PortCreate(s, PORT_FILES) /\ s \in Owners /\ PORT_FILES \in PortIds
        /\ pc[s] = "user" /\ pc' = [pc EXCEPT ![s] = "serve"] /\ UNCHANGED <<fs_mtx, asked, vain>>
    BY <1>1, Constants DEF StartServer, Runs, Go, Owners
  <2>2. QED
    BY <2>1, PortCreated
<1>2. CASE WaitForRequest(s)
  <2> DEFINE k == [op |-> "recv", port |-> PORT_FILES, as |-> s]
  <2>1. /\ pc[s] = "serve" /\ answer[s].res # "got" /\ Ask(s, k) /\ UNCHANGED fsVars
    BY <1>2 DEF WaitForRequest, Runs
  <2>2. k \in RecvCalls
    BY Constants DEF RecvCalls, Owners
  <2>3. QED
    BY <2>1, <2>2, ServerAsks
<1>3. CASE Reply(s)
  <2> DEFINE k == [op |-> "send", port |-> PORT_KERNEL, msg |-> answer[s].msg]
  <2>1. /\ pc[s] = "serve" /\ answer[s].res = "got" /\ Ask(s, k) /\ UNCHANGED fsVars
    BY <1>3 DEF Reply, Runs
  <2>2. answer[s].msg \in Mail
    <3>1. answer[s] \in {None, Ok, Error} \cup {Got(m) : m \in Mail}
      BY Constants DEF FsInv, PortsInv, Typed
    <3>2. QED
      BY <2>1, <3>1 DEF None, Ok, Error, Got
  <2>3. /\ k \in SendCalls /\ k.op = "send" /\ k.port = PORT_KERNEL /\ k.msg = answer[s].msg
    BY <2>2, Constants DEF SendCalls
  <2> HIDE DEF k
  <2>4. QED
    BY <2>1, <2>3, ServerAsks
<1>4. QED
  BY <1>1, <1>2, <1>3 DEF Server
-----------------------------------------------------------------------------
\* A signal takes a process out of its queue, that of the mutex too.
LEMMA SignalledKeeps == ASSUME FsInv, NEW p \in Procs, Signalled(p) PROVE FsInv'
<1> DEFINE w == fs_mtx.waiters
<1>1. /\ Signal(p) /\ fs_mtx' = [fs_mtx EXCEPT !.waiters = Without(w, p)]
      /\ state[p] = "BLOCKED" /\ state' = [state EXCEPT ![p] = "RUNNING"]
      /\ UNCHANGED <<pc, asked, vain, call, answer>>
  BY DEF Signalled, Signal
<1>2. /\ w \in Seq(Procs) /\ Distinct(w) /\ w = fs_mtx.waiters
      /\ \A q \in Procs : q \in Queued(w) <=> pc[q] = "lock" /\ state[q] = "BLOCKED"
  BY DEF FsInv, FsTyped, Mutex
<1> HIDE DEF w
<1>3. /\ Without(w, p) \in Seq(Procs) /\ Distinct(Without(w, p))
      /\ Queued(Without(w, p)) = Queued(w) \ {p}
      /\ w = <<>> => Without(w, p) = <<>>
  BY <1>2, LeaveQueue
<1>4. /\ fs_mtx'.locked = fs_mtx.locked /\ fs_mtx'.owner = fs_mtx.owner
      /\ fs_mtx'.waiters = Without(w, p)
      /\ fs_mtx' \in [locked : BOOLEAN, owner : Owners, waiters : Seq(Procs)]
      /\ \A q \in Procs : state'[q] = IF q = p THEN "RUNNING" ELSE state[q]
  BY <1>1, <1>3 DEF FsInv, FsTyped, PortsInv, Typed
<1>5. PortsInv' /\ Box' = Box
  BY <1>1, SignalKeeps, SignalLeavesMail DEF FsInv
<1>6. FsTyped'
  BY <1>1, <1>4 DEF FsInv, FsTyped
<1>7. Whereabouts'
  BY <1>1 DEF FsInv, Whereabouts, Asking, Serving, Request
<1>8. Mutex'
  <2>1. \A q \in Procs : InUse(q)' <=> fs_mtx'.locked /\ fs_mtx'.owner = q
    BY <1>1, <1>4 DEF FsInv, Mutex, InUse
  <2>2. \A q \in Procs : q \in Queued(fs_mtx'.waiters) <=> pc'[q] = "lock" /\ state'[q] = "BLOCKED"
    BY <1>1, <1>2, <1>3, <1>4
  <2>3. QED
    BY <1>3, <1>4, <2>1, <2>2 DEF Mutex
<1>9. LockIsHandedOn'
  <2> SUFFICES ASSUME Without(w, p) # <<>>, ~fs_mtx.locked
               PROVE  \E c \in Clients : Runs(c, "lock")'
    BY <1>4 DEF LockIsHandedOn
  <2>1. PICK c \in Clients : pc[c] = "lock" /\ state[c] = "RUNNING"
    BY <1>2, <1>3 DEF FsInv, LockIsHandedOn, Runs
  <2>2. pc'[c] = "lock" /\ state'[c] = "RUNNING"
    BY <1>1, <1>4, <2>1, Constants
  <2>3. QED
    BY <2>2 DEF Runs
<1>10. OneMessage'
  BY <1>1, <1>5, MessagesStay DEF FsInv, Hand, Expects, Request
<1>11. ASSUME NEW d \in Clients PROVE ItsOwn(d)'
  BY <1>1 DEF FsInv, ItsOwn, Request
<1>12. QED
  BY <1>5, <1>6, <1>7, <1>8, <1>9, <1>10, <1>11 DEF FsInv

\* A server dies with its port and the requests that were there.
LEMMA DiesKeeps == ASSUME FsInv, NEW s \in Servers, Dies(s) PROVE FsInv'
<1>1. /\ TaskExit(s) /\ pc[s] = "serve" /\ UNCHANGED <<fs_mtx, pc, asked, vain, call, answer>>
  BY DEF Dies, TaskExit, fsVars
<1>2. PortsInv'
  BY <1>1, ExitKeeps, Constants DEF FsInv
<1>3. \A i \in PortIds : Box'[i] = Box[i] \/ Box'[i] = <<>>
  BY <1>1, ExitCloses, Constants DEF FsInv
<1>4. ASSUME NEW q \in Procs, pc[q] = "lock" PROVE state'[q] = state[q]
  <2>1. q # s /\ q \in Clients
    BY <1>1, <1>4, Constants DEF FsInv, Whereabouts, Serving
  <2>2. call[q] = NoCall
    BY <1>4, <2>1 DEF FsInv, Whereabouts, Asking
  <2>3. \A i \in PortIds : q \notin Queued(ports[i].senders) /\ q \notin Queued(ports[i].receivers)
    BY <2>2, NotQueued DEF FsInv
  <2>4. QED
    BY <1>1, <2>1, <2>3 DEF TaskExit, IpcReleasePorts
<1>5. FsTyped'
  BY <1>1 DEF FsInv, FsTyped
<1>6. Whereabouts'
  BY <1>1 DEF FsInv, Whereabouts, Asking, Serving, Request
<1>7. Mutex' /\ LockIsHandedOn'
  BY <1>1, <1>4, MutexStays DEF FsInv, InUse
<1>8. OneMessage'
  BY <1>1, <1>3, MessagesStay DEF FsInv, Hand, Expects, Request
<1>9. ASSUME NEW d \in Clients PROVE ItsOwn(d)'
  BY <1>1 DEF FsInv, ItsOwn, Request
<1>10. QED
  BY <1>2, <1>5, <1>6, <1>7, <1>8, <1>9 DEF FsInv
-----------------------------------------------------------------------------
\* A turn of port_send() or port_recv() does not concern who waits for the mutex.
LEMMA TurnSpares ==
    ASSUME FsInv, NEW p \in Procs, PortSend(p) \/ PortRecv(p), NEW q \in Procs, pc[q] = "lock"
    PROVE  state'[q] = state[q]
<1>1. q \in Clients
  BY Constants DEF FsInv, Whereabouts, Serving
<1>2. call[q] = NoCall
  BY <1>1 DEF FsInv, Whereabouts, Asking
<1>3. \A i \in PortIds : q \notin Queued(ports[i].senders) /\ q \notin Queued(ports[i].receivers)
  BY <1>2, NotQueued DEF FsInv
<1>4. call[p].op \in {"send", "recv"} /\ call[p].port \in PortIds /\ p # q
  BY <1>2 DEF PortSend, SendFails, SendWaits, Sends, MaySend, PortRecv, RecvFails, RecvWaits,
              Receives, MayRecv, InCall, FsInv, PortsInv, Typed, SendCalls, RecvCalls, NoCall
<1>5. /\ First(ports[call[p].port].receivers) \subseteq Queued(ports[call[p].port].receivers)
      /\ First(ports[call[p].port].senders) \subseteq Queued(ports[call[p].port].senders)
  BY DEF First, Queued
<1>6. \/ state' = state
      \/ state' = [state EXCEPT ![p] = "BLOCKED"]
      \/ Awake(First(ports[call[p].port].receivers))
      \/ Awake(First(ports[call[p].port].senders))
  BY DEF PortSend, SendFails, SendWaits, Sends, Deliver, PortRecv, RecvFails, RecvWaits, Receives
<1>7. QED
  BY <1>3, <1>4, <1>5, <1>6 DEF Awake, FsInv, PortsInv, Typed

\* What a turn leaves of the invariant whatever it does with the mail.
LEMMA TurnKeeps ==
    ASSUME FsInv, NEW p \in Procs, InPorts(p)
    PROVE  PortsInv' /\ FsTyped' /\ Mutex' /\ LockIsHandedOn'
<1>1. UNCHANGED <<fs_mtx, pc, asked, vain>> /\ (PortSend(p) \/ PortRecv(p))
  BY DEF InPorts, fsVars
<1>2. PortsInv' /\ FsTyped'
  BY <1>1, CallsKeep DEF FsInv, FsTyped
<1>3. \A q \in Procs : pc[q] = "lock" => state'[q] = state[q]
  BY <1>1, TurnSpares
<1>4. Mutex' /\ LockIsHandedOn'
  BY <1>1, <1>3, MutexStays DEF FsInv, InUse
<1>5. QED
  BY <1>2, <1>4

\* A call ends: of a client that sends or receives, or of a server.
LEMMA CallEnds ==
    ASSUME FsInv, NEW p \in Procs, NEW a, call[p] # NoCall, UNCHANGED <<pc, asked>>,
           call' = [call EXCEPT ![p] = NoCall], answer' = [answer EXCEPT ![p] = a],
           call[p].op = "send" => a \in {Ok, Error},
           call[p].op = "recv" => a = Error \/ a.res = "got"
    PROVE  /\ Whereabouts'
           /\ \A q \in Procs : /\ call'[q] = IF q = p THEN NoCall ELSE call[q]
                               /\ answer'[q] = IF q = p THEN a ELSE answer[q]
<1>1. \A q \in Procs : /\ call'[q] = IF q = p THEN NoCall ELSE call[q]
                       /\ answer'[q] = IF q = p THEN a ELSE answer[q]
  BY DEF FsInv, PortsInv, Typed
<1>2. ASSUME NEW d \in Clients PROVE Asking(d)'
  <2>1. Asking(d) /\ d \in Procs
    BY Constants DEF FsInv, Whereabouts
  <2>2. CASE d = p
    BY <2>1, <2>2, <1>1 DEF Asking, NoCall
  <2>3. CASE d # p
    BY <2>1, <2>3, <1>1 DEF Asking, Request
  <2>4. QED
    BY <2>2, <2>3
<1>3. ASSUME NEW s \in Servers PROVE Serving(s)'
  <2>1. Serving(s) /\ s \in Procs
    BY Constants DEF FsInv, Whereabouts
  <2>2. QED
    BY <2>1, <1>1 DEF Serving
<1>4. \A q \in Procs : call'[q] # NoCall => answer'[q] = None
  BY <1>1 DEF FsInv, Whereabouts
<1>5. QED
  BY <1>1, <1>2, <1>3, <1>4 DEF Whereabouts


\* Whoever waits changes nothing of that.
LEMMA TurnWaits ==
    ASSUME FsInv, NEW p \in Procs, InPorts(p), SendWaits(p) \/ RecvWaits(p) PROVE FsInv'
<1>1. UNCHANGED <<fs_mtx, pc, asked, vain, call, answer>>
  BY DEF InPorts, fsVars, SendWaits, RecvWaits
<1>2. PortsInv' /\ FsTyped' /\ Mutex' /\ LockIsHandedOn'
  BY TurnKeeps
<1>3. Box' = Box
  BY WaitsLeaveMail DEF FsInv
<1>4. Whereabouts'
  BY <1>1 DEF FsInv, Whereabouts, Asking, Serving, Request
<1>5. OneMessage'
  BY <1>1, <1>3, MessagesStay DEF FsInv, Hand, Expects, Request
<1>6. ASSUME NEW d \in Clients PROVE ItsOwn(d)'
  BY <1>1 DEF FsInv, ItsOwn, Request
<1>7. QED
  BY <1>2, <1>4, <1>5, <1>6 DEF FsInv

\* A call that fails takes its message with it, or leaves the mail to others.
LEMMA TurnFails ==
    ASSUME FsInv, NEW p \in Procs, InPorts(p), SendFails(p) \/ RecvFails(p) PROVE FsInv'
<1>1. /\ UNCHANGED <<fs_mtx, pc, asked, vain, ports, state>> /\ call[p] # NoCall
      /\ call' = [call EXCEPT ![p] = NoCall] /\ answer' = [answer EXCEPT ![p] = Error]
  BY DEF InPorts, fsVars, SendFails, RecvFails, Return, InCall, NoCall
<1>2. PortsInv' /\ FsTyped' /\ Mutex' /\ LockIsHandedOn'
  BY TurnKeeps
<1>3. /\ Whereabouts'
      /\ \A q \in Procs : /\ call'[q] = IF q = p THEN NoCall ELSE call[q]
                          /\ answer'[q] = IF q = p THEN Error ELSE answer[q]
  BY <1>1, CallEnds
<1>4. answer[p] = None
  BY <1>1 DEF FsInv, Whereabouts
<1>5. OneMessage'
  <2>1. ASSUME NEW s \in Servers PROVE Hand(s)' = Hand(s) \/ Hand(s)' = <<>>
    <3>1. CASE s = p
      BY <3>1, <1>3, Constants DEF Hand, NoCall, Error
    <3>2. CASE s # p
      BY <3>2, <1>3, Constants DEF Hand
    <3>3. QED
      BY <3>1, <3>2
  <2>2. ASSUME NEW d \in Clients, Expects(d) PROVE Expects(d)' /\ Request(d)' = Request(d)
    <3>1. CASE d = p
      BY <3>1, <2>2, <1>1, <1>3, <1>4 DEF Expects, Request, None, Ok, Error
    <3>2. CASE d # p
      BY <3>2, <2>2, <1>1, <1>3, Constants DEF Expects, Request
    <3>3. QED
      BY <3>1, <3>2
  <2>3. Box' = Box
    BY <1>1 DEF Box
  <2>4. QED
    BY <1>1, <2>1, <2>2, <2>3, MessagesStay DEF FsInv
<1>6. ASSUME NEW d \in Clients PROVE ItsOwn(d)'
  BY <1>1, <1>3, Constants DEF FsInv, ItsOwn, Request, Error
<1>7. QED
  BY <1>2, <1>3, <1>5, <1>6 DEF FsInv
-----------------------------------------------------------------------------
\* A message can be in a port or in the hands of a server.
LEMMA SpotsAre ==
    /\ \A i \in PortIds : <<"port", i>> \in Spots /\ MailAt(<<"port", i>>) = Box[i]
    /\ \A s \in Servers : <<"hand", s>> \in Spots /\ MailAt(<<"hand", s>>) = Hand(s)
    /\ \A x \in Spots : \/ \E i \in PortIds : x = <<"port", i>>
                        \/ \E s \in Servers : x = <<"hand", s>>
    /\ \A i, s : <<"port", i>> # <<"hand", s>>
BY DEF Spots, MailAt

\* The only message is where it was put.
LEMMA MessageIsAt ==
    ASSUME NEW y, NEW c \in Clients, Expects(c)',
           \A x \in Spots : x # y => MailAt(x)' = <<>>,
           y \in Spots => MailAt(y)' = <<Request(c)>>, Request(c)' = Request(c)
    PROVE  OneMessage'
BY DEF OneMessage

\* Whose the only message is, and that it is nowhere else.
LEMMA OnlyMessage ==
    ASSUME OneMessage, ~vain, NEW y \in Spots, MailAt(y) # <<>>
    PROVE  /\ \E c \in Clients : Expects(c) /\ MailAt(y) = <<Request(c)>>
           /\ \A x \in Spots : x # y => MailAt(x) = <<>>
BY DEF OneMessage

\* A queue of one.
LEMMA OneLong ==
    ASSUME NEW m PROVE Append(<<>>, m) = <<m>> /\ Tail(<<m>>) = <<>> /\ Head(<<m>>) = m /\ <<m>> # <<>>
OBVIOUS

\* The request of a client goes into the port of the server, where nothing is
\* nor anywhere else.
LEMMA ClientSends ==
    ASSUME FsInv, NEW c \in Clients, InPorts(c), Sends(c) PROVE FsInv'
<1>1. /\ UNCHANGED <<fs_mtx, pc, asked, vain>> /\ call[c].op = "send" /\ call[c] # NoCall
      /\ call' = [call EXCEPT ![c] = NoCall] /\ answer' = [answer EXCEPT ![c] = Ok]
      /\ Deliver(call[c].port, call[c].msg) /\ ports[call[c].port].count < PORT_QUEUE
      /\ ports[call[c].port].in_use /\ c \in Procs
  BY Constants DEF InPorts, fsVars, Sends, MaySend, Return, InCall, NoCall
<1>2. PortsInv' /\ FsTyped' /\ Mutex' /\ LockIsHandedOn'
  BY <1>1, TurnKeeps
<1>3. /\ Whereabouts'
      /\ \A q \in Procs : /\ call'[q] = IF q = c THEN NoCall ELSE call[q]
                          /\ answer'[q] = IF q = c THEN Ok ELSE answer[q]
  BY <1>1, CallEnds, ZenonT(40)
<1>4. Asking(c) /\ answer[c] = None
  BY <1>1 DEF FsInv, Whereabouts
<1>5. /\ pc[c] = "sending" /\ call[c].port = PORT_FILES /\ call[c].msg = Request(c)
  BY <1>1, <1>4 DEF Asking, NoCall
<1>6. OneMessage'
  <2>1. CASE vain
    BY <2>1, <1>1 DEF OneMessage
  <2>2. CASE ~vain
    <3>1. \A d \in Clients : ~Expects(d)
      <4>1. ~Expects(c)
        BY <1>4, <1>5 DEF Expects, None, Ok
      <4>2. InUse(c)
        BY <1>5 DEF InUse
      <4>3. QED
        BY <4>1, <4>2, Inside, Constants DEF FsInv
    <3>2. \A x \in Spots : MailAt(x) = <<>>
      BY <2>2, <3>1 DEF FsInv, OneMessage
    <3>3. /\ \A i \in PortIds : Box[i] = <<>>
          /\ \A s \in Servers : Hand(s) = <<>>
      BY <3>2, SpotsAre
    <3>4. Box' = [Box EXCEPT ![PORT_FILES] = Append(@, Request(c))]
      <4>1. Request(c) \in Mail
        BY <1>1, <1>5 DEF FsInv, PortsInv, Typed, SendCalls, RecvCalls, NoCall
      <4>2. QED
        BY <1>1, <1>2, <1>5, <4>1, Constants, DeliverAppends DEF FsInv
    <3>5. \A i \in PortIds : Box'[i] = IF i = PORT_FILES THEN <<Request(c)>> ELSE <<>>
      <4>1. Box = [i \in PortIds |-> Box[i]]
        BY DEF Box
      <4>2. QED
        BY <3>3, <3>4, <4>1, OneLong, Constants
    <3>6. \A s \in Servers : Hand(s)' = <<>>
      BY <1>3, <3>3, Constants DEF Hand
    <3>7. Expects(c)' /\ Request(c)' = Request(c)
      BY <1>1, <1>3, <1>5 DEF Expects, Request
    <3>8. \A x \in Spots : x # <<"port", PORT_FILES>> => MailAt(x)' = <<>>
      BY <3>5, <3>6, SpotsAre DEF MailAt
    <3>9. MailAt(<<"port", PORT_FILES>>)' = <<Request(c)>>
      BY <3>5, Constants DEF MailAt
    <3>10. QED
      BY <3>7, <3>8, <3>9, MessageIsAt
  <2>3. QED
    BY <2>1, <2>2
<1>7. ASSUME NEW d \in Clients PROVE ItsOwn(d)'
  BY <1>1, <1>3, Constants DEF FsInv, ItsOwn, Request, Ok
<1>8. QED
  BY <1>2, <1>3, <1>6, <1>7 DEF FsInv

\* The answer of the server, from its hands into the port of the kernel.
LEMMA ServerSends ==
    ASSUME FsInv, NEW s \in Servers, InPorts(s), Sends(s) PROVE FsInv'
<1>1. /\ UNCHANGED <<fs_mtx, pc, asked, vain>> /\ call[s].op = "send" /\ call[s] # NoCall
      /\ call' = [call EXCEPT ![s] = NoCall] /\ answer' = [answer EXCEPT ![s] = Ok]
      /\ Deliver(call[s].port, call[s].msg) /\ ports[call[s].port].count < PORT_QUEUE
      /\ ports[call[s].port].in_use /\ s \in Procs
  BY Constants DEF InPorts, fsVars, Sends, MaySend, Return, InCall, NoCall
<1>2. PortsInv' /\ FsTyped' /\ Mutex' /\ LockIsHandedOn'
  BY <1>1, TurnKeeps
<1>3. /\ Whereabouts'
      /\ \A q \in Procs : /\ call'[q] = IF q = s THEN NoCall ELSE call[q]
                          /\ answer'[q] = IF q = s THEN Ok ELSE answer[q]
  BY <1>1, CallEnds, ZenonT(40)
<1>4. Serving(s)
  BY DEF FsInv, Whereabouts
<1>5. call[s].port = PORT_KERNEL
  BY <1>1, <1>4 DEF Serving, NoCall
<1>6. OneMessage'
  <2>1. CASE vain
    BY <2>1, <1>1 DEF OneMessage
  <2>2. CASE ~vain
    <3> DEFINE m == call[s].msg
    <3>1. MailAt(<<"hand", s>>) = <<m>> /\ <<"hand", s>> \in Spots
      BY <1>1, SpotsAre DEF Hand
    <3>2. m \in Mail
      BY <1>1 DEF FsInv, PortsInv, Typed, SendCalls, RecvCalls, NoCall
    <3> HIDE DEF m
    <3>3. \A x \in Spots : x # <<"hand", s>> => MailAt(x) = <<>>
      BY <2>2, <3>1, OneLong, OnlyMessage DEF FsInv
    <3>4. PICK c \in Clients : Expects(c) /\ <<m>> = <<Request(c)>>
      BY <2>2, <3>1, OneLong, OnlyMessage DEF FsInv
    <3>5. /\ \A i \in PortIds : Box[i] = <<>>
          /\ \A t \in Servers : t # s => Hand(t) = <<>>
      <4>1. \A i \in PortIds : <<"port", i>> \in Spots /\ <<"port", i>> # <<"hand", s>>
        BY SpotsAre
      <4>2. \A t \in Servers : t # s => <<"hand", t>> \in Spots /\ <<"hand", t>> # <<"hand", s>>
        BY SpotsAre
      <4>3. QED
        BY <3>3, <4>1, <4>2, SpotsAre
    <3>6. Box' = [Box EXCEPT ![PORT_KERNEL] = Append(@, m)]
      BY <1>1, <1>2, <1>5, <3>2, Constants, DeliverAppends DEF FsInv, m
    <3>7. \A i \in PortIds : Box'[i] = IF i = PORT_KERNEL THEN <<m>> ELSE <<>>
      <4>1. Box = [i \in PortIds |-> Box[i]]
        BY DEF Box
      <4>2. QED
        BY <3>5, <3>6, <4>1, OneLong, Constants
    <3>8. \A t \in Servers : Hand(t)' = <<>>
      BY <1>3, <3>5, Constants DEF Hand, NoCall, Ok
    <3>9. Expects(c)' /\ Request(c)' = Request(c)
      BY <1>1, <1>3, <3>4, Constants DEF Expects, Request
    <3>10. \A x \in Spots : x # <<"port", PORT_KERNEL>> => MailAt(x)' = <<>>
      BY <3>7, <3>8, SpotsAre DEF MailAt
    <3>11. MailAt(<<"port", PORT_KERNEL>>)' = <<Request(c)>>
      BY <3>4, <3>7, Constants DEF MailAt
    <3>12. QED
      BY <3>9, <3>10, <3>11, MessageIsAt
  <2>3. QED
    BY <2>1, <2>2
<1>7. ASSUME NEW d \in Clients PROVE ItsOwn(d)'
  BY <1>1, <1>3, Constants DEF FsInv, ItsOwn, Request
<1>8. QED
  BY <1>2, <1>3, <1>6, <1>7 DEF FsInv


\* The request of a client, from the port into the hands of a server.
LEMMA ServerReceives ==
    ASSUME FsInv, NEW s \in Servers, InPorts(s), Receives(s) PROVE FsInv'
<1> DEFINE i == call[s].port
           m == ports[i].q[ports[i].head]
<1>1. /\ UNCHANGED <<fs_mtx, pc, asked, vain>> /\ call[s].op = "recv" /\ call[s] # NoCall
      /\ call' = [call EXCEPT ![s] = NoCall] /\ answer' = [answer EXCEPT ![s] = Got(m)]
      /\ s \in Procs
  BY Constants DEF InPorts, fsVars, Receives, MayRecv, Return, InCall, NoCall
<1>2. PortsInv' /\ FsTyped' /\ Mutex' /\ LockIsHandedOn'
  BY <1>1, TurnKeeps
<1>3. i \in PortIds /\ i = call[s].port
  BY <1>1 DEF FsInv, PortsInv, Typed, SendCalls, RecvCalls, NoCall
<1> HIDE DEF i
<1>4. /\ Box' = [Box EXCEPT ![i] = Tail(@)]
      /\ Box[i] # <<>> /\ Head(Box[i]) = m
  BY <1>1, <1>2, <1>3, ReceiveTakes DEF FsInv
<1> HIDE DEF m
<1>5. /\ Whereabouts'
      /\ \A q \in Procs : /\ call'[q] = IF q = s THEN NoCall ELSE call[q]
                          /\ answer'[q] = IF q = s THEN Got(m) ELSE answer[q]
  BY <1>1, CallEnds, ZenonT(40) DEF Got
<1>6. OneMessage'
  <2>1. CASE vain
    BY <2>1, <1>1 DEF OneMessage
  <2>2. CASE ~vain
    <3>1. MailAt(<<"port", i>>) = Box[i] /\ <<"port", i>> \in Spots
      BY <1>3, SpotsAre
    <3>2. \A x \in Spots : x # <<"port", i>> => MailAt(x) = <<>>
      BY <2>2, <1>4, <3>1, OnlyMessage DEF FsInv
    <3>3. PICK c \in Clients : Expects(c) /\ Box[i] = <<Request(c)>>
      BY <2>2, <1>4, <3>1, OnlyMessage DEF FsInv
    <3>4. m = Request(c) /\ Tail(Box[i]) = <<>>
      BY <1>4, <3>3, OneLong
    <3>5. /\ \A j \in PortIds : j # i => Box[j] = <<>>
          /\ \A t \in Servers : Hand(t) = <<>>
      <4>1. \A j \in PortIds : <<"port", j>> \in Spots /\ (j # i => <<"port", j>> # <<"port", i>>)
        BY SpotsAre
      <4>2. \A t \in Servers : <<"hand", t>> \in Spots /\ <<"hand", t>> # <<"port", i>>
        BY SpotsAre
      <4>3. QED
        BY <3>2, <4>1, <4>2, SpotsAre
    <3>6. \A j \in PortIds : Box'[j] = <<>>
      <4>1. Box = [j \in PortIds |-> Box[j]]
        BY DEF Box
      <4>2. QED
        BY <1>4, <3>4, <3>5, <4>1
    <3>7. \A t \in Servers : Hand(t)' = IF t = s THEN <<m>> ELSE <<>>
      BY <1>5, <3>5, Constants DEF Hand, NoCall, Got
    <3>8. Expects(c)' /\ Request(c)' = Request(c)
      BY <1>1, <1>5, <3>3, Constants DEF Expects, Request
    <3>9. \A x \in Spots : x # <<"hand", s>> => MailAt(x)' = <<>>
      BY <3>6, <3>7, SpotsAre DEF MailAt
    <3>10. MailAt(<<"hand", s>>)' = <<Request(c)>>
      BY <3>4, <3>7, Constants DEF MailAt
    <3>11. QED
      BY <3>8, <3>9, <3>10, MessageIsAt
  <2>3. QED
    BY <2>1, <2>2
<1>7. ASSUME NEW d \in Clients PROVE ItsOwn(d)'
  BY <1>1, <1>5, Constants DEF FsInv, ItsOwn, Request
<1>8. QED
  BY <1>2, <1>5, <1>6, <1>7 DEF FsInv

\* The answer comes to the client whose it is, and there is no other.
LEMMA ClientReceives ==
    ASSUME FsInv, NEW c \in Clients, InPorts(c), Receives(c) PROVE FsInv'
<1> DEFINE i == call[c].port
           m == ports[i].q[ports[i].head]
<1>1. /\ UNCHANGED <<fs_mtx, pc, asked, vain>> /\ call[c].op = "recv" /\ call[c] # NoCall
      /\ call' = [call EXCEPT ![c] = NoCall] /\ answer' = [answer EXCEPT ![c] = Got(m)]
      /\ c \in Procs
  BY Constants DEF InPorts, fsVars, Receives, MayRecv, Return, InCall, NoCall
<1>2. PortsInv' /\ FsTyped' /\ Mutex' /\ LockIsHandedOn'
  BY <1>1, TurnKeeps
<1>3. i \in PortIds /\ i = call[c].port
  BY <1>1 DEF FsInv, PortsInv, Typed, SendCalls, RecvCalls, NoCall
<1> HIDE DEF i
<1>4. /\ Box' = [Box EXCEPT ![i] = Tail(@)]
      /\ Box[i] # <<>> /\ Head(Box[i]) = m
  BY <1>1, <1>2, <1>3, ReceiveTakes DEF FsInv
<1> HIDE DEF m
<1>5. /\ Whereabouts'
      /\ \A q \in Procs : /\ call'[q] = IF q = c THEN NoCall ELSE call[q]
                          /\ answer'[q] = IF q = c THEN Got(m) ELSE answer[q]
  BY <1>1, CallEnds, ZenonT(40) DEF Got
<1>6. Asking(c)
  BY DEF FsInv, Whereabouts
<1>7. pc[c] = "receiving"
  BY <1>1, <1>6 DEF Asking, NoCall
<1>8. CASE vain
  BY <1>8, <1>1, <1>2, <1>5 DEF FsInv, OneMessage, ItsOwn
<1>9. CASE ~vain
  <2>1. MailAt(<<"port", i>>) = Box[i] /\ <<"port", i>> \in Spots
    BY <1>3, SpotsAre
  <2>2. \A x \in Spots : x # <<"port", i>> => MailAt(x) = <<>>
    BY <1>9, <1>4, <2>1, OnlyMessage DEF FsInv
  <2>3. PICK d \in Clients : Expects(d) /\ Box[i] = <<Request(d)>>
    BY <1>9, <1>4, <2>1, OnlyMessage DEF FsInv
  <2>4. d = c
    BY <1>1, <1>7, <2>3, Inside, Constants DEF FsInv, InUse
  <2>5. m = Request(c) /\ Tail(Box[i]) = <<>>
    BY <1>4, <2>3, <2>4, OneLong
  <2>6. /\ \A j \in PortIds : j # i => Box[j] = <<>>
        /\ \A t \in Servers : Hand(t) = <<>>
    <3>1. \A j \in PortIds : <<"port", j>> \in Spots /\ (j # i => <<"port", j>> # <<"port", i>>)
      BY SpotsAre
    <3>2. \A t \in Servers : <<"hand", t>> \in Spots /\ <<"hand", t>> # <<"port", i>>
      BY SpotsAre
    <3>3. QED
      BY <2>2, <3>1, <3>2, SpotsAre
  <2>7. \A j \in PortIds : Box'[j] = <<>>
    <3>1. Box = [j \in PortIds |-> Box[j]]
      BY DEF Box
    <3>2. QED
      BY <1>4, <2>5, <2>6, <3>1
  <2>8. \A t \in Servers : Hand(t)' = <<>>
    BY <1>5, <2>6, Constants DEF Hand
  <2>9. \A x \in Spots : MailAt(x)' = <<>>
    BY <2>7, <2>8, SpotsAre DEF MailAt
  <2>10. OneMessage'
    BY <2>9 DEF OneMessage
  <2>11. ASSUME NEW e \in Clients PROVE ItsOwn(e)'
    <3>1. CASE e = c
      BY <3>1, <1>1, <1>5, <2>5 DEF ItsOwn, Request, Got
    <3>2. CASE e # c
      BY <3>2, <1>1, <1>5, Constants DEF FsInv, ItsOwn, Request
    <3>3. QED
      BY <3>1, <3>2
  <2>12. QED
    BY <1>2, <1>5, <2>10, <2>11 DEF FsInv
<1>10. QED
  BY <1>8, <1>9

\* A turn inside send or receive, of a client or of a server.
LEMMA InPortsKeeps == ASSUME FsInv, NEW p \in Procs, InPorts(p) PROVE FsInv'
<1>1. \/ SendFails(p) \/ RecvFails(p) \/ SendWaits(p) \/ RecvWaits(p)
      \/ Sends(p) \/ Receives(p)
  BY DEF InPorts, PortSend, PortRecv
<1>2. p \in Clients \/ p \in Servers
  BY Constants
<1>3. QED
  BY <1>1, <1>2, TurnWaits, TurnFails, ClientSends, ServerSends, ClientReceives, ServerReceives
-----------------------------------------------------------------------------
\* No step of anybody leaves the invariant.
LEMMA FsSteps == FsInv /\ [FsNext]_<<vars, fsVars>> => FsInv'
<1> SUFFICES ASSUME FsInv, [FsNext]_<<vars, fsVars>> PROVE FsInv'
  OBVIOUS
<1>1. ASSUME NEW c \in Clients, Transaction(c) \/ Client(c) PROVE FsInv'
  <2>1. CASE CreateReplyPort(c)
    <3>1. CASE PortCreate(Kernel, PORT_KERNEL) /\ UNCHANGED pc
      <4>1. /\ PortCreate(Kernel, PORT_KERNEL) /\ UNCHANGED <<fs_mtx, pc, asked, vain>>
            /\ Kernel \in Owners /\ PORT_KERNEL \in PortIds
        BY <2>1, <3>1, Constants DEF CreateReplyPort, Owners
      <4>2. QED
        BY <4>1, PortCreated
    <3>2. CASE /\ Go(c, "unlock")
               /\ answer' = [answer EXCEPT ![c] = Error]
               /\ UNCHANGED <<ports, state, interrumpido, call>>
      <4>1. /\ pc[c] = "locked" /\ pc' = [pc EXCEPT ![c] = "unlock"]
            /\ UNCHANGED <<fs_mtx, asked, vain>>
        BY <2>1, <3>2 DEF CreateReplyPort, Runs, Go
      <4>2. QED
        BY <3>2, <4>1, NoPortKeeps
    <3>3. QED
      BY <2>1, <3>1, <3>2 DEF CreateReplyPort
  <2>2. QED
    BY <1>1, <2>1, TransactionKeeps, LockTakenKeeps, LockWaitsKeeps, SendRequestKeeps,
       ReceiveAnswerKeeps, OverKeeps, MutexUnlockKeeps DEF Client
<1>2. ASSUME NEW s \in Servers, Server(s) \/ Dies(s) PROVE FsInv'
  BY <1>2, ServerKeeps, DiesKeeps
<1>3. ASSUME NEW p \in Procs, InPorts(p) \/ Signalled(p) PROVE FsInv'
  BY <1>3, InPortsKeeps, SignalledKeeps
<1>4. CASE UNCHANGED <<vars, fsVars>>
  <2>1. UNCHANGED <<fs_mtx, pc, asked, vain>> /\ UNCHANGED vars
    BY <1>4 DEF fsVars
  <2>2. UNCHANGED <<ports, state, interrumpido, call, answer>>
    BY <2>1 DEF vars
  <2>3. PortsInv' /\ Box' = Box
    BY <2>1, PortsAsTheyWere DEF FsInv
  <2>4. FsTyped' /\ Whereabouts' /\ Mutex' /\ LockIsHandedOn'
    BY <2>1, <2>2 DEF FsInv, FsTyped, Whereabouts, Asking, Serving, Request, Mutex, InUse,
                      LockIsHandedOn, Runs
  <2>5. OneMessage'
    BY <2>1, <2>2, <2>3, MessagesStay DEF FsInv, Hand, Expects, Request
  <2>6. ASSUME NEW d \in Clients PROVE ItsOwn(d)'
    BY <2>1, <2>2 DEF FsInv, ItsOwn, Request
  <2>7. QED
    BY <2>3, <2>4, <2>5, <2>6 DEF FsInv
<1>5. QED
  BY <1>1, <1>2, <1>3, <1>4 DEF FsNext

\* The invariant holds in every state.
LEMMA FsInvariant == FsSpec => []FsInv
BY InitFs, FsSteps, PTL DEF FsSpec

\* The mutex is of who is inside, and its queue holds who waits, besides what
\* PortsTyped says of the ports.
THEOREM FsClientTyped == FsSpec => []FsTypeOK
<1>1. FsInv => FsTypeOK
  <2> SUFFICES ASSUME FsInv PROVE FsTypeOK
    OBVIOUS
  <2>1. TypeOK
    BY DEF FsInv, PortsInv, Typed, Ring, Queues, Sleeps, TypeOK
  <2>2. QED
    BY <2>1 DEF FsInv, FsTyped, Mutex, FsTypeOK
<1>2. QED
  BY <1>1, FsInvariant, PTL

\* wq_wake_one() in mutex_unlock() does not get lost: nobody waits for the mutex
\* while it is free and nobody is on the way to take it, signals and all.
THEOREM TheLockGoesOn == FsSpec => []LockIsHandedOn
<1>1. FsInv => LockIsHandedOn
  BY DEF FsInv
<1>2. QED
  BY <1>1, FsInvariant, PTL

\* One process at a time is in the middle of fs_transaccion(), so that there is
\* one buffer and one port for the answers of all.
THEOREM OneAtATime == FsSpec => []OneTransaction
<1>1. FsInv => OneTransaction
  BY Inside, Constants DEF FsInv, OneTransaction
<1>2. QED
  BY <1>1, FsInvariant, PTL

\* An answer does not say whose it is, and yet each transaction has its own, with
\* any number of clients, of servers that die and of signals, until one of these
\* cuts a transaction whose request has been sent.
THEOREM AnswersAreForWhoAsked == FsSpec => []AnswersMatchUntilCut
<1>1. FsInv => AnswersMatchUntilCut
  BY DEF FsInv, ItsOwn, AnswersMatchUntilCut
<1>2. QED
  BY <1>1, FsInvariant, PTL

\* The fairness of the scheduler only adds to that.
COROLLARY FairAnswers == FairSpec => [](LockIsHandedOn /\ AnswersMatchUntilCut)
BY TheLockGoesOn, AnswersAreForWhoAsked, PTL DEF FairSpec
=============================================================================
