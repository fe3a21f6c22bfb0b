----------------------------- MODULE TcpProofs -----------------------------
(***************************************************************************)
(* Proofs about Tcp, for any number of connections, any sizes of buffers,  *)
(* segments and windows, any number of calls and of troubles, and any air: *)
(* the shape of the server, that the stream each side gets is the one the  *)
(* other sent, and that nobody waits for what is there or cannot come.     *)
(*                                                                         *)
(* TcpInv is the inductive invariant.  Sound(c, given, told, sent) is what *)
(* a connection keeps in each of its states; FromUs and FromPeer are what  *)
(* a segment in the air may carry, however old it is; PeerOK is what the   *)
(* other machine has.  The bytes put in flight and those the requests in   *)
(* the port may still put there stay within Mss for each call, and so both *)
(* streams within half of the sequence numbers (Far), where (int32_t) of a *)
(* difference tells before from after.                                     *)
(*                                                                         *)
(* Each handler is proved alone first: Fits(r, b) says that the result r   *)
(* is right for the port whose things were b before.                       *)
(*                                                                         *)
(* Dialogue is the invariant of the program with the server, as long as no *)
(* wait was given up: at every moment the program is in one of five places *)
(* (AtRest, Asking, Working, Replied, Lost), one answer at most is on its  *)
(* way, and what it will have when it takes it is what the slot has handed *)
(* out and told (Have).  Speaks(r, w) says what a handler may answer to    *)
(* whom waits for w, and Turns carries it to a step of the server.         *)
(***************************************************************************)
EXTENDS Tcp, FiniteSetTheorems, SequenceTheorems, WellFoundedInduction, TLAPS

Flag(b) == IF b THEN 1 ELSE 0
Budget(n) == Mss * n
Far == PeerBytes + Budget(MaxEvents) + 2

ConnFields(c) ==
    c = [estado |-> c.estado, local |-> c.local, snd_una |-> c.snd_una, snd_nxt |-> c.snd_nxt,
         rcv_nxt |-> c.rcv_nxt, ventana_otro |-> c.ventana_otro, vuelo |-> c.vuelo,
         reintentos |-> c.reintentos, buz |-> c.buz, fin_recibido |-> c.fin_recibido,
         ventana_dicha |-> c.ventana_dicha, lector |-> c.lector, envio |-> c.envio,
         cerrar_pedido |-> c.cerrar_pedido, morir_en |-> c.morir_en]

ResultFields(r) == r = [c |-> r.c, out |-> r.out, says |-> r.says, gave |-> r.gave,
                        in |-> r.in, flew |-> r.flew]

PeerFields(q) == q = [st |-> q.st, acked |-> q.acked, sent |-> q.sent, room |-> q.room,
                      got |-> q.got, fin |-> q.fin, full |-> q.full]

ProgFields(g) == g = [alive |-> g.alive, waits |-> g.waits, h |-> g.h, said |-> g.said,
                      got |-> g.got, rung |-> g.rung, over |-> g.over, cut |-> g.cut, late |-> g.late]

ConnType(c) ==
    /\ ConnFields(c)
    /\ c.estado \in {"syn", "abierta", "cerrando", "muerta"}
    /\ c.local \in Ports
    /\ c.snd_una \in 0 .. SeqSpace - 1 /\ c.snd_nxt \in 0 .. SeqSpace - 1
    /\ c.rcv_nxt \in 0 .. SeqSpace - 1
    /\ c.ventana_otro \in Nat /\ c.ventana_dicha \in Nat
    /\ c.vuelo.flags \in SUBSET {"syn", "ack", "fin", "rst"} /\ c.vuelo.seq \in 0 .. SeqSpace - 1
    /\ c.vuelo.data \in Seq(Nat) /\ Len(c.vuelo.data) <= Mss
    /\ c.reintentos \in 0 .. Retries /\ c.morir_en \in {Never} \cup 1 .. 10
    /\ c.buz \in Seq(Nat) /\ Len(c.buz) <= Buz
    /\ c.fin_recibido \in BOOLEAN /\ c.lector \in BOOLEAN
    /\ c.envio \in BOOLEAN /\ c.cerrar_pedido \in BOOLEAN

Slice(d, w, i) == i + Len(d) <= Len(w) /\ \A j \in 1 .. Len(d) : d[j] = w[i + j]

Opening(c, g, t, w) ==
    c.estado = "syn" =>
        /\ w = <<>> /\ g = <<>> /\ t = 0 /\ c.buz = <<>> /\ ~c.fin_recibido /\ ~c.envio
        /\ c.snd_nxt = Plus(Iss, 1) /\ c.vuelo = [flags |-> {"syn"}, seq |-> Iss, data |-> <<>>]
        /\ c.morir_en = Never

InFlight(c, w) == Len(w) - Len(c.vuelo.data)

Sending(c, t, w) ==
    c.estado = "abierta" =>
        /\ c.snd_nxt = Plus(Iss, 1 + Len(w))
        /\ \/ c.vuelo.flags = {} /\ c.snd_una = c.snd_nxt /\ ~c.envio
           \/ /\ c.vuelo.flags = {"ack"} /\ c.vuelo.data # <<>>
              /\ InFlight(c, w) >= 0 /\ Slice(c.vuelo.data, w, InFlight(c, w))
              /\ c.vuelo.seq = Plus(Iss, 1 + InFlight(c, w))
              /\ c.envio => t <= InFlight(c, w)

Closing(c, w) ==
    c.estado = "cerrando" =>
        /\ c.snd_nxt = Plus(Iss, 2 + Len(w)) /\ ~c.envio
        /\ \/ c.vuelo.flags = {}
           \/ /\ c.vuelo.flags = {"fin", "ack"} /\ c.vuelo.data = <<>>
              /\ c.vuelo.seq = Plus(Iss, 1 + Len(w))

Over(c) ==
    c.estado = "muerta" =>
        /\ ~c.envio
        /\ c.vuelo.flags = {} \/ c.vuelo = [flags |-> {"syn"}, seq |-> Iss, data |-> <<>>]

Taken(c, g) ==
    /\ \A j \in 1 .. Len(g) : g[j] = j
    /\ \A j \in 1 .. Len(c.buz) : c.buz[j] = Len(g) + j
    /\ Len(g) + Len(c.buz) <= PeerBytes
    /\ c.rcv_nxt = Plus(PeerIss, 1 + (Len(g) + Len(c.buz)) + Flag(c.fin_recibido))
    /\ c.fin_recibido => Len(g) + Len(c.buz) = PeerBytes

Reading(c, g) == c.estado \in {"abierta", "cerrando"} => Taken(c, g)

Sound(c, g, t, w) ==
    ConnType(c) /\ Opening(c, g, t, w) /\ Sending(c, t, w) /\ Closing(c, w) /\ Over(c) /\ Reading(c, g)

Patient(c) == c.lector => c.buz = <<>> /\ ~c.fin_recibido /\ c.estado # "muerta"

FromUs(s, w, closed) ==
    \/ s.flags = {"syn"} /\ s.data = <<>>
    \/ "rst" \in s.flags
    \/ s.flags = {"ack"} /\ s.data = <<>>
    \/ s.flags = {"ack"} /\ \E i \in 0 .. Len(w) : s.seq = Plus(Iss, 1 + i) /\ Slice(s.data, w, i)
    \/ closed /\ s.flags = {"fin", "ack"} /\ s.data = <<>> /\ s.seq = Plus(Iss, 1 + Len(w))

FromPeer(s, q) ==
    /\ \E a \in 0 .. Len(q.got) + Flag(q.fin) : s.ack = Plus(Iss, 1 + a)
    /\ \/ "rst" \in s.flags
       \/ s.flags = {"syn", "ack"} /\ s.seq = PeerIss /\ s.data = <<>>
       \/ /\ s.flags \in {{"ack"}, {"ack", "fin"}}
          /\ \E from \in 0 .. PeerBytes + 1 :
               /\ s.seq = Plus(PeerIss, 1 + from)
               /\ s.data # <<>> \/ "fin" \in s.flags => from + Len(s.data) <= PeerBytes
               /\ "fin" \in s.flags => from + Len(s.data) = PeerBytes
               /\ \A j \in 1 .. Len(s.data) : s.data[j] = from + j

PeerOK(q, w, closed) ==
    /\ PeerFields(q)
    /\ q.st \in {"new", "rcvd", "open", "gone"}
    /\ q.acked \in Nat /\ q.sent \in Nat /\ q.acked <= q.sent /\ q.sent <= PeerBytes + 1
    /\ q.room \in Nat /\ q.got \in Seq(Nat) /\ q.fin \in BOOLEAN /\ q.full \in BOOLEAN
    /\ Slice(q.got, w, 0)
    /\ q.fin => closed /\ Len(q.got) = Len(w)

Saying == [type : {"abierta", "hueco", "datos", "error"}, n : 0 .. Mss, data : Seq(Nat), con : {0}]

Shut == {"cerrando", "muerta"}

\* What a handler of connection c leaves: b is what the port had before.
Fits(r, b) ==
    /\ ResultFields(r)
    /\ r.gave \in Seq(Nat) /\ r.in \in Nat /\ r.flew \in Seq(Nat) /\ Len(r.flew) <= b.f
    /\ r.says \in Seq(Saying)
    /\ r.c.local = b.p
    /\ Sound(r.c, b.g \o r.gave, b.t + r.in, b.w \o r.flew)
    /\ b.t + r.in <= b.m
    /\ \A s \in r.out : /\ s \in Segment /\ s.port = b.p
                        /\ FromUs(s, b.w \o r.flew, r.c.estado \in Shut)
    /\ r.flew # <<>> => b.e = "abierta"
    /\ b.e \in Shut => r.c.estado \in Shut

Base(b) ==
    /\ b.p \in Ports /\ b.g \in Seq(Nat) /\ b.t \in Nat /\ b.w \in Seq(Nat) /\ b.m \in Nat /\ b.f \in 0 .. Mss
    /\ b.t <= b.m /\ b.m <= Len(b.w) /\ Len(b.w) <= Budget(MaxEvents)

\* What the program may wait for, and how its connection shows it.
Words == {"none", "abierta", "hueco", "datos"}

Waits(c, w) == /\ c.estado = "syn" <=> w = "abierta"
               /\ c.envio <=> w = "hueco"
               /\ c.lector <=> w = "datos"

\* Alike in what is waited for and in what is kept to read.
Like(c, d) ==
    /\ d.estado = "syn" <=> c.estado = "syn"
    /\ d.envio <=> c.envio
    /\ d.lector <=> c.lector
    /\ d.buz = c.buz /\ d.rcv_nxt = c.rcv_nxt /\ d.fin_recibido = c.fin_recibido

Held(r, b) == Taken(r.c, b.g \o r.gave)
Mute(r)    == r.says = <<>> /\ r.gave = <<>> /\ r.in = 0

\* A handler answers who waits for w, and the answer tells what it has done.
TellsOf(r, w) ==
    \E m \in Saying :
        /\ r.says = <<m>> /\ m.type \in {w, "error"} /\ r.gave = m.data
        /\ r.in = IF m.type = "hueco" THEN m.n ELSE 0
        /\ m.type # "datos" => m.data = <<>>

\* Whoever waits for w goes on waiting, nobody waits any more, or there is one answer.
Speaks(r, w) ==
    \/ Mute(r) /\ (Waits(r.c, w) \/ Waits(r.c, "none"))
    \/ w # "none" /\ Waits(r.c, "none") /\ TellsOf(r, w)

\* A further part of a handler loses nothing of that.
Goes(r, X) == \A w \in Words : Speaks(r, w) => Speaks(X, w)

\* And so a handler of a connection that was c.
Begun(X, c) == \A w \in Words : Waits(c, w) => Speaks(X, w)

Closed(p) ==
    /\ p <= tcp_efimero
    /\ \A k \in Slots : conex[k].local = p => conex[k].estado \in {"cerrando", "muerta"}

Requests == [op : {"abrir", "enviar", "leer", "cerrar"}, slot : 0 .. Conex, data : Seq(Nat)]

NetInv ==
    /\ card \in BOOLEAN /\ ip \in BOOLEAN /\ (ip => card)
    /\ troubles \in 0 .. MaxTroubles /\ events \in 0 .. MaxEvents
    /\ tcp_efimero \in Nat /\ tcp_efimero + Asked("abrir") <= MaxOpens
    /\ DOMAIN given = Ports /\ DOMAIN sent = Ports /\ DOMAIN told = Ports
    /\ \A p \in Ports : /\ given[p] \in Seq(Nat) /\ sent[p] \in Seq(Nat) /\ told[p] \in Nat
                        /\ p > tcp_efimero => given[p] = <<>> /\ sent[p] = <<>> /\ told[p] = 0
                        /\ Len(sent[p]) + Budget(Len(inbox)) <= Budget(events)

ConnInv ==
    /\ DOMAIN conex = Slots
    /\ \A k \in Slots : \/ conex[k] = NoConn
                        \/ /\ conex[k].local <= tcp_efimero
                           /\ Sound(conex[k], given[conex[k].local], told[conex[k].local], sent[conex[k].local])
                           /\ Patient(conex[k])
    /\ \A k \in Slots, j \in Slots : conex[k].local = conex[j].local /\ conex[k].local # 0 => k = j

PeerInv ==
    /\ DOMAIN peer = Ports
    /\ \A p \in Ports : PeerOK(peer[p], sent[p], Closed(p)) /\ told[p] <= Len(peer[p].got)

AirInv ==
    /\ \A s \in toPeer : s \in Segment /\ FromUs(s, sent[s.port], Closed(s.port))
    /\ \A s \in toUs : s \in Segment /\ FromPeer(s, peer[s.port])

ProgInv ==
    /\ \A i \in 1 .. Len(inbox) :
        /\ inbox[i].op # "abrir" => inbox[i].slot # 0
        /\ inbox[i].op = "enviar" => inbox[i].data # <<>>
    /\ ProgFields(prog)
    /\ prog.alive \in BOOLEAN /\ prog.h \in 0 .. Conex /\ prog.said \in Nat
    /\ prog.waits \in {"none", "abierta", "hueco", "datos"}
    /\ prog.waits # "none" => prog.alive

Awaited ==
    prog.waits = "abierta" =>
        \/ inbox # <<>> /\ inbox[Len(inbox)].op = "abrir"
        \/ inbox = <<>> /\ \E k \in Slots : conex[k].estado = "syn"
        \/ \E i \in DOMAIN mail : mail[i].type \in {"abierta", "error", "alarma"}

InboxMail == inbox \in Seq(Requests) /\ mail \in Seq(Message)

\* A remainder of what is already smaller.
LEMMA Mod0 ==
    ASSUME NEW S \in Nat \ {0}, NEW r \in 0 .. S - 1
    PROVE  r % S = r
  BY SMT

\* One turn round the sequence numbers, forwards or backwards.
LEMMA Mod1 ==
    ASSUME NEW S \in Nat \ {0}, NEW r \in 0 .. S - 1
    PROVE  (S + r) % S = r /\ (r - S) % S = r
  BY SMT

\* The constants, and how far a position may be from the start of its stream.
LEMMA Constants ==
    /\ Conex \in Nat \ {0} /\ SeqSpace \in Nat \ {0} /\ Buz \in Nat \ {0} /\ Mss \in Nat \ {0}
    /\ Retries \in Nat \ {0} /\ PeerBytes \in Nat \ {0} /\ ProgBytes \in Nat \ {0}
    /\ PeerWin \in Nat \ {0} /\ MaxOpens \in Nat \ {0} /\ MaxAir \in Nat \ {0}
    /\ MaxEvents \in Nat /\ MaxTroubles \in Nat
    /\ Iss \in 0 .. SeqSpace - 1 /\ PeerIss \in 0 .. SeqSpace - 1
    /\ Mss <= Buz
    /\ Far \in Nat /\ SeqSpace > 2 * Far /\ Far >= PeerBytes + 2
  <1>1. Mss * MaxEvents \in Nat
    BY TcpAssumption DEF TcpAssumption
  <1> QED
    BY <1>1, TcpAssumption DEF TcpAssumption, Far, Budget

\* The budget of all the calls is a number, and Far leaves room for it.
LEMMA BudgetIs ==
    Budget(MaxEvents) \in Nat /\ PeerBytes + Budget(MaxEvents) + 2 = Far
  <1>1. Mss * MaxEvents \in Nat
    BY Constants
  <1> QED BY <1>1, Constants DEF Budget, Far

\* A sequence number after n more: at most one turn.
LEMMA PlusIs ==
    ASSUME NEW X \in 0 .. SeqSpace - 1, NEW n \in 0 .. SeqSpace - 1
    PROVE  /\ Plus(X, n) \in 0 .. SeqSpace - 1
           /\ Plus(X, n) = IF X + n < SeqSpace THEN X + n ELSE X + n - SeqSpace
  <1>1. CASE X + n < SeqSpace
    <2>1. X + n \in 0 .. SeqSpace - 1
      BY <1>1, Constants
    <2> QED BY <1>1, <2>1, Mod0, Constants DEF Plus
  <1>2. CASE ~(X + n < SeqSpace)
    <2> DEFINE r == X + n - SeqSpace
    <2>1. r \in 0 .. SeqSpace - 1 /\ X + n = SeqSpace + r
      BY <1>2, Constants
    <2>2. (X + n) % SeqSpace = r
      <3> HIDE DEF r
      <3> QED BY <2>1, Mod1, Constants
    <2> QED BY <1>2, <2>1, <2>2, Constants DEF Plus
  <1> QED BY <1>1, <1>2

\* Steps add up as long as they stay within Far.
LEMMA PlusPlus ==
    ASSUME NEW X \in 0 .. SeqSpace - 1, NEW m \in 0 .. Far, NEW n \in 0 .. Far, m + n <= Far
    PROVE  Plus(Plus(X, m), n) = Plus(X, m + n)
  <1>1. m \in 0 .. SeqSpace - 1 /\ n \in 0 .. SeqSpace - 1 /\ m + n \in 0 .. SeqSpace - 1
    BY Constants
  <1> DEFINE a == Plus(X, m)
  <1>2. a \in 0 .. SeqSpace - 1 /\ a = IF X + m < SeqSpace THEN X + m ELSE X + m - SeqSpace
    BY <1>1, PlusIs
  <1> HIDE DEF a
  <1>3. Plus(a, n) = IF a + n < SeqSpace THEN a + n ELSE a + n - SeqSpace
    BY <1>1, <1>2, PlusIs
  <1>4. Plus(X, m + n) = IF X + (m + n) < SeqSpace THEN X + (m + n) ELSE X + (m + n) - SeqSpace
    BY <1>1, PlusIs
  <1>5. Plus(a, n) = Plus(X, m + n)
    BY <1>1, <1>2, <1>3, <1>4, Constants
  <1> QED BY <1>5 DEF a

\* How far a stream of ours may come, with its SYN and its FIN.
LEMMA ShortEnough ==
    ASSUME NEW n \in Nat, n <= Budget(MaxEvents)
    PROVE  /\ n + 2 <= Far /\ 1 + n \in 0 .. Far /\ 2 + n \in 0 .. Far /\ 1 \in 0 .. Far
           /\ Iss \in 0 .. SeqSpace - 1 /\ Plus(Plus(Iss, 1 + n), 1) = Plus(Iss, 2 + n)
  <1> DEFINE B == Budget(MaxEvents)
             i == 1 + n
  <1>1. B \in Nat /\ PeerBytes + B + 2 = Far /\ n <= B /\ PeerBytes \in Nat /\ Far \in Nat
         /\ Iss \in 0 .. SeqSpace - 1
    BY BudgetIs, Constants
  <1> HIDE DEF B
  <1>2. i \in 0 .. Far /\ 1 \in 0 .. Far /\ i + 1 <= Far /\ i + 1 = 2 + n /\ i + 1 \in 0 .. Far
    BY <1>1
  <1> HIDE DEF i
  <1>3. Plus(Plus(Iss, i), 1) = Plus(Iss, i + 1)
    BY <1>1, <1>2, PlusPlus
  <1> QED BY <1>1, <1>2, <1>3 DEF i

\* Within Far, each position of a stream has its own number.
LEMMA PlusInjective ==
    ASSUME NEW X \in 0 .. SeqSpace - 1, NEW m \in 0 .. Far, NEW n \in 0 .. Far,
           Plus(X, m) = Plus(X, n)
    PROVE  m = n
  <1>1. m \in 0 .. SeqSpace - 1 /\ n \in 0 .. SeqSpace - 1
    BY Constants
  <1>2. Plus(X, m) = IF X + m < SeqSpace THEN X + m ELSE X + m - SeqSpace
    BY <1>1, PlusIs
  <1>3. Plus(X, n) = IF X + n < SeqSpace THEN X + n ELSE X + n - SeqSpace
    BY <1>1, PlusIs
  <1>4. (IF X + m < SeqSpace THEN X + m ELSE X + m - SeqSpace)
          = (IF X + n < SeqSpace THEN X + n ELSE X + n - SeqSpace)
    BY <1>2, <1>3
  <1>5. X \in Int /\ m \in Int /\ n \in Int /\ SeqSpace \in Int
         /\ 0 <= m /\ m < SeqSpace /\ 0 <= n /\ n < SeqSpace
    BY <1>1, Constants
  <1> QED BY <1>4, <1>5

\* (int32_t)(a - b) is the true difference of two positions within Far.
LEMMA MinusIs ==
    ASSUME NEW X \in 0 .. SeqSpace - 1, NEW m \in 1 .. Far, NEW n \in 1 .. Far
    PROVE  Minus(Plus(X, m), Plus(X, n)) = m - n
  <1>1. m \in 0 .. SeqSpace - 1 /\ n \in 0 .. SeqSpace - 1
    BY Constants
  <1> DEFINE a == Plus(X, m)
             b == Plus(X, n)
             h == SeqSpace \div 2
  <1>2. a \in 0 .. SeqSpace - 1 /\ a = IF X + m < SeqSpace THEN X + m ELSE X + m - SeqSpace
    BY <1>1, PlusIs
  <1>3. b \in 0 .. SeqSpace - 1 /\ b = IF X + n < SeqSpace THEN X + n ELSE X + n - SeqSpace
    BY <1>1, PlusIs
  <1>4. h \in Nat /\ 2 * h <= SeqSpace /\ SeqSpace <= 2 * h + 1
    BY Constants
  <1> HIDE DEF a, b, h
  <1>5. a - b \in {m - n, m - n + SeqSpace, m - n - SeqSpace}
    BY <1>1, <1>2, <1>3, Constants
  <1>6. CASE m >= n
    <2>1. m - n \in 0 .. SeqSpace - 1 /\ m - n < h
      BY <1>1, <1>4, <1>6, Constants
    <2>2. (a - b) % SeqSpace = m - n
      <3>1. a - b < SeqSpace /\ a - b > - SeqSpace
        BY <1>2, <1>3, Constants
      <3>2. a - b = m - n \/ a - b = (m - n) - SeqSpace
        BY <1>5, <2>1, <3>1, Constants
      <3> QED BY <3>2, <2>1, Mod0, Mod1, Constants
    <2> QED BY <2>1, <2>2, Constants DEF Minus, a, b, h
  <1>7. CASE m < n
    <2> DEFINE r == m - n + SeqSpace
    <2>1. r \in 0 .. SeqSpace - 1 /\ ~(r < h)
      BY <1>1, <1>4, <1>7, Constants
    <2>2. (a - b) % SeqSpace = r
      <3>1. a - b < SeqSpace /\ a - b > - SeqSpace
        BY <1>2, <1>3, Constants
      <3>2. a - b = r \/ a - b = r - SeqSpace
        BY <1>5, <2>1, <3>1, Constants
      <3> HIDE DEF r
      <3> QED BY <3>2, <2>1, Mod0, Mod1, Constants
    <2> QED BY <2>1, <2>2, Constants DEF Minus, a, b, h
  <1> QED BY <1>6, <1>7

\* A difference is an integer.
LEMMA MinusType ==
    ASSUME NEW a \in Int, NEW b \in Int
    PROVE  Minus(a, b) \in Int
  BY Constants DEF Minus

(* ------------------------- What a step puts where ------------------------ *)

\* What sending a segment changes in the result of a handler.
LEMMA MandarIs ==
    ASSUME NEW r, NEW flags, NEW seq, NEW data, NEW X, X = Mandar(r, flags, seq, data),
           ResultFields(r), ConnFields(r.c)
    PROVE  /\ ResultFields(X) /\ ConnFields(X.c)
           /\ X.says = r.says /\ X.gave = r.gave /\ X.in = r.in /\ X.flew = r.flew
           /\ X.out = r.out \cup {[port |-> r.c.local, flags |-> flags, seq |-> seq,
                                   ack |-> IF "ack" \in flags THEN r.c.rcv_nxt ELSE 0,
                                   win |-> Hueco(r.c), data |-> data]}
           /\ X.c.estado = r.c.estado /\ X.c.local = r.c.local
           /\ X.c.snd_una = r.c.snd_una /\ X.c.snd_nxt = r.c.snd_nxt /\ X.c.rcv_nxt = r.c.rcv_nxt
           /\ X.c.ventana_otro = r.c.ventana_otro /\ X.c.vuelo = r.c.vuelo
           /\ X.c.reintentos = r.c.reintentos /\ X.c.buz = r.c.buz
           /\ X.c.fin_recibido = r.c.fin_recibido /\ X.c.ventana_dicha = Hueco(r.c)
           /\ X.c.lector = r.c.lector /\ X.c.envio = r.c.envio
           /\ X.c.cerrar_pedido = r.c.cerrar_pedido /\ X.c.morir_en = r.c.morir_en
  <1> DEFINE o == r.out \cup {[port |-> r.c.local, flags |-> flags, seq |-> seq,
                               ack |-> IF "ack" \in flags THEN r.c.rcv_nxt ELSE 0,
                               win |-> Hueco(r.c), data |-> data]}
             d == [r.c EXCEPT !.ventana_dicha = Hueco(r.c)]
  <1>1. X = [r EXCEPT !.c = d, !.out = o]
    BY SMTT(40) DEF Mandar, ResultFields
  <1>2. X = [c |-> d, out |-> o, says |-> r.says, gave |-> r.gave, in |-> r.in, flew |-> r.flew]
    <2> HIDE DEF d, o
    <2> QED BY <1>1 DEF ResultFields
  <1>3. ResultFields(X) /\ X.c = d /\ X.out = o /\ X.says = r.says /\ X.gave = r.gave /\ X.in = r.in
         /\ X.flew = r.flew
    <2> HIDE DEF d, o
    <2> QED BY <1>2 DEF ResultFields
  <1> DEFINE y == X.c
             c == r.c
  <1>4. y = [c EXCEPT !.ventana_dicha = Hueco(r.c)] /\ ConnFields(c)
    BY <1>3
  <1> HIDE DEF y, c
  <1>5. /\ ConnFields(y)
        /\ y.estado = c.estado /\ y.local = c.local
        /\ y.snd_una = c.snd_una /\ y.snd_nxt = c.snd_nxt /\ y.rcv_nxt = c.rcv_nxt
        /\ y.ventana_otro = c.ventana_otro /\ y.vuelo = c.vuelo
        /\ y.reintentos = c.reintentos /\ y.buz = c.buz
        /\ y.fin_recibido = c.fin_recibido /\ y.ventana_dicha = Hueco(r.c)
        /\ y.lector = c.lector /\ y.envio = c.envio
        /\ y.cerrar_pedido = c.cerrar_pedido /\ y.morir_en = c.morir_en
    BY <1>4 DEF ConnFields
  <1> QED BY <1>3, <1>5 DEF y, c

\* What an answer changes in the result of a handler.
LEMMA AnswerIs ==
    ASSUME NEW r, NEW type, NEW n, NEW data, NEW X, X = Answer(r, type, n, data),
           ResultFields(r)
    PROVE  /\ ResultFields(X) /\ X.c = r.c /\ X.out = r.out /\ X.flew = r.flew
           /\ X.says = Append(r.says, Says(type, n, data))
           /\ X.gave = r.gave \o data
           /\ X.in = r.in + IF type = "hueco" THEN n ELSE 0
  <1> DEFINE a == Append(r.says, Says(type, n, data))
             g == r.gave \o data
             i == r.in + IF type = "hueco" THEN n ELSE 0
  <1>1. X = [r EXCEPT !.says = a, !.gave = g, !.in = i]
    BY DEF Answer
  <1> HIDE DEF a, g, i
  <1>2. ResultFields(X) /\ X.c = r.c /\ X.out = r.out /\ X.flew = r.flew
         /\ X.says = a /\ X.gave = g /\ X.in = i
    BY <1>1 DEF ResultFields
  <1> QED BY <1>2 DEF a, g, i

Flown(flags, data) == Len(data) + IF flags \cap {"syn", "fin"} # {} THEN 1 ELSE 0

Volado(r, flags, data, X) ==
    /\ ResultFields(X) /\ ConnFields(X.c)
    /\ X.says = r.says /\ X.gave = r.gave /\ X.in = r.in /\ X.flew = r.flew \o data
    /\ X.out = r.out \cup {[port |-> r.c.local, flags |-> flags, seq |-> r.c.snd_una,
                            ack |-> IF "ack" \in flags THEN r.c.rcv_nxt ELSE 0,
                            win |-> Hueco(r.c), data |-> data]}
    /\ X.c.estado = r.c.estado /\ X.c.local = r.c.local
    /\ X.c.snd_una = r.c.snd_una /\ X.c.snd_nxt = Plus(r.c.snd_una, Flown(flags, data))
    /\ X.c.rcv_nxt = r.c.rcv_nxt /\ X.c.ventana_otro = r.c.ventana_otro
    /\ X.c.vuelo = [flags |-> flags, seq |-> r.c.snd_una, data |-> data]
    /\ X.c.reintentos = 0 /\ X.c.buz = r.c.buz
    /\ X.c.fin_recibido = r.c.fin_recibido /\ X.c.ventana_dicha = Hueco(r.c)
    /\ X.c.lector = r.c.lector /\ X.c.envio = r.c.envio
    /\ X.c.cerrar_pedido = r.c.cerrar_pedido /\ X.c.morir_en = r.c.morir_en

\* What putting a segment in flight changes.
LEMMA VolarIs ==
    ASSUME NEW r, NEW flags, NEW data, NEW X, X = Volar(r, flags, data),
           ResultFields(r), ConnFields(r.c)
    PROVE  Volado(r, flags, data, X)
  <1> DEFINE v == [flags |-> flags, seq |-> r.c.snd_una, data |-> data]
             n == Plus(r.c.snd_una, Flown(flags, data))
             d == [r.c EXCEPT !.vuelo = v, !.reintentos = 0, !.snd_nxt = n]
             f == r.flew \o data
             Y == [r EXCEPT !.flew = f, !.c = d]
  <1>1. X = Mandar([r EXCEPT !.flew = @ \o data, !.c.vuelo = v, !.c.reintentos = 0, !.c.snd_nxt = n],
                   flags, r.c.snd_una, data)
    BY DEF Volar, Flown
  <1>2. [r EXCEPT !.flew = @ \o data, !.c.vuelo = v, !.c.reintentos = 0, !.c.snd_nxt = n] = Y
    <2> HIDE DEF v, n
    <2> DEFINE r1 == [r EXCEPT !.flew = @ \o data]
               r2 == [r1 EXCEPT !.c.vuelo = v]
               r3 == [r2 EXCEPT !.c.reintentos = 0]
               r4 == [r3 EXCEPT !.c.snd_nxt = n]
    <2>1. [r EXCEPT !.flew = @ \o data, !.c.vuelo = v, !.c.reintentos = 0, !.c.snd_nxt = n] = r4
      OBVIOUS
    <2>2. r4 = Y
      OBVIOUS
    <2> QED BY <2>1, <2>2
  <1>3. X = Mandar(Y, flags, r.c.snd_una, data)
    BY <1>1, <1>2
  <1>4. Y = [r EXCEPT !.flew = f, !.c = d]
    OBVIOUS
  <1> HIDE DEF f, d, Y
  <1>5. ResultFields(Y) /\ Y.c = d /\ Y.out = r.out /\ Y.says = r.says /\ Y.gave = r.gave /\ Y.in = r.in
         /\ Y.flew = f
    BY <1>4 DEF ResultFields
  <1> DEFINE c == r.c
  <1>6. d = [c EXCEPT !.vuelo = v, !.reintentos = 0, !.snd_nxt = n] /\ ConnFields(c)
    BY DEF d
  <1> HIDE DEF c, v, n
  <1>7. /\ ConnFields(d)
        /\ d.estado = c.estado /\ d.local = c.local
        /\ d.snd_una = c.snd_una /\ d.snd_nxt = n /\ d.rcv_nxt = c.rcv_nxt
        /\ d.ventana_otro = c.ventana_otro /\ d.vuelo = v
        /\ d.reintentos = 0 /\ d.buz = c.buz
        /\ d.fin_recibido = c.fin_recibido
        /\ d.lector = c.lector /\ d.envio = c.envio
        /\ d.cerrar_pedido = c.cerrar_pedido /\ d.morir_en = c.morir_en
    BY <1>6 DEF ConnFields
  <1>8. Hueco(d) = Hueco(c)
    BY <1>7 DEF Hueco
  <1>9. ConnFields(Y.c)
    BY <1>5, <1>7
  <1> DEFINE q == r.c.snd_una
  <1>10. X = Mandar(Y, flags, q, data)
    BY <1>3
  <1> HIDE DEF q
  <1>11. /\ ResultFields(X) /\ ConnFields(X.c)
         /\ X.says = Y.says /\ X.gave = Y.gave /\ X.in = Y.in /\ X.flew = Y.flew
         /\ X.out = Y.out \cup {[port |-> Y.c.local, flags |-> flags, seq |-> q,
                                 ack |-> IF "ack" \in flags THEN Y.c.rcv_nxt ELSE 0,
                                 win |-> Hueco(Y.c), data |-> data]}
         /\ X.c.estado = Y.c.estado /\ X.c.local = Y.c.local
         /\ X.c.snd_una = Y.c.snd_una /\ X.c.snd_nxt = Y.c.snd_nxt /\ X.c.rcv_nxt = Y.c.rcv_nxt
         /\ X.c.ventana_otro = Y.c.ventana_otro /\ X.c.vuelo = Y.c.vuelo
         /\ X.c.reintentos = Y.c.reintentos /\ X.c.buz = Y.c.buz
         /\ X.c.fin_recibido = Y.c.fin_recibido /\ X.c.ventana_dicha = Hueco(Y.c)
         /\ X.c.lector = Y.c.lector /\ X.c.envio = Y.c.envio
         /\ X.c.cerrar_pedido = Y.c.cerrar_pedido /\ X.c.morir_en = Y.c.morir_en
    <2>1. ResultFields(Y)
      BY <1>5
    <2> QED BY <2>1, <1>9, <1>10, MandarIs
  <1> QED BY <1>5, <1>7, <1>8, <1>11 DEF c, n, v, f, q, Volado

(* --------------------- Steps that keep a handler right ------------------- *)

\* An answer of the server.
LEMMA SaysType ==
    ASSUME NEW type \in {"abierta", "hueco", "datos", "error"}, NEW n \in 0 .. Mss, NEW data \in Seq(Nat)
    PROVE  Says(type, n, data) \in Saying /\ Says(type, n, data).type = type
  BY DEF Says, Saying

\* What a slice is of a sequence it is of a longer one.
LEMMA SliceGrows ==
    ASSUME NEW d \in Seq(Nat), NEW w \in Seq(Nat), NEW x \in Seq(Nat), NEW i \in Nat, Slice(d, w, i)
    PROVE  Slice(d, w \o x, i)
  <1>1. w \o x \in Seq(Nat) /\ Len(w \o x) = Len(w) + Len(x)
    BY ConcatProperties, Zenon
  <1>2. Len(d) \in Nat /\ Len(w) \in Nat /\ Len(x) \in Nat
    BY LenProperties
  <1>3. ASSUME NEW j \in 1 .. Len(d) PROVE d[j] = (w \o x)[i + j]
    <2>1. i + j \in 1 .. Len(w)
      BY <1>2 DEF Slice
    <2>2. (w \o x)[i + j] = w[i + j]
      BY <2>1
    <2> QED BY <2>2 DEF Slice
  <1> QED BY <1>1, <1>2, <1>3 DEF Slice

\* There is never less than no room.
LEMMA HuecoType ==
    ASSUME NEW c, c.buz \in Seq(Nat), Len(c.buz) <= Buz
    PROVE  Hueco(c) \in Nat
  BY Constants DEF Hueco

\* The empty sequence is one of anything.
LEMMA EmptyIs ==
    ASSUME NEW S, NEW x, x = <<>> PROVE x \in Seq(S)
  OBVIOUS

\* Nothing added.
LEMMA NothingMore ==
    ASSUME NEW g \in Seq(Nat) PROVE g \o <<>> = g
  OBVIOUS

\* Two connections that differ in the windows at most.
Alike(c, d) ==
    /\ d.estado = c.estado /\ d.local = c.local /\ d.snd_una = c.snd_una /\ d.snd_nxt = c.snd_nxt
    /\ d.rcv_nxt = c.rcv_nxt /\ d.vuelo = c.vuelo /\ d.buz = c.buz
    /\ d.fin_recibido = c.fin_recibido /\ d.lector = c.lector /\ d.envio = c.envio
    /\ d.cerrar_pedido = c.cerrar_pedido /\ d.morir_en = c.morir_en

\* Windows do not matter to what a connection keeps.
LEMMA AlikeSound ==
    ASSUME NEW c, NEW d, NEW g, NEW t, NEW w, Alike(c, d), ConnType(d), Sound(c, g, t, w)
    PROVE  Sound(d, g, t, w) /\ (Patient(c) => Patient(d))
  <1>1. Opening(d, g, t, w)
    BY DEF Alike, Sound, Opening
  <1>2. Sending(d, t, w)
    BY DEF Alike, Sound, Sending, InFlight
  <1>3. Closing(d, w) /\ Over(d)
    BY DEF Alike, Sound, Closing, Over
  <1>4. Reading(d, g)
    BY DEF Alike, Sound, Reading, Taken
  <1>5. Patient(c) => Patient(d)
    BY DEF Alike, Patient
  <1> QED BY <1>1, <1>2, <1>3, <1>4, <1>5 DEF Sound

\* What is kept to read does not depend on the rest.
LEMMA LikeTaken ==
    ASSUME NEW c, NEW d, NEW g, Like(c, d), Taken(c, g)
    PROVE  Taken(d, g)
  BY DEF Like, Taken

\* A connection that keeps what matters to the program says what it would have said.
LEMMA LikeGoes ==
    ASSUME NEW r, NEW X, Like(r.c, X.c), X.says = r.says, X.gave = r.gave, X.in = r.in
    PROVE  Goes(r, X)
  <1>1. \A w : Waits(r.c, w) => Waits(X.c, w)
    BY DEF Like, Waits
  <1>2. \A w : TellsOf(r, w) => TellsOf(X, w)
    BY DEF TellsOf
  <1>3. Mute(r) => Mute(X)
    BY DEF Mute
  <1> QED BY <1>1, <1>2, <1>3 DEF Goes, Speaks

\* So does one that only keeps who waits.
LEMMA SameGoes ==
    ASSUME NEW r, NEW X, X.c.estado = r.c.estado, X.c.envio = r.c.envio, X.c.lector = r.c.lector,
           X.says = r.says, X.gave = r.gave, X.in = r.in
    PROVE  Goes(r, X)
  <1>1. \A w : Waits(r.c, w) => Waits(X.c, w)
    BY DEF Waits
  <1>2. \A w : TellsOf(r, w) => TellsOf(X, w)
    BY DEF TellsOf
  <1>3. Mute(r) => Mute(X)
    BY DEF Mute
  <1> QED BY <1>1, <1>2, <1>3 DEF Goes, Speaks

\* It holds what it held.
LEMMA LikeHeld ==
    ASSUME NEW r, NEW b, NEW X, Like(r.c, X.c), X.gave = r.gave, Held(r, b)
    PROVE  Held(X, b)
  BY LikeTaken DEF Held

\* A connection that differs in the windows is alike.
LEMMA AlikeLike ==
    ASSUME NEW c, NEW d, Alike(c, d)
    PROVE  Like(c, d)
  BY DEF Alike, Like

\* Part after part.
LEMMA GoesOn ==
    ASSUME NEW r, NEW X, NEW Y, Goes(r, X), Goes(X, Y)
    PROVE  Goes(r, Y)
  BY DEF Goes

\* A handler and its further parts.
LEMMA BegunGoes ==
    ASSUME NEW c, NEW X, NEW Y, Begun(X, c), Goes(X, Y)
    PROVE  Begun(Y, c)
  BY DEF Goes, Begun

\* A handler that has done nothing yet but change the connection a little.
LEMMA LikeBegun ==
    ASSUME NEW c, NEW X, Like(c, X.c), X.says = <<>>, X.gave = <<>>, X.in = 0
    PROVE  Begun(X, c)
  <1>1. \A w : Waits(c, w) => Waits(X.c, w)
    BY DEF Like, Waits
  <1>2. Mute(X)
    BY DEF Mute
  <1> QED BY <1>1, <1>2 DEF Begun, Speaks

\* It holds what the connection held.
LEMMA LikeStart ==
    ASSUME NEW c, NEW b, NEW X, Base(b), Like(c, X.c) \/ X.c = c, X.says = <<>>, X.gave = <<>>, X.in = 0
    PROVE  Begun(X, c) /\ (Taken(c, b.g) => Held(X, b))
  <1>1. Like(c, X.c)
    BY DEF Like
  <1>2. b.g \o X.gave = b.g
    BY NothingMore DEF Base
  <1>3. Taken(c, b.g) => Held(X, b)
    BY <1>1, <1>2, LikeTaken DEF Held
  <1> QED BY <1>1, <1>3, LikeBegun

\* What may be sent of the stream w.
May(flags, seq, data, w, closed) ==
    /\ flags \in SUBSET {"syn", "ack", "fin", "rst"} /\ seq \in 0 .. SeqSpace - 1 /\ data \in Seq(Nat)
    /\ \A s : s.flags = flags /\ s.seq = seq /\ s.data = data => FromUs(s, w, closed)

\* A segment that may be sent leaves the result right.
LEMMA MandarFits ==
    ASSUME NEW r, NEW b, NEW flags, NEW seq, NEW data, NEW X, X = Mandar(r, flags, seq, data),
           Base(b), Fits(r, b), May(flags, seq, data, b.w \o r.flew, r.c.estado \in Shut)
    PROVE  /\ Fits(X, b) /\ Alike(r.c, X.c)
           /\ X.says = r.says /\ X.gave = r.gave /\ X.in = r.in /\ X.flew = r.flew
           /\ Patient(r.c) => Patient(X.c)
  <1>1. ConnType(r.c) /\ ResultFields(r) /\ ConnFields(r.c)
    BY DEF Fits, Sound, ConnType
  <1> DEFINE a == IF "ack" \in flags THEN r.c.rcv_nxt ELSE 0
             h == Hueco(r.c)
             s == [port |-> r.c.local, flags |-> flags, seq |-> seq, ack |-> a, win |-> h, data |-> data]
  <1>2. /\ ResultFields(X) /\ ConnFields(X.c)
        /\ X.says = r.says /\ X.gave = r.gave /\ X.in = r.in /\ X.flew = r.flew
        /\ X.out = r.out \cup {s} /\ Alike(r.c, X.c)
        /\ X.c.ventana_otro = r.c.ventana_otro
        /\ X.c.reintentos = r.c.reintentos /\ X.c.ventana_dicha = h
    BY <1>1, MandarIs DEF Alike
  <1>3. h \in Nat
    BY <1>1, HuecoType DEF ConnType
  <1>4. a \in 0 .. SeqSpace - 1
    BY <1>1, Constants DEF ConnType
  <1>5. r.c.local = b.p /\ b.p \in Ports
    BY DEF Fits, Base
  <1>6. s \in Segment /\ s.port = b.p
    <2> HIDE DEF a, h
    <2> QED BY <1>3, <1>4, <1>5 DEF Segment, May
  <1>7. s.flags = flags /\ s.seq = seq /\ s.data = data
    OBVIOUS
  <1>8. FromUs(s, b.w \o r.flew, r.c.estado \in Shut)
    <2> HIDE DEF s
    <2> QED BY <1>7 DEF May
  <1> HIDE DEF a, h, s
  <1>9. ConnType(X.c)
    <2> DEFINE c == r.c
               d == X.c
    <2>1. ConnFields(d) /\ Alike(c, d) /\ d.ventana_otro = c.ventana_otro
           /\ d.reintentos = c.reintentos /\ d.ventana_dicha \in Nat /\ ConnType(c)
      BY <1>1, <1>2, <1>3
    <2> HIDE DEF c, d
    <2>2. ConnType(d)
      BY <2>1 DEF ConnType, Alike
    <2> QED BY <2>2 DEF d
  <1>10. Sound(X.c, b.g \o X.gave, b.t + X.in, b.w \o X.flew) /\ (Patient(r.c) => Patient(X.c))
    BY <1>2, <1>9, AlikeSound DEF Fits
  <1>11. X.c.estado = r.c.estado /\ X.c.local = r.c.local
    BY <1>2 DEF Alike
  <1>12. ASSUME NEW z \in X.out
         PROVE  z \in Segment /\ z.port = b.p /\ FromUs(z, b.w \o X.flew, X.c.estado \in Shut)
    <2>1. CASE z \in r.out
      BY <2>1, <1>2, <1>11 DEF Fits
    <2>2. CASE z = s
      BY <2>2, <1>2, <1>6, <1>8, <1>11
    <2> QED BY <1>2, <2>1, <2>2
  <1>13. Fits(X, b)
    BY <1>2, <1>10, <1>11, <1>12 DEF Fits
  <1> QED BY <1>2, <1>10, <1>13

\* So does an acknowledgement of what has been taken.
LEMMA AckFits ==
    ASSUME NEW r, NEW b, NEW X, X = Ack(r), Base(b), Fits(r, b)
    PROVE  /\ Fits(X, b) /\ Alike(r.c, X.c)
           /\ X.says = r.says /\ X.gave = r.gave /\ X.in = r.in /\ X.flew = r.flew
           /\ Patient(r.c) => Patient(X.c)
  <1>1. r.c.snd_nxt \in 0 .. SeqSpace - 1
    BY DEF Fits, Sound, ConnType
  <1>2. May({"ack"}, r.c.snd_nxt, <<>>, b.w \o r.flew, r.c.estado \in Shut)
    <2>1. {"ack"} \in SUBSET {"syn", "ack", "fin", "rst"} /\ <<>> \in Seq(Nat)
      OBVIOUS
    <2>2. ASSUME NEW s, NEW w, NEW closed, s.flags = {"ack"}, s.data = <<>>
          PROVE  FromUs(s, w, closed)
      BY <2>2 DEF FromUs
    <2> QED BY <1>1, <2>1, <2>2 DEF May
  <1>3. X = Mandar(r, {"ack"}, r.c.snd_nxt, <<>>)
    BY DEF Ack
  <1> QED BY <1>2, <1>3, MandarFits

\* The two parts a word is cut into.
LEMMA CutAt ==
    ASSUME NEW z \in Seq(Nat), NEW n \in 0 .. Len(z)
    PROVE  /\ SubSeq(z, 1, n) \in Seq(Nat) /\ Len(SubSeq(z, 1, n)) = n
           /\ \A j \in 1 .. n : SubSeq(z, 1, n)[j] = z[j]
           /\ SubSeq(z, n + 1, Len(z)) \in Seq(Nat) /\ Len(SubSeq(z, n + 1, Len(z))) = Len(z) - n
           /\ \A j \in 1 .. Len(z) - n : SubSeq(z, n + 1, Len(z))[j] = z[n + j]
  OBVIOUS

\* A word joined with another.
LEMMA Joined ==
    ASSUME NEW x \in Seq(Nat), NEW y \in Seq(Nat)
    PROVE  /\ x \o y \in Seq(Nat) /\ Len(x \o y) = Len(x) + Len(y)
           /\ \A j \in 1 .. Len(x) : (x \o y)[j] = x[j]
           /\ \A j \in 1 .. Len(y) : (x \o y)[Len(x) + j] = y[j]
  OBVIOUS

\* Joining three words.
LEMMA JoinedTwice ==
    ASSUME NEW x \in Seq(Nat), NEW y \in Seq(Nat), NEW z \in Seq(Nat)
    PROVE  x \o (y \o z) = (x \o y) \o z
  OBVIOUS

\* tcp_entregar() hands out the beginning of buz and leaves nobody waiting for what there is.
LEMMA EntregarFits ==
    ASSUME NEW r, NEW b, NEW X, X = Entregar(r), Base(b), Fits(r, b)
    PROVE  Fits(X, b) /\ Patient(X.c) /\ Goes(r, X) /\ (Held(r, b) => Held(X, b))
  <1> DEFINE c == r.c
             n == Least(Len(c.buz), Mss)
             give == SubSeq(c.buz, 1, n)
             rest == SubSeq(c.buz, n + 1, Len(c.buz))
             A == Answer(r, "datos", n, give)
             D == [A EXCEPT !.c.lector = FALSE, !.c.buz = rest]
  <1>1. \/ X = r /\ (~c.lector \/ ~SomethingToSay(c))
        \/ c.lector /\ SomethingToSay(c) /\ (X = D \/ X = Ack(D))
    BY DEF Entregar
  <1>2. ConnType(c) /\ ResultFields(r) /\ ConnFields(c)
    BY DEF Fits, Sound, ConnType
  <1>3. CASE X = r /\ (~c.lector \/ ~SomethingToSay(c))
    <2>1. Patient(c)
      BY <1>3 DEF Patient, SomethingToSay
    <2> QED BY <1>3, <2>1 DEF Goes
  <1>4. ASSUME c.lector, SomethingToSay(c)
        PROVE  Fits(D, b) /\ Patient(D.c) /\ Goes(r, D) /\ (Held(r, b) => Held(D, b))
    <2>1. n \in 0 .. Mss /\ n <= Len(c.buz) /\ Len(c.buz) \in Nat /\ c.buz \in Seq(Nat)
      BY <1>2, Constants, LenProperties DEF ConnType, Least
    <2>2. /\ give \in Seq(Nat) /\ Len(give) = n /\ \A j \in 1 .. n : give[j] = c.buz[j]
          /\ rest \in Seq(Nat) /\ Len(rest) = Len(c.buz) - n
          /\ \A j \in 1 .. Len(c.buz) - n : rest[j] = c.buz[n + j]
      <3> DEFINE z == c.buz
      <3>1. z \in Seq(Nat) /\ n \in 0 .. Len(z)
        BY <2>1
      <3>2. give = SubSeq(z, 1, n) /\ rest = SubSeq(z, n + 1, Len(z))
        OBVIOUS
      <3> HIDE DEF z, n, give, rest
      <3>3. Len(c.buz) = Len(z) /\ c.buz = z
        BY DEF z
      <3> QED BY <3>1, <3>2, <3>3, CutAt
    <2>3. /\ ResultFields(A) /\ A.c = c /\ A.out = r.out /\ A.flew = r.flew
          /\ A.says = Append(r.says, Says("datos", n, give)) /\ A.gave = r.gave \o give
          /\ A.in = r.in + 0
      <3>1. A = Answer(r, "datos", n, give)
        OBVIOUS
      <3> HIDE DEF n, give, A
      <3> QED BY <3>1, <1>2, AnswerIs
    <2> PICK no \in BOOLEAN : no = FALSE
      OBVIOUS
    <2> DEFINE d == [c EXCEPT !.lector = no, !.buz = rest]
    <2>4. ConnFields(A.c) /\ A.c = c
      BY <1>2, <2>3
    <2> HIDE DEF A, rest
    <2>5. D = [A EXCEPT !.c = d]
      <3> DEFINE r1 == [A EXCEPT !.c.lector = no]
                 r2 == [r1 EXCEPT !.c.buz = rest]
      <3>1. D = r2
        OBVIOUS
      <3>2. r2 = [A EXCEPT !.c = d]
        BY <2>3, <2>4
      <3> QED BY <3>1, <3>2
    <2> HIDE DEF D
    <2>6. /\ ConnFields(d) /\ d.lector = no /\ d.buz = rest
          /\ d.estado = c.estado /\ d.local = c.local /\ d.snd_una = c.snd_una
          /\ d.snd_nxt = c.snd_nxt /\ d.rcv_nxt = c.rcv_nxt /\ d.ventana_otro = c.ventana_otro
          /\ d.vuelo = c.vuelo /\ d.reintentos = c.reintentos /\ d.fin_recibido = c.fin_recibido
          /\ d.ventana_dicha = c.ventana_dicha /\ d.envio = c.envio
          /\ d.cerrar_pedido = c.cerrar_pedido /\ d.morir_en = c.morir_en
      <3>1. ConnFields(c) /\ d = [c EXCEPT !.lector = no, !.buz = rest]
        BY <1>2
      <3> HIDE DEF c, d
      <3> QED BY <3>1 DEF ConnFields
    <2> HIDE DEF d
    <2>7. /\ ResultFields(D) /\ D.c = d /\ D.out = r.out /\ D.flew = r.flew
          /\ D.says = Append(r.says, Says("datos", n, give)) /\ D.gave = r.gave \o give
          /\ D.in = r.in
      <3>1. ResultFields(D) /\ D.c = d /\ D.out = A.out /\ D.flew = A.flew
             /\ D.says = A.says /\ D.gave = A.gave /\ D.in = A.in
        BY <2>3, <2>5 DEF ResultFields
      <3>2. r.in \in Nat
        BY DEF Fits
      <3> QED BY <2>3, <3>1, <3>2
    <2>8. Patient(d)
      BY <2>6 DEF Patient
    <2>9. c.estado # "syn"
      <3>1. Opening(c, b.g \o r.gave, b.t + r.in, b.w \o r.flew)
        BY DEF Fits, Sound
      <3> HIDE DEF c
      <3> SUFFICES ASSUME c.estado = "syn" PROVE FALSE
        OBVIOUS
      <3>2. c.buz = <<>> /\ ~c.fin_recibido
        BY <3>1 DEF Opening
      <3>3. c.estado = "muerta"
        BY <1>4, <3>2 DEF SomethingToSay
      <3> QED BY <3>3
    <2>10. ConnType(d)
      <3>1. ConnType(c) /\ rest \in Seq(Nat) /\ Len(rest) <= Buz
        <4>1. Len(c.buz) <= Buz
          BY <1>2 DEF ConnType
        <4>2. Len(rest) = Len(c.buz) - n /\ Len(c.buz) \in Nat /\ n \in Nat
          BY <2>1, <2>2
        <4> HIDE DEF c, n
        <4> QED BY SMTT(40), <1>2, <2>2, <4>1, <4>2, Constants
      <3>2. no \in BOOLEAN
        OBVIOUS
      <3> HIDE DEF c
      <3> QED BY <2>6, <3>1, <3>2 DEF ConnType
    <2>11. Sound(d, b.g \o D.gave, b.t + D.in, b.w \o D.flew) /\ (Held(r, b) => Held(D, b))
      <3> DEFINE g == b.g \o r.gave
                 t == b.t + r.in
                 w == b.w \o r.flew
                 g1 == b.g \o (r.gave \o give)
      <3>1. Sound(c, g, t, w)
        BY DEF Fits
      <3>2. /\ g \in Seq(Nat) /\ g1 \in Seq(Nat) /\ Len(g1) = Len(g) + n
            /\ \A j \in 1 .. Len(g) : g1[j] = g[j]
            /\ \A j \in 1 .. n : g1[Len(g) + j] = c.buz[j]
        <4> DEFINE x == b.g
                   y == r.gave
        <4>1. x \in Seq(Nat) /\ y \in Seq(Nat)
          BY DEF Fits, Base
        <4>2. give \in Seq(Nat) /\ Len(give) = n /\ \A j \in 1 .. n : give[j] = c.buz[j]
          BY <2>2
        <4>3. g1 = g \o give /\ g \in Seq(Nat)
          <5>1. g1 = x \o (y \o give) /\ g = x \o y
            OBVIOUS
          <5> HIDE DEF x, y, give, g, g1
          <5> QED BY <4>1, <4>2, <5>1, Joined, JoinedTwice
        <4> HIDE DEF g, g1, give, n, c
        <4> QED BY <4>3, <4>2, Joined
      <3> HIDE DEF g, t, w, g1
      <3>3. Opening(d, g1, t, w)
        BY <2>6, <2>9 DEF Opening
      <3>4. Sending(d, t, w)
        BY <2>6, <3>1 DEF Sound, Sending, InFlight
      <3>5. Closing(d, w) /\ Over(d)
        BY <2>6, <3>1 DEF Sound, Closing, Over
      <3>6. ASSUME Taken(c, g) PROVE Taken(d, g1)
        <4>1. Taken(c, g)
          BY <3>6
        <4>2. Len(g) \in Nat /\ Len(c.buz) \in Nat /\ n \in Nat /\ n <= Len(c.buz)
          BY <3>2, <2>1, LenProperties
        <4>3. ASSUME NEW j \in 1 .. Len(g1) PROVE g1[j] = j
          <5>1. CASE j <= Len(g)
            BY <5>1, <4>1, <4>2, <3>2 DEF Taken
          <5>2. CASE j > Len(g)
            <6>1. j - Len(g) \in 1 .. n /\ j = Len(g) + (j - Len(g)) /\ j - Len(g) \in 1 .. Len(c.buz)
              BY <5>2, <4>2, <3>2
            <6>2. g1[j] = c.buz[j - Len(g)]
              BY <6>1, <3>2
            <6>3. c.buz[j - Len(g)] = Len(g) + (j - Len(g))
              BY <6>1, <4>1 DEF Taken
            <6> QED BY <6>1, <6>2, <6>3
          <5> QED BY <5>1, <5>2, <4>2, <3>2
        <4>4. ASSUME NEW j \in 1 .. Len(d.buz) PROVE d.buz[j] = Len(g1) + j
          <5>1. j \in 1 .. Len(c.buz) - n /\ d.buz[j] = c.buz[n + j] /\ n + j \in 1 .. Len(c.buz)
            BY SMTT(40), <2>2, <2>6, <4>2
          <5>2. c.buz[n + j] = Len(g) + (n + j)
            BY <5>1, <4>1 DEF Taken
          <5> QED BY <5>1, <5>2, <3>2, <4>2
        <4>5. Len(g1) + Len(d.buz) = Len(g) + Len(c.buz)
          BY <2>2, <2>6, <3>2, <4>2
        <4>6. Flag(d.fin_recibido) = Flag(c.fin_recibido)
          BY <2>6
        <4> QED BY <4>1, <4>3, <4>4, <4>5, <4>6, <2>6 DEF Taken
      <3>7. Reading(d, g1)
        BY <2>6, <3>1, <3>6 DEF Sound, Reading
      <3>8. Held(r, b) => Held(D, b)
        BY <2>7, <3>6 DEF Held, g, g1
      <3> QED BY <2>7, <2>10, <3>3, <3>4, <3>5, <3>7, <3>8 DEF Sound, g1, t, w
    <2>12. D.says \in Seq(Saying)
      <3>1. Says("datos", n, give) \in Saying
        <4> HIDE DEF n, give
        <4> QED BY <2>1, <2>2, SaysType
      <3>2. r.says \in Seq(Saying)
        BY DEF Fits
      <3> QED BY <2>7, <3>1, <3>2, AppendProperties
    <2>13. D.gave \in Seq(Nat)
      BY <2>2, <2>7 DEF Fits
    <2>14. D.c.estado = r.c.estado /\ D.c.local = r.c.local
      BY <2>6, <2>7
    <2>15. Fits(D, b)
      BY <2>7, <2>11, <2>12, <2>13, <2>14 DEF Fits
    <2>16. ASSUME NEW w \in Words, Speaks(r, w) PROVE Speaks(D, w)
      <3>1. w = "datos" /\ Mute(r) /\ Waits(c, w)
        BY <1>4, <2>16 DEF Speaks, Waits
      <3>2. Waits(D.c, "none")
        BY <2>6, <2>7, <3>1 DEF Waits
      <3> DEFINE m == Says("datos", n, give)
      <3>3. m \in Saying /\ m.type = "datos" /\ m.data = give
        <4>1. m \in Saying
          <5> HIDE DEF n, give
          <5> QED BY <2>1, <2>2, SaysType
        <4> QED BY <4>1 DEF Says
      <3>4. D.says = <<m>> /\ D.gave = give /\ D.in = 0
        <4>1. r.says = <<>> /\ r.gave = <<>> /\ r.in = 0
          BY <3>1 DEF Mute
        <4> HIDE DEF m, give
        <4> QED BY <4>1, <2>2, <2>7 DEF m
      <3> HIDE DEF m
      <3> QED BY <3>1, <3>2, <3>3, <3>4 DEF Speaks, TellsOf
    <2> QED BY <2>7, <2>8, <2>11, <2>15, <2>16 DEF Goes
  <1>5. CASE c.lector /\ SomethingToSay(c) /\ X = D
    BY <1>4, <1>5
  <1>6. CASE c.lector /\ SomethingToSay(c) /\ X = Ack(D)
    <2>1. Fits(D, b) /\ Patient(D.c) /\ Goes(r, D) /\ (Held(r, b) => Held(D, b))
      BY <1>4, <1>6
    <2> HIDE DEF D
    <2>2. /\ Fits(X, b) /\ Patient(X.c) /\ Alike(D.c, X.c)
          /\ X.says = D.says /\ X.gave = D.gave /\ X.in = D.in
      BY <2>1, <1>6, AckFits
    <2>3. Like(D.c, X.c)
      BY <2>2, AlikeLike
    <2>4. Goes(D, X)
      BY <2>2, <2>3, LikeGoes
    <2> QED BY <2>1, <2>2, <2>3, <2>4, GoesOn, LikeHeld
  <1> QED BY <1>1, <1>3, <1>5, <1>6

\* What may be in the air may still be there once the connection is closed.
LEMMA FromUsShut ==
    ASSUME NEW s, NEW w, NEW closed \in BOOLEAN, FromUs(s, w, closed)
    PROVE  FromUs(s, w, TRUE)
  BY DEF FromUs

\* A connection that is over keeps little.
LEMMA SoundMuerta ==
    ASSUME NEW d, NEW g, NEW t, NEW w, ConnType(d), d.estado = "muerta", ~d.envio,
           d.vuelo.flags = {} \/ d.vuelo = [flags |-> {"syn"}, seq |-> Iss, data |-> <<>>]
    PROVE  Sound(d, g, t, w)
  <1>1. Opening(d, g, t, w)
    BY DEF Opening
  <1>2. Sending(d, t, w)
    BY DEF Sending
  <1>3. Closing(d, w)
    BY DEF Closing
  <1>4. Over(d)
    BY DEF Over
  <1>5. Reading(d, g)
    BY DEF Reading
  <1> QED BY <1>1, <1>2, <1>3, <1>4, <1>5 DEF Sound

\* What nothing in flight looks like.
LEMMA GroundedIs ==
    /\ Grounded.flags = {} /\ Grounded.flags \in SUBSET {"syn", "ack", "fin", "rst"}
    /\ Grounded.seq \in 0 .. SeqSpace - 1
    /\ Grounded.data = <<>> /\ Grounded.data \in Seq(Nat) /\ Len(Grounded.data) <= Mss
  BY Constants DEF Grounded

SaysOnly(r, X) == X.gave = r.gave /\ X.in = r.in /\ X.flew = r.flew /\ X.out = r.out
TellsError(r) == \E i \in 1 .. Len(r.says) : r.says[i].type = "error"
TellsOpen(r)  == \E i \in 1 .. Len(r.says) : r.says[i].type = "abierta"

\* tcp_terminar() tells whoever waits, with an error if the connection was being opened.
LEMMA TerminarFits ==
    ASSUME NEW r, NEW b, NEW why \in BOOLEAN, NEW X, X = Terminar(r, why), Base(b), Fits(r, b)
    PROVE  /\ Fits(X, b) /\ Patient(X.c) /\ X.c.estado = "muerta"
           /\ r.c.estado = "syn" => TellsError(X)
           /\ SaysOnly(r, X) /\ Goes(r, X) /\ (Held(r, b) => Held(X, b))
  <1> DEFINE c == r.c
             one(z, a) == IF z THEN <<a>> ELSE <<>>
             err == Says("error", 0, <<>>)
             s1 == one(c.estado = "syn", err)
             s2 == one(c.envio, err)
             s3 == one(c.lector, IF why /\ c.buz = <<>> THEN err ELSE Says("datos", 0, <<>>))
             says == r.says \o s1 \o s2 \o s3
             m == IF c.estado = "syn" THEN 1 ELSE IF c.morir_en = Never THEN 2 ELSE c.morir_en
             dead == [c EXCEPT !.estado = "muerta", !.vuelo = Grounded, !.envio = FALSE,
                               !.lector = FALSE, !.morir_en = m]
  <1>1. X = [r EXCEPT !.c = dead, !.says = says]
    BY DEF Terminar
  <1>2. ConnType(c) /\ ResultFields(r) /\ ConnFields(c)
    BY DEF Fits, Sound, ConnType
  <1> HIDE DEF says, dead
  <1>3. /\ ResultFields(X) /\ X.c = dead /\ X.out = r.out /\ X.flew = r.flew
        /\ X.says = says /\ X.gave = r.gave /\ X.in = r.in
    BY <1>1, <1>2 DEF ResultFields
  <1> HIDE DEF m
  <1> PICK no \in BOOLEAN : no = FALSE
    OBVIOUS
  <1>4. dead = [c EXCEPT !.estado = "muerta", !.vuelo = Grounded, !.envio = no,
                         !.lector = no, !.morir_en = m]
    BY DEF dead
  <1>5. /\ ConnFields(dead) /\ dead.lector = no /\ dead.envio = no /\ dead.vuelo = Grounded
        /\ dead.estado = "muerta" /\ dead.local = c.local /\ dead.snd_una = c.snd_una
        /\ dead.snd_nxt = c.snd_nxt /\ dead.rcv_nxt = c.rcv_nxt
        /\ dead.ventana_otro = c.ventana_otro /\ dead.buz = c.buz
        /\ dead.reintentos = c.reintentos /\ dead.fin_recibido = c.fin_recibido
        /\ dead.ventana_dicha = c.ventana_dicha
        /\ dead.cerrar_pedido = c.cerrar_pedido /\ dead.morir_en = m
    <2> HIDE DEF c
    <2> QED BY <1>2, <1>4 DEF ConnFields
  <1>6. m \in {Never} \cup 1 .. 10
    <2>1. c.morir_en \in {Never} \cup 1 .. 10
      BY <1>2 DEF ConnType
    <2> QED BY <2>1 DEF m
  <1>7. ConnType(dead)
    <2>1. no \in BOOLEAN
      OBVIOUS
    <2> HIDE DEF c
    <2> QED BY <1>2, <1>5, <1>6, <2>1, GroundedIs DEF ConnType
  <1>8. Sound(dead, b.g \o X.gave, b.t + X.in, b.w \o X.flew)
    BY <1>5, <1>7, SoundMuerta, GroundedIs
  <1>9. Patient(dead)
    BY <1>5 DEF Patient
  <1>10. /\ s1 \in Seq(Saying) /\ s2 \in Seq(Saying) /\ s3 \in Seq(Saying)
         /\ c.estado = "syn" => s1 # <<>> /\ s1[1].type = "error"
    <2>1. err \in Saying /\ err.type = "error" /\ Says("datos", 0, <<>>) \in Saying
      <3>1. 0 \in 0 .. Mss /\ <<>> \in Seq(Nat)
        BY Constants
      <3> QED BY <3>1, SaysType
    <2> DEFINE dat == Says("datos", 0, <<>>)
    <2>2. dat \in Saying
      BY <2>1
    <2> HIDE DEF err, dat
    <2>3. <<>> \in Seq(Saying) /\ <<err>> \in Seq(Saying) /\ <<dat>> \in Seq(Saying) /\ <<err>>[1] = err
           /\ <<err>> # <<>>
      BY <2>1, <2>2
    <2> HIDE DEF c
    <2> QED BY <2>1, <2>3 DEF dat
  <1> DEFINE rs == r.says
  <1>11. says = ((rs \o s1) \o s2) \o s3
    BY DEF says
  <1> HIDE DEF s1, s2, s3
  <1>12. rs \in Seq(Saying)
    BY DEF Fits
  <1> HIDE DEF rs
  <1>13. says \in Seq(Saying)
    <2>1. rs \o s1 \in Seq(Saying)
      BY <1>10, <1>12, ConcatProperties, Zenon
    <2>2. (rs \o s1) \o s2 \in Seq(Saying)
      BY <1>10, <2>1, ConcatProperties, Zenon
    <2> QED BY <1>10, <1>11, <2>2, ConcatProperties, Zenon
  <1>14. c.estado = "syn" => \E i \in 1 .. Len(says) : says[i].type = "error"
    <2> SUFFICES ASSUME c.estado = "syn" PROVE \E i \in 1 .. Len(says) : says[i].type = "error"
      OBVIOUS
    <2>1. s1 # <<>> /\ s1[1].type = "error"
      BY <1>10
    <2>2. Len(rs) + 1 \in 1 .. Len(says) /\ says[Len(rs) + 1] = s1[1]
      <3> HIDE DEF says
      <3>1. Len(s1) >= 1
        BY <2>1, <1>10
      <3> QED BY <3>1, <1>10, <1>11, <1>12
    <2> QED BY <2>1, <2>2
  <1>15. ASSUME NEW z \in X.out
         PROVE  z \in Segment /\ z.port = b.p /\ FromUs(z, b.w \o X.flew, X.c.estado \in Shut)
    <2>1. z \in Segment /\ z.port = b.p /\ FromUs(z, b.w \o r.flew, r.c.estado \in Shut)
      BY <1>3, <1>15 DEF Fits
    <2>2. (X.c.estado \in Shut) = TRUE /\ (r.c.estado \in Shut) \in BOOLEAN
      BY <1>3, <1>5 DEF Shut
    <2>3. FromUs(z, b.w \o r.flew, TRUE)
      BY <2>1, <2>2, FromUsShut
    <2> QED BY <2>1, <2>2, <2>3, <1>3
  <1>16. X.c.local = b.p
    BY <1>3, <1>5 DEF Fits
  <1>17. X.c.estado \in Shut
    BY <1>3, <1>5 DEF Shut
  <1>18. Fits(X, b)
    BY <1>3, <1>8, <1>13, <1>15, <1>16, <1>17 DEF Fits
  <1>19. Held(r, b) => Held(X, b)
    <2> SUFFICES ASSUME Taken(c, b.g \o r.gave) PROVE Taken(dead, b.g \o r.gave)
      BY <1>3 DEF Held
    <2> HIDE DEF c
    <2> QED BY <1>5 DEF Taken
  <1>20. Waits(dead, "none")
    BY <1>5 DEF Waits
  <1>21. ASSUME Waits(c, "none") PROVE says = rs
    <2>1. s1 = <<>> /\ s2 = <<>> /\ s3 = <<>>
      BY <1>21 DEF Waits, s1, s2, s3
    <2> HIDE DEF s1, s2, s3, says
    <2> QED BY <2>1, <1>11, <1>12
  <1>22. ASSUME NEW w \in Words, w # "none", Waits(c, w), rs = <<>>
         PROVE  \E m1 \in Saying : /\ says = <<m1>> /\ m1.type \in {w, "error"} /\ m1.type # "hueco"
                                   /\ m1.data = <<>>
    <2> DEFINE dat == Says("datos", 0, <<>>)
    <2>1. err \in Saying /\ dat \in Saying
      <3>1. 0 \in 0 .. Mss /\ <<>> \in Seq(Nat)
        BY Constants
      <3> QED BY <3>1, SaysType
    <2>2. err.type = "error" /\ err.data = <<>> /\ dat.type = "datos" /\ dat.data = <<>>
      BY DEF Says
    <2> HIDE DEF err, dat
    <2>3. CASE w = "abierta"
      <3>1. s1 = <<err>> /\ s2 = <<>> /\ s3 = <<>>
        BY <2>3, <1>22 DEF Waits, s1, s2, s3
      <3>2. says = <<err>>
        BY <3>1, <1>11, <1>22
      <3> QED BY <3>2, <2>1, <2>2
    <2>4. CASE w = "hueco"
      <3>1. s1 = <<>> /\ s2 = <<err>> /\ s3 = <<>>
        BY <2>4, <1>22 DEF Waits, s1, s2, s3
      <3>2. says = <<err>>
        BY <3>1, <1>11, <1>22
      <3> QED BY <3>2, <2>1, <2>2
    <2>5. CASE w = "datos"
      <3>1. s1 = <<>> /\ s2 = <<>> /\ s3 \in {<<err>>, <<dat>>}
        BY <2>5, <1>22 DEF Waits, s1, s2, s3, dat
      <3>2. says \in {<<err>>, <<dat>>}
        BY <3>1, <1>11, <1>22
      <3> QED BY <3>2, <2>1, <2>2, <2>5
    <2> QED BY <1>22, <2>3, <2>4, <2>5 DEF Words
  <1>23. ASSUME NEW w \in Words, Speaks(r, w) PROVE Speaks(X, w)
    <2>1. CASE Waits(c, "none")
      <3>1. X.says = r.says
        BY <1>3, <1>21, <2>1 DEF rs
      <3> QED BY <3>1, <2>1, <1>3, <1>20, <1>23 DEF Speaks, Mute, TellsOf
    <2>2. CASE ~Waits(c, "none")
      <3>1. Mute(r) /\ Waits(c, w) /\ w # "none"
        BY <2>2, <1>23 DEF Speaks
      <3>2. PICK m1 \in Saying : /\ says = <<m1>> /\ m1.type \in {w, "error"} /\ m1.type # "hueco"
                                /\ m1.data = <<>>
        BY <3>1, <1>22 DEF Mute, rs
      <3> HIDE DEF c
      <3> QED BY <3>1, <3>2, <1>3, <1>20 DEF Speaks, TellsOf, Mute
    <2> QED BY <2>1, <2>2
  <1> QED BY <1>3, <1>5, <1>9, <1>14, <1>18, <1>19, <1>23 DEF TellsError, SaysOnly, Goes

\* Nothing done yet.
AtStart(X, c) ==
    /\ X.c = c /\ X.says = <<>> /\ X.gave = <<>> /\ X.in = 0 /\ X.flew = <<>> /\ X.out = {}

\* A handler that has done nothing yet.
LEMMA StartFits ==
    ASSUME NEW c, NEW b, NEW X, X = Start(c), Base(b), Sound(c, b.g, b.t, b.w), c.local = b.p,
           b.e \in Shut => c.estado \in Shut
    PROVE  Fits(X, b) /\ AtStart(X, c)
  <1>1. /\ ResultFields(X) /\ X.c = c /\ X.says = <<>> /\ X.gave = <<>> /\ X.in = 0 /\ X.flew = <<>>
        /\ X.out = {}
    BY DEF Start, ResultFields
  <1>2. b.g \o X.gave = b.g /\ b.t + X.in = b.t /\ b.w \o X.flew = b.w
    BY <1>1, NothingMore DEF Base
  <1>3. X.gave \in Seq(Nat) /\ X.flew \in Seq(Nat) /\ X.says \in Seq(Saying) /\ X.in \in Nat
         /\ Len(X.flew) <= b.f
    BY <1>1, Constants DEF Base
  <1>4. b.t <= b.m
    BY DEF Base
  <1>5. Fits(X, b)
    BY <1>1, <1>2, <1>3, <1>4 DEF Fits
  <1> QED BY <1>1, <1>5 DEF AtStart

\* The connection of a handler, replaced by one that is right too.
LEMMA OtherConn ==
    ASSUME NEW r, NEW b, NEW d, NEW Y, Y = [r EXCEPT !.c = d], Fits(r, b),
           Sound(d, b.g \o r.gave, b.t + r.in, b.w \o r.flew),
           d.local = r.c.local, d.estado = r.c.estado
    PROVE  Fits(Y, b) /\ Y.c = d /\ Y.says = r.says /\ Y.flew = r.flew /\ Y.gave = r.gave /\ Y.in = r.in
  <1>1. ResultFields(r)
    BY DEF Fits
  <1>2. /\ ResultFields(Y) /\ Y.c = d /\ Y.says = r.says /\ Y.gave = r.gave /\ Y.in = r.in
        /\ Y.flew = r.flew /\ Y.out = r.out
    BY <1>1 DEF ResultFields
  <1> QED BY <1>2 DEF Fits

\* More to read, as long as it is what comes next.
Stored(r, chunk) == [r EXCEPT !.c.buz = @ \o chunk, !.c.rcv_nxt = Plus(@, Len(chunk))]

Follows(chunk, r, b) ==
    /\ Len(chunk) <= Hueco(r.c)
    /\ Held(r, b) =>
           LET n == Len(b.g \o r.gave) + Len(r.c.buz)
           IN  /\ ~r.c.fin_recibido /\ n + Len(chunk) <= PeerBytes
               /\ \A j \in 1 .. Len(chunk) : chunk[j] = n + j

\* Bytes that go on from what there is are stored and acknowledged.
LEMMA StoreFits ==
    ASSUME NEW r, NEW b, NEW chunk \in Seq(Nat), NEW Y, Y = Stored(r, chunk),
           Base(b), Fits(r, b), r.c.estado # "syn", Follows(chunk, r, b)
    PROVE  /\ Fits(Y, b) /\ Y.c.estado = r.c.estado
           /\ Y.c.rcv_nxt = Plus(r.c.rcv_nxt, Len(chunk)) /\ Y.c.fin_recibido = r.c.fin_recibido
           /\ Y.c.lector = r.c.lector /\ Y.c.snd_una = r.c.snd_una /\ Y.c.snd_nxt = r.c.snd_nxt
           /\ Goes(r, Y) /\ (Held(r, b) => Held(Y, b))
  <1> DEFINE c == r.c
             buz == c.buz \o chunk
             next == Plus(c.rcv_nxt, Len(chunk))
             d == [c EXCEPT !.buz = buz, !.rcv_nxt = next]
             g == b.g \o r.gave
             t == b.t + r.in
             w == b.w \o r.flew
  <1>1. ConnType(c) /\ ResultFields(r) /\ ConnFields(c) /\ Sound(c, g, t, w)
    BY DEF Fits, Sound, ConnType
  <1>2. Y = [r EXCEPT !.c = d]
    <2>1. Y = [r EXCEPT !.c.buz = r.c.buz \o chunk, !.c.rcv_nxt = Plus(r.c.rcv_nxt, Len(chunk))]
      BY DEF Stored
    <2> DEFINE r1 == [r EXCEPT !.c.buz = buz]
               r2 == [r1 EXCEPT !.c.rcv_nxt = next]
    <2>2. Y = r2
      BY <2>1
    <2> HIDE DEF buz, next
    <2>3. r2 = [r EXCEPT !.c = d]
      BY <1>1
    <2> QED BY <2>2, <2>3
  <1>3. d = [c EXCEPT !.buz = buz, !.rcv_nxt = next]
    OBVIOUS
  <1>4. /\ c.buz \in Seq(Nat) /\ Len(c.buz) \in Nat /\ Len(chunk) \in Nat /\ Len(c.buz) + Len(chunk) <= Buz
        /\ c.rcv_nxt \in 0 .. SeqSpace - 1
    <2>1. c.buz \in Seq(Nat) /\ c.rcv_nxt \in 0 .. SeqSpace - 1
      BY <1>1 DEF ConnType
    <2>2. Len(chunk) <= Buz - Len(c.buz)
      BY DEF Follows, Hueco
    <2>3. Len(c.buz) \in Nat /\ Len(chunk) \in Nat
      BY <2>1, LenProperties
    <2> HIDE DEF c
    <2> QED BY SMTT(40), <2>1, <2>2, <2>3, Constants
  <1>5. buz \in Seq(Nat) /\ Len(buz) = Len(c.buz) + Len(chunk)
         /\ (\A j \in 1 .. Len(c.buz) : buz[j] = c.buz[j])
         /\ (\A j \in 1 .. Len(chunk) : buz[Len(c.buz) + j] = chunk[j])
    BY <1>4, Joined
  <1>6. next \in 0 .. SeqSpace - 1
    <2>1. c.rcv_nxt + Len(chunk) \in Nat
      BY <1>4, Constants
    <2>2. (c.rcv_nxt + Len(chunk)) % SeqSpace \in 0 .. SeqSpace - 1
      <3> HIDE DEF c
      <3> QED BY <2>1, Constants
    <2> QED BY <2>2 DEF Plus
  <1> HIDE DEF buz, next, d
  <1>7. /\ ConnFields(d) /\ d.lector = c.lector /\ d.envio = c.envio /\ d.vuelo = c.vuelo
        /\ d.estado = c.estado /\ d.local = c.local /\ d.snd_una = c.snd_una
        /\ d.snd_nxt = c.snd_nxt /\ d.rcv_nxt = next
        /\ d.ventana_otro = c.ventana_otro /\ d.buz = buz
        /\ d.reintentos = c.reintentos /\ d.fin_recibido = c.fin_recibido
        /\ d.ventana_dicha = c.ventana_dicha
        /\ d.cerrar_pedido = c.cerrar_pedido /\ d.morir_en = c.morir_en
    <2> HIDE DEF c
    <2> QED BY <1>1, <1>3 DEF ConnFields
  <1>8. ConnType(d)
    <2> HIDE DEF c
    <2> QED BY <1>1, <1>4, <1>5, <1>6, <1>7 DEF ConnType
  <1>9. Opening(d, g, t, w)
    BY <1>7 DEF Opening
  <1>10. Sending(d, t, w)
    <2> HIDE DEF c
    <2> QED BY <1>1, <1>7 DEF Sound, Sending, InFlight
  <1>11. Closing(d, w) /\ Over(d)
    <2> HIDE DEF c
    <2> QED BY <1>1, <1>7 DEF Sound, Closing, Over
  <1>12. ASSUME Taken(c, g) PROVE Taken(d, g)
    <2>1. Taken(c, g)
      BY <1>12
    <2> DEFINE n == Len(g) + Len(c.buz)
    <2>2. ~c.fin_recibido /\ n + Len(chunk) <= PeerBytes /\ \A j \in 1 .. Len(chunk) : chunk[j] = n + j
      BY <1>12 DEF Follows, Held
    <2>3. g \in Seq(Nat) /\ Len(g) \in Nat
      BY Joined, LenProperties DEF Fits, Base
    <2> HIDE DEF g, c
    <2>4. c.rcv_nxt = Plus(PeerIss, 1 + n)
      BY <2>1, <2>2, <2>3, <1>4 DEF Taken, Flag
    <2>5. next = Plus(PeerIss, 1 + n + Len(chunk))
      <3>1. /\ 1 + n \in 0 .. Far /\ Len(chunk) \in 0 .. Far /\ 1 + n + Len(chunk) <= Far
            /\ PeerIss \in 0 .. SeqSpace - 1
        <4>1. n \in Nat /\ n + Len(chunk) <= PeerBytes /\ Len(chunk) \in Nat
          BY <2>2, <2>3, <1>4
        <4> HIDE DEF n
        <4> QED BY <4>1, Constants
      <3> HIDE DEF n
      <3> QED BY <2>4, <3>1, PlusPlus DEF next
    <2>6. ASSUME NEW j \in 1 .. Len(d.buz) PROVE d.buz[j] = Len(g) + j
      <3>1. CASE j <= Len(c.buz)
        <4>1. j \in 1 .. Len(c.buz)
          BY <3>1, <1>4, <1>5, <1>7
        <4> QED BY <4>1, <1>5, <1>7, <2>1 DEF Taken
      <3>2. CASE ~(j <= Len(c.buz))
        <4>1. j - Len(c.buz) \in 1 .. Len(chunk) /\ j = Len(c.buz) + (j - Len(c.buz))
          BY <3>2, <1>4, <1>5, <1>7
        <4>2. buz[j] = chunk[j - Len(c.buz)]
          BY <4>1, <1>5
        <4>3. chunk[j - Len(c.buz)] = n + (j - Len(c.buz))
          BY <4>1, <2>2
        <4> QED BY <4>1, <4>2, <4>3, <1>4, <1>7, <2>3
      <3> QED BY <3>1, <3>2
    <2>7. Len(g) + Len(d.buz) = n + Len(chunk)
      <3>1. Len(d.buz) = Len(c.buz) + Len(chunk)
        BY <1>5, <1>7
      <3>2. Len(g) \in Nat /\ Len(c.buz) \in Nat /\ Len(chunk) \in Nat
        BY <2>3, <1>4
      <3> QED BY <3>1, <3>2
    <2>8. 1 + (Len(g) + Len(d.buz)) + Flag(d.fin_recibido) = 1 + n + Len(chunk)
      <3>1. Flag(d.fin_recibido) = 0
        BY <1>7, <2>2 DEF Flag
      <3>2. n \in Nat /\ Len(chunk) \in Nat
        BY <2>3, <1>4
      <3> HIDE DEF n
      <3> QED BY <2>7, <3>1, <3>2
    <2> QED BY <2>1, <2>2, <2>5, <2>6, <2>7, <2>8, <1>7 DEF Taken
  <1>13. Sound(d, g, t, w)
    <2>1. Reading(d, g)
      BY <1>1, <1>7, <1>12 DEF Sound, Reading
    <2> QED BY <1>8, <1>9, <1>10, <1>11, <2>1 DEF Sound
  <1>14. Fits(Y, b) /\ Y.c = d /\ Y.says = r.says /\ Y.gave = r.gave /\ Y.in = r.in
    BY <1>2, <1>7, <1>13, OtherConn
  <1>15. Held(r, b) => Held(Y, b)
    BY <1>12, <1>14 DEF Held
  <1>16. Goes(r, Y)
    BY <1>7, <1>14, SameGoes
  <1> QED BY <1>7, <1>14, <1>15, <1>16 DEF next

Finished(r) == [r EXCEPT !.c.fin_recibido = TRUE, !.c.rcv_nxt = Plus(@, 1)]

\* The end is taken after the last byte.
LEMMA FinFits ==
    ASSUME NEW r, NEW b, NEW Y, Y = Finished(r), Base(b), Fits(r, b), r.c.estado # "syn",
           r.c.estado \in {"abierta", "cerrando"} => r.c.rcv_nxt = Plus(PeerIss, 1 + PeerBytes)
    PROVE  /\ Fits(Y, b) /\ Y.c.estado = r.c.estado /\ Goes(r, Y)
           /\ Held(r, b) /\ r.c.rcv_nxt = Plus(PeerIss, 1 + PeerBytes) => Held(Y, b)
  <1> PICK yes \in BOOLEAN : yes = TRUE
    OBVIOUS
  <1> DEFINE c == r.c
             next == Plus(c.rcv_nxt, 1)
             d == [c EXCEPT !.fin_recibido = yes, !.rcv_nxt = next]
             g == b.g \o r.gave
             t == b.t + r.in
             w == b.w \o r.flew
  <1>1. ConnType(c) /\ ResultFields(r) /\ ConnFields(c) /\ Sound(c, g, t, w)
    BY DEF Fits, Sound, ConnType
  <1>2. Y = [r EXCEPT !.c = d]
    <2> DEFINE r1 == [r EXCEPT !.c.fin_recibido = yes]
               r2 == [r1 EXCEPT !.c.rcv_nxt = next]
    <2>1. Y = [r EXCEPT !.c.fin_recibido = yes, !.c.rcv_nxt = Plus(r.c.rcv_nxt, 1)]
      BY DEF Finished
    <2>2. Y = r2
      BY <2>1
    <2> HIDE DEF next
    <2>3. r2 = [r EXCEPT !.c = d]
      BY <1>1
    <2> QED BY <2>2, <2>3
  <1>3. d = [c EXCEPT !.fin_recibido = yes, !.rcv_nxt = next]
    OBVIOUS
  <1>4. next \in 0 .. SeqSpace - 1
    <2>1. c.rcv_nxt \in 0 .. SeqSpace - 1
      BY <1>1 DEF ConnType
    <2>2. (c.rcv_nxt + 1) % SeqSpace \in 0 .. SeqSpace - 1
      <3> HIDE DEF c
      <3> QED BY <2>1, Constants
    <2> QED BY <2>2 DEF Plus
  <1> HIDE DEF next, d
  <1>5. /\ ConnFields(d) /\ d.lector = c.lector /\ d.envio = c.envio /\ d.vuelo = c.vuelo
        /\ d.estado = c.estado /\ d.local = c.local /\ d.snd_una = c.snd_una
        /\ d.snd_nxt = c.snd_nxt /\ d.rcv_nxt = next
        /\ d.ventana_otro = c.ventana_otro /\ d.buz = c.buz
        /\ d.reintentos = c.reintentos /\ d.fin_recibido = yes
        /\ d.ventana_dicha = c.ventana_dicha
        /\ d.cerrar_pedido = c.cerrar_pedido /\ d.morir_en = c.morir_en
    <2> HIDE DEF c
    <2> QED BY <1>1, <1>3 DEF ConnFields
  <1>6. ConnType(d)
    <2>1. yes \in BOOLEAN
      OBVIOUS
    <2> HIDE DEF c
    <2> QED BY <1>1, <1>4, <1>5, <2>1 DEF ConnType
  <1>7. Opening(d, g, t, w)
    BY <1>5 DEF Opening
  <1>8. Sending(d, t, w)
    <2> HIDE DEF c
    <2> QED BY <1>1, <1>5 DEF Sound, Sending, InFlight
  <1>9. Closing(d, w) /\ Over(d)
    <2> HIDE DEF c
    <2> QED BY <1>1, <1>5 DEF Sound, Closing, Over
  <1>10. ASSUME Taken(c, g), c.rcv_nxt = Plus(PeerIss, 1 + PeerBytes) PROVE Taken(d, g)
    <2>1. Taken(c, g)
      BY <1>10
    <2>2. c.rcv_nxt = Plus(PeerIss, 1 + PeerBytes)
      BY <1>10
    <2> DEFINE n == Len(g) + Len(c.buz)
    <2>3. n \in Nat /\ n <= PeerBytes /\ Flag(c.fin_recibido) \in 0 .. 1
      <3>1. Len(g) \in Nat /\ Len(c.buz) \in Nat
        <4>1. c.buz \in Seq(Nat)
          BY <1>1 DEF ConnType
        <4>2. g \in Seq(Nat)
          BY Joined DEF Fits, Base
        <4> HIDE DEF c, g
        <4> QED BY <4>1, <4>2, LenProperties
      <3> HIDE DEF g, c
      <3> QED BY <2>1, <3>1 DEF Taken, Flag
    <2>4. c.rcv_nxt = Plus(PeerIss, 1 + n + Flag(c.fin_recibido)) /\ (c.fin_recibido => n = PeerBytes)
      BY <2>1 DEF Taken
    <2> DEFINE f == Flag(c.fin_recibido)
    <2>5. 1 + n + f = 1 + PeerBytes
      <3>1. 1 + n + f \in 0 .. Far /\ 1 + PeerBytes \in 0 .. Far /\ PeerIss \in 0 .. SeqSpace - 1
        <4> HIDE DEF n, f
        <4> QED BY <2>3, Constants DEF f
      <3> HIDE DEF n, f
      <3> QED BY <2>2, <2>4, <3>1, PlusInjective DEF f
    <2>6. n = PeerBytes
      <3>1. CASE c.fin_recibido
        BY <2>4, <3>1
      <3>2. CASE ~c.fin_recibido
        <4>1. f = 0
          BY <3>2 DEF Flag
        <4> HIDE DEF n, f
        <4> QED BY <4>1, <2>3, <2>5, Constants
      <3> QED BY <3>1, <3>2
    <2>7. next = Plus(PeerIss, 1 + n + Flag(d.fin_recibido))
      <3>1. Flag(d.fin_recibido) = 1
        BY <1>5 DEF Flag
      <3>2. /\ 1 + PeerBytes \in 0 .. Far /\ 1 \in 0 .. Far /\ 1 + PeerBytes + 1 <= Far
            /\ PeerIss \in 0 .. SeqSpace - 1
        BY Constants
      <3>3. Plus(Plus(PeerIss, 1 + PeerBytes), 1) = Plus(PeerIss, 1 + PeerBytes + 1)
        BY <3>2, PlusPlus
      <3> HIDE DEF n, c
      <3> QED BY <2>2, <2>6, <3>1, <3>3 DEF next
    <2> HIDE DEF c, g
    <2> QED BY <2>1, <2>6, <2>7, <1>5 DEF Taken
  <1>11. Sound(d, g, t, w)
    <2>1. Reading(d, g)
      BY <1>1, <1>5, <1>10 DEF Sound, Reading
    <2> QED BY <1>6, <1>7, <1>8, <1>9, <2>1 DEF Sound
  <1>12. Fits(Y, b) /\ Y.c = d /\ Y.says = r.says /\ Y.gave = r.gave /\ Y.in = r.in
    BY <1>2, <1>5, <1>11, OtherConn
  <1>13. Held(r, b) /\ r.c.rcv_nxt = Plus(PeerIss, 1 + PeerBytes) => Held(Y, b)
    BY <1>10, <1>12 DEF Held
  <1>14. Goes(r, Y)
    BY <1>5, <1>12, SameGoes
  <1> QED BY <1>5, <1>12, <1>13, <1>14

(* ----------------------------- Data arrive ------------------------------- *)

\* The data of a segment, in their place of the stream of the other machine.
Placed(s, from) ==
    /\ from \in 0 .. PeerBytes + 1
    /\ s.seq = Plus(PeerIss, 1 + from)
    /\ s.data # <<>> \/ "fin" \in s.flags => from + Len(s.data) <= PeerBytes
    /\ "fin" \in s.flags => from + Len(s.data) = PeerBytes
    /\ \A j \in 1 .. Len(s.data) : s.data[j] = from + j

\* A segment of the other machine has a place in its stream, or nothing in it.
LEMMA FromPeerPlaced ==
    ASSUME NEW s, NEW q, FromPeer(s, q), "rst" \notin s.flags
    PROVE  \/ \E from \in 0 .. PeerBytes + 1 : Placed(s, from)
           \/ s.data = <<>> /\ "fin" \notin s.flags
  BY DEF FromPeer, Placed

\* What is new of the data of a segment that starts in sequence.
Old(c, s) == IF Minus(c.rcv_nxt, s.seq) > 0 THEN Minus(c.rcv_nxt, s.seq) ELSE 0
FreshOf(c, s) == SubSeq(s.data, Old(c, s) + 1, Len(s.data))
Chunk(c, s) == SubSeq(FreshOf(c, s), 1, Least(Len(FreshOf(c, s)), Hueco(c)))
Begins(c, s) == Plus(s.seq, Old(c, s))

InPlace(c, s) == Minus(c.rcv_nxt, s.seq) < Len(s.data) /\ Begins(c, s) = c.rcv_nxt

\* What is new in a segment, and as much of it as there is room for.
LEMMA FreshIs ==
    ASSUME NEW c, NEW s \in Segment, ConnType(c), Minus(c.rcv_nxt, s.seq) < Len(s.data)
    PROVE  /\ Old(c, s) \in Nat /\ Old(c, s) <= Len(s.data)
           /\ FreshOf(c, s) \in Seq(Nat) /\ Len(FreshOf(c, s)) = Len(s.data) - Old(c, s)
           /\ \A j \in 1 .. Len(FreshOf(c, s)) : FreshOf(c, s)[j] = s.data[Old(c, s) + j]
           /\ Chunk(c, s) \in Seq(Nat) /\ Len(Chunk(c, s)) = Least(Len(FreshOf(c, s)), Hueco(c))
           /\ Len(Chunk(c, s)) <= Len(FreshOf(c, s)) /\ Len(Chunk(c, s)) <= Hueco(c)
           /\ \A j \in 1 .. Len(Chunk(c, s)) : Chunk(c, s)[j] = FreshOf(c, s)[j]
  <1> DEFINE a == Minus(c.rcv_nxt, s.seq)
             d == s.data
             o == Old(c, s)
             f == FreshOf(c, s)
             n == Least(Len(f), Hueco(c))
  <1>1. d \in Seq(Nat) /\ s.seq \in Int /\ c.rcv_nxt \in Int
    BY DEF Segment, ConnType
  <1>2. a \in Int /\ a < Len(d) /\ Len(d) \in Nat
    BY <1>1, MinusType, LenProperties
  <1>3. o = IF a > 0 THEN a ELSE 0
    BY DEF Old
  <1> HIDE DEF a, o, d
  <1>4. o \in 0 .. Len(d)
    BY <1>2, <1>3
  <1>5. f = SubSeq(d, o + 1, Len(d))
    BY DEF FreshOf, d, o
  <1>6. f \in Seq(Nat) /\ Len(f) = Len(d) - o /\ \A j \in 1 .. Len(d) - o : f[j] = d[o + j]
    <2> HIDE DEF f
    <2> QED BY <1>1, <1>4, <1>5, CutAt
  <1>7. Hueco(c) \in Nat
    BY HuecoType DEF ConnType
  <1> HIDE DEF f
  <1>8. n \in 0 .. Len(f) /\ n <= Hueco(c)
    <2>1. Len(f) \in Nat
      BY <1>6, LenProperties
    <2> QED BY <2>1, <1>7 DEF Least
  <1>9. Chunk(c, s) = SubSeq(f, 1, n)
    BY DEF Chunk, f
  <1> HIDE DEF n
  <1>10. Chunk(c, s) \in Seq(Nat) /\ Len(Chunk(c, s)) = n /\ \A j \in 1 .. n : Chunk(c, s)[j] = f[j]
    BY <1>6, <1>8, <1>9, CutAt
  <1>11. o \in Nat /\ o <= Len(d)
    BY <1>4, <1>2
  <1>12. n <= Len(f)
    BY <1>6, <1>8, LenProperties
  <1> QED BY <1>6, <1>8, <1>10, <1>11, <1>12 DEF d, o, f, n

\* In sequence means that it goes on from what there is.
LEMMA ChunkFollows ==
    ASSUME NEW r, NEW b, NEW s \in Segment, NEW from, Placed(s, from), Base(b), Fits(r, b),
           s.data # <<>>, InPlace(r.c, s)
    PROVE  /\ Follows(Chunk(r.c, s), r, b)
           /\ Held(r, b) =>
                 Plus(Begins(r.c, s), Len(FreshOf(r.c, s))) = Plus(PeerIss, 1 + (from + Len(s.data)))
  <1> DEFINE c == r.c
             d == s.data
             o == Old(c, s)
             f == FreshOf(c, s)
             k == Chunk(c, s)
             g == b.g \o r.gave
             n == Len(g) + Len(c.buz)
             e == Flag(c.fin_recibido)
             F == 1 + from
             R == 1 + n + e
  <1>1. ConnType(c) /\ Sound(c, g, b.t + r.in, b.w \o r.flew)
    BY DEF Fits, Sound
  <1>2. /\ o \in Nat /\ o <= Len(d) /\ f \in Seq(Nat) /\ Len(f) = Len(d) - o
        /\ \A j \in 1 .. Len(f) : f[j] = d[o + j]
        /\ k \in Seq(Nat) /\ Len(k) <= Len(f) /\ Len(k) <= Hueco(c)
        /\ \A j \in 1 .. Len(k) : k[j] = f[j]
    BY <1>1, FreshIs DEF InPlace
  <1>3. d \in Seq(Nat) /\ Len(d) \in Nat /\ d # <<>> /\ Len(d) >= 1
    <2>1. d \in Seq(Nat) /\ d # <<>>
      BY DEF Segment
    <2> HIDE DEF d
    <2> QED BY <2>1
  <1>4. /\ from \in 0 .. PeerBytes + 1 /\ s.seq = Plus(PeerIss, F)
        /\ from + Len(d) <= PeerBytes
        /\ \A j \in 1 .. Len(d) : d[j] = from + j
    BY <1>3 DEF Placed
  <1> SUFFICES ASSUME Taken(c, g)
               PROVE  /\ ~c.fin_recibido /\ n + Len(k) <= PeerBytes
                      /\ \A j \in 1 .. Len(k) : k[j] = n + j
                      /\ Plus(Begins(c, s), Len(f)) = Plus(PeerIss, 1 + (from + Len(d)))
    BY <1>2 DEF Follows, Held
  <1>5. Taken(c, g)
    OBVIOUS
  <1>6. /\ n \in Nat /\ n <= PeerBytes /\ e \in 0 .. 1 /\ (c.fin_recibido => n = PeerBytes)
        /\ c.rcv_nxt = Plus(PeerIss, R)
    <2>1. c.buz \in Seq(Nat) /\ g \in Seq(Nat)
      BY <1>1, Joined DEF ConnType, Fits, Base
    <2>2. Len(g) \in Nat /\ Len(c.buz) \in Nat
      <3> HIDE DEF g, c
      <3> QED BY <2>1, LenProperties
    <2> HIDE DEF g, c
    <2> QED BY <1>5, <2>2 DEF Taken, Flag
  <1>7. InPlace(c, s)
    OBVIOUS
  <1>8. (c.fin_recibido => e = 1) /\ (~c.fin_recibido => e = 0)
    BY DEF Flag
  <1>9. Len(f) \in Nat /\ Len(k) \in Nat
    BY <1>2, LenProperties
  <1>10. o = (IF Minus(c.rcv_nxt, s.seq) > 0 THEN Minus(c.rcv_nxt, s.seq) ELSE 0)
          /\ Minus(c.rcv_nxt, s.seq) < Len(d) /\ Begins(c, s) = c.rcv_nxt
          /\ Begins(c, s) = Plus(s.seq, o)
    BY <1>7 DEF Old, InPlace, Begins
  <1> HIDE DEF c, d, o, f, k, g, n, e
  <1>11. F \in 1 .. Far /\ R \in 1 .. Far /\ PeerIss \in 0 .. SeqSpace - 1
    BY <1>4, <1>6, Constants
  <1>12. Minus(c.rcv_nxt, s.seq) = R - F
    <2> HIDE DEF F, R
    <2> QED BY <1>4, <1>6, <1>11, MinusIs
  <1>13. F + o = R
    <2>1. CASE R - F > 0
      BY <2>1, <1>10, <1>11, <1>12
    <2>2. CASE ~(R - F > 0)
      <3>1. o = 0
        BY <2>2, <1>10, <1>12
      <3>2. Plus(s.seq, o) = Plus(PeerIss, F + o)
        <4>1. F \in 0 .. Far /\ o \in 0 .. Far /\ F + o <= Far
          BY <3>1, <1>11, Constants
        <4> HIDE DEF F
        <4> QED BY <1>4, <1>11, <4>1, PlusPlus
      <3>3. Plus(PeerIss, F + o) = Plus(PeerIss, R)
        BY <3>2, <1>6, <1>10
      <3>4. F + o \in 0 .. Far /\ R \in 0 .. Far
        BY <3>1, <1>11, Constants
      <3> HIDE DEF F, R
      <3> QED BY <3>3, <3>4, <1>11, PlusInjective
    <2> QED BY <2>1, <2>2
  <1>14. R - F < Len(d)
    BY <1>10, <1>12
  <1>15. ~c.fin_recibido
    <2> SUFFICES ASSUME c.fin_recibido PROVE FALSE
      OBVIOUS
    <2>1. e = 1 /\ n = PeerBytes
      BY <1>6, <1>8
    <2> QED BY <2>1, <1>14, <1>4, <1>3, Constants
  <1>16. e = 0 /\ from + o = n
    <2>1. e = 0
      BY <1>15, <1>8
    <2>2. from \in Int /\ o \in Int /\ n \in Int
      BY <1>2, <1>4, <1>6
    <2> QED BY <2>1, <2>2, <1>13
  <1>17. n + Len(k) <= PeerBytes
    <2> DEFINE lk == Len(k)
               lf == Len(f)
               ld == Len(d)
    <2>1. /\ lk \in Nat /\ lf \in Nat /\ ld \in Nat /\ lk <= lf /\ lf = ld - o
          /\ from + ld <= PeerBytes /\ from + o = n /\ from \in Nat /\ o \in Nat
      BY <1>2, <1>3, <1>4, <1>9, <1>16
    <2> HIDE DEF lk, lf, ld
    <2>2. n + lk <= PeerBytes
      BY <2>1, Constants
    <2> QED BY <2>2 DEF lk
  <1>18. ASSUME NEW j \in 1 .. Len(k) PROVE k[j] = n + j
    <2>1. j \in 1 .. Len(f) /\ o + j \in 1 .. Len(d)
      BY <1>2, <1>9, <1>3
    <2>2. k[j] = d[o + j]
      BY <2>1, <1>2
    <2>3. d[o + j] = from + (o + j)
      BY <2>1, <1>4
    <2> QED BY <2>1, <2>2, <2>3, <1>16, <1>2, <1>4
  <1>19. Plus(Begins(c, s), Len(f)) = Plus(PeerIss, 1 + (from + Len(d)))
    <2>1. R + Len(f) = 1 + (from + Len(d))
      BY <1>16, <1>2, <1>3, <1>4, <1>6
    <2>2. R \in 0 .. Far /\ Len(f) \in 0 .. Far /\ R + Len(f) <= Far
      BY <2>1, <1>4, <1>9, <1>11, <1>3, Constants
    <2>3. Plus(Plus(PeerIss, R), Len(f)) = Plus(PeerIss, R + Len(f))
      <3> HIDE DEF R
      <3> QED BY <2>2, <1>11, PlusPlus
    <2> QED BY <2>1, <2>3, <1>6, <1>10
  <1> QED BY <1>15, <1>17, <1>18, <1>19

StoredOf(r, s) == IF s.data = <<>> THEN r ELSE Ack(Stored(r, Chunk(r.c, s)))
EndOf(r, s) == IF s.data = <<>> THEN s.seq ELSE Plus(Begins(r.c, s), Len(FreshOf(r.c, s)))

DatosEnd(X, r, s, Y, A, T) ==
    \/ s.data # <<>> /\ X = Ack(r)
    \/ /\ s.data = <<>> \/ InPlace(r.c, s)
       /\ X = Entregar(Y)
    \/ /\ s.data = <<>> \/ InPlace(r.c, s)
       /\ "fin" \in s.flags /\ EndOf(r, s) = Y.c.rcv_nxt
       /\ X = Entregar(A) \/ X = Entregar(T)

\* The ways tcp_datos_llegan() ends.
LEMMA DatosAre ==
    ASSUME NEW r, NEW s \in Segment, NEW X, X = DatosLlegan(r, s), ConnType(r.c),
           NEW Y, Y = StoredOf(r, s), NEW A, A = Ack(Finished(Y)), NEW T, T = Terminar(A, FALSE)
    PROVE  DatosEnd(X, r, s, Y, A, T)
  <1>0. r.c.rcv_nxt \in Int
    BY DEF ConnType
  <1> DEFINE c       == r.c
             ahead   == Minus(c.rcv_nxt, s.seq)
             old     == IF ahead > 0 THEN ahead ELSE 0
             fresh   == SubSeq(s.data, old + 1, Len(s.data))
             seq     == Plus(s.seq, old)
             takes   == Least(Len(fresh), Hueco(c))
             stored  == IF s.data = <<>> THEN r
                        ELSE Ack([r EXCEPT !.c.buz = @ \o SubSeq(fresh, 1, takes),
                                           !.c.rcv_nxt = Plus(@, takes)])
             end     == IF s.data = <<>> THEN s.seq ELSE Plus(seq, Len(fresh))
             closed  == Ack([stored EXCEPT !.c.fin_recibido = TRUE,
                                           !.c.rcv_nxt = Plus(@, 1)])
  <1>1. X = IF s.data # <<>> /\ (ahead >= Len(s.data) \/ ~InSequence(c, seq)) THEN Ack(r)
            ELSE IF ~("fin" \in s.flags /\ end = stored.c.rcv_nxt) THEN Entregar(stored)
            ELSE Entregar(IF c.estado = "cerrando" /\ c.snd_una = c.snd_nxt
                          THEN Terminar(closed, FALSE) ELSE closed)
    BY Zenon DEF DatosLlegan
  <1>2. CASE s.data # <<>> /\ (ahead >= Len(s.data) \/ ~InSequence(c, seq))
    <2> HIDE DEF ahead, old, fresh, seq, takes, stored, end, closed
    <2> QED BY <1>1, <1>2 DEF DatosEnd
  <1>3. CASE ~(s.data # <<>> /\ (ahead >= Len(s.data) \/ ~InSequence(c, seq)))
    <2>1. s.data = <<>> \/ InPlace(c, s)
      <3> SUFFICES ASSUME s.data # <<>> PROVE InPlace(c, s)
        OBVIOUS
      <3>1. seq = c.rcv_nxt /\ ~(ahead >= Len(s.data))
        BY <1>3 DEF InSequence
      <3>2. seq = Begins(c, s)
        BY DEF Begins, Old
      <3>3. ahead < Len(s.data)
        <4>1. ahead \in Int /\ Len(s.data) \in Int
          <5>1. s.data \in Seq(Nat) /\ s.seq \in Int
            BY DEF Segment
          <5>2. c.rcv_nxt \in Int
            BY <1>0
          <5>3. ahead \in Int
            BY <5>1, <5>2, MinusType
          <5>4. Len(s.data) \in Int
            BY <5>1
          <5> QED BY <5>3, <5>4
        <4> HIDE DEF ahead
        <4> QED BY <3>1, <4>1
      <3> QED BY <3>1, <3>2, <3>3 DEF InPlace
    <2>2. stored = StoredOf(r, s)
      <3>1. CASE s.data = <<>>
        BY <3>1 DEF StoredOf
      <3>2. CASE s.data # <<>>
        <4>1. fresh = FreshOf(c, s)
          BY DEF FreshOf, Old
        <4>2. SubSeq(fresh, 1, takes) = Chunk(c, s)
          BY <4>1 DEF Chunk
        <4>3. takes = Len(Chunk(c, s))
          BY <2>1, <3>2, <4>1, FreshIs DEF InPlace
        <4> HIDE DEF takes, fresh
        <4>4. stored = Ack([r EXCEPT !.c.buz = @ \o SubSeq(fresh, 1, takes), !.c.rcv_nxt = Plus(@, takes)])
          BY <3>2
        <4> HIDE DEF stored
        <4>5. Stored(r, Chunk(c, s)) = [r EXCEPT !.c.buz = @ \o SubSeq(fresh, 1, takes), !.c.rcv_nxt = Plus(@, takes)]
          <5>1. \A x, y : x = Chunk(c, s) /\ y = Len(Chunk(c, s)) =>
                  Stored(r, Chunk(c, s)) = [r EXCEPT !.c.buz = @ \o x, !.c.rcv_nxt = Plus(@, y)]
            BY DEF Stored
          <5> QED BY <5>1, <4>2, <4>3
        <4>6. StoredOf(r, s) = Ack(Stored(r, Chunk(c, s)))
          BY <3>2 DEF StoredOf
        <4> QED BY <4>4, <4>5, <4>6
      <3> QED BY <3>1, <3>2
    <2>3. end = EndOf(r, s)
      <3>1. fresh = FreshOf(c, s) /\ seq = Begins(c, s)
        BY DEF FreshOf, Old, Begins
      <3> HIDE DEF fresh, seq
      <3> QED BY <3>1 DEF EndOf
    <2> HIDE DEF stored
    <2>4. closed = A
      BY <2>2, Zenon DEF Finished
    <2> HIDE DEF closed, ahead, seq, end
    <2> QED BY <1>1, <1>3, <2>1, <2>2, <2>3, <2>4 DEF DatosEnd
  <1> QED BY <1>2, <1>3

\* What arrives in place is stored, and a FIN in its turn comes after the last byte.
LEMMA StoredOfFits ==
    ASSUME NEW r, NEW b, NEW s \in Segment, NEW q, FromPeer(s, q), "rst" \notin s.flags,
           Base(b), Fits(r, b), r.c.estado # "syn", s.data = <<>> \/ InPlace(r.c, s),
           NEW Y, Y = StoredOf(r, s)
    PROVE  /\ Fits(Y, b) /\ Y.c.estado = r.c.estado /\ Goes(r, Y)
           /\ Held(r, b) => Held(Y, b)
           /\ "fin" \in s.flags /\ EndOf(r, s) = Y.c.rcv_nxt /\ Held(r, b)
                => Y.c.rcv_nxt = Plus(PeerIss, 1 + PeerBytes)
  <1>1. CASE s.data = <<>>
    <2>1. Y = r /\ EndOf(r, s) = s.seq
      BY <1>1 DEF StoredOf, EndOf
    <2>2. "fin" \in s.flags => s.seq = Plus(PeerIss, 1 + PeerBytes)
      <3> SUFFICES ASSUME "fin" \in s.flags PROVE s.seq = Plus(PeerIss, 1 + PeerBytes)
        OBVIOUS
      <3>1. PICK from \in 0 .. PeerBytes + 1 : Placed(s, from)
        BY FromPeerPlaced
      <3>2. from + Len(s.data) = PeerBytes /\ Len(s.data) = 0 /\ s.seq = Plus(PeerIss, 1 + from)
        BY <1>1, <3>1 DEF Placed
      <3>3. from = PeerBytes
        BY <3>2, Constants
      <3> QED BY <3>2, <3>3
    <2>3. Goes(r, Y)
      BY <2>1 DEF Goes
    <2> QED BY <2>1, <2>2, <2>3
  <1>2. CASE s.data # <<>>
    <2> DEFINE k == Chunk(r.c, s)
               Z == Stored(r, k)
    <2>1. InPlace(r.c, s) /\ Y = Ack(Z) /\ EndOf(r, s) = Plus(Begins(r.c, s), Len(FreshOf(r.c, s)))
      BY <1>2 DEF StoredOf, EndOf
    <2>2. PICK from \in 0 .. PeerBytes + 1 : Placed(s, from)
      BY <1>2, FromPeerPlaced
    <2>3. ConnType(r.c)
      BY DEF Fits, Sound
    <2>4. k \in Seq(Nat)
      BY <2>1, <2>3, FreshIs DEF InPlace
    <2>5. /\ Follows(k, r, b)
          /\ Held(r, b) =>
                 Plus(Begins(r.c, s), Len(FreshOf(r.c, s))) = Plus(PeerIss, 1 + (from + Len(s.data)))
      BY <1>2, <2>1, <2>2, ChunkFollows
    <2> HIDE DEF k
    <2>6. Z = Stored(r, k)
      OBVIOUS
    <2> HIDE DEF Z
    <2>7. Fits(Z, b) /\ Z.c.estado = r.c.estado /\ Goes(r, Z) /\ (Held(r, b) => Held(Z, b))
      BY <2>4, <2>5, <2>6, StoreFits
    <2>8. Fits(Y, b) /\ Alike(Z.c, Y.c) /\ Y.says = Z.says /\ Y.gave = Z.gave /\ Y.in = Z.in
      BY <2>1, <2>7, AckFits
    <2>9. Y.c.estado = r.c.estado
      BY <2>7, <2>8 DEF Alike
    <2>10. "fin" \in s.flags => from + Len(s.data) = PeerBytes
      BY <2>2 DEF Placed
    <2>11. Like(Z.c, Y.c)
      BY <2>8, AlikeLike
    <2>12. Goes(r, Y) /\ (Held(r, b) => Held(Y, b))
      BY <2>7, <2>8, <2>11, LikeGoes, LikeHeld, GoesOn
    <2> QED BY <2>1, <2>5, <2>8, <2>9, <2>10, <2>12
  <1> QED BY <1>1, <1>2

\* tcp_datos_llegan() takes each byte once and in order.
LEMMA DatosFit ==
    ASSUME NEW r, NEW b, NEW s \in Segment, NEW q, FromPeer(s, q), "rst" \notin s.flags,
           Base(b), Fits(r, b), Patient(r.c), r.c.estado # "syn", NEW X, X = DatosLlegan(r, s)
    PROVE  Fits(X, b) /\ Patient(X.c) /\ Goes(r, X) /\ (Held(r, b) => Held(X, b))
  <1>1. ConnType(r.c)
    BY DEF Fits, Sound
  <1> DEFINE Y == StoredOf(r, s)
             Z == Finished(Y)
             A == Ack(Z)
             T == Terminar(A, FALSE)
  <1>2. CASE X = Ack(r)
    <2>1. Fits(X, b) /\ Patient(X.c) /\ Alike(r.c, X.c) /\ X.says = r.says /\ X.gave = r.gave /\ X.in = r.in
      BY <1>2, AckFits
    <2>2. Like(r.c, X.c)
      BY <2>1, AlikeLike
    <2> QED BY <2>1, <2>2, LikeGoes, LikeHeld
  <1>3. ASSUME s.data = <<>> \/ InPlace(r.c, s)
        PROVE  /\ Fits(Y, b) /\ Y.c.estado = r.c.estado /\ Goes(r, Y)
               /\ Held(r, b) => Held(Y, b)
               /\ "fin" \in s.flags /\ EndOf(r, s) = Y.c.rcv_nxt /\ Held(r, b)
                    => Y.c.rcv_nxt = Plus(PeerIss, 1 + PeerBytes)
    <2>1. Y = StoredOf(r, s)
      OBVIOUS
    <2> HIDE DEF Y
    <2> QED BY <1>3, <2>1, StoredOfFits
  <1>4. CASE (s.data = <<>> \/ InPlace(r.c, s)) /\ X = Entregar(Y)
    <2> HIDE DEF Y
    <2>1. Fits(X, b) /\ Patient(X.c) /\ Goes(Y, X) /\ (Held(Y, b) => Held(X, b))
      BY <1>3, <1>4, EntregarFits
    <2> QED BY <1>3, <1>4, <2>1, GoesOn
  <1>5. ASSUME s.data = <<>> \/ InPlace(r.c, s), "fin" \in s.flags, EndOf(r, s) = Y.c.rcv_nxt
        PROVE  Fits(A, b) /\ Goes(r, A) /\ (Held(r, b) => Held(A, b))
    <2>0. r.c.estado \in {"abierta", "cerrando"} => Held(r, b)
      BY DEF Fits, Sound, Reading, Held
    <2>1. /\ Fits(Y, b) /\ Y.c.estado # "syn" /\ Goes(r, Y) /\ (Held(r, b) => Held(Y, b))
          /\ Held(r, b) => Y.c.rcv_nxt = Plus(PeerIss, 1 + PeerBytes)
          /\ Y.c.estado \in {"abierta", "cerrando"} => Y.c.rcv_nxt = Plus(PeerIss, 1 + PeerBytes)
      BY <1>3, <1>5, <2>0
    <2> HIDE DEF Y
    <2>2. Z = Finished(Y)
      OBVIOUS
    <2> HIDE DEF Z
    <2>3. /\ Fits(Z, b) /\ Goes(Y, Z)
          /\ Held(Y, b) /\ Y.c.rcv_nxt = Plus(PeerIss, 1 + PeerBytes) => Held(Z, b)
      BY <2>1, <2>2, FinFits
    <2>4. A = Ack(Z)
      OBVIOUS
    <2> HIDE DEF A
    <2>5. Fits(A, b) /\ Alike(Z.c, A.c) /\ A.says = Z.says /\ A.gave = Z.gave /\ A.in = Z.in
      BY <2>3, <2>4, AckFits
    <2>6. Like(Z.c, A.c)
      BY <2>5, AlikeLike
    <2>7. Goes(Z, A) /\ (Held(Z, b) => Held(A, b))
      BY <2>5, <2>6, LikeGoes, LikeHeld
    <2>8. Goes(r, A)
      BY <2>1, <2>3, <2>7, GoesOn
    <2> QED BY <2>1, <2>3, <2>5, <2>7, <2>8
  <1>6. CASE /\ s.data = <<>> \/ InPlace(r.c, s)
             /\ "fin" \in s.flags /\ EndOf(r, s) = Y.c.rcv_nxt
             /\ X = Entregar(A) \/ X = Entregar(T)
    <2>1. Fits(A, b) /\ Goes(r, A) /\ (Held(r, b) => Held(A, b))
      BY <1>5, <1>6
    <2>2. X = Entregar(A) \/ X = Entregar(T)
      BY <1>6
    <2> HIDE DEF A
    <2>3. T = Terminar(A, FALSE) /\ FALSE \in BOOLEAN
      OBVIOUS
    <2> HIDE DEF T
    <2>4. Fits(T, b) /\ Goes(A, T) /\ (Held(A, b) => Held(T, b))
      BY <2>1, <2>3, TerminarFits
    <2>5. Goes(r, T)
      BY <2>1, <2>4, GoesOn
    <2>6. PICK Q \in {A, T} : X = Entregar(Q)
      BY <2>2
    <2>7. Fits(Q, b) /\ Goes(r, Q) /\ (Held(r, b) => Held(Q, b))
      BY <2>1, <2>4, <2>5
    <2>8. Fits(X, b) /\ Patient(X.c) /\ Goes(Q, X) /\ (Held(Q, b) => Held(X, b))
      BY <2>6, <2>7, EntregarFits
    <2> QED BY <2>7, <2>8, GoesOn
  <1>7. DatosEnd(X, r, s, Y, A, T)
    <2>1. Y = StoredOf(r, s) /\ A = Ack(Finished(Y)) /\ T = Terminar(A, FALSE)
      OBVIOUS
    <2> HIDE DEF Y, Z, A, T
    <2> QED BY <1>1, <2>1, DatosAre
  <1> HIDE DEF Y, Z, A, T
  <1> QED BY <1>2, <1>4, <1>6, <1>7 DEF DatosEnd

(* --------------------------- An answer is given -------------------------- *)

\* What an answer without data adds.
Adds(r, X, type, n) ==
    /\ X.c = r.c /\ X.says = Append(r.says, Says(type, n, <<>>))
    /\ X.flew = r.flew /\ X.gave = r.gave /\ X.in = r.in + IF type = "hueco" THEN n ELSE 0

\* An answer without data leaves the result right; "hueco" only for what the other machine has.
LEMMA AnswerFits ==
    ASSUME NEW r, NEW b, NEW type \in {"abierta", "hueco", "datos", "error"}, NEW n \in 0 .. Mss,
           NEW X, X = Answer(r, type, n, <<>>), Base(b), Fits(r, b),
           type = "hueco" => r.c.estado # "syn" /\ ~r.c.envio /\ b.t + r.in + n <= b.m
    PROVE  Fits(X, b) /\ Adds(r, X, type, n)
  <1> DEFINE i == IF type = "hueco" THEN n ELSE 0
             t == b.t + r.in
             u == b.t + X.in
             c == r.c
             g == b.g \o r.gave
             w == b.w \o r.flew
  <1>1. ResultFields(r) /\ r.gave \in Seq(Nat) /\ r.says \in Seq(Saying) /\ r.in \in Nat /\ Sound(c, g, t, w)
    BY DEF Fits
  <1>2. /\ ResultFields(X) /\ X.c = r.c /\ X.out = r.out /\ X.flew = r.flew
        /\ X.says = Append(r.says, Says(type, n, <<>>)) /\ X.gave = r.gave \o <<>> /\ X.in = r.in + i
    <2> DEFINE z == <<>>
    <2>1. X = Answer(r, type, n, z) /\ ResultFields(r)
      BY <1>1
    <2> HIDE DEF z
    <2>2. /\ ResultFields(X) /\ X.c = r.c /\ X.out = r.out /\ X.flew = r.flew
          /\ X.says = Append(r.says, Says(type, n, z)) /\ X.gave = r.gave \o z
          /\ X.in = r.in + IF type = "hueco" THEN n ELSE 0
      BY <2>1, AnswerIs
    <2> QED BY <2>2 DEF z
  <1>3. X.gave = r.gave
    BY <1>1, <1>2, NothingMore
  <1>4. Says(type, n, <<>>) \in Saying
    <2>1. <<>> \in Seq(Nat)
      OBVIOUS
    <2> QED BY <2>1, SaysType
  <1>5. X.says \in Seq(Saying)
    <2> DEFINE m == Says(type, n, <<>>)
               z == r.says
    <2>1. m \in Saying /\ z \in Seq(Saying) /\ X.says = Append(z, m)
      BY <1>1, <1>2, <1>4
    <2> HIDE DEF m, z
    <2> QED BY <2>1, AppendProperties
  <1>6. X.in \in Nat /\ u <= b.m /\ (type # "hueco" => u = t)
    <2>1. i \in Nat /\ b.t \in Nat /\ b.m \in Nat /\ t <= b.m
      BY Constants DEF Fits, Base
    <2> QED BY <1>1, <1>2, <2>1
  <1>7. Sound(c, g, u, w)
    <2>1. CASE type # "hueco"
      BY <2>1, <1>1, <1>6
    <2>2. CASE type = "hueco"
      <3>1. c.estado # "syn" /\ ~c.envio
        BY <2>2
      <3> HIDE DEF c, g, t, u, w
      <3>2. Opening(c, g, u, w)
        BY <3>1 DEF Opening
      <3>3. Sending(c, u, w)
        BY <3>1, <1>1 DEF Sound, Sending
      <3> QED BY <3>2, <3>3, <1>1 DEF Sound
    <2> QED BY <2>1, <2>2
  <1>8. \A s \in r.out : /\ s \in Segment /\ s.port = b.p
                         /\ FromUs(s, w, c.estado \in Shut)
    BY DEF Fits
  <1>9. /\ c.local = b.p /\ Len(r.flew) <= b.f /\ r.flew \in Seq(Nat)
        /\ (r.flew # <<>> => b.e = "abierta") /\ (b.e \in Shut => c.estado \in Shut)
    BY DEF Fits
  <1>10. Fits(X, b)
    BY <1>2, <1>3, <1>5, <1>6, <1>7, <1>8, <1>9, <1>1 DEF Fits
  <1> QED BY <1>10, <1>2, <1>3 DEF Adds

(* ------------------- What the other machine acknowledges ----------------- *)

Seen(c, s) == [c EXCEPT !.snd_una = s.ack, !.ventana_otro = s.win]
Done(c, s) == [Seen(c, s) EXCEPT !.vuelo = Grounded, !.envio = FALSE]
Heard(c, s) == IF c.envio THEN Answer(Start(Done(c, s)), "hueco", Len(c.vuelo.data), <<>>)
               ELSE Start(Done(c, s))
Leaving(r) == [r EXCEPT !.c.cerrar_pedido = FALSE, !.c.estado = "cerrando"]

Answers(c, s) == "ack" \in s.flags /\ Minus(s.ack, c.snd_una) > 0 /\ Minus(s.ack, c.snd_nxt) <= 0

AckEnd(X, c, s, R) ==
    \/ X = Start(c)
    \/ Answers(c, s) /\ s.ack # c.snd_nxt /\ X = Start(Seen(c, s))
    \/ Answers(c, s) /\ s.ack = c.snd_nxt /\ c.estado = "abierta" /\ X = Volar(Leaving(R), {"fin", "ack"}, <<>>)
    \/ Answers(c, s) /\ s.ack = c.snd_nxt /\ (X = Terminar(R, FALSE) \/ X = R)

\* The ways the acknowledgement part of tcp_llego() ends.
LEMMA AckLlegoIs ==
    ASSUME NEW c, NEW s, NEW X, X = AckLlego(c, s), NEW R, R = Heard(c, s)
    PROVE  AckEnd(X, c, s, R)
  <1> DEFINE seen == [c EXCEPT !.snd_una = s.ack, !.ventana_otro = s.win]
             done == [seen EXCEPT !.vuelo = Grounded, !.envio = FALSE]
             r    == IF c.envio THEN Answer(Start(done), "hueco", Len(c.vuelo.data), <<>>)
                     ELSE Start(done)
  <1>1. X = IF ~Answers(c, s) THEN Start(c)
            ELSE IF s.ack # c.snd_nxt THEN Start(seen)
            ELSE IF c.cerrar_pedido /\ c.estado = "abierta"
            THEN Volar([r EXCEPT !.c.cerrar_pedido = FALSE, !.c.estado = "cerrando"], {"fin", "ack"}, <<>>)
            ELSE IF "fin" \in c.vuelo.flags /\ c.estado = "cerrando" /\ c.fin_recibido
            THEN Terminar(r, FALSE) ELSE r
    BY Zenon DEF AckLlego, Answers
  <1>2. seen = Seen(c, s)
    BY DEF Seen
  <1>3. done = Done(c, s)
    BY DEF Done, Seen
  <1>4. r = R
    BY DEF Heard, Done, Seen
  <1> HIDE DEF seen, done, r
  <1>5. [r EXCEPT !.c.cerrar_pedido = FALSE, !.c.estado = "cerrando"] = Leaving(R)
    BY <1>4 DEF Leaving
  <1> QED BY <1>1, <1>2, <1>4, <1>5 DEF AckEnd

\* What the server knows of the other machine when one of its segments arrives.
Peering(b, q) ==
    /\ q.got \in Seq(Nat) /\ q.fin \in BOOLEAN /\ b.m = Len(q.got)
    /\ q.fin => b.e \in Shut

\* The connection once it has seen an acknowledgement.
LEMMA SeenIs ==
    ASSUME NEW c, NEW s \in Segment, ConnType(c), NEW d, d = Seen(c, s)
    PROVE  /\ ConnType(d) /\ d.estado = c.estado /\ d.local = c.local /\ d.snd_una = s.ack
           /\ d.snd_nxt = c.snd_nxt /\ d.rcv_nxt = c.rcv_nxt /\ d.vuelo = c.vuelo /\ d.buz = c.buz
           /\ d.fin_recibido = c.fin_recibido /\ d.lector = c.lector /\ d.envio = c.envio
           /\ d.cerrar_pedido = c.cerrar_pedido /\ d.morir_en = c.morir_en
  <1>1. s.ack \in 0 .. SeqSpace - 1 /\ s.win \in Nat
    BY DEF Segment
  <1> DEFINE a == s.ack
             v == s.win
  <1>2. d = [c EXCEPT !.snd_una = a, !.ventana_otro = v] /\ ConnFields(c)
    BY DEF Seen, ConnType
  <1> HIDE DEF a, v
  <1>3. /\ ConnFields(d) /\ d.lector = c.lector /\ d.envio = c.envio /\ d.vuelo = c.vuelo
        /\ d.estado = c.estado /\ d.local = c.local /\ d.snd_una = a
        /\ d.snd_nxt = c.snd_nxt /\ d.rcv_nxt = c.rcv_nxt
        /\ d.ventana_otro = v /\ d.buz = c.buz
        /\ d.reintentos = c.reintentos /\ d.fin_recibido = c.fin_recibido
        /\ d.ventana_dicha = c.ventana_dicha
        /\ d.cerrar_pedido = c.cerrar_pedido /\ d.morir_en = c.morir_en
    BY <1>2 DEF ConnFields
  <1>4. a \in 0 .. SeqSpace - 1 /\ v \in Nat
    BY <1>1 DEF a, v
  <1>5. ConnType(d)
    BY <1>3, <1>4 DEF ConnType
  <1> QED BY <1>3, <1>5 DEF a

\* The connection once all it had in flight is acknowledged.
LEMMA DoneIs ==
    ASSUME NEW c, NEW s \in Segment, ConnType(c), NEW d, d = Done(c, s)
    PROVE  /\ ConnType(d) /\ d.estado = c.estado /\ d.local = c.local /\ d.snd_una = s.ack
           /\ d.snd_nxt = c.snd_nxt /\ d.rcv_nxt = c.rcv_nxt /\ d.vuelo = Grounded /\ d.buz = c.buz
           /\ d.fin_recibido = c.fin_recibido /\ d.lector = c.lector /\ ~d.envio
           /\ d.cerrar_pedido = c.cerrar_pedido /\ d.morir_en = c.morir_en
  <1> DEFINE e == Seen(c, s)
  <1>1. e = Seen(c, s)
    OBVIOUS
  <1> PICK no \in BOOLEAN : no = FALSE
    OBVIOUS
  <1>2. d = [e EXCEPT !.vuelo = Grounded, !.envio = no]
    BY DEF Done
  <1> HIDE DEF e
  <1>3. /\ ConnType(e) /\ e.estado = c.estado /\ e.local = c.local /\ e.snd_una = s.ack
        /\ e.snd_nxt = c.snd_nxt /\ e.rcv_nxt = c.rcv_nxt /\ e.vuelo = c.vuelo /\ e.buz = c.buz
        /\ e.fin_recibido = c.fin_recibido /\ e.lector = c.lector /\ e.envio = c.envio
        /\ e.cerrar_pedido = c.cerrar_pedido /\ e.morir_en = c.morir_en
    BY <1>1, SeenIs
  <1>4. ConnFields(e)
    BY <1>3 DEF ConnType
  <1>5. /\ ConnFields(d) /\ d.lector = e.lector /\ d.envio = no /\ d.vuelo = Grounded
        /\ d.estado = e.estado /\ d.local = e.local /\ d.snd_una = e.snd_una
        /\ d.snd_nxt = e.snd_nxt /\ d.rcv_nxt = e.rcv_nxt
        /\ d.ventana_otro = e.ventana_otro /\ d.buz = e.buz
        /\ d.reintentos = e.reintentos /\ d.fin_recibido = e.fin_recibido
        /\ d.ventana_dicha = e.ventana_dicha
        /\ d.cerrar_pedido = e.cerrar_pedido /\ d.morir_en = e.morir_en
    BY <1>2, <1>4 DEF ConnFields
  <1>6. ConnType(d)
    <2>1. no \in BOOLEAN
      OBVIOUS
    <2> QED BY <1>3, <1>5, <2>1, GroundedIs DEF ConnType
  <1> QED BY <1>3, <1>5, <1>6

\* An acknowledgement of part of what is in flight.
LEMMA SeenSound ==
    ASSUME NEW c, NEW s \in Segment, NEW g, NEW t, NEW w, Sound(c, g, t, w), c.estado # "syn",
           Answers(c, s), NEW d, d = Seen(c, s)
    PROVE  /\ Sound(d, g, t, w) /\ d.local = c.local /\ d.estado = c.estado /\ (Patient(c) => Patient(d))
           /\ Like(c, d)
  <1>1. ConnType(c)
    BY DEF Sound
  <1>2. /\ ConnType(d) /\ d.estado = c.estado /\ d.local = c.local /\ d.snd_una = s.ack
        /\ d.snd_nxt = c.snd_nxt /\ d.rcv_nxt = c.rcv_nxt /\ d.vuelo = c.vuelo /\ d.buz = c.buz
        /\ d.fin_recibido = c.fin_recibido /\ d.lector = c.lector /\ d.envio = c.envio
        /\ d.cerrar_pedido = c.cerrar_pedido /\ d.morir_en = c.morir_en
    BY <1>1, SeenIs
  <1>3. Opening(d, g, t, w)
    BY <1>2 DEF Opening
  <1>4. c.estado = "abierta" => c.vuelo.flags # {} \/ c.snd_una # c.snd_nxt
    <2>1. Minus(s.ack, c.snd_una) \in Int /\ Minus(s.ack, c.snd_nxt) \in Int
      <3>1. s.ack \in Int /\ c.snd_una \in Int /\ c.snd_nxt \in Int
        BY <1>1 DEF Segment, ConnType
      <3> QED BY <3>1, MinusType
    <2> QED BY <2>1 DEF Answers
  <1>5. Sending(d, t, w)
    BY <1>2, <1>4 DEF Sound, Sending, InFlight
  <1>6. Closing(d, w) /\ Over(d)
    BY <1>2 DEF Sound, Closing, Over
  <1>7. Reading(d, g)
    BY <1>2 DEF Sound, Reading, Taken
  <1>8. Patient(c) => Patient(d)
    BY <1>2 DEF Patient
  <1>9. Like(c, d)
    BY <1>2 DEF Like
  <1> QED BY <1>2, <1>3, <1>5, <1>6, <1>7, <1>8, <1>9 DEF Sound

\* What is acknowledged in full is what the other machine has.
LEMMA AllIsThere ==
    ASSUME NEW c, NEW s \in Segment, NEW q, NEW b, Base(b), Sound(c, b.g, b.t, b.w), b.e = c.estado,
           c.estado = "abierta", FromPeer(s, q), Peering(b, q), Answers(c, s), s.ack = c.snd_nxt
    PROVE  /\ b.m = Len(b.w) /\ s.ack = Plus(Iss, 1 + Len(b.w))
           /\ c.envio => Len(c.vuelo.data) \in 0 .. Mss /\ b.t + Len(c.vuelo.data) <= b.m
  <1> DEFINE w == b.w
             n == Len(w)
  <1>1. n \in Nat /\ n <= Budget(MaxEvents) /\ b.m <= n /\ b.m \in Nat
    BY LenProperties DEF Base
  <1>2. ~q.fin
    BY DEF Peering, Shut
  <1>3. PICK a \in 0 .. Len(q.got) + Flag(q.fin) : s.ack = Plus(Iss, 1 + a)
    BY DEF FromPeer
  <1>4. a \in 0 .. b.m
    <2>1. Len(q.got) + Flag(q.fin) = b.m
      BY <1>2, <1>1 DEF Flag, Peering
    <2> QED BY <2>1
  <1>5. c.snd_nxt = Plus(Iss, 1 + n)
    BY DEF Sound, Sending
  <1> HIDE DEF n
  <1>6. 1 + a = 1 + n
    <2>1. Budget(MaxEvents) \in Nat /\ Budget(MaxEvents) + 2 <= Far
      BY BudgetIs, Constants
    <2>2. 1 + a \in 0 .. Far /\ 1 + n \in 0 .. Far /\ Iss \in 0 .. SeqSpace - 1
      BY <1>1, <1>4, <2>1, Constants
    <2>3. Plus(Iss, 1 + a) = Plus(Iss, 1 + n)
      BY <1>3, <1>5
    <2> DEFINE x == 1 + a
               y == 1 + n
    <2> HIDE DEF x, y
    <2> QED BY <2>2, <2>3, PlusInjective DEF x, y
  <1>7. b.m = n
    BY <1>1, <1>4, <1>6
  <1>8. c.envio => Len(c.vuelo.data) \in 0 .. Mss /\ b.t + Len(c.vuelo.data) <= b.m
    <2> SUFFICES ASSUME c.envio PROVE Len(c.vuelo.data) \in 0 .. Mss /\ b.t + Len(c.vuelo.data) <= b.m
      OBVIOUS
    <2>1. b.t <= n - Len(c.vuelo.data)
      BY DEF Sound, Sending, InFlight, n
    <2>2. Len(c.vuelo.data) \in 0 .. Mss
      <3> DEFINE d == c.vuelo.data
      <3>1. d \in Seq(Nat) /\ Len(d) <= Mss
        BY DEF Sound, ConnType
      <3> HIDE DEF d
      <3>2. Len(d) \in 0 .. Mss
        BY <3>1, LenProperties, Constants
      <3> QED BY <3>2 DEF d
    <2>3. b.t \in Nat
      BY DEF Base
    <2> DEFINE v == Len(c.vuelo.data)
    <2> HIDE DEF v
    <2>4. b.t <= n - v /\ v \in Nat
      BY <2>1, <2>2, Constants DEF v
    <2>5. b.t + v <= n
      BY <2>3, <2>4, <1>1
    <2> QED BY <2>2, <2>5, <1>7 DEF v
  <1> QED BY <1>5, <1>7, <1>8 DEF n

\* An acknowledgement of all of it: what is in flight is let go, and who sends is told.
LEMMA HeardFits ==
    ASSUME NEW c, NEW s \in Segment, NEW q, NEW b, Base(b), Sound(c, b.g, b.t, b.w), b.e = c.estado,
           c.local = b.p, c.estado # "syn", FromPeer(s, q), Peering(b, q), Answers(c, s), s.ack = c.snd_nxt,
           NEW R, R = Heard(c, s)
    PROVE  /\ Fits(R, b) /\ R.c = Done(c, s) /\ R.flew = <<>>
           /\ Begun(R, c) /\ (Taken(c, b.g) => Held(R, b))
  <1> DEFINE d == Done(c, s)
             S == Start(d)
  <1>1. ConnType(c)
    BY DEF Sound
  <1>2. d = Done(c, s)
    OBVIOUS
  <1> HIDE DEF d
  <1>3. /\ ConnType(d) /\ d.estado = c.estado /\ d.local = c.local /\ d.snd_una = s.ack
        /\ d.snd_nxt = c.snd_nxt /\ d.rcv_nxt = c.rcv_nxt /\ d.vuelo = Grounded /\ d.buz = c.buz
        /\ d.fin_recibido = c.fin_recibido /\ ~d.envio /\ d.lector = c.lector
    BY <1>1, <1>2, DoneIs
  <1>4. Sound(d, b.g, b.t, b.w)
    <2>1. Opening(d, b.g, b.t, b.w)
      BY <1>3 DEF Opening
    <2>2. Sending(d, b.t, b.w)
      BY <1>3, GroundedIs DEF Sound, Sending
    <2>3. Closing(d, b.w) /\ Over(d)
      BY <1>3, GroundedIs DEF Sound, Closing, Over
    <2>4. Reading(d, b.g)
      BY <1>3 DEF Sound, Reading, Taken
    <2> QED BY <1>3, <2>1, <2>2, <2>3, <2>4 DEF Sound
  <1>5. S = Start(d)
    OBVIOUS
  <1> HIDE DEF S
  <1>s. Fits(S, b) /\ AtStart(S, d)
    BY <1>3, <1>4, <1>5, StartFits
  <1>6. Fits(S, b) /\ S.c = d /\ S.flew = <<>> /\ S.in = 0 /\ S.says = <<>> /\ S.gave = <<>>
    BY <1>s DEF AtStart
  <1>a. Taken(c, b.g) => Held(S, b)
    <2>1. b.g \o S.gave = b.g
      BY <1>6, NothingMore DEF Base
    <2> QED BY <2>1, <1>3, <1>6 DEF Held, Taken
  <1>7. CASE ~c.envio
    <2>1. R = S
      BY <1>7, <1>5, <1>2 DEF Heard
    <2>2. Like(c, S.c)
      BY <1>7, <1>3, <1>6 DEF Like
    <2> QED BY <2>1, <2>2, <1>6, <1>2, <1>a, LikeBegun
  <1>8. CASE c.envio
    <2> DEFINE n == Len(c.vuelo.data)
    <2>1. c.estado = "abierta"
      <3>1. c.estado \in {"syn", "abierta", "cerrando", "muerta"}
        BY <1>1 DEF ConnType
      <3>2. c.estado # "cerrando" /\ c.estado # "muerta"
        BY <1>8 DEF Sound, Closing, Over
      <3> QED BY <3>1, <3>2
    <2>2. n \in 0 .. Mss /\ b.t + n <= b.m
      BY <2>1, <1>8, AllIsThere
    <2> HIDE DEF n
    <2>3. R = Answer(S, "hueco", n, <<>>)
      BY <1>8, <1>5, <1>2 DEF Heard, n
    <2>4. b.t + S.in + n <= b.m
      BY <1>6, <2>2, Constants DEF Base
    <2>5. "hueco" \in {"abierta", "hueco", "datos", "error"} /\ S.c.estado # "syn" /\ ~S.c.envio
      BY <1>3, <1>6
    <2>a. Fits(R, b) /\ Adds(S, R, "hueco", n)
      BY <1>6, <2>2, <2>3, <2>4, <2>5, AnswerFits
    <2>6. /\ Fits(R, b) /\ R.c = S.c /\ R.flew = S.flew /\ R.gave = S.gave
          /\ R.says = Append(S.says, Says("hueco", n, <<>>)) /\ R.in = S.in + n
      BY <2>a DEF Adds
    <2>7. ASSUME NEW w \in Words, Waits(c, w) PROVE Speaks(R, w)
      <3>1. w = "hueco" /\ ~c.lector
        BY <1>8, <2>7 DEF Waits, Words
      <3>2. Waits(R.c, "none")
        BY <1>3, <1>6, <2>6, <3>1 DEF Waits
      <3> DEFINE m == Says("hueco", n, <<>>)
      <3>3. m \in Saying /\ m.type = "hueco" /\ m.n = n /\ m.data = <<>>
        <4>1. <<>> \in Seq(Nat)
          OBVIOUS
        <4> QED BY <4>1, <2>2, SaysType DEF Says
      <3> HIDE DEF m
      <3>4. R.says = <<m>> /\ R.gave = m.data /\ R.in = m.n
        <4>1. R.says = Append(S.says, m)
          BY <2>6 DEF m
        <4>2. m.n \in Int
          BY <2>2, <3>3
        <4> QED BY <4>1, <4>2, <1>6, <2>6, <3>3
      <3> QED BY <3>1, <3>2, <3>3, <3>4 DEF Speaks, TellsOf
    <2>8. Taken(c, b.g) => Held(R, b)
      BY <1>a, <2>6 DEF Held
    <2> QED BY <1>2, <1>6, <2>6, <2>7, <2>8 DEF Begun
  <1> QED BY <1>7, <1>8

\* The FIN goes when nothing is in flight.
LEMMA FinGoes ==
    ASSUME NEW r, NEW b, Base(b), Fits(r, b), r.flew = <<>>, r.c.estado = "abierta", r.c.vuelo.flags = {},
           NEW e, ConnType(e), e.estado = "cerrando", ~e.envio, e.local = r.c.local,
           e.snd_una = r.c.snd_una, e.rcv_nxt = r.c.rcv_nxt, e.buz = r.c.buz,
           e.fin_recibido = r.c.fin_recibido,
           NEW Y, Y = [r EXCEPT !.c = e], NEW X, X = Volar(Y, {"fin", "ack"}, <<>>)
    PROVE  /\ Fits(X, b) /\ (Patient(e) => Patient(X.c)) /\ X.c.estado = "cerrando" /\ X.says = r.says
           /\ Like(e, X.c) /\ X.gave = r.gave /\ X.in = r.in
  <1> DEFINE w == b.w
             n == Len(w)
             g == b.g \o r.gave
             t == b.t + r.in
             c == r.c
             f == {"fin", "ack"}
             d == X.c
             k == Plus(r.c.snd_una, 1)
  <1>1. b.w \o r.flew = w
    BY NothingMore DEF Base
  <1>2. /\ ResultFields(r) /\ Sound(c, g, t, w) /\ r.gave \in Seq(Nat) /\ r.in \in Nat
        /\ r.says \in Seq(Saying) /\ c.local = b.p /\ t <= b.m
        /\ \A s \in r.out : s \in Segment /\ s.port = b.p /\ FromUs(s, w, c.estado \in Shut)
    BY <1>1 DEF Fits
  <1>3. /\ ResultFields(Y) /\ Y.c = e /\ Y.says = r.says /\ Y.gave = r.gave /\ Y.in = r.in
        /\ Y.flew = r.flew /\ Y.out = r.out /\ ConnFields(e)
    BY <1>2 DEF ResultFields, ConnType
  <1>4. Flown(f, <<>>) = 1
    BY DEF Flown
  <1> DEFINE a == IF "ack" \in f THEN e.rcv_nxt ELSE 0
             h == Hueco(e)
             s == [port |-> e.local, flags |-> f, seq |-> e.snd_una, ack |-> a, win |-> h, data |-> <<>>]
             fl == Flown(f, <<>>)
  <1>5. /\ ResultFields(X) /\ ConnFields(X.c)
        /\ X.says = Y.says /\ X.gave = Y.gave /\ X.in = Y.in /\ X.flew = Y.flew \o <<>>
        /\ X.out = Y.out \cup {s}
        /\ d.estado = e.estado /\ d.local = e.local
        /\ d.snd_una = e.snd_una /\ d.snd_nxt = Plus(e.snd_una, fl)
        /\ d.rcv_nxt = e.rcv_nxt /\ d.ventana_otro = e.ventana_otro
        /\ d.vuelo = [flags |-> f, seq |-> e.snd_una, data |-> <<>>]
        /\ d.reintentos = 0 /\ d.buz = e.buz
        /\ d.fin_recibido = e.fin_recibido /\ d.ventana_dicha = h
        /\ d.lector = e.lector /\ d.envio = e.envio
        /\ d.cerrar_pedido = e.cerrar_pedido /\ d.morir_en = e.morir_en
    <2> DEFINE z == <<>>
    <2>1. X = Volar(Y, f, z) /\ ResultFields(Y) /\ ConnFields(Y.c)
      BY <1>3
    <2> HIDE DEF f, z, d
    <2>2. Volado(Y, f, z, X)
      BY <2>1, VolarIs
    <2> QED BY <2>2, <1>3 DEF z, d, Volado
  <1>6. X.flew = <<>>
    BY <1>3, <1>5
  <1>7. k \in 0 .. SeqSpace - 1 /\ d.snd_nxt = k
    <2>1. r.c.snd_una \in 0 .. SeqSpace - 1 /\ 1 \in 0 .. SeqSpace - 1
      BY SMTT(40), <1>2, Constants DEF Sound, ConnType
    <2> QED BY <2>1, <1>4, <1>5, PlusIs
  <1>8. n \in Nat /\ n <= Budget(MaxEvents)
    BY LenProperties DEF Base
  <1>9. c.snd_una = Plus(Iss, 1 + n)
    <2>1. /\ c.snd_nxt = Plus(Iss, 1 + Len(w))
          /\ c.vuelo.flags = {} => c.snd_una = c.snd_nxt
      BY <1>2 DEF Sound, Sending
    <2> QED BY <2>1
  <1>10. k = Plus(Iss, 2 + n)
    <2> HIDE DEF n
    <2> QED BY <1>8, <1>9, ShortEnough
  <1>11. h \in Nat /\ a \in 0 .. SeqSpace - 1
    BY HuecoType, Constants DEF ConnType
  <1>12. s \in Segment /\ s.port = b.p
    <2>1. e.local \in Ports /\ e.snd_una \in 0 .. SeqSpace - 1 /\ e.local = b.p
      BY <1>2 DEF ConnType
    <2>2. f \in SUBSET {"syn", "ack", "fin", "rst"} /\ <<>> \in Seq(Nat)
      OBVIOUS
    <2> HIDE DEF a, h, f
    <2> QED BY <1>11, <2>1, <2>2 DEF Segment
  <1>13. FromUs(s, w, TRUE)
    <2>1. s.flags = {"fin", "ack"} /\ s.data = <<>> /\ s.seq = Plus(Iss, 1 + Len(w))
      BY <1>9
    <2> HIDE DEF s
    <2> QED BY <2>1 DEF FromUs
  <1>14. ASSUME NEW z \in X.out
         PROVE  z \in Segment /\ z.port = b.p /\ FromUs(z, w, X.c.estado \in Shut)
    <2>1. (X.c.estado \in Shut) = TRUE
      BY <1>5 DEF Shut
    <2>2. CASE z \in r.out
      <3>1. z \in Segment /\ z.port = b.p /\ FromUs(z, w, c.estado \in Shut) /\ (c.estado \in Shut) \in BOOLEAN
        BY <2>2, <1>2
      <3>2. FromUs(z, w, TRUE)
        BY <3>1, FromUsShut
      <3> QED BY <3>1, <3>2, <2>1
    <2>3. CASE z = s
      <3> HIDE DEF s
      <3> QED BY <2>3, <1>12, <1>13, <2>1
    <2>4. z \in r.out \/ z = s
      <3> HIDE DEF s
      <3> QED BY <1>14, <1>5, <1>3
    <2> QED BY <2>2, <2>3, <2>4
  <1> HIDE DEF s, a, k
  <1>15. ConnType(d)
    <2>1. /\ d.vuelo.flags \in SUBSET {"syn", "ack", "fin", "rst"} /\ d.vuelo.seq \in 0 .. SeqSpace - 1
          /\ d.vuelo.data \in Seq(Nat) /\ Len(d.vuelo.data) <= Mss
      <3>1. e.snd_una \in 0 .. SeqSpace - 1
        BY DEF ConnType
      <3>2. f \in SUBSET {"syn", "ack", "fin", "rst"} /\ <<>> \in Seq(Nat) /\ Len(<<>>) = 0
        OBVIOUS
      <3>3. d.vuelo.flags = f /\ d.vuelo.seq = e.snd_una /\ d.vuelo.data = <<>>
        BY <1>5
      <3> HIDE DEF d, f
      <3> QED BY <3>1, <3>2, <3>3, Constants
    <2>2. ConnFields(d) /\ d.snd_nxt \in 0 .. SeqSpace - 1 /\ d.ventana_dicha \in Nat /\ 0 \in 0 .. Retries
      <3>1. 0 \in 0 .. Retries
        BY Constants
      <3>2. d.ventana_dicha = h /\ ConnFields(d)
        BY <1>5
      <3> HIDE DEF d, h
      <3> QED BY <3>1, <3>2, <1>7, <1>11
    <2> HIDE DEF d
    <2> QED BY <2>1, <2>2, <1>5 DEF ConnType
  <1>16. Sound(d, g, t, w)
    <2>1. Opening(d, g, t, w) /\ Sending(d, t, w) /\ Over(d)
      BY <1>5 DEF Opening, Sending, Over
    <2>2. Closing(d, w)
      BY <1>5, <1>7, <1>9, <1>10 DEF Closing
    <2>3. Reading(d, g)
      <3>1. Taken(c, g)
        BY <1>2 DEF Sound, Reading
      <3>2. d.buz = c.buz /\ d.rcv_nxt = c.rcv_nxt /\ d.fin_recibido = c.fin_recibido
        BY <1>5
      <3> HIDE DEF d, c, g
      <3> QED BY <3>1, <3>2 DEF Reading, Taken
    <2> QED BY <1>15, <2>1, <2>2, <2>3 DEF Sound
  <1>17. Patient(e) => Patient(d)
    BY <1>5 DEF Patient
  <1>18. Sound(X.c, b.g \o X.gave, b.t + X.in, b.w \o X.flew) /\ b.w \o X.flew = w
    BY <1>16, <1>5, <1>3, <1>1, <1>6
  <1>19. X.c.local = b.p /\ X.gave \in Seq(Nat) /\ X.in \in Nat /\ X.says \in Seq(Saying) /\ b.t + X.in <= b.m
    BY <1>5, <1>3, <1>2
  <1>20. X.flew \in Seq(Nat) /\ Len(X.flew) <= b.f
    <2>1. PICK z : z = <<>>
      OBVIOUS
    <2>2. z \in Seq(Nat) /\ Len(z) = 0
      BY ONLY <2>1
    <2>3. b.f \in 0 .. Mss /\ Mss \in Nat
      BY ONLY Base(b), Constants DEF Base
    <2>4. 0 <= b.f
      BY ONLY <2>3
    <2> QED BY ONLY <2>1, <2>2, <2>4, <1>6
  <1>21. X.c.estado \in Shut
    BY <1>5 DEF Shut
  <1>22. Fits(X, b)
    BY <1>5, <1>6, <1>14, <1>18, <1>19, <1>20, <1>21 DEF Fits
  <1>23. Like(e, d)
    BY <1>5 DEF Like
  <1> QED BY <1>22, <1>17, <1>5, <1>3, <1>23

\* The acknowledgement part of tcp_llego(), with the FIN that was put off.
LEMMA AckLlegoFits ==
    ASSUME NEW c, NEW s \in Segment, NEW q, NEW b, Base(b), Sound(c, b.g, b.t, b.w), b.e = c.estado,
           c.local = b.p, c.estado # "syn", FromPeer(s, q), Peering(b, q), Patient(c),
           NEW X, X = AckLlego(c, s)
    PROVE  /\ Fits(X, b) /\ Patient(X.c) /\ X.c.estado # "syn"
           /\ Begun(X, c) /\ (Taken(c, b.g) => Held(X, b))
  <1> DEFINE R == Heard(c, s)
  <1>1. R = Heard(c, s)
    OBVIOUS
  <1> HIDE DEF R
  <1>2. AckEnd(X, c, s, R)
    BY <1>1, AckLlegoIs
  <1>3. ConnType(c)
    BY DEF Sound
  <1>4. CASE X = Start(c)
    <2>s. Fits(X, b) /\ AtStart(X, c)
      BY <1>4, StartFits
    <2>1. Fits(X, b) /\ X.c = c /\ X.says = <<>> /\ X.gave = <<>> /\ X.in = 0
      BY <2>s DEF AtStart
    <2>2. Begun(X, c) /\ (Taken(c, b.g) => Held(X, b))
      BY <2>1, LikeStart
    <2> QED BY <2>1, <2>2
  <1>5. CASE Answers(c, s) /\ s.ack # c.snd_nxt /\ X = Start(Seen(c, s))
    <2> DEFINE d == Seen(c, s)
    <2>1. d = Seen(c, s) /\ X = Start(d)
      BY <1>5
    <2> HIDE DEF d
    <2>2. Sound(d, b.g, b.t, b.w) /\ d.local = c.local /\ d.estado = c.estado /\ Patient(d) /\ Like(c, d)
      BY <1>5, <2>1, SeenSound
    <2>3. d.local = b.p /\ (b.e \in Shut => d.estado \in Shut)
      BY <2>2
    <2>s. Fits(X, b) /\ AtStart(X, d)
      BY ONLY Base(b), <2>1, <2>2, <2>3, StartFits
    <2>4. Fits(X, b) /\ X.c = d /\ X.says = <<>> /\ X.gave = <<>> /\ X.in = 0
      BY <2>s DEF AtStart
    <2>5. Begun(X, c) /\ (Taken(c, b.g) => Held(X, b))
      BY <2>2, <2>4, LikeStart
    <2> QED BY <2>2, <2>4, <2>5
  <1>6. CASE Answers(c, s) /\ s.ack = c.snd_nxt /\ c.estado = "abierta"
              /\ X = Volar(Leaving(R), {"fin", "ack"}, <<>>)
    <2> PICK no \in BOOLEAN : no = FALSE
      OBVIOUS
    <2> DEFINE Y == Leaving(R)
               d == R.c
               e == [d EXCEPT !.cerrar_pedido = no, !.estado = "cerrando"]
    <2>1. /\ Fits(R, b) /\ R.c = Done(c, s) /\ R.flew = <<>>
          /\ Begun(R, c) /\ (Taken(c, b.g) => Held(R, b))
      BY <1>1, <1>6, HeardFits
    <2>2. /\ ConnType(d) /\ d.estado = c.estado /\ d.local = c.local /\ d.snd_una = s.ack
          /\ d.snd_nxt = c.snd_nxt /\ d.rcv_nxt = c.rcv_nxt /\ d.vuelo = Grounded /\ d.buz = c.buz
          /\ d.fin_recibido = c.fin_recibido /\ d.lector = c.lector /\ ~d.envio
          /\ d.cerrar_pedido = c.cerrar_pedido /\ d.morir_en = c.morir_en
      BY <1>3, <2>1, DoneIs
    <2>3. ResultFields(R) /\ ConnFields(d)
      BY <2>1, <2>2 DEF Fits, ConnType
    <2>4. Y = [R EXCEPT !.c = e]
      <3> DEFINE r1 == [R EXCEPT !.c.cerrar_pedido = no]
                 r2 == [r1 EXCEPT !.c.estado = "cerrando"]
      <3>1. Y = r2
        BY DEF Leaving
      <3>2. r2 = [R EXCEPT !.c = e]
        BY <2>3
      <3> QED BY <3>1, <3>2
    <2>5. e = [d EXCEPT !.cerrar_pedido = no, !.estado = "cerrando"]
      OBVIOUS
    <2> HIDE DEF e
    <2>6. /\ ConnFields(e) /\ e.lector = d.lector /\ e.envio = d.envio /\ e.vuelo = d.vuelo
          /\ e.estado = "cerrando" /\ e.local = d.local /\ e.snd_una = d.snd_una
          /\ e.snd_nxt = d.snd_nxt /\ e.rcv_nxt = d.rcv_nxt
          /\ e.ventana_otro = d.ventana_otro /\ e.buz = d.buz
          /\ e.reintentos = d.reintentos /\ e.fin_recibido = d.fin_recibido
          /\ e.ventana_dicha = d.ventana_dicha
          /\ e.cerrar_pedido = no /\ e.morir_en = d.morir_en
      <3> HIDE DEF d
      <3> QED BY <2>3, <2>5 DEF ConnFields
    <2>7. ConnType(e)
      <3>1. no \in BOOLEAN
        OBVIOUS
      <3> HIDE DEF d
      <3> QED BY <2>2, <2>6, <3>1 DEF ConnType
    <2>8. Patient(e)
      <3> HIDE DEF d
      <3> QED BY <2>2, <2>6 DEF Patient
    <2>9. R.c.estado = "abierta" /\ R.c.vuelo.flags = {} /\ ~e.envio /\ X = Volar(Y, {"fin", "ack"}, <<>>)
      BY <1>6, <2>2, <2>6, GroundedIs
    <2> HIDE DEF Y
    <2>10. /\ Fits(X, b) /\ (Patient(e) => Patient(X.c)) /\ X.c.estado = "cerrando"
           /\ Like(e, X.c) /\ X.says = R.says /\ X.gave = R.gave /\ X.in = R.in
      BY <2>1, <2>4, <2>6, <2>7, <2>9, FinGoes
    <2>11. Like(R.c, X.c)
      <3>1. Like(d, e)
        BY <2>6, <2>9 DEF Like
      <3> QED BY <3>1, <2>10 DEF Like
    <2>12. Begun(X, c) /\ (Taken(c, b.g) => Held(X, b))
      BY <2>1, <2>10, <2>11, LikeGoes, LikeHeld, BegunGoes
    <2> QED BY <2>8, <2>10, <2>12
  <1>7. CASE Answers(c, s) /\ s.ack = c.snd_nxt /\ X = Terminar(R, FALSE)
    <2>1. Fits(R, b) /\ Begun(R, c) /\ (Taken(c, b.g) => Held(R, b))
      BY <1>1, <1>7, HeardFits
    <2> PICK no \in BOOLEAN : no = FALSE
      OBVIOUS
    <2>2. X = Terminar(R, no)
      BY <1>7
    <2>3. /\ Fits(X, b) /\ Patient(X.c) /\ X.c.estado = "muerta" /\ Goes(R, X)
          /\ Held(R, b) => Held(X, b)
      BY <2>1, <2>2, TerminarFits
    <2> QED BY <2>1, <2>3, BegunGoes
  <1>8. CASE Answers(c, s) /\ s.ack = c.snd_nxt /\ X = R
    <2>1. Fits(R, b) /\ R.c = Done(c, s) /\ Begun(R, c) /\ (Taken(c, b.g) => Held(R, b))
      BY <1>1, <1>8, HeardFits
    <2>2. /\ R.c.estado = c.estado /\ R.c.buz = c.buz
          /\ R.c.fin_recibido = c.fin_recibido /\ R.c.lector = c.lector
      BY <1>3, <2>1, DoneIs
    <2>3. Patient(R.c)
      BY <2>2 DEF Patient
    <2> QED BY <1>8, <2>1, <2>2, <2>3
  <1> QED BY <1>2, <1>4, <1>5, <1>6, <1>7, <1>8 DEF AckEnd

(* --------------------------- A segment arrives --------------------------- *)

Opened(c, s) == [c EXCEPT !.snd_una = s.ack, !.rcv_nxt = Plus(s.seq, 1), !.vuelo = Grounded,
                          !.ventana_otro = s.win, !.estado = "abierta"]

\* The answer to the SYN opens the connection and says so.
LEMMA SynAckFits ==
    ASSUME NEW c, NEW s \in Segment, NEW q, NEW b, Base(b), Sound(c, b.g, b.t, b.w), b.e = c.estado,
           c.local = b.p, c.estado = "syn", FromPeer(s, q), "rst" \notin s.flags, Patient(c),
           NEW X, X = SynAckLlego(c, s)
    PROVE  /\ Fits(X, b) /\ Patient(X.c) /\ (X.c.estado = "syn" \/ (TellsOpen(X) /\ Held(X, b)))
           /\ Begun(X, c)
  <1> DEFINE d == Opened(c, s)
             S == Start(d)
             A == Ack(S)
  <1>1. \/ X = Start(c)
        \/ {"syn", "ack"} \subseteq s.flags /\ s.ack = c.snd_nxt /\ X = Answer(A, "abierta", 0, <<>>)
    BY DEF SynAckLlego, Opened
  <1>2. CASE X = Start(c)
    <2>s. Fits(X, b) /\ AtStart(X, c)
      BY <1>2, StartFits
    <2>1. Fits(X, b) /\ X.c = c /\ X.says = <<>> /\ X.gave = <<>> /\ X.in = 0
      BY <2>s DEF AtStart
    <2>2. Begun(X, c)
      BY <2>1, LikeStart
    <2> QED BY <2>1, <2>2
  <1>3. CASE {"syn", "ack"} \subseteq s.flags /\ s.ack = c.snd_nxt /\ X = Answer(A, "abierta", 0, <<>>)
    <2> DEFINE n == Plus(s.seq, 1)
    <2>1. s.flags = {"syn", "ack"} /\ s.seq = PeerIss
      BY <1>3 DEF FromPeer
    <2>2. n = Plus(PeerIss, 1) /\ n \in 0 .. SeqSpace - 1
      <3>1. PeerIss \in 0 .. SeqSpace - 1 /\ 1 \in 0 .. SeqSpace - 1
        BY Constants
      <3> QED BY <2>1, <3>1, PlusIs
    <2> DEFINE a == s.ack
               v == s.win
    <2>3. a \in 0 .. SeqSpace - 1 /\ v \in Nat
      BY DEF Segment
    <2>4. d = [c EXCEPT !.snd_una = a, !.rcv_nxt = n, !.vuelo = Grounded, !.ventana_otro = v,
                        !.estado = "abierta"]
      BY DEF Opened
    <2>5. ConnType(c) /\ ConnFields(c) /\ Opening(c, b.g, b.t, b.w)
      BY DEF Sound, ConnType
    <2> HIDE DEF d, n, a, v
    <2>6. /\ ConnFields(d) /\ d.lector = c.lector /\ d.envio = c.envio /\ d.vuelo = Grounded
          /\ d.estado = "abierta" /\ d.local = c.local /\ d.snd_una = a
          /\ d.snd_nxt = c.snd_nxt /\ d.rcv_nxt = n
          /\ d.ventana_otro = v /\ d.buz = c.buz
          /\ d.reintentos = c.reintentos /\ d.fin_recibido = c.fin_recibido
          /\ d.ventana_dicha = c.ventana_dicha
          /\ d.cerrar_pedido = c.cerrar_pedido /\ d.morir_en = c.morir_en
      BY <2>4, <2>5 DEF ConnFields
    <2>7. ConnType(d)
      BY <2>2, <2>3, <2>5, <2>6, GroundedIs DEF ConnType
    <2>8. /\ b.w = <<>> /\ b.g = <<>> /\ b.t = 0 /\ c.buz = <<>> /\ ~c.fin_recibido /\ ~c.envio
          /\ c.snd_nxt = Plus(Iss, 1)
      BY <2>5 DEF Opening
    <2>9. Sound(d, b.g, b.t, b.w) /\ Taken(d, b.g)
      <3>1. Opening(d, b.g, b.t, b.w) /\ Closing(d, b.w) /\ Over(d)
        BY <2>6 DEF Opening, Closing, Over
      <3>2. Sending(d, b.t, b.w)
        <4>1. Len(b.w) = 0 /\ 1 + Len(b.w) = 1
          BY <2>8
        <4>2. d.vuelo.flags = {} /\ d.snd_una = d.snd_nxt /\ ~d.envio /\ d.snd_nxt = Plus(Iss, 1)
          BY <1>3, <2>6, <2>8, GroundedIs DEF a
        <4> QED BY <4>1, <4>2 DEF Sending
      <3>3. Taken(d, b.g)
        <4>1. Len(b.g) = 0 /\ Len(d.buz) = 0 /\ 0 <= PeerBytes
          BY <2>6, <2>8, Constants
        <4>2. Flag(d.fin_recibido) = 0 /\ ~d.fin_recibido
          BY <2>6, <2>8 DEF Flag
        <4>3. 1 + (Len(b.g) + Len(d.buz)) + Flag(d.fin_recibido) = 1
          BY <4>1, <4>2
        <4> QED BY <4>1, <4>2, <4>3, <2>2, <2>6 DEF Taken
      <3> QED BY <2>7, <3>1, <3>2, <3>3 DEF Sound, Reading
    <2>10. Patient(d)
      BY <2>6 DEF Patient
    <2>11. S = Start(d)
      OBVIOUS
    <2> HIDE DEF S
    <2>12. Fits(S, b) /\ S.c = d /\ S.says = <<>> /\ S.gave = <<>> /\ S.in = 0
      <3>1. d.local = b.p /\ ~(b.e \in Shut)
        BY <2>6 DEF Shut
      <3>a. Fits(S, b) /\ AtStart(S, d)
        BY <2>9, <2>11, <3>1, StartFits
      <3> QED BY <3>a DEF AtStart
    <2>13. A = Ack(S)
      OBVIOUS
    <2> HIDE DEF A
    <2>14. Fits(A, b) /\ Patient(A.c) /\ A.says = <<>> /\ A.gave = <<>> /\ A.in = 0 /\ Alike(d, A.c)
      BY <2>10, <2>12, <2>13, AckFits
    <2>15. /\ "abierta" \in {"abierta", "hueco", "datos", "error"} /\ "abierta" # "hueco"
           /\ 0 \in 0 .. Mss
      BY Constants
    <2>a. Fits(X, b) /\ Adds(A, X, "abierta", 0)
      BY <1>3, <2>14, <2>15, AnswerFits
    <2>16. /\ Fits(X, b) /\ X.c = A.c /\ X.says = Append(A.says, Says("abierta", 0, <<>>))
           /\ X.gave = A.gave /\ X.in = A.in + 0
      BY <2>a DEF Adds
    <2>17. TellsOpen(X)
      <3> DEFINE m == Says("abierta", 0, <<>>)
      <3>1. m.type = "abierta"
        BY DEF Says
      <3> HIDE DEF m
      <3>2. X.says = <<m>>
        BY <2>14, <2>16 DEF m
      <3>3. Len(X.says) = 1 /\ X.says[1] = m
        BY <3>2
      <3> QED BY <3>1, <3>3 DEF TellsOpen, TellsError
    <2>18. Held(X, b)
      <3>1. Taken(A.c, b.g)
        BY <2>9, <2>14, AlikeLike, LikeTaken
      <3>2. b.g \o X.gave = b.g
        BY <2>14, <2>16, NothingMore DEF Base
      <3> QED BY <3>1, <3>2, <2>16 DEF Held
    <2>19. ASSUME NEW w \in Words, Waits(c, w) PROVE Speaks(X, w)
      <3>1. w = "abierta" /\ ~c.lector
        BY <2>19 DEF Waits, Words
      <3>2. Waits(X.c, "none")
        BY <2>6, <2>8, <2>14, <2>16, <3>1 DEF Waits, Alike
      <3> DEFINE m == Says("abierta", 0, <<>>)
      <3>3. m \in Saying /\ m.type = "abierta" /\ m.data = <<>>
        <4>1. <<>> \in Seq(Nat)
          OBVIOUS
        <4> QED BY <4>1, <2>15, SaysType DEF Says
      <3> HIDE DEF m
      <3>4. X.says = <<m>> /\ X.gave = m.data /\ X.in = 0
        <4>1. X.says = Append(A.says, m)
          BY <2>16 DEF m
        <4> QED BY <4>1, <2>14, <2>16, <3>3
      <3> QED BY <3>1, <3>2, <3>3, <3>4 DEF Speaks, TellsOf
    <2> QED BY <2>14, <2>16, <2>17, <2>18, <2>19 DEF Begun
  <1> QED BY <1>1, <1>2, <1>3

\* tcp_llego(), whatever the segment.
LEMMA LlegoFits ==
    ASSUME NEW c, NEW s \in Segment, NEW q, NEW b, Base(b), Sound(c, b.g, b.t, b.w), b.e = c.estado,
           c.local = b.p, FromPeer(s, q), Peering(b, q), Patient(c), NEW X, X = TcpLlego(c, s)
    PROVE  /\ Fits(X, b) /\ Patient(X.c) /\ Begun(X, c)
           /\ c.estado # "syn" /\ Taken(c, b.g) => Held(X, b)
           /\ c.estado = "syn" => X.c.estado = "syn" \/ (TellsOpen(X) /\ Held(X, b)) \/ TellsError(X)
  <1>1. CASE "rst" \in s.flags
    <2> DEFINE S == Start(c)
    <2> PICK yes \in BOOLEAN : yes = TRUE
      OBVIOUS
    <2>1. X = Terminar(S, yes) /\ S = Start(c)
      BY <1>1 DEF TcpLlego
    <2> HIDE DEF S
    <2>s. Fits(S, b) /\ AtStart(S, c)
      BY <2>1, StartFits
    <2>2. Fits(S, b) /\ S.c = c /\ S.says = <<>> /\ S.gave = <<>> /\ S.in = 0
      BY <2>s DEF AtStart
    <2>3. /\ Fits(X, b) /\ Patient(X.c) /\ Goes(S, X) /\ (Held(S, b) => Held(X, b))
          /\ S.c.estado = "syn" => TellsError(X)
      BY <2>1, <2>2, TerminarFits
    <2>4. Begun(S, c) /\ (Taken(c, b.g) => Held(S, b))
      BY <2>2, LikeStart
    <2> QED BY <2>2, <2>3, <2>4, BegunGoes
  <1>2. CASE "rst" \notin s.flags /\ c.estado = "syn"
    <2>1. X = SynAckLlego(c, s)
      BY <1>2 DEF TcpLlego
    <2>2. /\ Fits(X, b) /\ Patient(X.c) /\ (X.c.estado = "syn" \/ (TellsOpen(X) /\ Held(X, b)))
          /\ Begun(X, c)
      BY <1>2, <2>1, SynAckFits
    <2> QED BY <1>2, <2>2
  <1>3. CASE "rst" \notin s.flags /\ c.estado # "syn"
    <2> DEFINE r == AckLlego(c, s)
    <2>1. r = AckLlego(c, s) /\ X = DatosLlegan(r, s)
      BY <1>3 DEF TcpLlego
    <2> HIDE DEF r
    <2>2. /\ Fits(r, b) /\ Patient(r.c) /\ r.c.estado # "syn"
          /\ Begun(r, c) /\ (Taken(c, b.g) => Held(r, b))
      BY <1>3, <2>1, AckLlegoFits
    <2>3. Fits(X, b) /\ Patient(X.c) /\ Goes(r, X) /\ (Held(r, b) => Held(X, b))
      BY <1>3, <2>1, <2>2, DatosFit
    <2> QED BY <1>3, <2>2, <2>3, BegunGoes
  <1> QED BY <1>1, <1>2, <1>3

(* ------------------------------- The clock ------------------------------- *)

\* What is in flight may be sent again.
LEMMA VueloMay ==
    ASSUME NEW c, NEW g, NEW t, NEW w \in Seq(Nat), Sound(c, g, t, w), c.vuelo.flags # {}
    PROVE  May(c.vuelo.flags, c.vuelo.seq, c.vuelo.data, w, c.estado \in Shut)
  <1> DEFINE d == c.vuelo.data
             n == InFlight(c, w)
             closed == c.estado \in Shut
  <1>1. /\ c.vuelo.flags \in SUBSET {"syn", "ack", "fin", "rst"} /\ c.vuelo.seq \in 0 .. SeqSpace - 1
        /\ c.vuelo.data \in Seq(Nat) /\ c.estado \in {"syn", "abierta", "cerrando", "muerta"}
    BY DEF Sound, ConnType
  <1> SUFFICES ASSUME NEW s, s.flags = c.vuelo.flags, s.seq = c.vuelo.seq, s.data = d
               PROVE  FromUs(s, w, closed)
    BY <1>1 DEF May
  <1>2. CASE c.estado = "syn"
    <2>1. s.flags = {"syn"} /\ s.data = <<>>
      BY <1>2 DEF Sound, Opening
    <2> QED BY <2>1 DEF FromUs
  <1>3. CASE c.estado = "muerta"
    <2>1. s.flags = {"syn"} /\ s.data = <<>>
      BY <1>3 DEF Sound, Over
    <2> QED BY <2>1 DEF FromUs
  <1>4. CASE c.estado = "cerrando"
    <2>1. s.flags = {"fin", "ack"} /\ s.data = <<>> /\ s.seq = Plus(Iss, 1 + Len(w))
      BY <1>4 DEF Sound, Closing
    <2>2. closed = TRUE
      BY <1>4 DEF Shut
    <2> HIDE DEF closed
    <2> QED BY <2>1, <2>2 DEF FromUs
  <1>5. CASE c.estado = "abierta"
    <2>1. s.flags = {"ack"} /\ n >= 0 /\ Slice(d, w, n) /\ s.seq = Plus(Iss, 1 + n)
      BY <1>5 DEF Sound, Sending
    <2>2. n \in 0 .. Len(w)
      <3>1. n = Len(w) - Len(d)
        BY DEF InFlight
      <3> HIDE DEF n, d
      <3>2. Len(d) \in Nat /\ Len(w) \in Nat
        BY <1>1, LenProperties DEF d
      <3> QED BY <2>1, <3>1, <3>2
    <2>3. Slice(s.data, w, n)
      BY <2>1
    <2> HIDE DEF n
    <2> QED BY <2>1, <2>2, <2>3 DEF FromUs
  <1> QED BY <1>1, <1>2, <1>3, <1>4, <1>5

\* A RST may always be sent.
LEMMA RstMay ==
    ASSUME NEW seq \in 0 .. SeqSpace - 1, NEW w, NEW closed
    PROVE  May({"rst"}, seq, <<>>, w, closed)
  <1>1. {"rst"} \in SUBSET {"syn", "ack", "fin", "rst"} /\ <<>> \in Seq(Nat)
    OBVIOUS
  <1>2. ASSUME NEW s, s.flags = {"rst"} PROVE FromUs(s, w, closed)
    BY <1>2 DEF FromUs
  <1> QED BY <1>1, <1>2 DEF May

\* What a second of the clock leaves: a connection that is right, or none.
Ticked(r, b) ==
    /\ r.says \in Seq(Saying)
    /\ \A s \in r.out : s \in Segment /\ s.port = b.p /\ FromUs(s, b.w, b.e \in Shut)
    /\ \/ r.c = NoConn
       \/ /\ Sound(r.c, b.g, b.t, b.w) /\ r.c.local = b.p /\ Patient(r.c)
          /\ b.e \in Shut => r.c.estado \in Shut

\* A result that hands out nothing is one of the clock.
LEMMA FitsTicked ==
    ASSUME NEW r, NEW b, Base(b), Fits(r, b), r.gave = <<>>, r.in = 0, r.flew = <<>>, Patient(r.c),
           r.out = {} \/ (r.c.estado \in Shut <=> b.e \in Shut)
    PROVE  Ticked(r, b)
  <1>1. b.g \o r.gave = b.g /\ b.t + r.in = b.t /\ b.w \o r.flew = b.w
    BY NothingMore DEF Base
  <1>2. /\ r.says \in Seq(Saying) /\ Sound(r.c, b.g, b.t, b.w) /\ r.c.local = b.p
        /\ b.e \in Shut => r.c.estado \in Shut
        /\ \A s \in r.out : s \in Segment /\ s.port = b.p /\ FromUs(s, b.w, r.c.estado \in Shut)
    BY <1>1 DEF Fits
  <1>3. ASSUME r.c.estado \in Shut <=> b.e \in Shut
        PROVE  (r.c.estado \in Shut) = (b.e \in Shut)
    BY <1>3
  <1>4. \A s \in r.out : s \in Segment /\ s.port = b.p /\ FromUs(s, b.w, b.e \in Shut)
    BY <1>2, <1>3
  <1> QED BY <1>2, <1>4 DEF Ticked

Older(c, left) == [c EXCEPT !.morir_en = left]
Again(c) == [c EXCEPT !.reintentos = @ + 1]

\* A second less to live.
LEMMA OlderIs ==
    ASSUME NEW c, NEW g, NEW t, NEW w, Sound(c, g, t, w), NEW left \in {Never} \cup 1 .. 10,
           c.estado = "syn" => left = Never, NEW d, d = Older(c, left)
    PROVE  /\ Sound(d, g, t, w) /\ d.estado = c.estado /\ d.local = c.local /\ d.vuelo = c.vuelo
           /\ d.reintentos = c.reintentos /\ (Patient(c) => Patient(d)) /\ Like(c, d)
  <1>1. ConnType(c) /\ ConnFields(c)
    BY DEF Sound, ConnType
  <1>2. d = [c EXCEPT !.morir_en = left]
    BY DEF Older
  <1>3. /\ ConnFields(d) /\ d.lector = c.lector /\ d.envio = c.envio /\ d.vuelo = c.vuelo
        /\ d.estado = c.estado /\ d.local = c.local /\ d.snd_una = c.snd_una
        /\ d.snd_nxt = c.snd_nxt /\ d.rcv_nxt = c.rcv_nxt
        /\ d.ventana_otro = c.ventana_otro /\ d.buz = c.buz
        /\ d.reintentos = c.reintentos /\ d.fin_recibido = c.fin_recibido
        /\ d.ventana_dicha = c.ventana_dicha
        /\ d.cerrar_pedido = c.cerrar_pedido /\ d.morir_en = left
    BY <1>1, <1>2 DEF ConnFields
  <1>4. ConnType(d)
    BY <1>1, <1>3 DEF ConnType
  <1>5. Opening(d, g, t, w)
    BY <1>3 DEF Sound, Opening
  <1>6. Sending(d, t, w)
    BY <1>3 DEF Sound, Sending, InFlight
  <1>7. Closing(d, w) /\ Over(d)
    BY <1>3 DEF Sound, Closing, Over
  <1>8. Reading(d, g)
    BY <1>3 DEF Sound, Reading, Taken
  <1>9. Patient(c) => Patient(d)
    BY <1>3 DEF Patient
  <1>10. Like(c, d)
    BY <1>3 DEF Like
  <1> QED BY <1>3, <1>4, <1>5, <1>6, <1>7, <1>8, <1>9, <1>10 DEF Sound

\* One repeat more.
LEMMA AgainIs ==
    ASSUME NEW c, NEW g, NEW t, NEW w, Sound(c, g, t, w), c.reintentos # Retries, NEW d, d = Again(c)
    PROVE  Sound(d, g, t, w) /\ Alike(c, d)
  <1>1. ConnType(c) /\ ConnFields(c)
    BY DEF Sound, ConnType
  <1> DEFINE n == c.reintentos + 1
  <1>2. d = [c EXCEPT !.reintentos = n]
    BY DEF Again
  <1>3. n \in 0 .. Retries
    <2>1. c.reintentos \in 0 .. Retries
      BY <1>1 DEF ConnType
    <2>2. Retries \in Nat
      BY Constants
    <2> QED BY <2>1, <2>2
  <1> HIDE DEF n
  <1>4. /\ ConnFields(d) /\ d.lector = c.lector /\ d.envio = c.envio /\ d.vuelo = c.vuelo
        /\ d.estado = c.estado /\ d.local = c.local /\ d.snd_una = c.snd_una
        /\ d.snd_nxt = c.snd_nxt /\ d.rcv_nxt = c.rcv_nxt
        /\ d.ventana_otro = c.ventana_otro /\ d.buz = c.buz
        /\ d.reintentos = n /\ d.fin_recibido = c.fin_recibido
        /\ d.ventana_dicha = c.ventana_dicha
        /\ d.cerrar_pedido = c.cerrar_pedido /\ d.morir_en = c.morir_en
    BY <1>1, <1>2 DEF ConnFields
  <1>5. ConnType(d)
    BY <1>1, <1>3, <1>4 DEF ConnType
  <1>6. Alike(c, d)
    BY <1>4 DEF Alike
  <1> QED BY <1>5, <1>6, AlikeSound

\* A second of the clock: the slot is let go without a word, or nothing is handed out.
Passes(X, c, b) ==
    \/ X.c = NoConn /\ X.says = <<>>
    \/ /\ Begun(X, c) /\ X.gave = <<>> /\ X.in = 0 /\ X.c.local = b.p
       /\ Taken(c, b.g) => Taken(X.c, b.g)

\* As long as the connection begins alike.
LEMMA PassesOn ==
    ASSUME NEW c, NEW S, NEW X, NEW b, Base(b), Like(c, S.c), S.says = <<>>, S.gave = <<>>, S.in = 0,
           Fits(X, b), Goes(S, X), Held(S, b) => Held(X, b), X.gave = <<>>, X.in = 0
    PROVE  Passes(X, c, b)
  <1>1. Begun(X, c)
    BY LikeBegun, BegunGoes
  <1>2. b.g \o <<>> = b.g
    BY NothingMore DEF Base
  <1>3. Taken(c, b.g) => Taken(X.c, b.g)
    BY <1>2, LikeTaken DEF Held
  <1>4. X.c.local = b.p
    BY DEF Fits
  <1> QED BY <1>1, <1>3, <1>4 DEF Passes

\* tcp_tick() of one connection.
LEMMA TickFits ==
    ASSUME NEW c, NEW b, Base(b), Sound(c, b.g, b.t, b.w), b.e = c.estado, c.local = b.p, Patient(c),
           NEW alive \in BOOLEAN, NEW X, X = Tick(c, alive)
    PROVE  /\ Ticked(X, b) /\ (c.estado = "syn" /\ alive => X.c.estado = "syn" \/ TellsError(X))
           /\ alive => Passes(X, c, b)
  <1> DEFINE left == IF c.morir_en = Never THEN Never ELSE c.morir_en - 1
             d == Older(c, left)
             S == Start(d)
             e == Again(d)
             Z == Start(e)
  <1>1. ConnType(c) /\ c.estado # "libre" /\ b.w \in Seq(Nat)
    BY DEF Sound, ConnType, Base
  <1>2. X = IF ~alive
            THEN [Start(NoConn) EXCEPT
                    !.out = IF c.estado \in {"abierta", "syn"}
                            THEN Mandar(Start(c), {"rst"}, c.snd_nxt, <<>>).out ELSE {}]
            ELSE IF left = 0 THEN Start(NoConn)
            ELSE IF c.vuelo.flags = {} THEN S
            ELSE IF c.reintentos = Retries THEN Terminar(S, TRUE)
            ELSE Mandar(Z, c.vuelo.flags, c.vuelo.seq, c.vuelo.data)
    BY <1>1 DEF Tick, Older, Again
  <1>3. left # 0 => left \in {Never} \cup 1 .. 10
    <2>1. c.morir_en \in {Never} \cup 1 .. 10
      BY <1>1 DEF ConnType
    <2> QED BY <2>1
  <1>4. c.estado = "syn" => left = Never
    BY DEF Sound, Opening
  <1>5. d = Older(c, left) /\ S = Start(d) /\ e = Again(d) /\ Z = Start(e)
    OBVIOUS
  <1> HIDE DEF left, d, S, e, Z
  <1>6. ASSUME left # 0
        PROVE  /\ Sound(d, b.g, b.t, b.w) /\ d.estado = c.estado /\ d.local = c.local /\ d.vuelo = c.vuelo
               /\ d.reintentos = c.reintentos /\ Patient(d) /\ Like(c, d)
    BY <1>3, <1>4, <1>5, <1>6, OlderIs
  <1>7. ASSUME left # 0
        PROVE  /\ Fits(S, b) /\ S.c = d /\ S.gave = <<>> /\ S.in = 0 /\ S.flew = <<>> /\ S.out = {}
               /\ S.says = <<>>
    <2>1. d.local = b.p /\ (b.e \in Shut => d.estado \in Shut)
      BY <1>6, <1>7
    <2>2. Sound(d, b.g, b.t, b.w)
      BY <1>6, <1>7
    <2>3. S = Start(d)
      BY <1>5
    <2>a. Fits(S, b) /\ AtStart(S, d)
      BY <2>1, <2>2, <2>3, StartFits
    <2> QED BY <2>a DEF AtStart
  <1>8. CASE ~alive
    <2> DEFINE T == Start(c)
               M == Mandar(T, {"rst"}, c.snd_nxt, <<>>)
               o == IF c.estado \in {"abierta", "syn"} THEN M.out ELSE {}
               N == Start(NoConn)
    <2>1. X = [N EXCEPT !.out = o]
      BY <1>2, <1>8
    <2>2. T = Start(c) /\ M = Mandar(T, {"rst"}, c.snd_nxt, <<>>)
      OBVIOUS
    <2>3. ResultFields(N) /\ N.c = NoConn /\ N.says = <<>>
      BY DEF Start, ResultFields
    <2> HIDE DEF T, M, N
    <2>s. Fits(T, b) /\ AtStart(T, c)
      BY <2>2, StartFits
    <2>4. Fits(T, b) /\ T.c = c /\ T.flew = <<>>
      BY <2>s DEF AtStart
    <2>5. May({"rst"}, c.snd_nxt, <<>>, b.w \o T.flew, T.c.estado \in Shut)
      <3>1. c.snd_nxt \in 0 .. SeqSpace - 1
        BY <1>1 DEF ConnType
      <3> QED BY <3>1, RstMay
    <2>6. Fits(M, b) /\ Alike(c, M.c) /\ M.flew = <<>>
      <3> DEFINE f == {"rst"}
                 n == c.snd_nxt
                 k == <<>>
      <3>1. M = Mandar(T, f, n, k)
        BY <2>2
      <3>2. May(f, n, k, b.w \o T.flew, T.c.estado \in Shut)
        BY <2>5
      <3>3. Fits(T, b)
        BY <2>4
      <3> HIDE DEF f, n, k
      <3>4. Fits(M, b) /\ Alike(T.c, M.c) /\ M.flew = T.flew
        BY <3>1, <3>2, <3>3, MandarFits
      <3> QED BY <2>4, <3>4
    <2>7. \A s \in M.out : s \in Segment /\ s.port = b.p /\ FromUs(s, b.w, b.e \in Shut)
      <3>1. M.c.estado = c.estado
        BY <2>6 DEF Alike
      <3>2. b.w \o M.flew = b.w
        BY <1>1, <2>6, NothingMore
      <3>3. \A s \in M.out : s \in Segment /\ s.port = b.p /\ FromUs(s, b.w \o M.flew, M.c.estado \in Shut)
        BY <2>6 DEF Fits
      <3> QED BY <3>1, <3>2, <3>3
    <2>8. \A s \in o : s \in Segment /\ s.port = b.p /\ FromUs(s, b.w, b.e \in Shut)
      BY <2>7
    <2> HIDE DEF o
    <2>9. X.c = NoConn /\ X.out = o /\ X.says = <<>>
      BY <2>1, <2>3 DEF ResultFields
    <2>10. <<>> \in Seq(Saying)
      OBVIOUS
    <2> QED BY <1>8, <2>8, <2>9, <2>10 DEF Ticked
  <1>9. CASE alive /\ left = 0
    <2>1. X = Start(NoConn)
      BY <1>2, <1>9
    <2>2. X.c = NoConn /\ X.out = {} /\ X.says = <<>>
      BY <2>1 DEF Start
    <2>3. <<>> \in Seq(Saying)
      OBVIOUS
    <2>4. c.estado # "syn"
      BY <1>4, <1>9 DEF Never
    <2> QED BY <2>2, <2>3, <2>4 DEF Ticked, Passes
  <1>10. CASE alive /\ left # 0 /\ c.vuelo.flags = {}
    <2>1. X = S
      BY <1>2, <1>10
    <2>2. Ticked(X, b)
      BY <2>1, <1>6, <1>7, <1>10, FitsTicked
    <2>3. Passes(X, c, b)
      <3>1. Goes(S, S)
        BY DEF Goes
      <3> QED BY <2>1, <3>1, <1>6, <1>7, <1>10, PassesOn
    <2>4. X.c.estado = c.estado
      BY <2>1, <1>6, <1>7, <1>10
    <2> QED BY <2>2, <2>3, <2>4
  <1>11. CASE alive /\ left # 0 /\ c.vuelo.flags # {} /\ c.reintentos = Retries
    <2> PICK yes \in BOOLEAN : yes = TRUE
      OBVIOUS
    <2>1. X = Terminar(S, yes)
      BY <1>2, <1>11
    <2>2. Fits(S, b)
      BY <1>7, <1>11
    <2>3. /\ Fits(X, b) /\ Patient(X.c)
          /\ S.c.estado = "syn" => TellsError(X)
          /\ X.gave = S.gave /\ X.in = S.in /\ X.flew = S.flew /\ X.out = S.out
      <3>1. Fits(X, b) /\ Patient(X.c)
        BY <2>1, <2>2, TerminarFits
      <3>2. S.c.estado = "syn" => TellsError(X)
        BY <2>1, <2>2, TerminarFits
      <3>3. SaysOnly(S, X)
        BY <2>1, <2>2, TerminarFits
      <3> QED BY <3>1, <3>2, <3>3 DEF SaysOnly
    <2>4. Ticked(X, b)
      BY <1>7, <1>11, <2>3, FitsTicked
    <2>5. Goes(S, X) /\ (Held(S, b) => Held(X, b))
      BY <2>1, <2>2, TerminarFits
    <2>6. Passes(X, c, b)
      BY <2>3, <2>5, <1>6, <1>7, <1>11, PassesOn
    <2> QED BY <2>3, <2>4, <2>6, <1>6, <1>7, <1>11
  <1>12. CASE alive /\ left # 0 /\ c.vuelo.flags # {} /\ c.reintentos # Retries
    <2>1. X = Mandar(Z, c.vuelo.flags, c.vuelo.seq, c.vuelo.data)
      BY <1>2, <1>12
    <2>2. Sound(e, b.g, b.t, b.w) /\ Alike(d, e)
      <3>1. Sound(d, b.g, b.t, b.w) /\ d.reintentos # Retries
        BY <1>6, <1>12
      <3> QED BY <3>1, <1>5, AgainIs
    <2>3. e.local = b.p /\ e.estado = c.estado /\ e.vuelo = c.vuelo /\ Patient(e)
      <3>1. /\ d.estado = c.estado /\ d.local = c.local /\ d.vuelo = c.vuelo /\ Patient(d)
        BY <1>6, <1>12
      <3> QED BY <2>2, <3>1 DEF Alike, Patient
    <2>s. Fits(Z, b) /\ AtStart(Z, e)
      BY <1>5, <2>2, <2>3, StartFits
    <2>4. Fits(Z, b) /\ Z.c = e /\ Z.says = <<>> /\ Z.gave = <<>> /\ Z.in = 0 /\ Z.flew = <<>>
      BY <2>s DEF AtStart
    <2>5. b.w \o Z.flew = b.w
      BY <1>1, <2>4, NothingMore
    <2>6. May(c.vuelo.flags, c.vuelo.seq, c.vuelo.data, b.w \o Z.flew, Z.c.estado \in Shut)
      BY <1>1, <1>12, <2>3, <2>4, <2>5, VueloMay
    <2> DEFINE f == c.vuelo.flags
               n == c.vuelo.seq
               k == c.vuelo.data
    <2>7. X = Mandar(Z, f, n, k) /\ May(f, n, k, b.w \o Z.flew, Z.c.estado \in Shut)
      BY <2>1, <2>6
    <2> HIDE DEF f, n, k
    <2>8. /\ Fits(X, b) /\ Alike(Z.c, X.c)
          /\ X.says = Z.says /\ X.gave = Z.gave /\ X.in = Z.in /\ X.flew = Z.flew
          /\ Patient(Z.c) => Patient(X.c)
      BY <2>4, <2>7, MandarFits
    <2>9. X.c.estado = c.estado
      BY <2>3, <2>4, <2>8 DEF Alike
    <2>10. Ticked(X, b)
      BY <2>3, <2>4, <2>8, <2>9, FitsTicked
    <2>11. Like(c, Z.c)
      <3>1. Like(c, d)
        BY <1>6, <1>12
      <3>2. Like(d, e)
        BY <2>2, AlikeLike
      <3> QED BY <3>1, <3>2, <2>4 DEF Like
    <2>12. Goes(Z, X) /\ (Held(Z, b) => Held(X, b))
      BY <2>8, AlikeLike, LikeGoes, LikeHeld
    <2>13. Passes(X, c, b)
      BY <2>4, <2>8, <2>11, <2>12, PassesOn
    <2> QED BY <2>9, <2>10, <2>13
  <1> QED BY <1>8, <1>9, <1>10, <1>11, <1>12

(* --------------------------- What is asked for --------------------------- *)

\* What goes is no more than there is, nor more than a segment.
LEMMA EnviarCut ==
    ASSUME NEW data \in Seq(Nat), data # <<>>, NEW v \in Nat, NEW n,
           n = IF v = 0 THEN Least(Len(data), Mss) ELSE Least(Least(Len(data), Mss), v)
    PROVE  /\ n \in 1 .. Mss /\ SubSeq(data, 1, n) \in Seq(Nat) /\ Len(SubSeq(data, 1, n)) = n
           /\ SubSeq(data, 1, n) # <<>>
  <1>1. Len(data) \in Nat /\ Len(data) >= 1
    OBVIOUS
  <1>2. n \in 1 .. Mss /\ n \in 0 .. Len(data)
    BY <1>1, Constants DEF Least
  <1>3. SubSeq(data, 1, n) \in Seq(Nat) /\ Len(SubSeq(data, 1, n)) = n
    BY <1>2, CutAt
  <1>4. SubSeq(data, 1, n) # <<>>
    <2> DEFINE k == SubSeq(data, 1, n)
    <2>1. Len(k) >= 1
      BY <1>2, <1>3
    <2> HIDE DEF k
    <2>2. k # <<>>
      BY <2>1
    <2> QED BY <2>2 DEF k
  <1> QED BY <1>2, <1>3, <1>4

\* Asked for what the program then waits for on its quiet connection.
Gives(X, c, w, b) ==
    /\ Taken(c, b.g) => Held(X, b)
    /\ Waits(c, "none") => Speaks(X, w)

\* How far the stream may come with one segment more.
LEMMA RoomForMore ==
    ASSUME NEW n \in Nat, NEW m \in Nat, m <= Mss, n + Mss <= Budget(MaxEvents)
    PROVE  /\ Plus(Plus(Iss, 1 + n), m) = Plus(Iss, 1 + (n + m))
           /\ Plus(Iss, 1 + (n + m)) \in 0 .. SeqSpace - 1
  <1> DEFINE B == Budget(MaxEvents)
             i == 1 + n
  <1>1. B \in Nat /\ PeerBytes + B + 2 = Far /\ n + Mss <= B /\ PeerBytes \in Nat /\ Far \in Nat
         /\ Iss \in 0 .. SeqSpace - 1 /\ Mss \in Nat /\ SeqSpace > 2 * Far /\ SeqSpace \in Nat
    BY BudgetIs, Constants
  <1> HIDE DEF B
  <1>2. i \in 0 .. Far /\ m \in 0 .. Far /\ i + m <= Far /\ i + m = 1 + (n + m)
         /\ i + m \in 0 .. SeqSpace - 1
    BY <1>1
  <1> HIDE DEF i
  <1>3. Plus(Plus(Iss, i), m) = Plus(Iss, i + m)
    BY <1>1, <1>2, PlusPlus
  <1>4. Plus(Iss, i + m) \in 0 .. SeqSpace - 1
    BY <1>1, <1>2, PlusIs
  <1> QED BY <1>2, <1>3, <1>4 DEF i

\* New data go behind all that has been put in flight.
LEMMA DataGoes ==
    ASSUME NEW c, NEW b, Base(b), Sound(c, b.g, b.t, b.w), b.e = c.estado, c.local = b.p,
           c.estado = "abierta", c.vuelo.flags = {}, Len(b.w) + Mss <= Budget(MaxEvents), b.f = Mss,
           NEW k \in Seq(Nat), k # <<>>, Len(k) <= Mss,
           NEW Y, Y = Start([c EXCEPT !.envio = TRUE]), NEW X, X = Volar(Y, {"ack"}, k)
    PROVE  Fits(X, b) /\ (Patient(c) => Patient(X.c)) /\ Gives(X, c, "hueco", b)
  <1> PICK yes \in BOOLEAN : yes = TRUE
    OBVIOUS
  <1> DEFINE e == [c EXCEPT !.envio = yes]
             w == b.w
             n == Len(w)
             f == {"ack"}
             d == X.c
             z == w \o k
  <1>1. ConnType(c) /\ ConnFields(c) /\ w \in Seq(Nat) /\ b.g \in Seq(Nat) /\ b.t \in Nat
         /\ b.t <= n /\ b.t <= b.m
    BY SMTT(40), LenProperties DEF Sound, ConnType, Base
  <1>2. /\ ResultFields(Y) /\ Y.c = e /\ Y.out = {} /\ Y.says = <<>> /\ Y.gave = <<>> /\ Y.in = 0
        /\ Y.flew = <<>>
    BY DEF Start, ResultFields
  <1>3. /\ ConnFields(e) /\ e.lector = c.lector /\ e.envio = yes /\ e.vuelo = c.vuelo
        /\ e.estado = c.estado /\ e.local = c.local /\ e.snd_una = c.snd_una
        /\ e.snd_nxt = c.snd_nxt /\ e.rcv_nxt = c.rcv_nxt
        /\ e.ventana_otro = c.ventana_otro /\ e.buz = c.buz
        /\ e.reintentos = c.reintentos /\ e.fin_recibido = c.fin_recibido
        /\ e.ventana_dicha = c.ventana_dicha
        /\ e.cerrar_pedido = c.cerrar_pedido /\ e.morir_en = c.morir_en
    <2>1. e = [c EXCEPT !.envio = yes]
      OBVIOUS
    <2> HIDE DEF e
    <2> QED BY <1>1, <2>1 DEF ConnFields
  <1> HIDE DEF e
  <1>4. Flown(f, k) = Len(k)
    <2>1. Len(k) \in Nat
      BY LenProperties
    <2> QED BY <2>1 DEF Flown
  <1> DEFINE a == IF "ack" \in f THEN e.rcv_nxt ELSE 0
             h == Hueco(e)
             s == [port |-> e.local, flags |-> f, seq |-> e.snd_una, ack |-> a, win |-> h, data |-> k]
             fl == Flown(f, k)
  <1>5. /\ ResultFields(X) /\ ConnFields(X.c)
        /\ X.says = Y.says /\ X.gave = Y.gave /\ X.in = Y.in /\ X.flew = Y.flew \o k
        /\ X.out = Y.out \cup {s}
        /\ d.estado = e.estado /\ d.local = e.local
        /\ d.snd_una = e.snd_una /\ d.snd_nxt = Plus(e.snd_una, fl)
        /\ d.rcv_nxt = e.rcv_nxt /\ d.ventana_otro = e.ventana_otro
        /\ d.vuelo = [flags |-> f, seq |-> e.snd_una, data |-> k]
        /\ d.reintentos = 0 /\ d.buz = e.buz
        /\ d.fin_recibido = e.fin_recibido /\ d.ventana_dicha = h
        /\ d.lector = e.lector /\ d.envio = e.envio
        /\ d.cerrar_pedido = e.cerrar_pedido /\ d.morir_en = e.morir_en
    <2>1. X = Volar(Y, f, k) /\ ResultFields(Y) /\ ConnFields(Y.c)
      BY <1>2, <1>3
    <2> HIDE DEF f, d
    <2>2. Volado(Y, f, k, X)
      BY <2>1, VolarIs
    <2> QED BY <2>2, <1>2 DEF d, Volado
  <1>6. X.flew = k
    <2>1. <<>> \o k = k
      OBVIOUS
    <2>2. X.flew = Y.flew \o k
      BY ONLY <1>5
    <2>3. Y.flew = <<>>
      BY ONLY <1>2
    <2> QED BY ONLY <2>1, <2>2, <2>3
  <1>7. n \in Nat /\ Len(k) \in Nat /\ Len(k) >= 1 /\ z \in Seq(Nat) /\ Len(z) = n + Len(k)
         /\ \A j \in 1 .. Len(k) : z[n + j] = k[j]
    <2>1. n \in Nat /\ Len(k) \in Nat
      BY <1>1, LenProperties
    <2>2. Len(k) >= 1
      BY <2>1
    <2> QED BY <2>1, <2>2, <1>1, Joined
  <1>8. c.snd_una = Plus(Iss, 1 + n) /\ c.snd_nxt = c.snd_una
    BY DEF Sound, Sending
  <1> DEFINE m == Len(k)
  <1>10. d.snd_nxt = Plus(Iss, 1 + Len(z)) /\ d.snd_nxt \in 0 .. SeqSpace - 1
    <2>1. d.snd_nxt = Plus(Plus(Iss, 1 + n), m)
      BY <1>3, <1>4, <1>5, <1>8
    <2>2. Len(z) = n + m /\ n \in Nat /\ m \in Nat /\ m <= Mss /\ n + Mss <= Budget(MaxEvents)
      BY <1>7
    <2> HIDE DEF d, n, m, z
    <2>3. /\ Plus(Plus(Iss, 1 + n), m) = Plus(Iss, 1 + (n + m))
          /\ Plus(Iss, 1 + (n + m)) \in 0 .. SeqSpace - 1
      BY <2>2, RoomForMore
    <2> QED BY <2>1, <2>2, <2>3
  <1>11. h \in Nat /\ a \in 0 .. SeqSpace - 1
    <2>1. e.buz \in Seq(Nat) /\ Len(e.buz) <= Buz /\ e.rcv_nxt \in 0 .. SeqSpace - 1
      BY <1>1, <1>3 DEF ConnType
    <2> QED BY <2>1, HuecoType, Constants
  <1>12. s \in Segment /\ s.port = b.p
    <2>1. e.local \in Ports /\ e.snd_una \in 0 .. SeqSpace - 1 /\ e.local = b.p
      BY <1>1, <1>3 DEF ConnType
    <2>2. f \in SUBSET {"syn", "ack", "fin", "rst"}
      OBVIOUS
    <2> HIDE DEF a, h, f
    <2> QED BY <1>11, <2>1, <2>2 DEF Segment
  <1>13. Slice(k, z, n)
    BY <1>7 DEF Slice
  <1>14. ASSUME NEW closed PROVE FromUs(s, z, closed)
    <2>1. s.flags = {"ack"} /\ s.data = k /\ s.seq = Plus(Iss, 1 + n) /\ n \in 0 .. Len(z)
      BY <1>3, <1>7, <1>8
    <2> HIDE DEF s, z, n
    <2> QED BY <2>1, <1>13 DEF FromUs
  <1>15. X.out = {s}
    <2> HIDE DEF s
    <2> QED BY <1>2, <1>5
  <1> HIDE DEF s, a
  <1>16. \A y \in X.out : y \in Segment /\ y.port = b.p /\ FromUs(y, z, X.c.estado \in Shut)
    BY <1>12, <1>14, <1>15
  <1>17. ConnType(d)
    <2>1. /\ d.vuelo.flags \in SUBSET {"syn", "ack", "fin", "rst"} /\ d.vuelo.seq \in 0 .. SeqSpace - 1
          /\ d.vuelo.data \in Seq(Nat) /\ Len(d.vuelo.data) <= Mss
      <3>1. e.snd_una \in 0 .. SeqSpace - 1
        BY <1>1, <1>3 DEF ConnType
      <3>2. f \in SUBSET {"syn", "ack", "fin", "rst"}
        OBVIOUS
      <3>3. d.vuelo.flags = f /\ d.vuelo.seq = e.snd_una /\ d.vuelo.data = k
        <4>1. d.vuelo = [flags |-> f, seq |-> e.snd_una, data |-> k]
          BY <1>5
        <4> HIDE DEF d, f
        <4> QED BY <4>1
      <3> HIDE DEF d, f
      <3> QED BY <3>1, <3>2, <3>3
    <2>2. ConnFields(d) /\ d.ventana_dicha \in Nat /\ 0 \in 0 .. Retries
      <3>1. 0 \in 0 .. Retries
        BY Constants
      <3>2. d.ventana_dicha = h /\ ConnFields(d)
        BY <1>5
      <3> HIDE DEF d, h
      <3> QED BY <3>1, <3>2, <1>11
    <2>3. yes \in BOOLEAN
      OBVIOUS
    <2> HIDE DEF d
    <2> QED BY <2>1, <2>2, <2>3, <1>1, <1>3, <1>5, <1>10 DEF ConnType
  <1>18. d.vuelo.flags = {"ack"} /\ d.vuelo.data = k /\ d.vuelo.seq = Plus(Iss, 1 + n)
    <2>1. d.vuelo = [flags |-> f, seq |-> e.snd_una, data |-> k] /\ e.snd_una = c.snd_una
      BY <1>3, <1>5
    <2> HIDE DEF d, n
    <2> QED BY <2>1, <1>8
  <1>19. Sound(d, b.g, b.t, z)
    <2>1. d.estado = "abierta"
      BY <1>3, <1>5
    <2>2. Opening(d, b.g, b.t, z) /\ Closing(d, z) /\ Over(d)
      BY <2>1 DEF Opening, Closing, Over
    <2>3. Sending(d, b.t, z)
      <3>1. InFlight(d, z) = n
        <4>1. InFlight(d, z) = Len(z) - Len(k)
          BY <1>18 DEF InFlight
        <4> HIDE DEF z, n, d
        <4> QED BY <4>1, <1>7
      <3> HIDE DEF d, n, z
      <3> QED BY <3>1, <1>1, <1>7, <1>10, <1>13, <1>18 DEF Sending
    <2>4. Reading(d, b.g)
      <3>1. Taken(c, b.g)
        BY DEF Sound, Reading
      <3>2. d.buz = c.buz /\ d.rcv_nxt = c.rcv_nxt /\ d.fin_recibido = c.fin_recibido
        BY <1>3, <1>5
      <3> HIDE DEF d
      <3> QED BY <3>1, <3>2 DEF Reading, Taken
    <2> QED BY <1>17, <2>2, <2>3, <2>4 DEF Sound
  <1>20. Patient(c) => Patient(d)
    BY <1>3, <1>5 DEF Patient
  <1>21. b.g \o X.gave = b.g /\ b.t + X.in = b.t /\ b.w \o X.flew = z
    <2>1. X.gave = <<>> /\ X.in = 0
      BY <1>2, <1>5
    <2>2. b.g \o <<>> = b.g /\ b.t + 0 = b.t
      BY <1>1, NothingMore
    <2> QED BY <2>1, <2>2, <1>6
  <1>22. X.gave \in Seq(Nat) /\ X.in \in Nat /\ X.says \in Seq(Saying)
    <2>1. X.gave = <<>> /\ X.in = 0 /\ X.says = <<>>
      BY <1>2, <1>5
    <2>2. X.gave \in Seq(Nat)
      BY <2>1, EmptyIs
    <2>3. X.says \in Seq(Saying)
      BY <2>1, EmptyIs
    <2> QED BY <2>1, <2>2, <2>3
  <1>23. X.c.local = b.p /\ ~(b.e \in Shut) /\ b.e = "abierta"
    BY <1>3, <1>5 DEF Shut
  <1> HIDE DEF z
  <1>24. Fits(X, b)
    BY <1>1, <1>5, <1>6, <1>16, <1>19, <1>21, <1>22, <1>23 DEF Fits
  <1>25. Taken(c, b.g) => Held(X, b)
    <2>1. d.buz = c.buz /\ d.rcv_nxt = c.rcv_nxt /\ d.fin_recibido = c.fin_recibido
      BY <1>3, <1>5
    <2> QED BY <2>1, <1>21 DEF Held, Taken
  <1>26. Waits(c, "none") => Waits(d, "hueco")
    BY <1>3, <1>5 DEF Waits
  <1>27. Mute(X)
    BY <1>2, <1>5 DEF Mute
  <1> QED BY <1>20, <1>24, <1>25, <1>26, <1>27 DEF Gives, Speaks

\* tcp_enviar_pedido().
LEMMA EnviarFits ==
    ASSUME NEW c, NEW b, Base(b), Sound(c, b.g, b.t, b.w), b.e = c.estado, c.local = b.p, Patient(c),
           Len(b.w) + Mss <= Budget(MaxEvents), b.f = Mss, NEW data \in Seq(Nat), data # <<>>,
           NEW X, X = Enviar(c, data)
    PROVE  Fits(X, b) /\ Patient(X.c) /\ Gives(X, c, "hueco", b)
  <1> DEFINE v == c.ventana_otro
             n == IF v = 0 THEN Least(Len(data), Mss) ELSE Least(Least(Len(data), Mss), v)
             S == Start(c)
             k == SubSeq(data, 1, n)
             Y == Start([c EXCEPT !.envio = TRUE])
  <1>1. X = IF c.estado # "abierta" \/ c.vuelo.flags # {} THEN Answer(S, "error", 0, <<>>)
            ELSE Volar(Y, {"ack"}, k)
    BY DEF Enviar
  <1>2. CASE c.estado # "abierta" \/ c.vuelo.flags # {}
    <2>1. X = Answer(S, "error", 0, <<>>) /\ S = Start(c)
      BY <1>1, <1>2
    <2> HIDE DEF S
    <2>s. Fits(S, b) /\ AtStart(S, c)
      BY <2>1, StartFits
    <2>2. Fits(S, b) /\ S.c = c /\ S.says = <<>> /\ S.gave = <<>> /\ S.in = 0
      BY <2>s DEF AtStart
    <2>3. "error" \in {"abierta", "hueco", "datos", "error"} /\ "error" # "hueco" /\ 0 \in 0 .. Mss
      BY Constants
    <2>a. Fits(X, b) /\ Adds(S, X, "error", 0)
      BY <2>1, <2>2, <2>3, AnswerFits
    <2>4. /\ Fits(X, b) /\ X.c = S.c /\ X.says = Append(S.says, Says("error", 0, <<>>))
          /\ X.gave = S.gave /\ X.in = S.in + 0
      BY <2>a DEF Adds
    <2>5. Taken(c, b.g) => Held(X, b)
      <3>1. b.g \o X.gave = b.g
        BY <2>2, <2>4, NothingMore DEF Base
      <3> QED BY <3>1, <2>2, <2>4 DEF Held
    <2>6. TellsOf(X, "hueco")
      <3> DEFINE m == Says("error", 0, <<>>)
      <3>1. m \in Saying /\ m.type = "error" /\ m.data = <<>>
        <4>1. <<>> \in Seq(Nat)
          OBVIOUS
        <4> QED BY <4>1, <2>3, SaysType DEF Says
      <3>2. X.says = Append(S.says, m)
        BY <2>4
      <3> HIDE DEF m
      <3>3. X.says = <<m>> /\ X.gave = m.data /\ X.in = 0
        BY <3>1, <3>2, <2>2, <2>4
      <3> QED BY <3>1, <3>3 DEF TellsOf
    <2>7. Waits(c, "none") => Speaks(X, "hueco")
      BY <2>2, <2>4, <2>6 DEF Speaks
    <2> QED BY <2>2, <2>4, <2>5, <2>7 DEF Gives
  <1>3. CASE ~(c.estado # "abierta" \/ c.vuelo.flags # {})
    <2>1. v \in Nat
      BY DEF Sound, ConnType
    <2>2. n = IF v = 0 THEN Least(Len(data), Mss) ELSE Least(Least(Len(data), Mss), v)
      OBVIOUS
    <2> HIDE DEF n, v
    <2>3. n \in 1 .. Mss /\ k \in Seq(Nat) /\ Len(k) = n /\ k # <<>>
      BY <2>1, <2>2, EnviarCut
    <2>4. Len(k) <= Mss
      BY <2>3, Constants
    <2>5. X = Volar(Y, {"ack"}, k) /\ Y = Start([c EXCEPT !.envio = TRUE])
      BY <1>1, <1>3
    <2> HIDE DEF k, Y
    <2>6. c.estado = "abierta" /\ c.vuelo.flags = {}
      BY <1>3
    <2> QED BY <2>3, <2>4, <2>5, <2>6, DataGoes
  <1> QED BY <1>2, <1>3

\* tcp_leer_pedido().
LEMMA LeerFits ==
    ASSUME NEW c, NEW b, Base(b), Sound(c, b.g, b.t, b.w), b.e = c.estado, c.local = b.p,
           NEW X, X = Leer(c)
    PROVE  Fits(X, b) /\ Patient(X.c) /\ Gives(X, c, "datos", b)
  <1> PICK yes \in BOOLEAN : yes = TRUE
    OBVIOUS
  <1> DEFINE d == [c EXCEPT !.lector = yes]
             S == Start(d)
  <1>1. ConnType(c) /\ ConnFields(c)
    BY DEF Sound, ConnType
  <1>2. X = Entregar(S) /\ S = Start(d)
    BY DEF Leer
  <1>3. d = [c EXCEPT !.lector = yes]
    OBVIOUS
  <1> HIDE DEF d, S
  <1>4. /\ ConnFields(d) /\ d.lector = yes /\ d.envio = c.envio /\ d.vuelo = c.vuelo
        /\ d.estado = c.estado /\ d.local = c.local /\ d.snd_una = c.snd_una
        /\ d.snd_nxt = c.snd_nxt /\ d.rcv_nxt = c.rcv_nxt
        /\ d.ventana_otro = c.ventana_otro /\ d.buz = c.buz
        /\ d.reintentos = c.reintentos /\ d.fin_recibido = c.fin_recibido
        /\ d.ventana_dicha = c.ventana_dicha
        /\ d.cerrar_pedido = c.cerrar_pedido /\ d.morir_en = c.morir_en
    BY <1>1, <1>3 DEF ConnFields
  <1>5. ConnType(d)
    <2>1. yes \in BOOLEAN
      OBVIOUS
    <2> QED BY <1>1, <1>4, <2>1 DEF ConnType
  <1>6. Sound(d, b.g, b.t, b.w)
    <2>1. Opening(d, b.g, b.t, b.w)
      BY <1>4 DEF Sound, Opening
    <2>2. Sending(d, b.t, b.w)
      BY <1>4 DEF Sound, Sending, InFlight
    <2>3. Closing(d, b.w) /\ Over(d)
      BY <1>4 DEF Sound, Closing, Over
    <2>4. Reading(d, b.g)
      BY <1>4 DEF Sound, Reading, Taken
    <2> QED BY <1>5, <2>1, <2>2, <2>3, <2>4 DEF Sound
  <1>7. d.local = b.p /\ (b.e \in Shut => d.estado \in Shut)
    BY <1>4
  <1>s. Fits(S, b) /\ AtStart(S, d)
    BY <1>2, <1>6, <1>7, StartFits
  <1>8. Fits(S, b) /\ S.c = d /\ S.says = <<>> /\ S.gave = <<>> /\ S.in = 0
    BY <1>s DEF AtStart
  <1>9. Fits(X, b) /\ Patient(X.c) /\ Goes(S, X) /\ (Held(S, b) => Held(X, b))
    BY <1>2, <1>8, EntregarFits
  <1>10. Taken(c, b.g) => Held(S, b)
    <2>1. b.g \o S.gave = b.g
      BY <1>8, NothingMore DEF Base
    <2> QED BY <2>1, <1>4, <1>8 DEF Held, Taken
  <1>11. Waits(c, "none") => Speaks(S, "datos")
    <2>1. Waits(c, "none") => Waits(S.c, "datos")
      BY <1>4, <1>8 DEF Waits
    <2> QED BY <2>1, <1>8 DEF Speaks, Mute
  <1>12. "datos" \in Words
    BY DEF Words
  <1> QED BY <1>9, <1>10, <1>11, <1>12 DEF Gives, Goes

Quiet(c) == [c EXCEPT !.lector = FALSE, !.envio = FALSE, !.morir_en = IF @ = Never THEN 10 ELSE @]

\* A connection that nobody waits on any more.
LEMMA QuietIs ==
    ASSUME NEW c, ConnType(c), NEW d, d = Quiet(c)
    PROVE  /\ ConnType(d) /\ d.estado = c.estado /\ d.local = c.local /\ d.snd_una = c.snd_una
           /\ d.snd_nxt = c.snd_nxt /\ d.rcv_nxt = c.rcv_nxt /\ d.vuelo = c.vuelo /\ d.buz = c.buz
           /\ d.fin_recibido = c.fin_recibido /\ ~d.lector /\ ~d.envio /\ ConnFields(d)
  <1> PICK no \in BOOLEAN : no = FALSE
    OBVIOUS
  <1> DEFINE m == IF c.morir_en = Never THEN 10 ELSE c.morir_en
  <1>1. d = [c EXCEPT !.lector = no, !.envio = no, !.morir_en = m] /\ ConnFields(c)
    BY DEF Quiet, ConnType
  <1>2. m \in {Never} \cup 1 .. 10
    BY DEF ConnType
  <1> HIDE DEF m
  <1>3. /\ ConnFields(d) /\ d.lector = no /\ d.envio = no /\ d.vuelo = c.vuelo
        /\ d.estado = c.estado /\ d.local = c.local /\ d.snd_una = c.snd_una
        /\ d.snd_nxt = c.snd_nxt /\ d.rcv_nxt = c.rcv_nxt
        /\ d.ventana_otro = c.ventana_otro /\ d.buz = c.buz
        /\ d.reintentos = c.reintentos /\ d.fin_recibido = c.fin_recibido
        /\ d.ventana_dicha = c.ventana_dicha
        /\ d.cerrar_pedido = c.cerrar_pedido /\ d.morir_en = m
    BY <1>1 DEF ConnFields
  <1>4. ConnType(d)
    <2>1. no \in BOOLEAN
      OBVIOUS
    <2> QED BY <1>2, <1>3, <2>1 DEF ConnType
  <1> QED BY <1>3, <1>4

\* A quiet connection, and one more field: it is what it was.
LEMMA QuietSound ==
    ASSUME NEW c, NEW g, NEW t, NEW w, Sound(c, g, t, w), c.estado # "syn",
           NEW d, ConnType(d), d.estado = c.estado, d.snd_una = c.snd_una, d.snd_nxt = c.snd_nxt,
           d.rcv_nxt = c.rcv_nxt, d.vuelo = c.vuelo, d.buz = c.buz, d.fin_recibido = c.fin_recibido,
           ~d.envio
    PROVE  Sound(d, g, t, w)
  <1>1. Opening(d, g, t, w)
    BY DEF Sound, Opening
  <1>2. Sending(d, t, w)
    BY DEF Sound, Sending, InFlight
  <1>3. Closing(d, w) /\ Over(d)
    BY DEF Sound, Closing, Over
  <1>4. Reading(d, g)
    BY DEF Sound, Reading, Taken
  <1> QED BY <1>1, <1>2, <1>3, <1>4 DEF Sound

\* Starting from another connection.
LEMMA StartAgain ==
    ASSUME NEW c, NEW d PROVE Start(d) = [Start(c) EXCEPT !.c = d]
  <1> DEFINE R == Start(c)
  <1>1. /\ ResultFields(R) /\ R.c = c /\ R.out = {} /\ R.says = <<>> /\ R.gave = <<>> /\ R.in = 0
        /\ R.flew = <<>>
    BY DEF Start, ResultFields
  <1> DEFINE Z == [R EXCEPT !.c = d]
  <1>2. Z = [R EXCEPT !.c = d]
    OBVIOUS
  <1> HIDE DEF R, Z
  <1>3. Z = [c |-> d, out |-> R.out, says |-> R.says, gave |-> R.gave, in |-> R.in, flew |-> R.flew]
    BY <1>1, <1>2 DEF ResultFields
  <1>4. Z = Start(d)
    BY <1>1, <1>3 DEF Start
  <1> QED BY <1>4 DEF Z, R

\* Nobody waits on a connection that is being closed, and nobody is told.
LEMMA QuietGives ==
    ASSUME NEW c, NEW b, Base(b), NEW X, X.c.buz = c.buz, X.c.rcv_nxt = c.rcv_nxt,
           X.c.fin_recibido = c.fin_recibido, ~X.c.envio, ~X.c.lector, X.c.estado # "syn",
           X.says = <<>>, X.gave = <<>>, X.in = 0
    PROVE  Gives(X, c, "none", b)
  <1>1. b.g \o X.gave = b.g
    BY NothingMore DEF Base
  <1>2. Taken(c, b.g) => Held(X, b)
    BY <1>1 DEF Held, Taken
  <1>3. Waits(X.c, "none") /\ Mute(X)
    BY DEF Waits, Mute
  <1> QED BY <1>2, <1>3 DEF Gives, Speaks

\* tcp_cerrar_pedido(), in each state.
LEMMA CerrarFits ==
    ASSUME NEW c, NEW b, Base(b), Sound(c, b.g, b.t, b.w), b.e = c.estado, c.local = b.p,
           NEW X, X = Cerrar(c)
    PROVE  Fits(X, b) /\ Patient(X.c) /\ Gives(X, c, "none", b)
  <1> DEFINE q == Quiet(c)
  <1>1. ConnType(c) /\ b.w \in Seq(Nat)
    BY DEF Sound, Base
  <1>2. \/ c.estado = "abierta" /\ c.vuelo.flags # {} /\ X = Start([q EXCEPT !.cerrar_pedido = TRUE])
        \/ c.estado = "abierta" /\ c.vuelo.flags = {}
             /\ X = Volar(Start([q EXCEPT !.estado = "cerrando"]), {"fin", "ack"}, <<>>)
        \/ c.estado = "syn"
             /\ X = Mandar(Start([q EXCEPT !.estado = "muerta", !.morir_en = 1]), {"rst"}, c.snd_nxt, <<>>)
        \/ c.estado \notin {"abierta", "syn"} /\ X = Start(q)
    BY DEF Cerrar, Quiet
  <1>3. q = Quiet(c)
    OBVIOUS
  <1> HIDE DEF q
  <1>4. /\ ConnType(q) /\ q.estado = c.estado /\ q.local = c.local /\ q.snd_una = c.snd_una
        /\ q.snd_nxt = c.snd_nxt /\ q.rcv_nxt = c.rcv_nxt /\ q.vuelo = c.vuelo /\ q.buz = c.buz
        /\ q.fin_recibido = c.fin_recibido /\ ~q.lector /\ ~q.envio /\ ConnFields(q)
    BY <1>1, <1>3, QuietIs
  <1>5. CASE c.estado = "abierta" /\ c.vuelo.flags # {} /\ X = Start([q EXCEPT !.cerrar_pedido = TRUE])
    <2> PICK yes \in BOOLEAN : yes = TRUE
      OBVIOUS
    <2> DEFINE d == [q EXCEPT !.cerrar_pedido = yes]
    <2>1. X = Start(d) /\ d = [q EXCEPT !.cerrar_pedido = yes]
      BY <1>5
    <2> HIDE DEF d
    <2>2. /\ ConnFields(d) /\ d.lector = q.lector /\ d.envio = q.envio /\ d.vuelo = q.vuelo
          /\ d.estado = q.estado /\ d.local = q.local /\ d.snd_una = q.snd_una
          /\ d.snd_nxt = q.snd_nxt /\ d.rcv_nxt = q.rcv_nxt
          /\ d.ventana_otro = q.ventana_otro /\ d.buz = q.buz
          /\ d.reintentos = q.reintentos /\ d.fin_recibido = q.fin_recibido
          /\ d.ventana_dicha = q.ventana_dicha
          /\ d.cerrar_pedido = yes /\ d.morir_en = q.morir_en
      BY <1>4, <2>1 DEF ConnFields
    <2>3. ConnType(d)
      <3>1. yes \in BOOLEAN
        OBVIOUS
      <3> QED BY <1>4, <2>2, <3>1 DEF ConnType
    <2>4. c.estado # "syn" /\ d.estado = c.estado /\ d.snd_una = c.snd_una /\ d.snd_nxt = c.snd_nxt
           /\ d.rcv_nxt = c.rcv_nxt /\ d.vuelo = c.vuelo /\ d.buz = c.buz
           /\ d.fin_recibido = c.fin_recibido /\ ~d.envio
      BY <1>4, <1>5, <2>2
    <2>5. Sound(d, b.g, b.t, b.w)
      BY <2>3, <2>4, QuietSound
    <2>6. Patient(d) /\ d.local = b.p /\ (b.e \in Shut => d.estado \in Shut)
      BY <1>4, <2>2 DEF Patient
    <2>8. X = Start(d)
      BY <2>1
    <2>s. Fits(X, b) /\ AtStart(X, d)
      BY ONLY Base(b), <2>8, <2>5, <2>6, StartFits
    <2>7. Fits(X, b) /\ X.c = d /\ X.says = <<>> /\ X.gave = <<>> /\ X.in = 0
      BY <2>s DEF AtStart
    <2>9. ~X.c.lector
      BY <1>4, <2>2, <2>7
    <2> QED BY <2>4, <2>6, <2>7, <2>9, QuietGives
  <1>6. CASE /\ c.estado = "abierta" /\ c.vuelo.flags = {}
             /\ X = Volar(Start([q EXCEPT !.estado = "cerrando"]), {"fin", "ack"}, <<>>)
    <2> DEFINE d == [q EXCEPT !.estado = "cerrando"]
               R == Start(c)
               Y == Start(d)
    <2>1. R = Start(c) /\ Y = [R EXCEPT !.c = d] /\ X = Volar(Y, {"fin", "ack"}, <<>>)
           /\ d = [q EXCEPT !.estado = "cerrando"]
      <3>1. Y = [R EXCEPT !.c = d]
        <4>1. R = Start(c) /\ Y = Start(d)
          OBVIOUS
        <4> HIDE DEF d, R, Y
        <4> QED BY <4>1, StartAgain
      <3> QED BY <3>1, <1>6
    <2> HIDE DEF d, R, Y
    <2>2. /\ ConnFields(d) /\ d.lector = q.lector /\ d.envio = q.envio /\ d.vuelo = q.vuelo
          /\ d.estado = "cerrando" /\ d.local = q.local /\ d.snd_una = q.snd_una
          /\ d.snd_nxt = q.snd_nxt /\ d.rcv_nxt = q.rcv_nxt
          /\ d.ventana_otro = q.ventana_otro /\ d.buz = q.buz
          /\ d.reintentos = q.reintentos /\ d.fin_recibido = q.fin_recibido
          /\ d.ventana_dicha = q.ventana_dicha
          /\ d.cerrar_pedido = q.cerrar_pedido /\ d.morir_en = q.morir_en
      BY <1>4, <2>1 DEF ConnFields
    <2>3. ConnType(d)
      BY <1>4, <2>2 DEF ConnType
    <2>s. Fits(R, b) /\ AtStart(R, c)
      BY <2>1, StartFits
    <2>4. Fits(R, b) /\ R.c = c /\ R.flew = <<>> /\ R.says = <<>> /\ R.gave = <<>> /\ R.in = 0
      BY <2>s DEF AtStart
    <2>5. /\ R.c.estado = "abierta" /\ R.c.vuelo.flags = {} /\ ~d.envio /\ d.local = R.c.local
          /\ d.snd_una = R.c.snd_una /\ d.rcv_nxt = R.c.rcv_nxt /\ d.buz = R.c.buz
          /\ d.fin_recibido = R.c.fin_recibido
      BY <1>4, <1>6, <2>2, <2>4
    <2>6. Patient(d)
      BY <1>4, <2>2 DEF Patient
    <2>7. /\ Fits(X, b) /\ (Patient(d) => Patient(X.c)) /\ X.c.estado = "cerrando"
          /\ Like(d, X.c) /\ X.says = R.says /\ X.gave = R.gave /\ X.in = R.in
      <3>1. Y = [R EXCEPT !.c = d]
        BY <2>1
      <3>2. X = Volar(Y, {"fin", "ack"}, <<>>)
        BY <2>1
      <3>3. d.estado = "cerrando"
        BY <2>2
      <3>4. Fits(R, b) /\ R.flew = <<>>
        BY <2>4
      <3> QED BY <2>3, <2>5, <3>1, <3>2, <3>3, <3>4, FinGoes
    <2>8. /\ X.c.buz = c.buz /\ X.c.rcv_nxt = c.rcv_nxt /\ X.c.fin_recibido = c.fin_recibido
          /\ ~X.c.envio /\ ~X.c.lector /\ X.c.estado # "syn"
      BY <1>4, <2>2, <2>4, <2>5, <2>7 DEF Like
    <2>9. X.says = <<>> /\ X.gave = <<>> /\ X.in = 0
      BY <2>4, <2>7
    <2> QED BY <2>6, <2>7, <2>8, <2>9, QuietGives
  <1>7. CASE /\ c.estado = "syn"
             /\ X = Mandar(Start([q EXCEPT !.estado = "muerta", !.morir_en = 1]), {"rst"}, c.snd_nxt, <<>>)
    <2> DEFINE d == [q EXCEPT !.estado = "muerta", !.morir_en = 1]
               S == Start(d)
    <2>1. S = Start(d) /\ X = Mandar(S, {"rst"}, c.snd_nxt, <<>>)
           /\ d = [q EXCEPT !.estado = "muerta", !.morir_en = 1]
      BY <1>7
    <2> HIDE DEF d, S
    <2>2. /\ ConnFields(d) /\ d.lector = q.lector /\ d.envio = q.envio /\ d.vuelo = q.vuelo
          /\ d.estado = "muerta" /\ d.local = q.local /\ d.snd_una = q.snd_una
          /\ d.snd_nxt = q.snd_nxt /\ d.rcv_nxt = q.rcv_nxt
          /\ d.ventana_otro = q.ventana_otro /\ d.buz = q.buz
          /\ d.reintentos = q.reintentos /\ d.fin_recibido = q.fin_recibido
          /\ d.ventana_dicha = q.ventana_dicha
          /\ d.cerrar_pedido = q.cerrar_pedido /\ d.morir_en = 1
      BY <1>4, <2>1 DEF ConnFields
    <2>3. ConnType(d)
      BY <1>4, <2>2 DEF ConnType
    <2>4. d.vuelo = [flags |-> {"syn"}, seq |-> Iss, data |-> <<>>]
      BY <1>4, <1>7, <2>2 DEF Sound, Opening
    <2>5. Sound(d, b.g, b.t, b.w)
      BY <1>4, <2>2, <2>3, <2>4, SoundMuerta
    <2>6. Patient(d) /\ d.local = b.p /\ (b.e \in Shut => d.estado \in Shut)
      BY <1>4, <2>2 DEF Patient, Shut
    <2>11. S = Start(d)
      BY <2>1
    <2>s. Fits(S, b) /\ AtStart(S, d)
      BY ONLY Base(b), <2>11, <2>5, <2>6, StartFits
    <2>7. Fits(S, b) /\ S.c = d /\ S.says = <<>> /\ S.gave = <<>> /\ S.in = 0
      BY <2>s DEF AtStart
    <2> DEFINE f == {"rst"}
               n == c.snd_nxt
               k == <<>>
    <2>8. X = Mandar(S, f, n, k)
      BY <2>1
    <2>9. May(f, n, k, b.w \o S.flew, S.c.estado \in Shut)
      <3>1. n \in 0 .. SeqSpace - 1
        BY <1>1 DEF ConnType
      <3> QED BY <3>1, RstMay
    <2> HIDE DEF f, n, k
    <2>10. /\ Fits(X, b) /\ (Patient(S.c) => Patient(X.c)) /\ Alike(S.c, X.c)
           /\ X.says = S.says /\ X.gave = S.gave /\ X.in = S.in
      BY <2>7, <2>8, <2>9, MandarFits
    <2>12. /\ X.c.buz = c.buz /\ X.c.rcv_nxt = c.rcv_nxt /\ X.c.fin_recibido = c.fin_recibido
           /\ ~X.c.envio /\ ~X.c.lector /\ X.c.estado # "syn"
      BY <1>4, <2>2, <2>7, <2>10 DEF Alike
    <2>13. X.says = <<>> /\ X.gave = <<>> /\ X.in = 0
      BY <2>7, <2>10
    <2> QED BY <2>6, <2>7, <2>10, <2>12, <2>13, QuietGives
  <1>8. CASE c.estado \notin {"abierta", "syn"} /\ X = Start(q)
    <2>1. Sound(q, b.g, b.t, b.w)
      <3>1. c.estado # "syn"
        BY <1>8
      <3> QED BY <3>1, <1>4, QuietSound
    <2>2. Patient(q) /\ q.local = b.p /\ (b.e \in Shut => q.estado \in Shut)
      BY <1>4 DEF Patient
    <2>s. Fits(X, b) /\ AtStart(X, q)
      BY <1>8, <2>1, <2>2, StartFits
    <2>3. Fits(X, b) /\ X.c = q /\ X.says = <<>> /\ X.gave = <<>> /\ X.in = 0
      BY <2>s DEF AtStart
    <2>4. /\ X.c.buz = c.buz /\ X.c.rcv_nxt = c.rcv_nxt /\ X.c.fin_recibido = c.fin_recibido
          /\ ~X.c.envio /\ ~X.c.lector /\ X.c.estado # "syn"
      BY <1>4, <1>8, <2>3
    <2> QED BY <2>2, <2>3, <2>4, QuietGives
  <1> QED BY <1>2, <1>5, <1>6, <1>7, <1>8

\* A request on a connection.
LEMMA PideFits ==
    ASSUME NEW c, NEW b, Base(b), Sound(c, b.g, b.t, b.w), b.e = c.estado, c.local = b.p, Patient(c),
           Len(b.w) + Mss <= Budget(MaxEvents), b.f = Mss, NEW q \in Requests, q.op # "abrir",
           q.op = "enviar" => q.data # <<>>, NEW X, X = Pide(c, q)
    PROVE  /\ Fits(X, b) /\ Patient(X.c)
           /\ Gives(X, c, IF q.op = "enviar" THEN "hueco" ELSE IF q.op = "leer" THEN "datos" ELSE "none", b)
  <1>1. q.op \in {"enviar", "leer", "cerrar"} /\ q.data \in Seq(Nat)
    BY DEF Requests
  <1>2. CASE q.op = "enviar"
    <2>1. X = Enviar(c, q.data) /\ q.data # <<>>
      BY <1>2 DEF Pide
    <2>2. Fits(X, b) /\ Patient(X.c) /\ Gives(X, c, "hueco", b)
      BY <1>1, <2>1, EnviarFits
    <2> QED BY <1>2, <2>2
  <1>3. CASE q.op = "leer"
    <2>1. X = Leer(c)
      BY <1>3 DEF Pide
    <2>2. Fits(X, b) /\ Patient(X.c) /\ Gives(X, c, "datos", b)
      BY <2>1, LeerFits
    <2> QED BY <1>3, <2>2
  <1>4. CASE q.op = "cerrar"
    <2>1. X = Cerrar(c)
      BY <1>4 DEF Pide
    <2>2. Fits(X, b) /\ Patient(X.c) /\ Gives(X, c, "none", b)
      BY <2>1, CerrarFits
    <2> QED BY <1>4, <2>2
  <1> QED BY <1>1, <1>2, <1>3, <1>4

\* Each call may put Mss bytes in flight.
LEMMA BudgetGrows ==
    ASSUME NEW n \in Nat
    PROVE  Budget(n) \in Nat /\ Budget(n + 1) = Budget(n) + Mss /\ Budget(0) = 0
<1>1. Mss \in Nat \ {0} BY Constants
<1> QED BY <1>1 DEF Budget

\* More calls, no less budget.
LEMMA BudgetOrder ==
    ASSUME NEW n \in Nat, NEW m \in Nat, n <= m
    PROVE  Budget(n) <= Budget(m)
<1>1. Mss \in Nat \ {0} BY Constants
<1>2. PICK d \in Nat : m = n + d
    <2>1. m - n \in Nat /\ m = n + (m - n) OBVIOUS
    <2> QED BY <2>1
<1>3. Mss * d \in Nat BY <1>1
<1>4. Mss * (n + d) = Mss * n + Mss * d BY <1>1
<1>5. Mss * n \in Nat BY <1>1
<1> QED BY <1>2, <1>3, <1>4, <1>5 DEF Budget

\* What was in the air stays right when more has been put in flight.
LEMMA FromUsGrows ==
    ASSUME NEW s, s.data \in Seq(Nat), NEW w \in Seq(Nat), NEW x \in Seq(Nat), NEW closed \in BOOLEAN, NEW after \in BOOLEAN,
           FromUs(s, w, closed), closed => after /\ x = <<>>
    PROVE  FromUs(s, w \o x, after)
<1>0. Len(w \o x) >= Len(w) /\ w \o x \in Seq(Nat) BY Joined
<1>1. CASE s.flags = {"syn"} /\ s.data = <<>> BY <1>1 DEF FromUs
<1>2. CASE "rst" \in s.flags BY <1>2 DEF FromUs
<1>3. CASE s.flags = {"ack"} /\ s.data = <<>> BY <1>3 DEF FromUs
<1>4. CASE s.flags = {"ack"} /\ \E i \in 0 .. Len(w) : s.seq = Plus(Iss, 1 + i) /\ Slice(s.data, w, i)
    <2>1. PICK i \in 0 .. Len(w) : s.seq = Plus(Iss, 1 + i) /\ Slice(s.data, w, i) BY <1>4
    <2>2. i \in Nat /\ i \in 0 .. Len(w \o x) BY <1>0
    <2>3. Slice(s.data, w \o x, i) BY <2>1, <2>2, SliceGrows
    <2> QED BY <1>4, <2>1, <2>2, <2>3 DEF FromUs
<1>5. CASE closed /\ s.flags = {"fin", "ack"} /\ s.data = <<>> /\ s.seq = Plus(Iss, 1 + Len(w))
    <2>1. after /\ x = <<>> BY <1>5
    <2>2. w \o x = w BY <2>1
    <2> QED BY <1>5, <2>1, <2>2 DEF FromUs
<1> QED BY <1>1, <1>2, <1>3, <1>4, <1>5 DEF FromUs

\* So does what the other machine has.
LEMMA PeerGrows ==
    ASSUME NEW q, NEW w \in Seq(Nat), NEW x \in Seq(Nat), NEW closed \in BOOLEAN, NEW after \in BOOLEAN,
           PeerOK(q, w, closed), closed => after /\ x = <<>>
    PROVE  PeerOK(q, w \o x, after)
<1>1. q.got \in Seq(Nat) /\ Slice(q.got, w, 0) BY DEF PeerOK
<1>2. Slice(q.got, w \o x, 0) BY <1>1, SliceGrows
<1>3. q.fin => after /\ Len(q.got) = Len(w \o x)
    <2>1. q.fin => closed /\ Len(q.got) = Len(w) BY DEF PeerOK
    <2>2. x = <<>> => w \o x = w OBVIOUS
    <2> QED BY <2>1, <2>2
<1> QED BY <1>2, <1>3 DEF PeerOK

TcpInv == NetInv /\ ConnInv /\ PeerInv /\ AirInv /\ ProgInv /\ Awaited /\ InboxMail

\* Closed or not.
LEMMA ClosedType ==
    ASSUME NEW p PROVE Closed(p) \in BOOLEAN /\ Closed(p)' \in BOOLEAN
BY DEF Closed

\* What the ports have grown in a step.
Later(p) ==
    \E x \in Seq(Nat) : sent'[p] = sent[p] \o x /\ (Closed(p) => Closed(p)' /\ x = <<>>)

\* What a handler of one port does leaves right what is in the air and the other machine.
LEMMA AirGrows ==
    ASSUME NetInv, PeerInv, AirInv, \A p \in Ports : Later(p), peer' = peer,
           \A p \in Ports : told'[p] <= Len(peer[p].got), toUs' \subseteq toUs,
           \A s \in toPeer' : s \in toPeer \/ (s \in Segment /\ FromUs(s, sent'[s.port], Closed(s.port)'))
    PROVE  PeerInv' /\ AirInv'
<1>1. ASSUME NEW p \in Ports PROVE PeerOK(peer[p], sent'[p], Closed(p)')
    <2>0. Later(p) OBVIOUS
    <2>1. PICK x \in Seq(Nat) : sent'[p] = sent[p] \o x /\ (Closed(p) => Closed(p)' /\ x = <<>>) BY <2>0 DEF Later
    <2>2. sent[p] \in Seq(Nat) BY DEF NetInv
    <2>3. PeerOK(peer[p], sent[p], Closed(p)) BY DEF PeerInv
    <2>4. Closed(p) \in BOOLEAN /\ Closed(p)' \in BOOLEAN BY ClosedType
    <2>5. PeerOK(peer[p], sent[p] \o x, Closed(p)') BY <2>1, <2>2, <2>3, <2>4, PeerGrows
    <2> QED BY <2>1, <2>5
<1>2. PeerInv'
    <2>1. DOMAIN peer = Ports BY DEF PeerInv
    <2> QED BY <1>1, <2>1 DEF PeerInv
<1>3. ASSUME NEW s \in toPeer PROVE s \in Segment /\ FromUs(s, sent'[s.port], Closed(s.port)')
    <2>1. s \in Segment /\ FromUs(s, sent[s.port], Closed(s.port)) BY DEF AirInv
    <2>2. s.port \in Ports /\ s.data \in Seq(Nat) BY <2>1 DEF Segment
    <2>0. Later(s.port) BY <2>2
    <2>3. PICK x \in Seq(Nat) : /\ sent'[s.port] = sent[s.port] \o x
                                /\ Closed(s.port) => Closed(s.port)' /\ x = <<>> BY <2>0 DEF Later
    <2>4. sent[s.port] \in Seq(Nat) BY <2>2 DEF NetInv
    <2>5. Closed(s.port) \in BOOLEAN /\ Closed(s.port)' \in BOOLEAN BY ClosedType
    <2>6. FromUs(s, sent[s.port] \o x, Closed(s.port)') BY <2>1, <2>2, <2>3, <2>4, <2>5, FromUsGrows
    <2> QED BY <2>1, <2>3, <2>6
<1>4. AirInv'
    <2>1. \A s \in toPeer' : s \in Segment /\ FromUs(s, sent'[s.port], Closed(s.port)') BY <1>3
    <2>2. \A s \in toUs' : s \in Segment /\ FromPeer(s, peer[s.port]) BY DEF AirInv
    <2> QED BY <2>1, <2>2 DEF AirInv
<1> QED BY <1>2, <1>4

\* A free slot.
LEMMA FreeIs ==
    ASSUME ConnInv, NEW k \in Slots
    PROVE  /\ conex[k].estado = "libre" <=> conex[k] = NoConn
           /\ conex[k] = NoConn => conex[k].local = 0 /\ conex[k].local \notin Ports
           /\ conex[k] # NoConn => conex[k].local \in Ports
<1>1. CASE conex[k] = NoConn
    <2>1. NoConn.estado = "libre" /\ NoConn.local = 0 BY DEF NoConn
    <2>2. 0 \notin Ports BY DEF Ports
    <2> QED BY <1>1, <2>1, <2>2
<1>2. CASE conex[k] # NoConn
    <2>1. Sound(conex[k], given[conex[k].local], told[conex[k].local], sent[conex[k].local])
        BY <1>2 DEF ConnInv
    <2>2. ConnType(conex[k]) BY <2>1 DEF Sound
    <2>3. conex[k].estado # "libre" /\ conex[k].local \in Ports BY <2>2 DEF ConnType
    <2> QED BY <1>2, <2>3
<1> QED BY <1>1, <1>2

Of(k, f) == [p |-> conex[k].local, g |-> given[conex[k].local], t |-> told[conex[k].local],
             w |-> sent[conex[k].local], m |-> Len(peer[conex[k].local].got),
             e |-> conex[k].estado, f |-> f]

\* The other machine has no more than was put in flight, and all that was told.
LEMMA LenOfGot ==
    ASSUME PeerInv, NEW p \in Ports
    PROVE  Len(peer[p].got) \in Nat /\ Len(peer[p].got) <= Len(sent[p]) /\ told[p] <= Len(peer[p].got)
<1>1. PeerOK(peer[p], sent[p], Closed(p)) /\ told[p] <= Len(peer[p].got) BY DEF PeerInv
<1>2. peer[p].got \in Seq(Nat) /\ Slice(peer[p].got, sent[p], 0) BY <1>1 DEF PeerOK
<1>3. Len(peer[p].got) \in Nat BY <1>2
<1>4. 0 + Len(peer[p].got) <= Len(sent[p]) BY <1>2 DEF Slice
<1> QED BY <1>1, <1>3, <1>4

\* What is in flight fits in the budget, and with Mss more while a request waits.
LEMMA SentFits ==
    ASSUME NetInv, NEW p \in Ports, Len(inbox) \in Nat
    PROVE  /\ Len(sent[p]) \in Nat /\ Len(sent[p]) <= Budget(MaxEvents)
           /\ Len(inbox) # 0 => Len(sent[p]) + Mss <= Budget(MaxEvents)
<1>1. sent[p] \in Seq(Nat) /\ Len(sent[p]) + Budget(Len(inbox)) <= Budget(events)
      /\ events \in 0 .. MaxEvents BY DEF NetInv
<1>2. MaxEvents \in Nat /\ Mss \in Nat BY Constants
<1>3. events \in Nat /\ events <= MaxEvents BY <1>1, <1>2
<1>4. Budget(events) <= Budget(MaxEvents) /\ Budget(events) \in Nat /\ Budget(MaxEvents) \in Nat
    BY <1>2, <1>3, BudgetOrder, BudgetGrows
<1>5. Budget(Len(inbox)) \in Nat BY BudgetGrows
<1>6. Len(inbox) # 0 => Budget(Len(inbox)) >= Mss
    <2>1. ASSUME Len(inbox) # 0 PROVE Budget(Len(inbox)) >= Mss
        <3>1. Len(inbox) >= 1 /\ 1 \in Nat /\ 0 \in Nat BY <2>1
        <3>2. Budget(1) <= Budget(Len(inbox)) BY <3>1, BudgetOrder
        <3>3. Budget(0 + 1) = Budget(0) + Mss /\ Budget(0) = 0 BY <3>1, BudgetGrows
        <3>4. 0 + 1 = 1 OBVIOUS
        <3>5. Budget(1) \in Nat BY <3>1, BudgetGrows
        <3> QED BY <3>2, <3>3, <3>4, <3>5, <1>2, <1>5
    <2> QED BY <2>1
<1>7. Len(sent[p]) \in Nat BY <1>1
<1> QED BY <1>1, <1>2, <1>4, <1>5, <1>6, <1>7

Fronts(b, k, f) ==
    /\ Base(b) /\ Sound(conex[k], b.g, b.t, b.w) /\ b.e = conex[k].estado
    /\ conex[k].local = b.p /\ Patient(conex[k]) /\ Peering(b, peer[b.p])
    /\ b.p \in Ports /\ b.p <= tcp_efimero /\ (Closed(b.p) <=> b.e \in Shut) /\ b.f = f
    /\ b.g = given[b.p] /\ b.t = told[b.p] /\ b.w = sent[b.p] /\ b.m = Len(peer[b.p].got)

\* What a handler finds when it looks at a connection.
LEMMA OfIs ==
    ASSUME NetInv, ConnInv, PeerInv, Len(inbox) \in Nat, NEW k \in Slots, conex[k] # NoConn,
           NEW f \in 0 .. Mss, NEW b, b = Of(k, f)
    PROVE  Fronts(b, k, f)
<1>1. conex[k].local \in Ports BY FreeIs
<1>2. /\ b.p = conex[k].local /\ b.g = given[b.p] /\ b.t = told[b.p] /\ b.w = sent[b.p]
      /\ b.m = Len(peer[b.p].got) /\ b.e = conex[k].estado /\ b.f = f
    BY DEF Of
<1>3. b.p \in Ports BY <1>1, <1>2
<1>4. conex[k].local <= tcp_efimero
      /\ Sound(conex[k], given[conex[k].local], told[conex[k].local], sent[conex[k].local])
      /\ Patient(conex[k])
    BY DEF ConnInv
<1>5. given[b.p] \in Seq(Nat) /\ sent[b.p] \in Seq(Nat) /\ told[b.p] \in Nat BY <1>3 DEF NetInv
<1>6. Base(b) BY <1>2, <1>3, <1>5, LenOfGot, SentFits DEF Base
<1>7. Sound(conex[k], b.g, b.t, b.w) BY <1>2, <1>4
<1>8. Closed(b.p) <=> b.e \in Shut
    <2>1. \A j \in Slots : conex[j].local = b.p => j = k
        <3>1. b.p # 0 BY <1>3 DEF Ports
        <3> QED BY <3>1, <1>2 DEF ConnInv
    <2> QED BY <2>1, <1>2, <1>4 DEF Closed, Shut
<1>9. PeerOK(peer[b.p], sent[b.p], Closed(b.p)) BY <1>3 DEF PeerInv
<1>10. Peering(b, peer[b.p]) BY <1>2, <1>8, <1>9 DEF PeerOK, Peering
<1> QED BY <1>2, <1>3, <1>4, <1>6, <1>7, <1>8, <1>10 DEF Fronts

\* What leaves goes to the air, or nowhere.
LEMMA Leaves ==
    ASSUME NEW out, Leave(out)
    PROVE  \A s \in toPeer' : s \in toPeer \/ s \in out
BY DEF Leave, Into

Grew(b, k, r) ==
    /\ given' = [given EXCEPT ![b.p] = b.g \o r.gave]
    /\ told' = [told EXCEPT ![b.p] = b.t + r.in]
    /\ sent' = [sent EXCEPT ![b.p] = b.w \o r.flew]
    /\ conex' = [conex EXCEPT ![k] = r.c] /\ b.p \in Ports

\* A handler leaves the connections right.
LEMMA DoesConn ==
    ASSUME NetInv, ConnInv, NEW k \in Slots, conex[k] # NoConn, NEW f, NEW b, Fronts(b, k, f),
           NEW r, Fits(r, b), Patient(r.c), Does(k, r), tcp_efimero' = tcp_efimero
    PROVE  /\ ConnInv'
           /\ Grew(b, k, r)
<1>0. DOMAIN conex = Slots /\ DOMAIN given = Ports /\ DOMAIN told = Ports /\ DOMAIN sent = Ports
    BY DEF ConnInv, NetInv
<1> USE DEF Fronts
<1>1. b.p \in Ports OBVIOUS
<1>2. conex' = [conex EXCEPT ![k] = r.c] BY DEF Does
<1>3. /\ given' = [given EXCEPT ![b.p] = b.g \o r.gave]
      /\ told' = [told EXCEPT ![b.p] = b.t + r.in]
      /\ sent' = [sent EXCEPT ![b.p] = b.w \o r.flew]
    BY <1>0, <1>1 DEF Does, Noted
<1>4. r.c.local = b.p /\ Sound(r.c, b.g \o r.gave, b.t + r.in, b.w \o r.flew) BY DEF Fits
<1>5. \A j \in Slots \ {k} : conex'[j] = conex[j] BY <1>0, <1>2
<1>6. conex'[k] = r.c BY <1>0, <1>2
<1>7. \A j \in Slots : conex'[j].local = conex[j].local BY <1>4, <1>5, <1>6
<1>8. given'[b.p] = b.g \o r.gave /\ told'[b.p] = b.t + r.in /\ sent'[b.p] = b.w \o r.flew
    BY <1>0, <1>1, <1>3
<1>9. \A p \in Ports \ {b.p} : given'[p] = given[p] /\ told'[p] = told[p] /\ sent'[p] = sent[p]
    BY <1>0, <1>3
<1>10. conex[k].local <= tcp_efimero BY DEF ConnInv
<1>11. /\ conex'[k].local <= tcp_efimero'
       /\ Sound(conex'[k], given'[conex'[k].local], told'[conex'[k].local], sent'[conex'[k].local])
       /\ Patient(conex'[k])
    BY <1>4, <1>6, <1>8, <1>10
<1>12. ASSUME NEW j \in Slots, j # k, conex[j] # NoConn
       PROVE  /\ conex'[j].local <= tcp_efimero'
              /\ Sound(conex'[j], given'[conex'[j].local], told'[conex'[j].local], sent'[conex'[j].local])
              /\ Patient(conex'[j])
    <2>1. conex[j].local \in Ports BY <1>12, FreeIs
    <2>2. conex[j].local # b.p
        <3>1. b.p # 0 BY <1>1 DEF Ports
        <3> QED BY <1>12, <3>1 DEF ConnInv
    <2>3. conex'[j] = conex[j] BY <1>5, <1>12
    <2>4. conex[j].local \in Ports \ {b.p} BY <2>1, <2>2
    <2>5. /\ given'[conex[j].local] = given[conex[j].local]
          /\ told'[conex[j].local] = told[conex[j].local] /\ sent'[conex[j].local] = sent[conex[j].local]
        BY <2>4, <1>9
    <2>6. /\ conex[j].local <= tcp_efimero
          /\ Sound(conex[j], given[conex[j].local], told[conex[j].local], sent[conex[j].local])
          /\ Patient(conex[j])
        BY <1>12 DEF ConnInv
    <2> QED BY <2>3, <2>5, <2>6
<1>13. ASSUME NEW j \in Slots, j # k, conex[j] = NoConn PROVE conex'[j] = NoConn BY <1>5, <1>13
<1>14. \A i \in Slots, j \in Slots : conex'[i].local = conex'[j].local /\ conex'[i].local # 0 => i = j
    BY <1>7 DEF ConnInv
<1>15. DOMAIN conex' = Slots BY <1>0, <1>2
<1>16. ConnInv' BY <1>11, <1>12, <1>13, <1>14, <1>15 DEF ConnInv
<1> QED BY <1>1, <1>2, <1>3, <1>16 DEF Grew
GrownBy(f) ==
    \A p \in Ports : /\ given'[p] \in Seq(Nat) /\ sent'[p] \in Seq(Nat) /\ told'[p] \in Nat
                     /\ Len(sent'[p]) <= Len(sent[p]) + f
                     /\ p > tcp_efimero => given'[p] = given[p] /\ told'[p] = told[p] /\ sent'[p] = sent[p]

\* And all that depends on them.
LEMMA DoesAir ==
    ASSUME NetInv, ConnInv, PeerInv, AirInv, Len(inbox) \in Nat,
           NEW k \in Slots, conex[k] # NoConn, NEW f \in 0 .. Mss, NEW b, Fronts(b, k, f),
           NEW r, Fits(r, b), Patient(r.c), Does(k, r), tcp_efimero' = tcp_efimero,
           peer' = peer, toUs' \subseteq toUs
    PROVE  ConnInv' /\ PeerInv' /\ AirInv' /\ Grew(b, k, r) /\ GrownBy(f)
<1>1. /\ Base(b) /\ Sound(conex[k], b.g, b.t, b.w) /\ b.e = conex[k].estado
      /\ conex[k].local = b.p /\ Patient(conex[k]) /\ Peering(b, peer[b.p])
      /\ b.p \in Ports /\ b.p <= tcp_efimero /\ (Closed(b.p) <=> b.e \in Shut) /\ b.f = f
      /\ b.g = given[b.p] /\ b.t = told[b.p] /\ b.w = sent[b.p] /\ b.m = Len(peer[b.p].got)
    BY DEF Fronts
<1>2. /\ ConnInv'
      /\ given' = [given EXCEPT ![b.p] = b.g \o r.gave]
      /\ told' = [told EXCEPT ![b.p] = b.t + r.in]
      /\ sent' = [sent EXCEPT ![b.p] = b.w \o r.flew]
      /\ conex' = [conex EXCEPT ![k] = r.c]
    <2>1. ConnInv' /\ Grew(b, k, r) BY DoesConn
    <2> QED BY <2>1 DEF Grew
<1>3. DOMAIN conex = Slots /\ DOMAIN given = Ports /\ DOMAIN told = Ports /\ DOMAIN sent = Ports
    BY DEF ConnInv, NetInv
<1>4. /\ given'[b.p] = b.g \o r.gave /\ told'[b.p] = b.t + r.in /\ sent'[b.p] = b.w \o r.flew
    BY <1>1, <1>2, <1>3
<1>5. \A p \in Ports \ {b.p} : given'[p] = given[p] /\ told'[p] = told[p] /\ sent'[p] = sent[p]
    BY <1>2, <1>3
<1>6. /\ r.gave \in Seq(Nat) /\ r.in \in Nat /\ r.flew \in Seq(Nat) /\ Len(r.flew) <= f
      /\ b.t + r.in <= b.m /\ r.c.local = b.p
      /\ \A s \in r.out : s \in Segment /\ s.port = b.p /\ FromUs(s, b.w \o r.flew, r.c.estado \in Shut)
      /\ r.flew # <<>> => b.e = "abierta"
      /\ b.e \in Shut => r.c.estado \in Shut
    BY <1>1 DEF Fits
<1>7. \A p \in Ports : given[p] \in Seq(Nat) /\ sent[p] \in Seq(Nat) /\ told[p] \in Nat BY DEF NetInv
<1>8. b.w \o r.flew \in Seq(Nat) /\ Len(b.w \o r.flew) = Len(b.w) + Len(r.flew) /\ b.g \o r.gave \in Seq(Nat)
    <2>1. b.w \in Seq(Nat) /\ b.g \in Seq(Nat) BY <1>1, <1>7
    <2>2. r.gave \in Seq(Nat) /\ r.flew \in Seq(Nat) BY <1>6
    <2> QED BY <2>1, <2>2, Joined
<1>9. \A p \in Ports : given'[p] \in Seq(Nat) /\ sent'[p] \in Seq(Nat) /\ told'[p] \in Nat
    <2>1. b.t + r.in \in Nat BY <1>1, <1>6, <1>7
    <2>2. given'[b.p] \in Seq(Nat) /\ sent'[b.p] \in Seq(Nat) /\ told'[b.p] \in Nat BY <2>1, <1>4, <1>8
    <2>3. ASSUME NEW p \in Ports, p # b.p PROVE given'[p] \in Seq(Nat) /\ sent'[p] \in Seq(Nat) /\ told'[p] \in Nat
        BY <2>3, <1>5, <1>7
    <2> QED BY <2>2, <2>3
<1>10. \A p \in Ports : Len(sent'[p]) <= Len(sent[p]) + f
    <2>1. f \in Nat BY Constants
    <2>2. ASSUME NEW p \in Ports PROVE Len(sent'[p]) <= Len(sent[p]) + f
        <3>1. Len(sent[p]) \in Nat BY <1>7
        <3>2. CASE p = b.p BY <3>1, <3>2, <1>1, <1>4, <1>6, <1>8, <2>1
        <3>3. CASE p # b.p
            <4>1. sent'[p] = sent[p] BY <3>3, <1>5
            <4> QED BY <4>1, <3>1, <2>1
        <3> QED BY <3>2, <3>3
    <2> QED BY <2>2
<1>11. \A p \in Ports : p > tcp_efimero => given'[p] = given[p] /\ told'[p] = told[p] /\ sent'[p] = sent[p]
    <2>1. ASSUME NEW p \in Ports, p > tcp_efimero PROVE p # b.p
        <3>1. tcp_efimero \in Nat /\ p \in Nat BY DEF NetInv, Ports
        <3> QED BY <2>1, <3>1, <1>1
    <2> QED BY <2>1, <1>5
<1>12. conex'[k] = r.c /\ \A j \in Slots : j # k => conex'[j] = conex[j] BY <1>2, <1>3
<1>13. ASSUME NEW p \in Ports PROVE Closed(p) => Closed(p)'
    <2>1. ASSUME Closed(p), NEW j \in Slots, conex'[j].local = p PROVE conex'[j].estado \in Shut
        <3>1. CASE j = k
            <4>1. b.p = p BY <2>1, <3>1, <1>12, <1>6
            <4> QED BY <4>1, <2>1, <3>1, <1>1, <1>6, <1>12
        <3>2. CASE j # k BY <3>2, <2>1, <1>12 DEF Closed, Shut
        <3> QED BY <3>1, <3>2
    <2>2. Closed(p) => p <= tcp_efimero' BY DEF Closed
    <2> QED BY <2>1, <2>2 DEF Closed, Shut
<1>14. Closed(b.p)' <=> r.c.estado \in Shut
    <2>1. b.p # 0 BY <1>1 DEF Ports
    <2>2. ASSUME NEW j \in Slots, j # k PROVE conex'[j].local # b.p BY <2>2, <2>1, <1>1, <1>12 DEF ConnInv
    <2> QED BY <2>2, <1>1, <1>6, <1>12 DEF Closed, Shut
<1>15. ASSUME NEW p \in Ports PROVE Later(p)
    <2>1. CASE p = b.p
        <3>1. sent'[p] = sent[p] \o r.flew BY <2>1, <1>1, <1>4
        <3>2. Closed(p) => r.flew = <<>> BY <2>1, <1>1, <1>6 DEF Shut
        <3> QED BY <3>1, <3>2, <1>6, <1>13 DEF Later
    <2>2. CASE p # b.p
        <3>1. sent'[p] = sent[p] \o <<>> BY <2>2, <1>5, <1>7, NothingMore
        <3>2. <<>> \in Seq(Nat) BY EmptyIs
        <3> QED BY <3>1, <3>2, <1>13 DEF Later
    <2> QED BY <2>1, <2>2
<1>16. \A p \in Ports : told'[p] <= Len(peer[p].got) BY <1>1, <1>4, <1>5, <1>6, LenOfGot
<1>17. \A s \in toPeer' : s \in toPeer \/ (s \in Segment /\ FromUs(s, sent'[s.port], Closed(s.port)'))
    <2>1. \A s \in toPeer' : s \in toPeer \/ s \in r.out BY Leaves DEF Does
    <2>2. ASSUME NEW s \in r.out PROVE s \in Segment /\ FromUs(s, sent'[s.port], Closed(s.port)')
        <3>1. s \in Segment /\ s.port = b.p /\ FromUs(s, b.w \o r.flew, r.c.estado \in Shut) BY <1>6
        <3>2. CASE r.c.estado \in Shut
            <4>1. PICK yes \in BOOLEAN : yes = TRUE OBVIOUS
            <4>2. (r.c.estado \in Shut) = yes BY <4>1, <3>2
            <4>3. FromUs(s, b.w \o r.flew, yes) BY <4>2, <3>1
            <4>4. Closed(b.p)' = yes BY <1>14, <3>2, <4>1, ClosedType
            <4> QED BY <4>3, <4>4, <3>1, <1>4
        <3>3. CASE r.c.estado \notin Shut
            <4>1. PICK no \in BOOLEAN : no = FALSE OBVIOUS
            <4>2. (r.c.estado \in Shut) = no BY <4>1, <3>3
            <4>3. FromUs(s, b.w \o r.flew, no) BY <4>2, <3>1
            <4>4. Closed(b.p)' = no BY <1>14, <3>3, <4>1, ClosedType
            <4> QED BY <4>3, <4>4, <3>1, <1>4
        <3> QED BY <3>2, <3>3
    <2> QED BY <2>1, <2>2
<1>18. PeerInv' /\ AirInv' BY <1>15, <1>16, <1>17, AirGrows
<1> QED BY <1>1, <1>2, <1>9, <1>10, <1>11, <1>18 DEF Grew, GrownBy
OfKind(s, op) == {i \in 1 .. Len(s) : s[i].op = op}

\* How many requests of a kind there are, counted over the sequence.
LEMMA AskedIs ==
    ASSUME NEW op, inbox \in Seq(Requests)
    PROVE  Asked(op) = Cardinality(OfKind(inbox, op))
<1>1. DOMAIN inbox = 1 .. Len(inbox) OBVIOUS
<1> QED BY <1>1, Zenon DEF Asked, OfKind

\* They are finitely many.
LEMMA OfKindFinite ==
    ASSUME NEW s \in Seq(Requests), NEW op
    PROVE  IsFiniteSet(OfKind(s, op)) /\ Cardinality(OfKind(s, op)) \in Nat
<1>1. Len(s) \in Nat /\ 1 \in Nat OBVIOUS
<1>2. IsFiniteSet(1 .. Len(s)) BY <1>1, FS_Interval
<1>3. OfKind(s, op) \subseteq 1 .. Len(s) BY DEF OfKind
<1>4. IsFiniteSet(OfKind(s, op)) BY <1>2, <1>3, FS_Subset
<1> QED BY <1>4, FS_CardinalityType

\* One more request.
LEMMA OfKindAppend ==
    ASSUME NEW s \in Seq(Requests), NEW q \in Requests, NEW op
    PROVE  Cardinality(OfKind(Append(s, q), op)) = Cardinality(OfKind(s, op)) + IF q.op = op THEN 1 ELSE 0
<1> DEFINE n == Len(s) + 1
<1>1. Len(Append(s, q)) = n /\ n \in Nat /\ n \notin 1 .. Len(s) /\ 1 .. n = 1 .. Len(s) \cup {n}
      /\ Append(s, q)[n] = q /\ \A i \in 1 .. Len(s) : Append(s, q)[i] = s[i]
    OBVIOUS
<1> HIDE DEF n
<1>2. IsFiniteSet(OfKind(s, op)) /\ Cardinality(OfKind(s, op)) \in Nat BY OfKindFinite
<1>3. n \notin OfKind(s, op) BY <1>1 DEF OfKind
<1>4. CASE q.op = op
    <2>1. OfKind(Append(s, q), op) = OfKind(s, op) \cup {n} BY <1>1, <1>4 DEF OfKind
    <2> QED BY <2>1, <1>2, <1>3, <1>4, FS_AddElement
<1>5. CASE q.op # op
    <2>1. OfKind(Append(s, q), op) = OfKind(s, op) BY <1>1, <1>5 DEF OfKind
    <2> QED BY <2>1, <1>2, <1>5
<1> QED BY <1>4, <1>5

\* One request less.
LEMMA OfKindTail ==
    ASSUME NEW s \in Seq(Requests), s # <<>>, NEW op
    PROVE  Cardinality(OfKind(Tail(s), op)) + (IF Head(s).op = op THEN 1 ELSE 0) <= Cardinality(OfKind(s, op))
<1> DEFINE T == OfKind(Tail(s), op)
           R == OfKind(s, op) \ {1}
           f == [i \in R |-> i - 1]
<1>1. Len(s) \in Nat \ {0} /\ Len(Tail(s)) = Len(s) - 1 /\ Tail(s) \in Seq(Requests)
      /\ (\A i \in 1 .. Len(s) - 1 : Tail(s)[i] = s[i + 1]) /\ Head(s) = s[1]
    OBVIOUS
<1>2. IsFiniteSet(OfKind(s, op)) /\ Cardinality(OfKind(s, op)) \in Nat BY OfKindFinite
<1>3. IsFiniteSet(R) /\ Cardinality(R) \in Nat BY <1>2, FS_Subset, FS_CardinalityType
<1>4. Cardinality(T) \in Nat BY <1>1, OfKindFinite
<1>5. Cardinality(T) <= Cardinality(R)
    <2>1. f \in Surjection(R, T)
        <3>1. ASSUME NEW i \in R PROVE f[i] \in T
            <4>1. i \in 1 .. Len(s) /\ i # 1 /\ s[i].op = op BY DEF OfKind
            <4>2. i - 1 \in 1 .. Len(s) - 1 /\ (i - 1) + 1 = i BY <4>1, <1>1
            <4>3. Tail(s)[i - 1] = s[i] BY <4>2, <1>1
            <4> QED BY <4>1, <4>2, <4>3, <1>1 DEF OfKind
        <3>2. ASSUME NEW j \in T PROVE \E i \in R : f[i] = j
            <4>1. j \in 1 .. Len(s) - 1 /\ Tail(s)[j].op = op BY <1>1 DEF OfKind
            <4>2. j + 1 \in 1 .. Len(s) /\ j + 1 # 1 /\ (j + 1) - 1 = j /\ s[j + 1].op = op BY <4>1, <1>1
            <4>3. j + 1 \in R BY <4>2 DEF OfKind
            <4> QED BY <4>2, <4>3
        <3> QED BY <3>1, <3>2 DEF Surjection
    <2> QED BY <2>1, <1>3, FS_Surjection
<1>6. CASE Head(s).op = op
    <2>1. 1 \in OfKind(s, op) BY <1>6, <1>1 DEF OfKind
    <2>2. Cardinality(R) = Cardinality(OfKind(s, op)) - 1 BY <2>1, <1>2, FS_RemoveElement
    <2> QED BY <2>2, <1>2, <1>3, <1>4, <1>5, <1>6
<1>7. CASE Head(s).op # op
    <2>1. 1 \notin OfKind(s, op) BY <1>7, <1>1 DEF OfKind
    <2>2. R = OfKind(s, op) BY <2>1
    <2>3. Cardinality(OfKind(Tail(s), op)) <= Cardinality(OfKind(s, op)) BY <2>2, <1>5
    <2>4. Cardinality(OfKind(Tail(s), op)) + 0 = Cardinality(OfKind(Tail(s), op)) BY <1>4
    <2>5. (IF Head(s).op = op THEN 1 ELSE 0) = 0 BY <1>7
    <2> QED BY ONLY <2>3, <2>4, <2>5
<1> QED BY <1>6, <1>7

\* Answers with the number of the connection.
LEMMA FromType ==
    ASSUME NEW k \in Slots, NEW says \in Seq(Saying)
    PROVE  /\ From(k, says) \in Seq(Message) /\ Len(From(k, says)) = Len(says)
           /\ \A i \in 1 .. Len(says) : From(k, says)[i].type = says[i].type
<1>1. k \in 0 .. Conex BY Constants DEF Slots
<1>2. DOMAIN says = 1 .. Len(says) /\ Len(says) \in Nat OBVIOUS
<1>3. ASSUME NEW i \in 1 .. Len(says)
      PROVE  [says[i] EXCEPT !.con = k] \in Message /\ [says[i] EXCEPT !.con = k].type = says[i].type
    <2>1. says[i] \in Saying OBVIOUS
    <2>2. PICK m : m = [says[i] EXCEPT !.con = k] OBVIOUS
    <2>3. /\ says[i].type \in {"abierta", "hueco", "datos", "error"} /\ says[i].n \in 0 .. Mss
          /\ says[i].data \in Seq(Nat)
        BY <2>1 DEF Saying
    <2>4. m = [type |-> says[i].type, n |-> says[i].n, data |-> says[i].data, con |-> k]
        BY <2>1, <2>2 DEF Saying
    <2> QED BY <2>2, <2>3, <2>4, <1>1 DEF Message
<1>4. From(k, says) = [i \in 1 .. Len(says) |-> [says[i] EXCEPT !.con = k]] BY <1>2 DEF From
<1>5. From(k, says) \in [1 .. Len(says) -> Message] BY <1>3, <1>4
<1>6. From(k, says) \in Seq(Message) BY <1>5, <1>2
<1>7. Len(From(k, says)) = Len(says) BY <1>4, <1>2, <1>6
<1> QED BY <1>3, <1>4, <1>6, <1>7

\* An answer without data is a message.
LEMMA SaysMessage ==
    ASSUME NEW type \in {"abierta", "hueco", "datos", "error", "alarma"}
    PROVE  Says(type, 0, <<>>) \in Message /\ Says(type, 0, <<>>).type = type
<1>1. 0 \in 0 .. Mss /\ 0 \in 0 .. Conex BY Constants
<1>2. <<>> \in Seq(Nat) BY EmptyIs
<1> QED BY <1>1, <1>2 DEF Says, Message

\* The first of some slots is one of them.
LEMMA FirstIs ==
    ASSUME NEW S \in SUBSET Slots, S # {}
    PROVE  First(S) \in S
<1>1. Conex \in Nat BY Constants
<1>2. S \subseteq Nat BY <1>1 DEF Slots
<1>3. \E k \in S : \A j \in S : ~(<<j, k>> \in OpToRel(<, Nat))
    BY <1>2, WFMin, NatLessThanWellFounded
<1>5. PICK k \in S : \A j \in S : ~(<<j, k>> \in OpToRel(<, Nat)) BY <1>3
<1>4. \A j \in S : k <= j
    <2>1. ASSUME NEW j \in S, j < k PROVE FALSE
        <3>1. j \in Nat /\ k \in Nat BY <1>2
        <3>2. <<j, k>> \in OpToRel(<, Nat) BY <2>1, <3>1, Zenon DEF OpToRel
        <3> QED BY <3>2, <1>5
    <2> QED BY <2>1, <1>2
<1> QED BY <1>4 DEF First
\* What the requests that wait have to do with the rest, when one is taken.
LEMMA InboxTail ==
    ASSUME inbox \in Seq(Requests), inbox # <<>>, inbox' = Tail(inbox), NetInv, ProgInv
    PROVE  /\ inbox' \in Seq(Requests) /\ Head(inbox) \in Requests
           /\ Asked("abrir") \in Nat /\ Asked("abrir")' \in Nat
           /\ Asked("abrir")' <= Asked("abrir")
           /\ Head(inbox).op = "abrir" => Asked("abrir")' + 1 <= Asked("abrir")
           /\ Len(inbox) \in Nat /\ Len(inbox) # 0
           /\ Budget(Len(inbox)) = Budget(Len(inbox')) + Mss /\ Budget(Len(inbox')) \in Nat
           /\ \A i \in 1 .. Len(inbox') : /\ inbox'[i].op # "abrir" => inbox'[i].slot # 0
                                          /\ inbox'[i].op = "enviar" => inbox'[i].data # <<>>
           /\ Head(inbox).op # "abrir" => Head(inbox).slot # 0
           /\ Head(inbox).op = "enviar" => Head(inbox).data # <<>>
           /\ inbox' # <<>> => inbox'[Len(inbox')] = inbox[Len(inbox)]
           /\ inbox' = <<>> => inbox[Len(inbox)] = Head(inbox)
<1>1. /\ Len(inbox) \in Nat \ {0} /\ Len(inbox') = Len(inbox) - 1 /\ inbox' \in Seq(Requests)
      /\ (\A i \in 1 .. Len(inbox') : inbox'[i] = inbox[i + 1]) /\ Head(inbox) = inbox[1]
      /\ Head(inbox) \in Requests
    OBVIOUS
<1>2. Cardinality(OfKind(Tail(inbox), "abrir")) + (IF Head(inbox).op = "abrir" THEN 1 ELSE 0)
        <= Cardinality(OfKind(inbox, "abrir"))
    BY OfKindTail
<1>3. Asked("abrir") = Cardinality(OfKind(inbox, "abrir")) BY AskedIs
<1>4. Asked("abrir")' = Cardinality(OfKind(Tail(inbox), "abrir"))
    <2>1. DOMAIN Tail(inbox) = 1 .. Len(Tail(inbox)) BY <1>1
    <2> QED BY <2>1 DEF Asked, OfKind
<1>5. Cardinality(OfKind(inbox, "abrir")) \in Nat /\ Cardinality(OfKind(Tail(inbox), "abrir")) \in Nat
    BY <1>1, OfKindFinite
<1>6. Budget(Len(inbox)) = Budget(Len(inbox')) + Mss /\ Budget(Len(inbox')) \in Nat
    <2>1. Len(inbox') \in Nat /\ Len(inbox') + 1 = Len(inbox) BY <1>1
    <2> QED BY <2>1, BudgetGrows
<1>7. \A i \in 1 .. Len(inbox) : /\ inbox[i].op # "abrir" => inbox[i].slot # 0
                                 /\ inbox[i].op = "enviar" => inbox[i].data # <<>>
    BY DEF ProgInv
<1>8. \A i \in 1 .. Len(inbox') : i + 1 \in 1 .. Len(inbox) BY <1>1
<1>9. 1 \in 1 .. Len(inbox) BY <1>1
<1>10. inbox' # <<>> => inbox'[Len(inbox')] = inbox[Len(inbox)]
    <2>1. ASSUME inbox' # <<>> PROVE inbox'[Len(inbox')] = inbox[Len(inbox)]
        <3>1. Len(inbox') # 0 BY <2>1, <1>1
        <3>2. Len(inbox') \in 1 .. Len(inbox') /\ Len(inbox') + 1 = Len(inbox) BY <3>1, <1>1
        <3> QED BY <3>2, <1>1
    <2> QED BY <2>1
<1>11. inbox' = <<>> => inbox[Len(inbox)] = Head(inbox)
    <2>1. inbox' = <<>> => Len(inbox) = 1 BY <1>1
    <2> QED BY <2>1, <1>1
<1>12. /\ Asked("abrir") \in Nat /\ Asked("abrir")' \in Nat
       /\ Asked("abrir")' <= Asked("abrir")
       /\ Head(inbox).op = "abrir" => Asked("abrir")' + 1 <= Asked("abrir")
    BY <1>2, <1>3, <1>4, <1>5
<1>13. \A i \in 1 .. Len(inbox') : /\ inbox'[i].op # "abrir" => inbox'[i].slot # 0
                                   /\ inbox'[i].op = "enviar" => inbox'[i].data # <<>>
    BY <1>1, <1>7, <1>8
<1>14. (Head(inbox).op # "abrir" => Head(inbox).slot # 0) /\ (Head(inbox).op = "enviar" => Head(inbox).data # <<>>)
    BY <1>1, <1>7, <1>9
<1>15. Len(inbox) \in Nat /\ Len(inbox) # 0 BY <1>1
<1> QED BY <1>1, <1>6, <1>10, <1>11, <1>12, <1>13, <1>14, <1>15

\* A word at the end of the mail, or several.
LEMMA MailGrows ==
    ASSUME mail \in Seq(Message), NEW more \in Seq(Message), Reply(more)
    PROVE  /\ mail' \in Seq(Message)
           /\ \A i \in DOMAIN mail : \E j \in DOMAIN mail' : mail'[j] = mail[i]
           /\ prog.alive => \A i \in 1 .. Len(more) : \E j \in DOMAIN mail' : mail'[j] = more[i]
<1>1. CASE prog.alive
    <2>1. mail' = mail \o more BY <1>1 DEF Reply
    <2>2. /\ mail \o more \in Seq(Message) /\ Len(mail \o more) = Len(mail) + Len(more)
          /\ (\A i \in 1 .. Len(mail) : (mail \o more)[i] = mail[i])
          /\ \A i \in 1 .. Len(more) : (mail \o more)[Len(mail) + i] = more[i]
        OBVIOUS
    <2>3. DOMAIN mail = 1 .. Len(mail) /\ DOMAIN mail' = 1 .. Len(mail') BY <2>1, <2>2
    <2>4. Len(mail) \in Nat /\ Len(more) \in Nat OBVIOUS
    <2>5. \A i \in 1 .. Len(mail) : i \in 1 .. Len(mail) + Len(more) BY <2>4
    <2>6. \A i \in 1 .. Len(more) : Len(mail) + i \in 1 .. Len(mail) + Len(more) BY <2>4
    <2> QED BY <2>1, <2>2, <2>3, <2>5, <2>6
<1>2. CASE ~prog.alive BY <1>2 DEF Reply
<1> QED BY <1>1, <1>2

Answered == \E i \in DOMAIN mail : mail[i].type \in {"abierta", "error", "alarma"}

\* An answer that has come stays until it is read.
LEMMA StillAnswered ==
    ASSUME Answered, \A i \in DOMAIN mail : \E j \in DOMAIN mail' : mail'[j] = mail[i]
    PROVE  Answered'
BY DEF Answered

\* Who waits for a connection goes on having its request, its SYN or its answer.
LEMMA StillAwaited ==
    ASSUME Awaited, prog' = prog, Answered => Answered',
           \/ /\ inbox' = inbox
              /\ \A k \in Slots : conex[k].estado = "syn" => conex'[k].estado = "syn" \/ (prog.waits = "abierta" => Answered')
           \/ /\ inbox # <<>>
              /\ inbox' # <<>> => inbox'[Len(inbox')] = inbox[Len(inbox)]
              /\ inbox' = <<>> /\ inbox[Len(inbox)].op = "abrir" =>
                    (\E k \in Slots : conex'[k].estado = "syn") \/ (prog.waits = "abierta" => Answered')
    PROVE  Awaited'
<1> SUFFICES ASSUME prog.waits = "abierta" PROVE
        \/ inbox' # <<>> /\ inbox'[Len(inbox')].op = "abrir"
        \/ inbox' = <<>> /\ \E k \in Slots : conex'[k].estado = "syn"
        \/ Answered'
    BY DEF Awaited, Answered
<1>1. \/ inbox # <<>> /\ inbox[Len(inbox)].op = "abrir"
      \/ inbox = <<>> /\ \E k \in Slots : conex[k].estado = "syn"
      \/ Answered
    BY DEF Awaited, Answered
<1> QED BY <1>1
Nuevo(port) == [NoConn EXCEPT !.estado = "syn", !.local = port, !.snd_una = Iss]

\* A new connection.
LEMMA NuevoFields ==
    ASSUME NEW port, NEW d, d = Nuevo(port)
    PROVE  /\ ConnFields(d) /\ d.estado = "syn" /\ d.local = port /\ d.snd_una = Iss /\ d.rcv_nxt = 0
           /\ d.ventana_otro = 0 /\ d.buz = <<>> /\ d.lector = FALSE /\ d.envio = FALSE
           /\ d.fin_recibido = FALSE /\ d.cerrar_pedido = FALSE /\ d.morir_en = Never
<1>0. PICK no \in BOOLEAN : no = FALSE OBVIOUS
<1>1. NoConn = [estado |-> "libre", local |-> 0, snd_una |-> 0, snd_nxt |-> 0, rcv_nxt |-> 0,
                ventana_otro |-> 0, vuelo |-> Grounded, reintentos |-> 0, buz |-> <<>>,
                fin_recibido |-> no, ventana_dicha |-> 0, lector |-> no, envio |-> no,
                cerrar_pedido |-> no, morir_en |-> Never]
    BY <1>0 DEF NoConn
<1>2. PICK x : x = [NoConn EXCEPT !.estado = "syn"] OBVIOUS
<1>3. x = [estado |-> "syn", local |-> 0, snd_una |-> 0, snd_nxt |-> 0, rcv_nxt |-> 0,
           ventana_otro |-> 0, vuelo |-> Grounded, reintentos |-> 0, buz |-> <<>>,
           fin_recibido |-> no, ventana_dicha |-> 0, lector |-> no, envio |-> no,
           cerrar_pedido |-> no, morir_en |-> Never]
    BY <1>1, <1>2
<1>4. PICK y : y = [x EXCEPT !.local = port] OBVIOUS
<1>5. y = [estado |-> "syn", local |-> port, snd_una |-> 0, snd_nxt |-> 0, rcv_nxt |-> 0,
           ventana_otro |-> 0, vuelo |-> Grounded, reintentos |-> 0, buz |-> <<>>,
           fin_recibido |-> no, ventana_dicha |-> 0, lector |-> no, envio |-> no,
           cerrar_pedido |-> no, morir_en |-> Never]
    BY <1>3, <1>4
<1>6. d = [y EXCEPT !.snd_una = Iss] BY <1>2, <1>4 DEF Nuevo
<1>7. d = [estado |-> "syn", local |-> port, snd_una |-> Iss, snd_nxt |-> 0, rcv_nxt |-> 0,
           ventana_otro |-> 0, vuelo |-> Grounded, reintentos |-> 0, buz |-> <<>>,
           fin_recibido |-> no, ventana_dicha |-> 0, lector |-> no, envio |-> no,
           cerrar_pedido |-> no, morir_en |-> Never]
    BY <1>5, <1>6
<1> QED BY <1>0, <1>7 DEF ConnFields

\* Its SYN is in flight and nothing else.
LEMMA NuevoIs ==
    ASSUME NEW port \in Ports, NEW r, r = Volar(Start(Nuevo(port)), {"syn"}, <<>>)
    PROVE  /\ Sound(r.c, <<>>, 0, <<>>) /\ Patient(r.c) /\ r.c.local = port /\ r.c.estado = "syn"
           /\ Waits(r.c, "abierta")
           /\ \A s \in r.out : s \in Segment /\ s.port = port /\ s.flags = {"syn"} /\ s.data = <<>>
<1> DEFINE d == Nuevo(port)
           f == {"syn"}
           n == <<>>
<1>1. d = Nuevo(port) OBVIOUS
<1> HIDE DEF d
<1>2. /\ ConnFields(d) /\ d.estado = "syn" /\ d.local = port /\ d.snd_una = Iss /\ d.rcv_nxt = 0
      /\ d.ventana_otro = 0 /\ d.buz = <<>> /\ d.lector = FALSE /\ d.envio = FALSE
      /\ d.fin_recibido = FALSE /\ d.cerrar_pedido = FALSE /\ d.morir_en = Never
    BY <1>1, NuevoFields
<1> DEFINE q == Start(d)
<1>3. ResultFields(q) /\ q.c = d /\ q.out = {} BY DEF Start, ResultFields
<1>4. r = Volar(q, f, n) BY DEF d
<1>5. n = <<>> /\ Len(n) = 0 /\ f = {"syn"} OBVIOUS
<1> HIDE DEF q, f, n
<1>6. ConnFields(q.c) BY <1>2, <1>3
<1>7. Volado(q, f, n, r) BY <1>3, <1>4, <1>6, VolarIs
<1>8. /\ ConnFields(r.c) /\ r.c.estado = "syn" /\ r.c.local = port /\ r.c.snd_una = Iss
      /\ r.c.snd_nxt = Plus(Iss, Flown(f, n)) /\ r.c.rcv_nxt = 0 /\ r.c.ventana_otro = 0
      /\ r.c.vuelo = [flags |-> f, seq |-> Iss, data |-> n] /\ r.c.reintentos = 0 /\ r.c.buz = <<>>
      /\ r.c.fin_recibido = FALSE /\ r.c.ventana_dicha = Hueco(d) /\ r.c.lector = FALSE
      /\ r.c.envio = FALSE /\ r.c.cerrar_pedido = FALSE /\ r.c.morir_en = Never
    BY <1>2, <1>3, <1>7 DEF Volado
<1>9. r.out = {[port |-> port, flags |-> f, seq |-> Iss, ack |-> IF "ack" \in f THEN 0 ELSE 0,
                win |-> Hueco(d), data |-> n]}
    BY <1>2, <1>3, <1>7 DEF Volado
<1>10. Flown(f, n) = 1 BY <1>5 DEF Flown
<1>11. Iss \in 0 .. SeqSpace - 1 /\ 0 \in 0 .. SeqSpace - 1 /\ 1 \in 0 .. SeqSpace - 1 /\ Mss \in Nat /\ Buz \in Nat
       /\ Retries \in Nat
    BY Constants
<1>12. Plus(Iss, 1) \in 0 .. SeqSpace - 1 BY <1>11, PlusIs
<1>13. Hueco(d) \in Nat
    <2>1. d.buz \in Seq(Nat) /\ Len(d.buz) = 0 BY <1>2
    <2> QED BY <2>1, <1>11, HuecoType
<1>14. f \in SUBSET {"syn", "ack", "fin", "rst"} /\ n \in Seq(Nat) /\ Len(n) <= Mss BY <1>5, <1>11, EmptyIs
<1>15. r.c.buz \in Seq(Nat) /\ Len(r.c.buz) <= Buz BY <1>8, <1>11, EmptyIs
<1>16. /\ r.c.vuelo.flags = f /\ r.c.vuelo.seq = Iss /\ r.c.vuelo.data = n BY <1>8
<1>17. 0 \in 0 .. Retries /\ 0 \in Nat BY <1>11
<1>18. ConnType(r.c) BY <1>8, <1>10, <1>11, <1>12, <1>13, <1>14, <1>15, <1>16, <1>17 DEF ConnType
<1>19. Opening(r.c, <<>>, 0, <<>>) BY <1>5, <1>8, <1>10 DEF Opening
<1>20. Sending(r.c, 0, <<>>) /\ Closing(r.c, <<>>) /\ Over(r.c) /\ Reading(r.c, <<>>)
    BY <1>8 DEF Sending, Closing, Over, Reading
<1>21. Sound(r.c, <<>>, 0, <<>>) BY <1>18, <1>19, <1>20 DEF Sound
<1>22. Patient(r.c) BY <1>8 DEF Patient
<1>23. \A s \in r.out : s \in Segment /\ s.port = port /\ s.flags = {"syn"} /\ s.data = <<>>
    <2>1. (IF "ack" \in f THEN 0 ELSE 0) = 0 OBVIOUS
    <2>2. PICK s : s = [port |-> port, flags |-> f, seq |-> Iss, ack |-> 0, win |-> Hueco(d), data |-> n] OBVIOUS
    <2>3. r.out = {s} BY <2>1, <2>2, <1>9
    <2>4. s \in Segment BY <2>2, <1>11, <1>13, <1>14 DEF Segment
    <2>5. s.port = port /\ s.flags = f /\ s.data = n BY <2>2
    <2> QED BY <2>3, <2>4, <2>5, <1>5
<1>24. Waits(r.c, "abierta") BY <1>8 DEF Waits
<1> QED BY <1>8, <1>21, <1>22, <1>23, <1>24

\* tcp_abrir_pedido() uses a port nobody has used.
LEMMA AbrirKeeps ==
    ASSUME NetInv, ConnInv, PeerInv, AirInv, mail \in Seq(Message), Asked("abrir") > 0, Asked("abrir") \in Nat,
           Abrir, peer' = peer, toUs' = toUs
    PROVE  /\ ConnInv' /\ PeerInv' /\ AirInv' /\ mail' \in Seq(Message)
           /\ given' = given /\ told' = told /\ sent' = sent
           /\ tcp_efimero' \in {tcp_efimero, tcp_efimero + 1}
           /\ \A i \in DOMAIN mail : \E j \in DOMAIN mail' : mail'[j] = mail[i]
           /\ (\E k \in Slots : conex'[k].estado = "syn") \/ (prog.alive => Answered')
<1> DEFINE free == {k \in Slots : conex[k].estado = "libre"}
           r == Volar(Start(Nuevo(tcp_efimero + 1)), {"syn"}, <<>>)
<1>1. CASE ~ip \/ free = {}
    <2>1. Reply(<<Says("error", 0, <<>>)>>) /\ UNCHANGED <<server, toPeer>> BY <1>1 DEF Abrir
    <2>2. conex' = conex /\ tcp_efimero' = tcp_efimero /\ given' = given /\ told' = told /\ sent' = sent
          /\ toPeer' = toPeer
        BY <2>1 DEF server
    <2>3. ConnInv' BY <2>2 DEF ConnInv
    <2>4. PeerInv' BY <2>2 DEF PeerInv, Closed
    <2>5. AirInv' BY <2>2 DEF AirInv, Closed
    <2>6. Says("error", 0, <<>>) \in Message /\ Says("error", 0, <<>>).type = "error" BY SaysMessage
    <2> DEFINE e == Says("error", 0, <<>>)
               more == <<e>>
    <2>7. more \in Seq(Message) /\ Len(more) = 1 /\ more[1] = e /\ 1 \in 1 .. Len(more) BY <2>6
    <2>8. Reply(more) BY <2>1
    <2> HIDE DEF more
    <2>9. /\ mail' \in Seq(Message)
          /\ \A i \in DOMAIN mail : \E j \in DOMAIN mail' : mail'[j] = mail[i]
          /\ prog.alive => \A i \in 1 .. Len(more) : \E j \in DOMAIN mail' : mail'[j] = more[i]
        BY <2>7, <2>8, MailGrows
    <2>10. prog.alive => Answered' BY <2>6, <2>7, <2>9 DEF Answered
    <2> QED BY <2>2, <2>3, <2>4, <2>5, <2>9, <2>10
<1>2. CASE ip /\ free # {}
    <2>0. /\ tcp_efimero' = tcp_efimero + 1 /\ conex' = [conex EXCEPT ![First(free)] = r.c]
          /\ Leave(r.out) /\ UNCHANGED <<given, told, sent, mail>>
        BY <1>2 DEF Abrir, Nuevo
    <2>1. PICK k : k = First(free) OBVIOUS
    <2>2. k \in Slots /\ conex[k].estado = "libre" BY <1>2, <2>1, FirstIs
    <2>3. conex[k] = NoConn /\ conex[k].local = 0 BY <2>2, FreeIs
    <2>4. PICK port : port = tcp_efimero + 1 OBVIOUS
    <2>5. tcp_efimero \in Nat /\ tcp_efimero + 1 <= MaxOpens /\ MaxOpens \in Nat
        <3>1. tcp_efimero \in Nat /\ tcp_efimero + Asked("abrir") <= MaxOpens BY DEF NetInv
        <3> QED BY <3>1, Constants
    <2>6. port \in Ports /\ port > tcp_efimero /\ port # 0 BY <2>4, <2>5 DEF Ports
    <2>7. PICK R : R = Volar(Start(Nuevo(port)), {"syn"}, <<>>) OBVIOUS
    <2>8. R = r BY <2>4, <2>7
    <2> HIDE DEF r
    <2>9. /\ Sound(R.c, <<>>, 0, <<>>) /\ Patient(R.c) /\ R.c.local = port /\ R.c.estado = "syn"
          /\ \A s \in R.out : s \in Segment /\ s.port = port /\ s.flags = {"syn"} /\ s.data = <<>>
        BY <2>6, <2>7, NuevoIs
    <2>10. conex' = [conex EXCEPT ![k] = R.c] /\ DOMAIN conex = Slots BY <2>0, <2>1, <2>8 DEF ConnInv
    <2>11. conex'[k] = R.c /\ (\A j \in Slots : j # k => conex'[j] = conex[j]) /\ DOMAIN conex' = Slots
        BY <2>2, <2>10
    <2>12. given[port] = <<>> /\ told[port] = 0 /\ sent[port] = <<>> BY <2>6 DEF NetInv
    <2>13. ASSUME NEW j \in Slots, conex[j].local # 0 PROVE conex[j].local <= tcp_efimero /\ conex[j].local # port
        <3>1. conex[j] # NoConn BY <2>13 DEF NoConn
        <3>2. conex[j].local \in Ports BY <3>1, FreeIs
        <3>3. conex[j].local <= tcp_efimero BY <3>1 DEF ConnInv
        <3> QED BY <3>2, <3>3, <2>4, <2>5 DEF Ports
    <2>14. ConnInv'
        <3>1. ASSUME NEW j \in Slots
              PROVE \/ conex'[j] = NoConn
                    \/ /\ conex'[j].local <= tcp_efimero'
                       /\ Sound(conex'[j], given'[conex'[j].local], told'[conex'[j].local], sent'[conex'[j].local])
                       /\ Patient(conex'[j])
            <4>1. CASE j = k
                <5>1. conex'[j] = R.c BY <4>1, <2>11
                <5>2. given'[port] = <<>> /\ told'[port] = 0 /\ sent'[port] = <<>> BY <2>0, <2>12
                <5>3. port <= tcp_efimero' BY <2>0, <2>4, <2>5
                <5> QED BY <5>1, <5>2, <5>3, <2>9
            <4>2. CASE j # k /\ conex[j] = NoConn BY <4>2, <2>11
            <4>3. CASE j # k /\ conex[j] # NoConn
                <5>1. conex'[j] = conex[j] BY <4>3, <2>11
                <5>2. /\ conex[j].local <= tcp_efimero
                      /\ Sound(conex[j], given[conex[j].local], told[conex[j].local], sent[conex[j].local])
                      /\ Patient(conex[j])
                    BY <4>3 DEF ConnInv
                <5>3. conex[j].local \in Ports BY <4>3, FreeIs
                <5>4. conex[j].local <= tcp_efimero' BY <5>2, <5>3, <2>0, <2>5 DEF Ports
                <5>5. given' = given /\ told' = told /\ sent' = sent BY <2>0
                <5> QED BY <5>1, <5>2, <5>4, <5>5
            <4> QED BY <4>1, <4>2, <4>3
        <3>2. ASSUME NEW i \in Slots, NEW j \in Slots, conex'[i].local = conex'[j].local, conex'[i].local # 0
              PROVE i = j
            <4>1. CASE i = k /\ j = k BY <4>1
            <4>2. CASE i # k /\ j # k
                <5>1. conex'[i] = conex[i] /\ conex'[j] = conex[j] BY <4>2, <2>11
                <5> QED BY <5>1, <3>2 DEF ConnInv
            <4>3. CASE i = k /\ j # k
                <5>1. conex'[i].local = port /\ conex'[j] = conex[j] BY <4>3, <2>9, <2>11
                <5> QED BY <5>1, <3>2, <2>13
            <4>4. CASE i # k /\ j = k
                <5>1. conex'[j].local = port /\ conex'[i] = conex[i] BY <4>4, <2>9, <2>11
                <5> QED BY <5>1, <3>2, <2>13
            <4> QED BY <4>1, <4>2, <4>3, <4>4
        <3> QED BY <3>1, <3>2, <2>11 DEF ConnInv
    <2>15. ASSUME NEW p \in Ports PROVE Closed(p) => Closed(p)'
        <3>1. ASSUME Closed(p) PROVE Closed(p)'
            <4>1. p <= tcp_efimero /\ p \in Nat BY <3>1 DEF Closed, Ports
            <4>2. p # port /\ p <= tcp_efimero' BY <4>1, <2>0, <2>4, <2>5
            <4>3. ASSUME NEW j \in Slots, conex'[j].local = p PROVE conex'[j].estado \in {"cerrando", "muerta"}
                <5>1. j # k BY <4>3, <4>2, <2>9, <2>11
                <5> QED BY <5>1, <4>3, <3>1, <2>11 DEF Closed
            <4> QED BY <4>2, <4>3 DEF Closed
        <3> QED BY <3>1
    <2>16. \A p \in Ports : Later(p)
        <3>1. ASSUME NEW p \in Ports PROVE Later(p)
            <4>1. sent[p] \in Seq(Nat) BY DEF NetInv
            <4>2. sent'[p] = sent[p] \o <<>> BY <2>0, <4>1, NothingMore
            <4>3. <<>> \in Seq(Nat) BY EmptyIs
            <4> QED BY <4>2, <4>3, <2>15 DEF Later
        <3> QED BY <3>1
    <2>17. \A p \in Ports : told'[p] <= Len(peer[p].got) BY <2>0, LenOfGot
    <2>18. \A s \in toPeer' : s \in toPeer \/ (s \in Segment /\ FromUs(s, sent'[s.port], Closed(s.port)'))
        <3>1. \A s \in toPeer' : s \in toPeer \/ s \in R.out BY <2>0, <2>8, Leaves
        <3>2. \A s \in R.out : s \in Segment /\ FromUs(s, sent'[s.port], Closed(s.port)') BY <2>9 DEF FromUs
        <3> QED BY <3>1, <3>2
    <2>19. PeerInv' /\ AirInv' BY <2>16, <2>17, <2>18, AirGrows
    <2>20. conex'[k].estado = "syn" BY <2>9, <2>11
    <2> QED BY <2>0, <2>2, <2>14, <2>19, <2>20
<1> QED BY <1>1, <1>2
\* What a step of the server leaves, if no port has put more than f bytes in flight.
Served(f) ==
    /\ ConnInv' /\ PeerInv' /\ AirInv' /\ mail' \in Seq(Message)
    /\ DOMAIN given' = Ports /\ DOMAIN told' = Ports /\ DOMAIN sent' = Ports
    /\ \A p \in Ports : /\ given'[p] \in Seq(Nat) /\ sent'[p] \in Seq(Nat) /\ told'[p] \in Nat
                        /\ p > tcp_efimero' => given'[p] = <<>> /\ sent'[p] = <<>> /\ told'[p] = 0
                        /\ Len(sent'[p]) <= Len(sent[p]) + f
    /\ Answered => Answered'

\* Any handler of a connection is a service.
LEMMA DoesServes ==
    ASSUME NetInv, ConnInv, PeerInv, AirInv, Len(inbox) \in Nat, mail \in Seq(Message),
           NEW k \in Slots, conex[k] # NoConn, NEW f \in 0 .. Mss, NEW b, Fronts(b, k, f),
           NEW r, Fits(r, b), Patient(r.c), Does(k, r), tcp_efimero' = tcp_efimero,
           peer' = peer, toUs' \subseteq toUs
    PROVE  /\ Served(f)
           /\ conex' = [conex EXCEPT ![k] = r.c]
           /\ prog.alive /\ (TellsOpen(r) \/ TellsError(r)) => Answered'
<1>1. /\ ConnInv' /\ PeerInv' /\ AirInv'
      /\ Grew(b, k, r)
      /\ \A p \in Ports : given'[p] \in Seq(Nat) /\ sent'[p] \in Seq(Nat) /\ told'[p] \in Nat
      /\ \A p \in Ports : Len(sent'[p]) <= Len(sent[p]) + f
      /\ \A p \in Ports : p > tcp_efimero => given'[p] = given[p] /\ told'[p] = told[p] /\ sent'[p] = sent[p]
    <2>1. ConnInv' /\ PeerInv' /\ AirInv' /\ Grew(b, k, r) /\ GrownBy(f) BY DoesAir
    <2> QED BY <2>1 DEF GrownBy
<1>2. DOMAIN given = Ports /\ DOMAIN told = Ports /\ DOMAIN sent = Ports BY DEF NetInv
<1>3. DOMAIN given' = Ports /\ DOMAIN told' = Ports /\ DOMAIN sent' = Ports BY <1>1, <1>2 DEF Grew
<1>4. \A p \in Ports : p > tcp_efimero' => given'[p] = <<>> /\ sent'[p] = <<>> /\ told'[p] = 0
    BY <1>1 DEF NetInv
<1>5. r.says \in Seq(Saying) BY DEF Fits
<1> DEFINE more == From(k, r.says)
<1>6. /\ more \in Seq(Message) /\ Len(more) = Len(r.says)
      /\ \A i \in 1 .. Len(r.says) : more[i].type = r.says[i].type
    BY <1>5, FromType
<1>7. Reply(more) BY DEF Does
<1> HIDE DEF more
<1>8. /\ mail' \in Seq(Message)
      /\ \A i \in DOMAIN mail : \E j \in DOMAIN mail' : mail'[j] = mail[i]
      /\ prog.alive => \A i \in 1 .. Len(more) : \E j \in DOMAIN mail' : mail'[j] = more[i]
    BY <1>6, <1>7, MailGrows
<1>9. Answered => Answered' BY <1>8, StillAnswered
<1>10. ASSUME prog.alive, TellsOpen(r) \/ TellsError(r) PROVE Answered'
    <2>1. PICK i \in 1 .. Len(r.says) : r.says[i].type \in {"abierta", "error", "alarma"}
        BY <1>10 DEF TellsOpen, TellsError
    <2>2. i \in 1 .. Len(more) /\ more[i].type \in {"abierta", "error", "alarma"} BY <2>1, <1>6
    <2>3. PICK j \in DOMAIN mail' : mail'[j] = more[i] BY <2>2, <1>8, <1>10
    <2> QED BY <2>2, <2>3 DEF Answered
<1>11. conex' = [conex EXCEPT ![k] = r.c] BY <1>1 DEF Grew
<1> QED BY <1>1, <1>3, <1>4, <1>8, <1>9, <1>10, <1>11 DEF Served

\* So is attending a request.
LEMMA AttendServes ==
    ASSUME TcpInv, Attend
    PROVE  /\ Served(Mss) /\ tcp_efimero' \in {tcp_efimero, tcp_efimero + 1}
           /\ tcp_efimero' = tcp_efimero + 1 => Head(inbox).op = "abrir"
           /\ Head(inbox).op = "abrir" => (\E k \in Slots : conex'[k].estado = "syn") \/ (prog.alive => Answered')
<1> USE DEF TcpInv
<1> DEFINE q == Head(inbox)
<1>1. inbox # <<>> /\ inbox' = Tail(inbox) /\ inbox \in Seq(Requests) /\ mail \in Seq(Message)
    BY DEF Attend, InboxMail
<1>2. card' = card /\ ip' = ip /\ prog' = prog /\ peer' = peer /\ toUs' = toUs BY DEF Attend, net
<1>3. /\ q \in Requests /\ Asked("abrir") \in Nat /\ Len(inbox) \in Nat /\ Len(inbox) # 0
      /\ (q.op = "abrir" => Asked("abrir")' + 1 <= Asked("abrir")) /\ Asked("abrir")' \in Nat
      /\ (q.op # "abrir" => q.slot # 0) /\ (q.op = "enviar" => q.data # <<>>)
    BY <1>1, InboxTail
<1>4. Mss \in Nat /\ 0 \in 0 .. Mss /\ Mss \in 0 .. Mss BY Constants
<1>5. DOMAIN given = Ports /\ DOMAIN told = Ports /\ DOMAIN sent = Ports
      /\ tcp_efimero \in Nat
      /\ \A p \in Ports : /\ given[p] \in Seq(Nat) /\ sent[p] \in Seq(Nat) /\ told[p] \in Nat
                          /\ p > tcp_efimero => given[p] = <<>> /\ sent[p] = <<>> /\ told[p] = 0
    BY DEF NetInv
<1>6. \A p \in Ports : Len(sent[p]) <= Len(sent[p]) + Mss
    <2>1. \A p \in Ports : Len(sent[p]) \in Nat BY <1>5
    <2> QED BY <2>1, <1>4
<1>7. CASE q.op = "abrir"
    <2>1. Abrir BY <1>7 DEF Attend
    <2>2. Asked("abrir") > 0 BY <1>3, <1>7
    <2>3. /\ ConnInv' /\ PeerInv' /\ AirInv' /\ mail' \in Seq(Message)
          /\ given' = given /\ told' = told /\ sent' = sent
          /\ tcp_efimero' \in {tcp_efimero, tcp_efimero + 1}
          /\ \A i \in DOMAIN mail : \E j \in DOMAIN mail' : mail'[j] = mail[i]
          /\ (\E k \in Slots : conex'[k].estado = "syn") \/ (prog.alive => Answered')
        BY <2>1, <2>2, <1>1, <1>2, <1>3, AbrirKeeps
    <2>4. \A p \in Ports : p > tcp_efimero' => p > tcp_efimero BY <2>3, <1>5 DEF Ports
    <2>5. Answered => Answered' BY <2>3, StillAnswered
    <2>6. Served(Mss) BY <2>3, <2>4, <2>5, <1>5, <1>6 DEF Served
    <2> QED BY <2>3, <2>6, <1>7
<1>8. CASE q.op # "abrir" /\ conex[q.slot].estado = "libre"
    <2>1. UNCHANGED <<server, toPeer, mail>> BY <1>8 DEF Attend
    <2>2. conex' = conex /\ tcp_efimero' = tcp_efimero /\ given' = given /\ told' = told /\ sent' = sent
          /\ toPeer' = toPeer /\ mail' = mail
        BY <2>1 DEF server
    <2>3. ConnInv' BY <2>2 DEF ConnInv
    <2>4. PeerInv' BY <2>2, <1>2 DEF PeerInv, Closed
    <2>5. AirInv' BY <2>2, <1>2 DEF AirInv, Closed
    <2>6. Answered => Answered' BY <2>2 DEF Answered
    <2>7. Served(Mss) BY <2>2, <2>3, <2>4, <2>5, <2>6, <1>1, <1>5, <1>6 DEF Served
    <2>8. tcp_efimero' # tcp_efimero + 1 BY <2>2, <1>5
    <2> QED BY <2>2, <2>7, <2>8, <1>8
<1>9. CASE q.op # "abrir" /\ conex[q.slot].estado # "libre"
    <2>1. Does(q.slot, Pide(conex[q.slot], q)) /\ tcp_efimero' = tcp_efimero BY <1>9 DEF Attend
    <2>2. PICK k : k = q.slot OBVIOUS
    <2>3. k \in Slots BY <2>2, <1>3, <1>9, Constants DEF Slots, Requests
    <2>4. conex[k] # NoConn BY <2>2, <2>3, <1>9, FreeIs
    <2>5. PICK b : b = Of(k, Mss) OBVIOUS
    <2>6. Fronts(b, k, Mss) BY <2>3, <2>4, <2>5, <1>3, <1>4, OfIs
    <2>7. PICK r : r = Pide(conex[k], q) OBVIOUS
    <2>8. Fits(r, b) /\ Patient(r.c)
        <3>1. PICK c : c = conex[k] OBVIOUS
        <3>2. Base(b) BY <2>6 DEF Fronts
        <3>3. Sound(c, b.g, b.t, b.w) BY <2>6, <3>1 DEF Fronts
        <3>4. b.e = c.estado BY <2>6, <3>1 DEF Fronts
        <3>5. c.local = b.p BY <2>6, <3>1 DEF Fronts
        <3>6. Patient(c) BY <2>6, <3>1 DEF Fronts
        <3>7. b.f = Mss BY <2>6 DEF Fronts
        <3>8. b.w = sent[b.p] /\ b.p \in Ports BY <2>6 DEF Fronts
        <3>9. Len(b.w) + Mss <= Budget(MaxEvents) BY <3>8, <1>3, SentFits
        <3>10. r = Pide(c, q) BY <2>7, <3>1
        <3> QED BY <3>2, <3>3, <3>4, <3>5, <3>6, <3>7, <3>9, <3>10, <1>3, <1>9, PideFits
    <2>9. Does(k, r) BY <2>1, <2>2, <2>7
    <2>10. toUs' \subseteq toUs BY <1>2
    <2>11. Served(Mss) BY <2>1, <2>3, <2>4, <2>6, <2>8, <2>9, <2>10, <1>1, <1>2, <1>3, <1>4, DoesServes
    <2>12. tcp_efimero' # tcp_efimero + 1 BY <2>1, <1>5
    <2> QED BY <2>1, <2>11, <2>12, <1>9
<1> QED BY <1>7, <1>8, <1>9

\* Attending a request keeps the invariant.
LEMMA AttendKeeps ==
    ASSUME TcpInv, Attend
    PROVE  TcpInv'
<1> USE DEF TcpInv
<1>1. /\ Served(Mss) /\ tcp_efimero' \in {tcp_efimero, tcp_efimero + 1}
      /\ tcp_efimero' = tcp_efimero + 1 => Head(inbox).op = "abrir"
      /\ Head(inbox).op = "abrir" => (\E k \in Slots : conex'[k].estado = "syn") \/ (prog.alive => Answered')
    BY AttendServes
<1>2. inbox # <<>> /\ inbox' = Tail(inbox) /\ inbox \in Seq(Requests) /\ mail \in Seq(Message)
    BY DEF Attend, InboxMail
<1>3. card' = card /\ ip' = ip /\ troubles' = troubles /\ events' = events /\ prog' = prog
    BY DEF Attend, net
<1>4. /\ inbox' \in Seq(Requests)
      /\ Asked("abrir") \in Nat /\ Asked("abrir")' \in Nat
      /\ Asked("abrir")' <= Asked("abrir")
      /\ Head(inbox).op = "abrir" => Asked("abrir")' + 1 <= Asked("abrir")
      /\ Budget(Len(inbox)) = Budget(Len(inbox')) + Mss /\ Budget(Len(inbox')) \in Nat
      /\ \A i \in 1 .. Len(inbox') : /\ inbox'[i].op # "abrir" => inbox'[i].slot # 0
                                     /\ inbox'[i].op = "enviar" => inbox'[i].data # <<>>
      /\ inbox' # <<>> => inbox'[Len(inbox')] = inbox[Len(inbox)]
      /\ inbox' = <<>> => inbox[Len(inbox)] = Head(inbox)
    BY <1>2, InboxTail
<1>5. NetInv'
    <2>1. tcp_efimero' \in Nat /\ tcp_efimero' + Asked("abrir")' <= MaxOpens
        <3>1. tcp_efimero \in Nat /\ tcp_efimero + Asked("abrir") <= MaxOpens /\ MaxOpens \in Nat
            BY Constants DEF NetInv
        <3> QED BY <3>1, <1>1, <1>4
    <2>2. ASSUME NEW p \in Ports PROVE Len(sent'[p]) + Budget(Len(inbox')) <= Budget(events')
        <3>1. Len(sent'[p]) <= Len(sent[p]) + Mss /\ sent'[p] \in Seq(Nat) BY <1>1 DEF Served
        <3>2. sent[p] \in Seq(Nat) /\ Len(sent[p]) + Budget(Len(inbox)) <= Budget(events) /\ events \in 0 .. MaxEvents
            BY DEF NetInv
        <3>3. Budget(events) \in Nat /\ Mss \in Nat
            <4>1. events \in Nat BY <3>2, Constants
            <4> QED BY <4>1, BudgetGrows, Constants
        <3>4. Len(sent'[p]) \in Nat /\ Len(sent[p]) \in Nat BY <3>1, <3>2
        <3> QED BY <3>1, <3>2, <3>3, <3>4, <1>3, <1>4
    <2>3. /\ card' \in BOOLEAN /\ ip' \in BOOLEAN /\ (ip' => card')
          /\ troubles' \in 0 .. MaxTroubles /\ events' \in 0 .. MaxEvents
        BY <1>3 DEF NetInv
    <2> QED BY <2>1, <2>2, <2>3, <1>1 DEF NetInv, Served
<1>6. ConnInv' /\ PeerInv' /\ AirInv' BY <1>1 DEF Served
<1>7. ProgInv' BY <1>3, <1>4 DEF ProgInv
<1>8. InboxMail' BY <1>1, <1>4 DEF InboxMail, Served
<1>9. Awaited'
    <2>1. Answered => Answered' BY <1>1 DEF Served
    <2>2. prog.waits = "abierta" => prog.alive BY DEF ProgInv
    <2>3. inbox' = <<>> /\ inbox[Len(inbox)].op = "abrir" =>
                    (\E k \in Slots : conex'[k].estado = "syn") \/ (prog.waits = "abierta" => Answered')
        BY <2>2, <1>1, <1>4
    <2> QED BY <2>1, <2>3, <1>2, <1>3, <1>4, StillAwaited
<1> QED BY <1>5, <1>6, <1>7, <1>8, <1>9

\* So does any service that takes no request.
LEMMA ServedKeeps ==
    ASSUME TcpInv, Served(0), inbox' = inbox, prog' = prog, tcp_efimero' = tcp_efimero,
           card' = card, ip' = ip, troubles' = troubles, events' = events,
           \A k \in Slots : conex[k].estado = "syn" => conex'[k].estado = "syn" \/ (prog.waits = "abierta" => Answered')
    PROVE  TcpInv'
<1> USE DEF TcpInv
<1>1. Asked("abrir")' = Asked("abrir") BY DEF Asked
<1>2. NetInv'
    <2>1. tcp_efimero' \in Nat /\ tcp_efimero' + Asked("abrir")' <= MaxOpens BY <1>1 DEF NetInv
    <2>2. ASSUME NEW p \in Ports PROVE Len(sent'[p]) + Budget(Len(inbox')) <= Budget(events')
        <3>1. Len(sent'[p]) <= Len(sent[p]) + 0 /\ sent'[p] \in Seq(Nat) BY DEF Served
        <3>2. sent[p] \in Seq(Nat) /\ Len(sent[p]) + Budget(Len(inbox)) <= Budget(events) /\ events \in 0 .. MaxEvents
            BY DEF NetInv
        <3>3. Budget(events) \in Nat /\ Budget(Len(inbox)) \in Nat
            <4>1. events \in Nat BY <3>2, Constants
            <4>2. Len(inbox) \in Nat BY DEF InboxMail
            <4> QED BY <4>1, <4>2, BudgetGrows
        <3>4. Len(sent'[p]) \in Nat /\ Len(sent[p]) \in Nat BY <3>1, <3>2
        <3> QED BY <3>1, <3>2, <3>3, <3>4
    <2>3. /\ card' \in BOOLEAN /\ ip' \in BOOLEAN /\ (ip' => card')
          /\ troubles' \in 0 .. MaxTroubles /\ events' \in 0 .. MaxEvents
        BY DEF NetInv
    <2> QED BY <2>1, <2>2, <2>3 DEF NetInv, Served
<1>3. ConnInv' /\ PeerInv' /\ AirInv' BY DEF Served
<1>4. ProgInv' BY DEF ProgInv
<1>5. InboxMail' BY DEF InboxMail, Served
<1>6. Awaited'
    <2>1. Answered => Answered' BY DEF Served
    <2> QED BY <2>1, StillAwaited
<1> QED BY <1>2, <1>3, <1>4, <1>5, <1>6

\* A sequence number is one.
LEMMA PlusType ==
    ASSUME NEW a \in Int, NEW n \in Int
    PROVE  Plus(a, n) \in 0 .. SeqSpace - 1
BY Constants DEF Plus

\* The RST of nobody.
LEMMA RstSueltoIs ==
    ASSUME NEW s \in Segment
    PROVE  \A t \in RstSuelto(s) : t \in Segment /\ "rst" \in t.flags
<1>1. /\ s.port \in Ports /\ s.seq \in 0 .. SeqSpace - 1 /\ s.ack \in 0 .. SeqSpace - 1 /\ s.data \in Seq(Nat)
    BY DEF Segment
<1>2. 0 \in 0 .. SeqSpace - 1 /\ SeqSpace \in Nat BY Constants
<1>3. <<>> \in Seq(Nat) BY EmptyIs
<1>4. Plus(s.seq, Len(s.data) + IF "syn" \in s.flags THEN 1 ELSE 0) \in 0 .. SeqSpace - 1
    <2>1. s.seq \in Int /\ Len(s.data) + (IF "syn" \in s.flags THEN 1 ELSE 0) \in Int BY <1>1, <1>2
    <2> QED BY <2>1, PlusType
<1>5. PICK u : u = [port |-> s.port, flags |-> {"rst"}, seq |-> s.ack, ack |-> 0, win |-> 0, data |-> <<>>]
    OBVIOUS
<1>6. PICK v : v = [port |-> s.port, flags |-> {"rst", "ack"}, seq |-> 0, win |-> 0, data |-> <<>>,
                    ack |-> Plus(s.seq, Len(s.data) + IF "syn" \in s.flags THEN 1 ELSE 0)]
    OBVIOUS
<1>7. u \in Segment /\ "rst" \in u.flags BY <1>1, <1>2, <1>3, <1>5 DEF Segment
<1>8. v \in Segment /\ "rst" \in v.flags BY <1>1, <1>2, <1>3, <1>4, <1>6 DEF Segment
<1>9. RstSuelto(s) \subseteq {u, v} BY <1>5, <1>6, Zenon DEF RstSuelto
<1> QED BY <1>7, <1>8, <1>9

\* A segment arrives.
LEMMA LlegaKeeps ==
    ASSUME TcpInv, NEW s \in toUs, Llega(s)
    PROVE  TcpInv'
<1> USE DEF TcpInv
<1>1. card' = card /\ ip' = ip /\ troubles' = troubles /\ events' = events /\ prog' = prog /\ peer' = peer
      /\ inbox' = inbox /\ toUs' \subseteq toUs
    BY DEF Llega, net
<1>2. s \in Segment /\ FromPeer(s, peer[s.port]) BY DEF AirInv
<1>3. inbox \in Seq(Requests) /\ mail \in Seq(Message) /\ Len(inbox) \in Nat BY DEF InboxMail
<1>4. 0 \in 0 .. Mss /\ \A n \in Nat : n <= n + 0 BY Constants
<1>5. DOMAIN given = Ports /\ DOMAIN told = Ports /\ DOMAIN sent = Ports
      /\ \A p \in Ports : /\ given[p] \in Seq(Nat) /\ sent[p] \in Seq(Nat) /\ told[p] \in Nat
                          /\ p > tcp_efimero => given[p] = <<>> /\ sent[p] = <<>> /\ told[p] = 0
    BY DEF NetInv
<1> DEFINE mine == {k \in Slots : conex[k].estado # "libre" /\ conex[k].local = s.port}
<1>6. CASE mine = {}
    <2>1. Leave(RstSuelto(s)) /\ UNCHANGED <<server, mail>> BY <1>6 DEF Llega
    <2>2. conex' = conex /\ tcp_efimero' = tcp_efimero /\ given' = given /\ told' = told /\ sent' = sent /\ mail' = mail
        BY <2>1 DEF server
    <2>3. ConnInv' BY <2>2 DEF ConnInv
    <2>4. PeerInv' BY <2>2, <1>1 DEF PeerInv, Closed
    <2>5. \A p \in Ports : Closed(p)' = Closed(p) BY <2>2 DEF Closed
    <2>6. \A t \in toPeer' : t \in toPeer \/ t \in RstSuelto(s) BY <2>1, Leaves
    <2>7. ASSUME NEW t \in toPeer' PROVE t \in Segment /\ FromUs(t, sent'[t.port], Closed(t.port)')
        <3>1. CASE t \in toPeer
            <4>1. t \in Segment /\ FromUs(t, sent[t.port], Closed(t.port)) BY <3>1 DEF AirInv
            <4>2. Closed(t.port)' = Closed(t.port) BY <4>1, <2>5 DEF Segment
            <4> QED BY <4>1, <4>2, <2>2
        <3>2. CASE t \in RstSuelto(s)
            <4>1. t \in Segment /\ "rst" \in t.flags BY <3>2, <1>2, RstSueltoIs
            <4> QED BY <4>1 DEF FromUs
        <3> QED BY <3>1, <3>2, <2>6
    <2>8. AirInv' BY <2>7, <1>1 DEF AirInv
    <2>9. Answered => Answered' BY <2>2 DEF Answered
    <2>10. \A p \in Ports : Len(sent[p]) <= Len(sent[p]) + 0
        <3>1. \A p \in Ports : Len(sent[p]) \in Nat BY <1>5
        <3> QED BY <3>1
    <2>11. Served(0) BY <2>2, <2>3, <2>4, <2>8, <2>9, <2>10, <1>3, <1>5 DEF Served
    <2> QED BY <2>2, <2>11, <1>1, ServedKeeps
<1>7. CASE mine # {}
    <2>1. PICK k : k = First(mine) OBVIOUS
    <2>2. k \in mine BY <1>7, <2>1, FirstIs
    <2>3. k \in Slots /\ conex[k].estado # "libre" /\ conex[k].local = s.port BY <2>2
    <2>4. conex[k] # NoConn BY <2>3, FreeIs
    <2>5. PICK b : b = Of(k, 0) OBVIOUS
    <2>6. Fronts(b, k, 0) BY <2>3, <2>4, <2>5, <1>3, <1>4, OfIs
    <2>7. PICK r : r = TcpLlego(conex[k], s) OBVIOUS
    <2>8. Does(k, r) /\ tcp_efimero' = tcp_efimero BY <1>7, <2>1, <2>7 DEF Llega
    <2>9. Fits(r, b) /\ Patient(r.c)
          /\ (conex[k].estado = "syn" => r.c.estado = "syn" \/ TellsOpen(r) \/ TellsError(r))
        <3>1. PICK c : c = conex[k] OBVIOUS
        <3>2. Base(b) BY <2>6 DEF Fronts
        <3>3. Sound(c, b.g, b.t, b.w) BY <2>6, <3>1 DEF Fronts
        <3>4. b.e = c.estado BY <2>6, <3>1 DEF Fronts
        <3>5. c.local = b.p BY <2>6, <3>1 DEF Fronts
        <3>6. Patient(c) BY <2>6, <3>1 DEF Fronts
        <3>7. PICK q : q = peer[s.port] OBVIOUS
        <3>8. Peering(b, q) BY <2>3, <2>6, <3>7 DEF Fronts
        <3>9. FromPeer(s, q) BY <1>2, <3>7
        <3>10. r = TcpLlego(c, s) BY <2>7, <3>1
        <3>11. Fits(r, b) /\ Patient(r.c)
               /\ (c.estado = "syn" => r.c.estado = "syn" \/ TellsOpen(r) \/ TellsError(r))
            BY <3>2, <3>3, <3>4, <3>5, <3>6, <3>8, <3>9, <3>10, <1>2, LlegoFits
        <3> QED BY <3>1, <3>11
    <2>10. Served(0) /\ conex' = [conex EXCEPT ![k] = r.c]
           /\ (prog.alive /\ (TellsOpen(r) \/ TellsError(r)) => Answered')
        BY <2>3, <2>4, <2>6, <2>8, <2>9, <1>1, <1>3, <1>4, DoesServes
    <2>11. prog.waits = "abierta" => prog.alive BY DEF ProgInv
    <2>12. \A j \in Slots : conex[j].estado = "syn" => conex'[j].estado = "syn" \/ (prog.waits = "abierta" => Answered')
        <3>1. DOMAIN conex = Slots BY DEF ConnInv
        <3>2. conex'[k] = r.c /\ \A j \in Slots : j # k => conex'[j] = conex[j] BY <3>1, <2>3, <2>10
        <3> QED BY <3>2, <2>9, <2>10, <2>11
    <2> QED BY <2>8, <2>10, <2>12, <1>1, ServedKeeps
<1> QED BY <1>6, <1>7

\* Induction over the natural numbers, with a set instead of a predicate.
LEMMA SetInduction ==
    ASSUME NEW A, 0 \in A, \A n \in Nat : n \in A => n + 1 \in A
    PROVE  Nat \subseteq A
<1> SUFFICES ASSUME Nat \ A # {} PROVE FALSE
    OBVIOUS
<1> DEFINE T == Nat \ A
<1>1. T \subseteq Nat /\ T # {} OBVIOUS
<1> HIDE DEF T
<1>2. \E m \in T : \A j \in T : ~(<<j, m>> \in OpToRel(<, Nat))
    BY <1>1, WFMin, NatLessThanWellFounded
<1>3. PICK m \in T : \A j \in T : ~(<<j, m>> \in OpToRel(<, Nat)) BY <1>2
<1>4. ASSUME NEW j \in T, j < m PROVE FALSE
    <2>1. j \in Nat /\ m \in Nat BY <1>1
    <2>2. <<j, m>> \in OpToRel(<, Nat) BY <1>4, <2>1, Zenon DEF OpToRel
    <2> QED BY <2>2, <1>3
<1>5. m \in Nat /\ m \notin A BY DEF T
<1>6. m # 0 BY <1>5
<1>7. m - 1 \in Nat /\ m - 1 < m /\ (m - 1) + 1 = m BY <1>5, <1>6
<1>8. m - 1 \in A BY <1>4, <1>7 DEF T
<1> QED BY <1>5, <1>7, <1>8

Rung(r, g) == g[0] = <<>> /\ \A i \in 1 .. Conex : g[i] = g[i - 1] \o From(i, r[i].says)

SecondDone(r) ==
    /\ conex' = [k \in Slots |-> r[k].c] /\ Leave(UNION {r[k].out : k \in Slots})
    /\ \E g : Rung(r, g) /\ Reply(g[Conex])

Following(before, k, r) == before \o From(k, r[k].says)

\* The answers of a second, slot after slot.
LEMMA SecondIs ==
    ASSUME CadaSegundo, NEW r, r = [k \in Slots |-> Second(conex[k], prog.alive)]
    PROVE  SecondDone(r)
<1> DEFINE R == [k \in Slots |-> Second(conex[k], prog.alive)]
           Chain(g, n) == g = [k \in 0 .. n |-> IF k = 0 THEN <<>> ELSE Following(g[k - 1], k, R)]
           A == {n \in Nat : \E g : Chain(g, n)}
           says == CHOOSE h : Chain(h, Conex)
<1>1. conex' = [k \in Slots |-> R[k].c] /\ Leave(UNION {R[k].out : k \in Slots}) BY DEF CadaSegundo
<1>2. Reply(says[Conex]) BY DEF CadaSegundo, Following
<1> HIDE DEF says, R
<1>3. 0 \in A
    <2>1. Chain([k \in 0 .. 0 |-> <<>>], 0) OBVIOUS
    <2> QED BY <2>1
<1>4. ASSUME NEW n \in Nat, n \in A PROVE n + 1 \in A
    <2>1. PICK g : Chain(g, n) BY <1>4
    <2> DEFINE h == [k \in 0 .. n + 1 |-> IF k <= n THEN g[k] ELSE Following(g[n], n + 1, R)]
    <2>2. \A k \in 0 .. n : h[k] = g[k] /\ g[k] = IF k = 0 THEN <<>> ELSE Following(g[k - 1], k, R)
        BY <2>1
    <2>3. h[n + 1] = Following(g[n], n + 1, R) /\ h[n] = g[n] OBVIOUS
    <2>4. \A k \in 0 .. n + 1 : h[k] = IF k = 0 THEN <<>> ELSE Following(h[k - 1], k, R)
        <3> HIDE DEF h
        <3>1. ASSUME NEW k \in 0 .. n + 1 PROVE h[k] = IF k = 0 THEN <<>> ELSE Following(h[k - 1], k, R)
            <4>1. CASE k = 0 BY <4>1, <2>2
            <4>2. CASE k \in 1 .. n
                <5>1. k \in 0 .. n /\ k - 1 \in 0 .. n /\ k # 0 BY <4>2
                <5>2. h[k] = g[k] /\ h[k - 1] = g[k - 1] /\ g[k] = Following(g[k - 1], k, R) BY <5>1, <2>2
                <5> QED BY <5>1, <5>2
            <4>3. CASE k = n + 1
                <5>1. k - 1 = n /\ k # 0 BY <4>3
                <5> QED BY <5>1, <4>3, <2>3
            <4> QED BY <4>1, <4>2, <4>3
        <3> QED BY <3>1
    <2>5. h = [k \in 0 .. n + 1 |-> h[k]] OBVIOUS
    <2> HIDE DEF h
    <2>6. Chain(h, n + 1) BY <2>4, <2>5
    <2> QED BY <2>6
<1>5. \E g : Chain(g, Conex)
    <2> HIDE DEF A
    <2>1. Conex \in A BY <1>3, <1>4, SetInduction, Constants
    <2> QED BY <2>1 DEF A
<1>6. Chain(says, Conex) BY <1>5 DEF says
<1>7. Conex \in Nat BY Constants
<1>8. says[0] = <<>> BY <1>6, <1>7
<1>9. \A i \in 1 .. Conex : says[i] = Following(says[i - 1], i, R) BY <1>6, <1>7
<1>10. r = R BY DEF R
<1> QED BY <1>1, <1>2, <1>8, <1>9, <1>10 DEF Rung, Following, SecondDone

WordsJoin(x, y, z) ==
    /\ Len(z) = Len(x) + Len(y) /\ Len(x) \in Nat /\ Len(y) \in Nat
    /\ \A i \in 1 .. Len(x) : z[i] = x[i]
    /\ \A i \in 1 .. Len(y) : z[Len(x) + i] = y[i]

\* Every word of two sequences is in them joined.
LEMMA JoinedWords ==
    ASSUME NEW S, NEW x \in Seq(S), NEW y \in Seq(S), NEW z, z = x \o y
    PROVE  z \in Seq(S) /\ WordsJoin(x, y, z)
BY DEF WordsJoin

\* All that the connections say in a second reaches the mail.
LEMMA RungMail ==
    ASSUME NEW r, NEW g, Rung(r, g), \A k \in Slots : r[k].says \in Seq(Saying)
    PROVE  /\ g[Conex] \in Seq(Message)
           /\ \A k \in Slots : \A i \in 1 .. Len(r[k].says) :
                 \E j \in 1 .. Len(g[Conex]) : g[Conex][j].type = r[k].says[i].type
<1> DEFINE Has(n) == \A k \in Slots : k <= n => \A i \in 1 .. Len(r[k].says) :
                        \E j \in 1 .. Len(g[n]) : g[n][j].type = r[k].says[i].type
           A == {n \in Nat : n <= Conex => g[n] \in Seq(Message) /\ Has(n)}
<1>0. Conex \in Nat BY Constants
<1>1. 0 \in A
    <2>1. g[0] \in Seq(Message)
        <3>1. g[0] = <<>> BY DEF Rung
        <3> QED BY <3>1, EmptyIs
    <2>2. Has(0) BY DEF Slots
    <2> QED BY <2>1, <2>2
<1>2. ASSUME NEW n \in Nat, n \in A PROVE n + 1 \in A
    <2> SUFFICES ASSUME n + 1 <= Conex PROVE g[n + 1] \in Seq(Message) /\ Has(n + 1)
        OBVIOUS
    <2>1. g[n] \in Seq(Message) /\ Has(n) BY <1>0, <1>2
    <2>2. n + 1 \in Slots /\ n + 1 \in 1 .. Conex /\ (n + 1) - 1 = n BY <1>0 DEF Slots
    <2> DEFINE x == g[n]
               y == From(n + 1, r[n + 1].says)
    <2>3. g[n + 1] = x \o y BY <2>2 DEF Rung
    <2>4. /\ y \in Seq(Message) /\ Len(y) = Len(r[n + 1].says)
          /\ \A i \in 1 .. Len(r[n + 1].says) : y[i].type = r[n + 1].says[i].type
        BY <2>2, FromType
    <2>5. x \in Seq(Message) BY <2>1
    <2>6. Has(n) BY <2>1
    <2> DEFINE z == x \o y
    <2> HIDE DEF y
    <2>7. /\ z \in Seq(Message) /\ Len(z) = Len(x) + Len(y) /\ Len(x) \in Nat /\ Len(y) \in Nat
          /\ (\A i \in 1 .. Len(x) : z[i] = x[i])
          /\ \A i \in 1 .. Len(y) : z[Len(x) + i] = y[i]
        <3>1. z = x \o y OBVIOUS
        <3> HIDE DEF x, z
        <3>2. z \in Seq(Message) /\ WordsJoin(x, y, z) BY <3>1, <2>4, <2>5, JoinedWords
        <3> QED BY <3>2 DEF WordsJoin
    <2>8. g[n + 1] = z BY <2>3
    <2> HIDE DEF z
    <2>9. ASSUME NEW k \in Slots, k <= n + 1, NEW i \in 1 .. Len(r[k].says)
          PROVE \E j \in 1 .. Len(z) : z[j].type = r[k].says[i].type
        <3>1. CASE k <= n
            <4>1. PICK j \in 1 .. Len(x) : x[j].type = r[k].says[i].type BY <3>1, <2>6
            <4>2. j \in 1 .. Len(z) /\ z[j] = x[j] BY <2>7
            <4> QED BY <4>1, <4>2
        <3>2. CASE k = n + 1
            <4>1. i \in 1 .. Len(y) /\ y[i].type = r[k].says[i].type BY <3>2, <2>4
            <4>2. Len(x) + i \in 1 .. Len(z) /\ z[Len(x) + i] = y[i] BY <4>1, <2>7
            <4> QED BY <4>1, <4>2
        <3>3. k <= n \/ k = n + 1 BY <2>9, <1>0 DEF Slots
        <3> QED BY <3>1, <3>2, <3>3
    <2>10. Has(n + 1) BY <2>8, <2>9
    <2> QED BY <2>7, <2>8, <2>10
<1>3. Conex \in A
    <2> HIDE DEF A
    <2> QED BY <1>0, <1>1, <1>2, SetInduction
<1>4. g[Conex] \in Seq(Message) /\ Has(Conex) BY <1>0, <1>3
<1>5. \A k \in Slots : k <= Conex BY <1>0 DEF Slots
<1> QED BY <1>4, <1>5

\* The clock does nothing to a free slot.
LEMMA TickFree ==
    ASSUME NEW alive, NEW X, X = Tick(NoConn, alive)
    PROVE  X.c = NoConn /\ X.out = {} /\ X.says = <<>>
<1>1. NoConn.estado = "libre" BY DEF NoConn
<1>2. X = Start(NoConn) BY <1>1 DEF Tick
<1> QED BY <1>2 DEF Start

\* Nor does it without a card.
LEMMA SecondFree ==
    ASSUME NEW alive, NEW X, X = Second(NoConn, alive)
    PROVE  X.c = NoConn /\ X.out = {} /\ X.says = <<>>
<1>1. CASE card
    <2>1. X = Tick(NoConn, alive) BY <1>1 DEF Second
    <2> QED BY <2>1, TickFree
<1>2. CASE ~card
    <2>1. NoConn.morir_en = Never BY DEF NoConn
    <2>2. X = Start([NoConn EXCEPT !.morir_en = Never]) BY <1>2, <2>1 DEF Second
    <2>3. [NoConn EXCEPT !.morir_en = Never] = NoConn
        <3> DEFINE d == [NoConn EXCEPT !.morir_en = Never]
        <3>1. NoConn = [f \in DOMAIN NoConn |-> NoConn[f]] BY DEF NoConn
        <3>2. d = [f \in DOMAIN NoConn |-> IF f = "morir_en" THEN Never ELSE NoConn[f]] OBVIOUS
        <3>3. \A f \in DOMAIN NoConn : (IF f = "morir_en" THEN Never ELSE NoConn[f]) = NoConn[f] BY <2>1
        <3> HIDE DEF d
        <3>4. d = NoConn BY <3>1, <3>2, <3>3
        <3> QED BY <3>4 DEF d
    <2> QED BY <2>2, <2>3 DEF Start
<1> QED BY <1>1, <1>2

\* A second of the clock of one connection, with the card or without it.
LEMMA SecondFits ==
    ASSUME NEW c, NEW b, Base(b), Sound(c, b.g, b.t, b.w), b.e = c.estado, c.local = b.p, Patient(c),
           NEW alive \in BOOLEAN, NEW X, X = Second(c, alive)
    PROVE  /\ Ticked(X, b) /\ (c.estado = "syn" /\ alive => X.c.estado = "syn" \/ TellsError(X))
           /\ alive => Passes(X, c, b)
<1>1. CASE card
    <2>1. X = Tick(c, alive) BY <1>1 DEF Second
    <2> QED BY <2>1, TickFits
<1>2. CASE ~card
    <2> DEFINE left == IF c.morir_en \in {Never, 1} THEN c.morir_en ELSE c.morir_en - 1
               d == Older(c, left)
    <2>1. left \in {Never} \cup 1 .. 10
        <3>1. c.morir_en \in {Never} \cup 1 .. 10 BY DEF Sound, ConnType
        <3> QED BY <3>1 DEF Never
    <2>2. c.estado = "syn" => left = Never BY DEF Sound, Opening
    <2>3. X = Start(d) /\ d = Older(c, left) BY <1>2 DEF Second, Older
    <2> HIDE DEF left, d
    <2>4. /\ Sound(d, b.g, b.t, b.w) /\ d.estado = c.estado /\ d.local = c.local
          /\ Patient(d) /\ Like(c, d)
        BY <2>1, <2>2, <2>3, OlderIs
    <2>5. d.local = b.p /\ (b.e \in Shut => d.estado \in Shut) BY <2>4
    <2>6. Fits(X, b) /\ AtStart(X, d) BY <2>3, <2>4, <2>5, StartFits
    <2>7. /\ X.c = d /\ X.gave = <<>> /\ X.in = 0 /\ X.flew = <<>> /\ X.out = {}
          /\ X.says = <<>>
        BY <2>6 DEF AtStart
    <2>8. Ticked(X, b) BY <2>4, <2>6, <2>7, FitsTicked
    <2>9. Passes(X, c, b)
        <3>1. Goes(X, X) BY DEF Goes
        <3> QED BY <3>1, <2>4, <2>6, <2>7, PassesOn
    <2> QED BY <2>4, <2>7, <2>8, <2>9
<1> QED BY <1>1, <1>2

\* A second of the clock, over all the connections.
LEMMA CadaSegundoKeeps ==
    ASSUME TcpInv, CadaSegundo
    PROVE  TcpInv'
<1> USE DEF TcpInv
<1>1. card' = card /\ ip' = ip /\ troubles' = troubles /\ events' = events /\ prog' = prog /\ peer' = peer
      /\ inbox' = inbox /\ toUs' = toUs /\ tcp_efimero' = tcp_efimero
      /\ given' = given /\ told' = told /\ sent' = sent
    BY DEF CadaSegundo, net
<1>2. inbox \in Seq(Requests) /\ mail \in Seq(Message) /\ Len(inbox) \in Nat BY DEF InboxMail
<1>3. 0 \in 0 .. Mss BY Constants
<1>4. PICK r : r = [k \in Slots |-> Second(conex[k], prog.alive)] OBVIOUS
<1>5. /\ conex' = [k \in Slots |-> r[k].c] /\ Leave(UNION {r[k].out : k \in Slots})
      /\ \E g : Rung(r, g) /\ Reply(g[Conex])
    <2>1. SecondDone(r) BY <1>4, SecondIs
    <2> QED BY <2>1 DEF SecondDone
<1>6. PICK g : Rung(r, g) /\ Reply(g[Conex]) BY <1>5
<1>7. ASSUME NEW k \in Slots, conex[k] = NoConn PROVE r[k].c = NoConn /\ r[k].out = {} /\ r[k].says = <<>>
    <2>1. PICK alive : alive = prog.alive OBVIOUS
    <2>2. r[k] = Second(NoConn, alive) BY <1>4, <1>7, <2>1
    <2> QED BY <2>2, SecondFree
<1>8. ASSUME NEW k \in Slots, conex[k] # NoConn
      PROVE  \E b : Fronts(b, k, 0) /\ Ticked(r[k], b)
                    /\ (conex[k].estado = "syn" /\ prog.alive => r[k].c.estado = "syn" \/ TellsError(r[k]))
    <2>1. PICK b : b = Of(k, 0) OBVIOUS
    <2>2. Fronts(b, k, 0) BY <1>2, <1>3, <1>8, <2>1, OfIs
    <2>3. PICK c : c = conex[k] OBVIOUS
    <2>4. PICK alive \in BOOLEAN : alive = prog.alive BY DEF ProgInv
    <2>5. PICK X : X = Second(c, alive) OBVIOUS
    <2>6. r[k] = X BY <1>4, <2>3, <2>4, <2>5
    <2>7. Base(b) BY <2>2 DEF Fronts
    <2>8. Sound(c, b.g, b.t, b.w) BY <2>2, <2>3 DEF Fronts
    <2>9. b.e = c.estado BY <2>2, <2>3 DEF Fronts
    <2>10. c.local = b.p BY <2>2, <2>3 DEF Fronts
    <2>11. Patient(c) BY <2>2, <2>3 DEF Fronts
    <2>12. Ticked(X, b) /\ (c.estado = "syn" /\ alive => X.c.estado = "syn" \/ TellsError(X))
        BY <2>5, <2>7, <2>8, <2>9, <2>10, <2>11, SecondFits
    <2> QED BY <2>2, <2>3, <2>4, <2>6, <2>12
<1>9. ASSUME NEW k \in Slots
      PROVE  /\ \A s \in r[k].out : s \in Segment /\ FromUs(s, sent[s.port], Closed(s.port))
             /\ r[k].says \in Seq(Saying)
             /\ \/ r[k].c = NoConn
                \/ /\ r[k].c.local = conex[k].local /\ conex[k] # NoConn
                   /\ Sound(r[k].c, given[conex[k].local], told[conex[k].local], sent[conex[k].local])
                   /\ Patient(r[k].c) /\ conex[k].local <= tcp_efimero
                   /\ conex[k].estado \in Shut => r[k].c.estado \in Shut
             /\ (conex[k].estado = "syn" /\ prog.alive => r[k].c.estado = "syn" \/ TellsError(r[k]))
    <2>1. CASE conex[k] = NoConn
        <3>1. r[k].c = NoConn /\ r[k].out = {} /\ r[k].says = <<>> BY <2>1, <1>7
        <3>2. conex[k].estado # "syn" BY <2>1 DEF NoConn
        <3>3. <<>> \in Seq(Saying) BY EmptyIs
        <3> QED BY <3>1, <3>2, <3>3
    <2>2. CASE conex[k] # NoConn
        <3>1. PICK b : Fronts(b, k, 0) /\ Ticked(r[k], b)
                       /\ (conex[k].estado = "syn" /\ prog.alive => r[k].c.estado = "syn" \/ TellsError(r[k]))
            BY <2>2, <1>8
        <3>2. b.p = conex[k].local /\ b.g = given[b.p] /\ b.t = told[b.p] /\ b.w = sent[b.p] /\ b.e = conex[k].estado
              /\ (Closed(b.p) <=> b.e \in Shut) /\ b.p <= tcp_efimero
            BY <3>1 DEF Fronts
        <3>3. /\ r[k].says \in Seq(Saying)
              /\ \A s \in r[k].out : s \in Segment /\ s.port = b.p /\ FromUs(s, b.w, b.e \in Shut)
              /\ \/ r[k].c = NoConn
                 \/ /\ Sound(r[k].c, b.g, b.t, b.w) /\ r[k].c.local = b.p /\ Patient(r[k].c)
                    /\ b.e \in Shut => r[k].c.estado \in Shut
            BY <3>1 DEF Ticked
        <3>6. \A s \in r[k].out : FromUs(s, b.w, Closed(b.p))
            <4>1. CASE b.e \in Shut
                <5>1. PICK yes \in BOOLEAN : yes = TRUE OBVIOUS
                <5>2. (b.e \in Shut) = yes BY <5>1, <4>1
                <5>3. Closed(b.p) = yes BY <3>2, <4>1, <5>1, ClosedType
                <5> QED BY <5>2, <5>3, <3>3
            <4>2. CASE b.e \notin Shut
                <5>1. PICK no \in BOOLEAN : no = FALSE OBVIOUS
                <5>2. (b.e \in Shut) = no BY <5>1, <4>2
                <5>3. Closed(b.p) = no BY <3>2, <4>2, <5>1, ClosedType
                <5> QED BY <5>2, <5>3, <3>3
            <4> QED BY <4>1, <4>2
        <3>7. \A s \in r[k].out : s \in Segment /\ FromUs(s, sent[s.port], Closed(s.port)) BY <3>2, <3>3, <3>6
        <3> QED BY <2>2, <3>1, <3>2, <3>3, <3>7
    <2> QED BY <2>1, <2>2
<1>10. DOMAIN conex' = Slots /\ \A k \in Slots : conex'[k] = r[k].c BY <1>5
<1>11. ConnInv'
    <2>1. ASSUME NEW k \in Slots
          PROVE \/ conex'[k] = NoConn
                \/ /\ conex'[k].local <= tcp_efimero'
                   /\ Sound(conex'[k], given'[conex'[k].local], told'[conex'[k].local], sent'[conex'[k].local])
                   /\ Patient(conex'[k])
        BY <1>1, <1>9, <1>10
    <2>2. ASSUME NEW i \in Slots, NEW j \in Slots, conex'[i].local = conex'[j].local, conex'[i].local # 0
          PROVE i = j
        <3>1. NoConn.local = 0 BY DEF NoConn
        <3>2. conex'[i].local = conex[i].local BY <2>2, <3>1, <1>9, <1>10
        <3>3. conex'[j].local = conex[j].local BY <2>2, <3>1, <1>9, <1>10
        <3> QED BY <2>2, <3>2, <3>3 DEF ConnInv
    <2> QED BY <2>1, <2>2, <1>10 DEF ConnInv
<1>12. ASSUME NEW p \in Ports PROVE Closed(p) => Closed(p)'
    <2>1. ASSUME Closed(p), NEW j \in Slots, conex'[j].local = p PROVE conex'[j].estado \in {"cerrando", "muerta"}
        <3>1. NoConn.local = 0 /\ p # 0 BY DEF NoConn, Ports
        <3>2. conex'[j] # NoConn BY <2>1, <3>1
        <3>3. conex[j].local = p /\ (conex[j].estado \in Shut => conex'[j].estado \in Shut)
            BY <2>1, <3>2, <1>9, <1>10
        <3> QED BY <2>1, <3>3 DEF Closed, Shut
    <2>2. Closed(p) => p <= tcp_efimero' BY <1>1 DEF Closed
    <2> QED BY <2>1, <2>2 DEF Closed
<1>13. \A p \in Ports : Later(p)
    <2>1. ASSUME NEW p \in Ports PROVE Later(p)
        <3>1. sent[p] \in Seq(Nat) BY DEF NetInv
        <3>2. sent'[p] = sent[p] \o <<>> BY <1>1, <3>1, NothingMore
        <3>3. <<>> \in Seq(Nat) BY EmptyIs
        <3> QED BY <3>2, <3>3, <1>12 DEF Later
    <2> QED BY <2>1
<1>14. \A p \in Ports : told'[p] <= Len(peer[p].got) BY <1>1, LenOfGot
<1>15. \A s \in toPeer' : s \in toPeer \/ (s \in Segment /\ FromUs(s, sent'[s.port], Closed(s.port)'))
    <2>1. \A s \in toPeer' : s \in toPeer \/ s \in UNION {r[k].out : k \in Slots} BY <1>5, Leaves
    <2>2. ASSUME NEW k \in Slots, NEW s \in r[k].out PROVE s \in Segment /\ FromUs(s, sent'[s.port], Closed(s.port)')
        <3>1. s \in Segment /\ FromUs(s, sent[s.port], Closed(s.port)) BY <1>9
        <3>2. s.port \in Ports /\ s.data \in Seq(Nat) BY <3>1 DEF Segment
        <3>3. sent[s.port] \in Seq(Nat) /\ <<>> \in Seq(Nat) BY <3>2, EmptyIs DEF NetInv
        <3>4. Closed(s.port) \in BOOLEAN /\ Closed(s.port)' \in BOOLEAN BY ClosedType
        <3>5. Closed(s.port) => Closed(s.port)' BY <3>2, <1>12
        <3> DEFINE n == <<>>
        <3>6. n = <<>> OBVIOUS
        <3> HIDE DEF n
        <3>7. FromUs(s, sent[s.port] \o n, Closed(s.port)') BY <3>1, <3>2, <3>3, <3>4, <3>5, <3>6, FromUsGrows
        <3>8. sent[s.port] \o n = sent[s.port] BY <3>3, <3>6, NothingMore
        <3> QED BY <3>1, <3>7, <3>8, <1>1
    <2> QED BY <2>1, <2>2
<1>16. PeerInv' /\ AirInv' BY <1>1, <1>13, <1>14, <1>15, AirGrows
<1>17. /\ g[Conex] \in Seq(Message)
       /\ \A k \in Slots : \A i \in 1 .. Len(r[k].says) :
             \E j \in 1 .. Len(g[Conex]) : g[Conex][j].type = r[k].says[i].type
    BY <1>6, <1>9, RungMail
<1>18. PICK more : more = g[Conex] OBVIOUS
<1>19. /\ mail' \in Seq(Message)
       /\ \A i \in DOMAIN mail : \E j \in DOMAIN mail' : mail'[j] = mail[i]
       /\ prog.alive => \A i \in 1 .. Len(more) : \E j \in DOMAIN mail' : mail'[j] = more[i]
    BY <1>2, <1>6, <1>17, <1>18, MailGrows
<1>20. Answered => Answered' BY <1>19, StillAnswered
<1>21. \A k \in Slots : prog.alive /\ TellsError(r[k]) => Answered'
    <2>1. ASSUME NEW k \in Slots, prog.alive, TellsError(r[k]) PROVE Answered'
        <3>1. PICK i \in 1 .. Len(r[k].says) : r[k].says[i].type = "error" BY <2>1 DEF TellsError
        <3>2. PICK j \in 1 .. Len(more) : more[j].type = "error" BY <3>1, <1>17, <1>18
        <3>3. PICK m \in DOMAIN mail' : mail'[m] = more[j] BY <3>2, <2>1, <1>19
        <3> QED BY <3>2, <3>3 DEF Answered
    <2> QED BY <2>1
<1>22. \A k \in Slots : conex[k].estado = "syn" => conex'[k].estado = "syn" \/ (prog.waits = "abierta" => Answered')
    <2>1. prog.waits = "abierta" => prog.alive BY DEF ProgInv
    <2> QED BY <2>1, <1>9, <1>10, <1>21
<1>23. Served(0)
    <2>1. \A p \in Ports : given[p] \in Seq(Nat) /\ sent[p] \in Seq(Nat) /\ told[p] \in Nat
                           /\ (p > tcp_efimero => given[p] = <<>> /\ sent[p] = <<>> /\ told[p] = 0)
        BY DEF NetInv
    <2>2. \A p \in Ports : Len(sent[p]) <= Len(sent[p]) + 0
        <3>1. \A p \in Ports : Len(sent[p]) \in Nat BY <2>1
        <3> QED BY <3>1
    <2>3. DOMAIN given = Ports /\ DOMAIN told = Ports /\ DOMAIN sent = Ports BY DEF NetInv
    <2> QED BY <2>1, <2>2, <2>3, <1>1, <1>11, <1>16, <1>19, <1>20 DEF Served
<1> QED BY <1>1, <1>22, <1>23, ServedKeeps
ProgOK(g) ==
    /\ ProgFields(g)
    /\ g.alive \in BOOLEAN /\ g.h \in 0 .. Conex /\ g.said \in Nat
    /\ g.waits \in {"none", "abierta", "hueco", "datos"}
    /\ g.waits # "none" => g.alive

\* What is known of the program.
LEMMA ProgIs ==
    ASSUME ProgInv PROVE ProgOK(prog)
BY DEF ProgInv, ProgOK

\* It waits for something else.
LEMMA ProgWaits ==
    ASSUME NEW g, ProgOK(g), NEW w \in {"none", "abierta", "hueco", "datos"}, w # "none" => g.alive,
           NEW X, X = [g EXCEPT !.waits = w]
    PROVE  ProgOK(X) /\ X.waits = w /\ X.alive = g.alive
BY DEF ProgOK, ProgFields

\* It has another connection.
LEMMA ProgHas ==
    ASSUME NEW g, ProgOK(g), NEW h \in 0 .. Conex, NEW X, X = [g EXCEPT !.h = h]
    PROVE  ProgOK(X) /\ X.waits = g.waits
BY DEF ProgOK, ProgFields

\* It believes more sent.
LEMMA ProgSaid ==
    ASSUME NEW g, ProgOK(g), NEW n \in Nat, NEW X, X = [g EXCEPT !.said = n]
    PROVE  ProgOK(X) /\ X.waits = g.waits
BY DEF ProgOK, ProgFields

\* What else it has does not matter here.
LEMMA ProgOther ==
    ASSUME NEW g, ProgOK(g), NEW v
    PROVE  /\ ProgOK([g EXCEPT !.got = v]) /\ [g EXCEPT !.got = v].waits = g.waits
           /\ ProgOK([g EXCEPT !.over = v]) /\ [g EXCEPT !.over = v].waits = g.waits
           /\ ProgOK([g EXCEPT !.rung = v]) /\ [g EXCEPT !.rung = v].waits = g.waits
           /\ ProgOK([g EXCEPT !.cut = v]) /\ [g EXCEPT !.cut = v].waits = g.waits
           /\ ProgOK([g EXCEPT !.late = v]) /\ [g EXCEPT !.late = v].waits = g.waits
<1>1. ProgOK([g EXCEPT !.got = v]) /\ [g EXCEPT !.got = v].waits = g.waits BY DEF ProgOK, ProgFields
<1>2. ProgOK([g EXCEPT !.over = v]) /\ [g EXCEPT !.over = v].waits = g.waits BY DEF ProgOK, ProgFields
<1>3. ProgOK([g EXCEPT !.rung = v]) /\ [g EXCEPT !.rung = v].waits = g.waits BY DEF ProgOK, ProgFields
<1>4. ProgOK([g EXCEPT !.cut = v]) /\ [g EXCEPT !.cut = v].waits = g.waits BY DEF ProgOK, ProgFields
<1>5. ProgOK([g EXCEPT !.late = v]) /\ [g EXCEPT !.late = v].waits = g.waits BY DEF ProgOK, ProgFields
<1> QED BY <1>1, <1>2, <1>3, <1>4, <1>5

\* What the program and the card do does not touch the server or the streams.
LEMMA ServerStays ==
    ASSUME ConnInv, PeerInv, AirInv, UNCHANGED <<server, peer, toUs, toPeer>>
    PROVE  /\ ConnInv' /\ PeerInv' /\ AirInv'
           /\ conex' = conex /\ tcp_efimero' = tcp_efimero /\ given' = given /\ told' = told /\ sent' = sent
<1>1. /\ conex' = conex /\ tcp_efimero' = tcp_efimero /\ given' = given /\ told' = told /\ sent' = sent
      /\ peer' = peer /\ toUs' = toUs /\ toPeer' = toPeer
    BY DEF server
<1>2. ConnInv' BY <1>1 DEF ConnInv
<1>3. PeerInv' BY <1>1 DEF PeerInv, Closed
<1>4. AirInv' BY <1>1 DEF AirInv, Closed
<1> QED BY <1>1, <1>2, <1>3, <1>4

\* Calls and troubles are counted, and nothing else happens to the net.
LEMMA NetStays ==
    ASSUME NetInv, inbox \in Seq(Requests), UNCHANGED <<server, inbox>>, card' \in BOOLEAN, ip' \in BOOLEAN, ip' => card',
           troubles' \in 0 .. MaxTroubles, events' \in {events, events + 1}, events' <= MaxEvents
    PROVE  NetInv'
<1>1. tcp_efimero' = tcp_efimero /\ given' = given /\ told' = told /\ sent' = sent /\ inbox' = inbox
    BY DEF server
<1>2. Asked("abrir")' = Asked("abrir") BY <1>1 DEF Asked
<1>3. events \in Nat /\ MaxEvents \in Nat BY Constants DEF NetInv
<1>4. events' \in 0 .. MaxEvents BY <1>3
<1>5. Budget(events) <= Budget(events') /\ Budget(events) \in Nat /\ Budget(events') \in Nat
    <2>1. events' \in Nat /\ events <= events' BY <1>3
    <2> QED BY <2>1, <1>3, BudgetOrder, BudgetGrows
<1>6. ASSUME NEW p \in Ports PROVE Len(sent'[p]) + Budget(Len(inbox')) <= Budget(events')
    <2>1. sent[p] \in Seq(Nat) /\ Len(sent[p]) + Budget(Len(inbox)) <= Budget(events) BY DEF NetInv
    <2>2. Len(sent[p]) \in Nat /\ Budget(Len(inbox)) \in Nat
        <3>1. Len(inbox) \in Nat OBVIOUS
        <3>2. Budget(Len(inbox)) \in Nat BY <3>1, BudgetGrows
        <3>3. Len(sent[p]) \in Nat BY <2>1
        <3> QED BY <3>2, <3>3
    <2> QED BY <2>1, <2>2, <1>1, <1>5
<1>7. tcp_efimero' \in Nat /\ tcp_efimero' + Asked("abrir")' <= MaxOpens BY <1>1, <1>2 DEF NetInv
<1>8. DOMAIN given' = Ports /\ DOMAIN told' = Ports /\ DOMAIN sent' = Ports
      /\ \A p \in Ports : /\ given'[p] \in Seq(Nat) /\ sent'[p] \in Seq(Nat) /\ told'[p] \in Nat
                          /\ p > tcp_efimero' => given'[p] = <<>> /\ sent'[p] = <<>> /\ told'[p] = 0
    BY <1>1 DEF NetInv
<1> QED BY <1>4, <1>6, <1>7, <1>8 DEF NetInv

\* A call puts one request in the port.
LEMMA AskKeeps ==
    ASSUME TcpInv, Idle, NEW op \in {"abrir", "enviar", "leer", "cerrar"}, NEW slot \in 0 .. Conex,
           NEW data \in Seq(Nat), NEW waits \in {"none", "abierta", "hueco", "datos"}, Ask(op, slot, data, waits),
           op # "abrir" => slot # 0, op = "enviar" => data # <<>>,
           op = "abrir" => tcp_efimero + Asked("abrir") < MaxOpens, waits = "abierta" => op = "abrir"
    PROVE  TcpInv'
<1> USE DEF TcpInv
<1>1. prog.alive /\ events < MaxEvents /\ events' = events + 1 BY DEF Idle
<1>2. PICK q : q = [op |-> op, slot |-> slot, data |-> data] OBVIOUS
<1>3. q \in Requests /\ q.op = op /\ q.slot = slot /\ q.data = data BY <1>2 DEF Requests
<1>4. inbox' = Append(inbox, q) BY <1>2 DEF Ask
<1>5. inbox \in Seq(Requests) /\ mail \in Seq(Message) BY DEF InboxMail
<1>6. /\ inbox' \in Seq(Requests) /\ Len(inbox') = Len(inbox) + 1 /\ Len(inbox) \in Nat /\ inbox' # <<>>
      /\ inbox'[Len(inbox')] = q /\ \A i \in 1 .. Len(inbox) : inbox'[i] = inbox[i]
    BY <1>3, <1>4, <1>5
<1>7. card' = card /\ ip' = ip /\ troubles' = troubles /\ mail' = mail BY DEF Ask
<1>8. UNCHANGED <<server, peer, toUs, toPeer>> BY DEF Ask
<1>9. /\ ConnInv' /\ PeerInv' /\ AirInv'
      /\ conex' = conex /\ tcp_efimero' = tcp_efimero /\ given' = given /\ told' = told /\ sent' = sent
    BY <1>8, ServerStays
<1>10. NetInv'
    <2>1. events \in Nat /\ MaxEvents \in Nat /\ tcp_efimero \in Nat /\ MaxOpens \in Nat
          /\ tcp_efimero + Asked("abrir") <= MaxOpens
        BY Constants DEF NetInv
    <2>2. events' \in 0 .. MaxEvents BY <1>1, <2>1
    <2>3. Asked("abrir") = Cardinality(OfKind(inbox, "abrir")) BY <1>5, AskedIs
    <2>4. Asked("abrir")' = Cardinality(OfKind(Append(inbox, q), "abrir"))
        <3>1. DOMAIN inbox' = 1 .. Len(inbox') BY <1>6
        <3> QED BY <3>1, <1>4, Zenon DEF Asked, OfKind
    <2>5. Asked("abrir")' = Asked("abrir") + IF op = "abrir" THEN 1 ELSE 0 BY <2>3, <2>4, <1>3, <1>5, OfKindAppend
    <2>6. Asked("abrir") \in Nat BY <2>3, <1>5, OfKindFinite
    <2>7. tcp_efimero' + Asked("abrir")' <= MaxOpens
        <3>1. CASE op = "abrir"
            <4>1. Asked("abrir")' = Asked("abrir") + 1 BY <2>5, <3>1
            <4>2. tcp_efimero + Asked("abrir") < MaxOpens BY <3>1
            <4> QED BY <4>1, <4>2, <2>1, <2>6, <1>9
        <3>2. CASE op # "abrir"
            <4>1. Asked("abrir")' = Asked("abrir") BY <2>5, <2>6, <3>2
            <4> QED BY <4>1, <2>1, <1>9
        <3> QED BY <3>1, <3>2
    <2>8. ASSUME NEW p \in Ports PROVE Len(sent'[p]) + Budget(Len(inbox')) <= Budget(events')
        <3>1. sent[p] \in Seq(Nat) /\ Len(sent[p]) + Budget(Len(inbox)) <= Budget(events) BY DEF NetInv
        <3>2. Len(sent[p]) \in Nat BY <3>1
        <3>3. Budget(Len(inbox')) = Budget(Len(inbox)) + Mss /\ Budget(Len(inbox)) \in Nat BY <1>6, BudgetGrows
        <3>4. Budget(events') = Budget(events) + Mss /\ Budget(events) \in Nat BY <1>1, <2>1, BudgetGrows
        <3>5. Mss \in Nat BY Constants
        <3> QED BY <3>1, <3>2, <3>3, <3>4, <3>5, <1>9
    <2>9. DOMAIN given' = Ports /\ DOMAIN told' = Ports /\ DOMAIN sent' = Ports
          /\ \A p \in Ports : /\ given'[p] \in Seq(Nat) /\ sent'[p] \in Seq(Nat) /\ told'[p] \in Nat
                              /\ p > tcp_efimero' => given'[p] = <<>> /\ sent'[p] = <<>> /\ told'[p] = 0
        BY <1>9 DEF NetInv
    <2>10. card' \in BOOLEAN /\ ip' \in BOOLEAN /\ (ip' => card') /\ troubles' \in 0 .. MaxTroubles
        BY <1>7 DEF NetInv
    <2>11. tcp_efimero' \in Nat BY <2>1, <1>9
    <2> QED BY <2>2, <2>7, <2>8, <2>9, <2>10, <2>11 DEF NetInv
<1>11. ProgOK(prog') /\ prog'.waits = waits
    <2>1. PICK h : h = IF waits = "none" THEN 0 ELSE prog.h OBVIOUS
    <2>2. PICK X : X = [prog EXCEPT !.waits = waits] OBVIOUS
    <2>3. PICK Y : Y = [X EXCEPT !.h = h] OBVIOUS
    <2>4. ProgOK(prog) BY ProgIs
    <2>5. ProgOK(X) /\ X.waits = waits BY <2>2, <2>4, <1>1, ProgWaits
    <2>6. h \in 0 .. Conex BY <2>1, Constants DEF ProgInv
    <2>7. ProgOK(Y) /\ Y.waits = waits BY <2>3, <2>5, <2>6, ProgHas
    <2>8. prog' = Y BY <2>1, <2>2, <2>3 DEF Ask
    <2> QED BY <2>7, <2>8
<1>12. ProgInv'
    <2>1. ASSUME NEW i \in 1 .. Len(inbox')
          PROVE  /\ inbox'[i].op # "abrir" => inbox'[i].slot # 0
                 /\ inbox'[i].op = "enviar" => inbox'[i].data # <<>>
        <3>1. CASE i \in 1 .. Len(inbox) BY <3>1, <1>6 DEF ProgInv
        <3>2. CASE i = Len(inbox') BY <3>2, <1>3, <1>6
        <3> QED BY <3>1, <3>2, <1>6
    <2> QED BY <2>1, <1>11 DEF ProgInv, ProgOK
<1>13. InboxMail' BY <1>5, <1>6, <1>7 DEF InboxMail
<1>14. Awaited' BY <1>3, <1>6, <1>11 DEF Awaited
<1> QED BY <1>9, <1>10, <1>12, <1>13, <1>14

\* A run of the stream.
LEMMA BytesIs ==
    ASSUME NEW i \in Nat \ {0}, NEW j \in Nat, i <= j + 1
    PROVE  /\ Bytes(i, j) \in Seq(Nat) /\ Len(Bytes(i, j)) = j - i + 1
           /\ \A k \in 1 .. j - i + 1 : Bytes(i, j)[k] = i + k - 1
<1>1. j - i + 1 \in Nat OBVIOUS
<1>2. Bytes(i, j) \in [1 .. j - i + 1 -> Nat] BY DEF Bytes
<1> QED BY <1>1, <1>2 DEF Bytes

\* The calls of the program.
LEMMA AsksKeep ==
    ASSUME TcpInv, Conectar \/ TcpEnviar \/ TcpRecibir \/ TcpCerrar
    PROVE  TcpInv'
<1> USE DEF TcpInv
<1>1. prog.h \in 0 .. Conex /\ prog.said \in Nat /\ Conex \in Nat /\ ProgBytes \in Nat BY Constants DEF ProgInv
<1>2. PICK z : z = 0 OBVIOUS
<1>3. PICK n : n = <<>> OBVIOUS
<1>4. z \in 0 .. Conex /\ n \in Seq(Nat) BY <1>1, <1>2, <1>3, EmptyIs
<1>5. CASE Conectar
    <2>1. Idle /\ Ask("abrir", z, n, "abierta") /\ tcp_efimero + Asked("abrir") < MaxOpens
        BY <1>2, <1>3, <1>5 DEF Conectar
    <2> QED BY <2>1, <1>4, AskKeeps
<1>6. CASE TcpEnviar
    <2>1. PICK d : d = Bytes(prog.said + 1, ProgBytes) OBVIOUS
    <2>2. Idle /\ prog.h # 0 /\ prog.said < ProgBytes /\ Ask("enviar", prog.h, d, "hueco")
        BY <2>1, <1>6 DEF TcpEnviar
    <2>3. d \in Seq(Nat) /\ Len(d) = ProgBytes - (prog.said + 1) + 1
        <3>1. prog.said + 1 \in Nat \ {0} /\ prog.said + 1 <= ProgBytes + 1 BY <2>2, <1>1
        <3> QED BY <2>1, <3>1, <1>1, BytesIs
    <2>4. d # <<>> BY <2>2, <2>3, <1>1
    <2> QED BY <2>2, <2>3, <2>4, <1>1, AskKeeps
<1>7. CASE TcpRecibir
    <2>1. Idle /\ prog.h # 0 /\ Ask("leer", prog.h, n, "datos") BY <1>3, <1>7 DEF TcpRecibir
    <2> QED BY <2>1, <1>1, <1>4, AskKeeps
<1>8. CASE TcpCerrar
    <2>1. Idle /\ prog.h # 0 /\ Ask("cerrar", prog.h, n, "none") BY <1>3, <1>8 DEF TcpCerrar
    <2> QED BY <2>1, <1>1, <1>4, AskKeeps
<1> QED BY <1>5, <1>6, <1>7, <1>8

\* A call that returns well.
LEMMA ReturnsOK ==
    ASSUME ProgInv, NEW m \in Message, m.type = prog.waits, prog.waits # "none"
    PROVE  ProgOK(Returns(m))
<1>1. ProgOK(prog) BY ProgIs
<1>2. m.type \in {"abierta", "hueco", "datos"} BY DEF ProgInv
<1>3. m.n \in 0 .. Mss /\ m.con \in 0 .. Conex /\ Mss \in Nat BY Constants DEF Message
<1>4. CASE m.type = "abierta"
    <2>1. PICK z \in Nat : z = 0 OBVIOUS
    <2>2. PICK e : e = <<>> OBVIOUS
    <2>3. PICK o : o = {} OBVIOUS
    <2>4. PICK no : no = FALSE OBVIOUS
    <2>5. PICK a : a = [prog EXCEPT !.h = m.con] OBVIOUS
    <2>6. ProgOK(a) BY <2>5, <1>1, <1>3, ProgHas
    <2>7. PICK b : b = [a EXCEPT !.said = z] OBVIOUS
    <2>8. ProgOK(b) BY <2>6, <2>7, ProgSaid
    <2>9. PICK c : c = [b EXCEPT !.got = e] OBVIOUS
    <2>10. ProgOK(c) BY <2>8, <2>9, ProgOther
    <2>11. PICK d : d = [c EXCEPT !.cut = o] OBVIOUS
    <2>12. ProgOK(d) BY <2>10, <2>11, ProgOther
    <2>13. PICK f : f = [d EXCEPT !.over = no] OBVIOUS
    <2>14. ProgOK(f) BY <2>12, <2>13, ProgOther
    <2>15. Returns(m) = f BY <1>4, <2>1, <2>2, <2>3, <2>4, <2>5, <2>7, <2>9, <2>11, <2>13 DEF Returns
    <2> QED BY <2>14, <2>15
<1>5. CASE m.type = "hueco"
    <2>1. PICK n \in Nat : n = prog.said + Entered(m)
        <3>1. prog.said + Entered(m) \in Nat BY <1>3 DEF ProgInv, Entered
        <3> QED BY <3>1
    <2>2. Returns(m) = [prog EXCEPT !.said = n] BY <1>5, <2>1 DEF Returns
    <2> QED BY <2>1, <2>2, <1>1, ProgSaid
<1>6. CASE m.type = "datos"
    <2>1. PICK v : v = prog.got \o m.data OBVIOUS
    <2>2. PICK o : o = (m.n = 0) OBVIOUS
    <2>3. PICK a : a = [prog EXCEPT !.got = v] OBVIOUS
    <2>4. ProgOK(a) BY <2>3, <1>1, ProgOther
    <2>5. PICK b : b = [a EXCEPT !.over = o] OBVIOUS
    <2>6. ProgOK(b) BY <2>4, <2>5, ProgOther
    <2>7. Returns(m) = b BY <1>6, <2>1, <2>2, <2>3, <2>5 DEF Returns
    <2> QED BY <2>6, <2>7
<1> QED BY <1>2, <1>4, <1>5, <1>6

\* A call that returns.
LEMMA BackOK ==
    ASSUME NEW g, ProgOK(g), NEW X, X = [g EXCEPT !.waits = "none", !.rung = FALSE]
    PROVE  ProgOK(X) /\ X.waits = "none"
<1>1. PICK no : no = FALSE OBVIOUS
<1>2. PICK a : a = [g EXCEPT !.waits = "none"] OBVIOUS
<1>3. ProgOK(a) /\ a.waits = "none" BY <1>2, ProgWaits
<1>4. PICK b : b = [a EXCEPT !.rung = no] OBVIOUS
<1>5. ProgOK(b) /\ b.waits = a.waits BY <1>3, <1>4, ProgOther
<1>6. X = b BY <1>1, <1>2, <1>4
<1> QED BY <1>3, <1>5, <1>6

\* The program takes a message from its port.
LEMMA RedEsperarKeeps ==
    ASSUME TcpInv, RedEsperar
    PROVE  TcpInv'
<1> USE DEF TcpInv
<1>1. prog.alive /\ prog.waits # "none" /\ mail # <<>> /\ mail' = Tail(mail) BY DEF RedEsperar
<1>2. UNCHANGED <<server, peer, toUs, toPeer>> /\ inbox' = inbox
      /\ card' = card /\ ip' = ip /\ troubles' = troubles /\ events' = events
    BY DEF RedEsperar, net
<1>3. /\ ConnInv' /\ PeerInv' /\ AirInv'
      /\ conex' = conex /\ tcp_efimero' = tcp_efimero /\ given' = given /\ told' = told /\ sent' = sent
    BY <1>2, ServerStays
<1>4. inbox \in Seq(Requests) /\ mail \in Seq(Message) BY DEF InboxMail
<1>5. NetInv'
    <2>1. /\ card' \in BOOLEAN /\ ip' \in BOOLEAN /\ (ip' => card') /\ troubles' \in 0 .. MaxTroubles
          /\ events' <= MaxEvents /\ events' \in {events, events + 1}
        BY <1>2, Constants DEF NetInv
    <2> QED BY <2>1, <1>2, <1>4, NetStays
<1>6. /\ mail' \in Seq(Message) /\ Head(mail) \in Message /\ Len(mail) \in Nat \ {0} /\ Len(mail') = Len(mail) - 1
      /\ (\A i \in 1 .. Len(mail') : mail'[i] = mail[i + 1]) /\ Head(mail) = mail[1]
      /\ DOMAIN mail = 1 .. Len(mail) /\ DOMAIN mail' = 1 .. Len(mail')
    BY <1>1, <1>4
<1> DEFINE m == Head(mail)
           back == [prog EXCEPT !.waits = "none", !.rung = FALSE]
           word == prog.waits
           late == [back EXCEPT !.cut = @ \cup {word}, !.late = TRUE]
           ret == [Returns(m) EXCEPT !.waits = "none", !.rung = FALSE]
<1>7. \/ m.type = prog.waits /\ prog' = ret
      \/ m.type # prog.waits /\ m.type = "error" /\ prog' = back
      \/ m.type # prog.waits /\ m.type = "alarma" /\ prog' = late
      \/ m.type # prog.waits /\ m.type \notin {"error", "alarma"} /\ prog' = prog
    BY DEF RedEsperar
<1>8. ProgOK(prog) BY ProgIs
<1>9. ProgOK(back) /\ back.waits = "none" BY <1>8, BackOK
<1>10. ProgOK(late) /\ late.waits = "none"
    <2> HIDE DEF back
    <2>1. PICK yes : yes = TRUE OBVIOUS
    <2>2. PICK v : v = back.cut \cup {word} OBVIOUS
    <2>3. PICK a : a = [back EXCEPT !.cut = v] OBVIOUS
    <2>4. ProgOK(a) /\ a.waits = back.waits BY <2>3, <1>9, ProgOther
    <2>5. PICK b : b = [a EXCEPT !.late = yes] OBVIOUS
    <2>6. ProgOK(b) /\ b.waits = a.waits BY <2>4, <2>5, ProgOther
    <2>7. late = b BY <2>1, <2>2, <2>3, <2>5
    <2> QED BY <2>4, <2>6, <2>7, <1>9
<1>11. m.type = prog.waits => ProgOK(ret) /\ ret.waits = "none"
    <2>1. ASSUME m.type = prog.waits PROVE ProgOK(ret) /\ ret.waits = "none"
        <3>1. PICK g : g = Returns(m) OBVIOUS
        <3>2. ProgOK(g) BY <2>1, <3>1, <1>1, <1>6, ReturnsOK
        <3>3. ret = [g EXCEPT !.waits = "none", !.rung = FALSE] BY <3>1
        <3> HIDE DEF ret
        <3> QED BY <3>2, <3>3, BackOK
    <2> QED BY <2>1
<1> HIDE DEF back, late, ret
<1>12. ProgOK(prog') /\ (prog'.waits = "none" \/ (prog' = prog /\ m.type # prog.waits /\ m.type \notin {"error", "alarma"}))
    BY <1>7, <1>8, <1>9, <1>10, <1>11
<1>13. ProgInv' BY <1>2, <1>12 DEF ProgInv, ProgOK
<1>14. InboxMail' BY <1>2, <1>4, <1>6 DEF InboxMail
<1>15. Awaited'
    <2>1. CASE prog'.waits = "none" BY <2>1 DEF Awaited
    <2>2. CASE prog' = prog /\ m.type # prog.waits /\ m.type \notin {"error", "alarma"}
        <3>1. SUFFICES ASSUME prog.waits = "abierta" PROVE Awaited'
            BY <2>2 DEF Awaited
        <3>2. \/ inbox # <<>> /\ inbox[Len(inbox)].op = "abrir"
              \/ inbox = <<>> /\ \E k \in Slots : conex[k].estado = "syn"
              \/ \E i \in DOMAIN mail : mail[i].type \in {"abierta", "error", "alarma"}
            BY <3>1 DEF Awaited
        <3>3. ASSUME NEW i \in DOMAIN mail, mail[i].type \in {"abierta", "error", "alarma"}
              PROVE  \E j \in DOMAIN mail' : mail'[j].type \in {"abierta", "error", "alarma"}
            <4>1. i \in 1 .. Len(mail) /\ i # 1 BY <3>1, <3>3, <2>2, <1>6
            <4>2. i - 1 \in 1 .. Len(mail') /\ (i - 1) + 1 = i BY <4>1, <1>6
            <4>3. mail'[i - 1] = mail[i] BY <4>2, <1>6
            <4> QED BY <4>2, <4>3, <3>3, <1>6
        <3> QED BY <3>2, <3>3, <1>2, <1>3 DEF Awaited
    <2> QED BY <2>1, <2>2, <1>12
<1> QED BY <1>3, <1>5, <1>13, <1>14, <1>15

\* Its alarm rings.
LEMMA AlarmaKeeps ==
    ASSUME TcpInv, Alarma
    PROVE  TcpInv'
<1> USE DEF TcpInv
<1>1. UNCHANGED <<server, peer, toUs, toPeer>> /\ inbox' = inbox /\ card' = card /\ ip' = ip
    BY DEF Alarma
<1>2. prog.alive /\ events' = events + 1 /\ events < MaxEvents /\ troubles' = troubles + 1 /\ troubles < MaxTroubles
    BY DEF Alarma, Trouble
<1>3. inbox \in Seq(Requests) /\ mail \in Seq(Message) BY DEF InboxMail
<1>4. /\ ConnInv' /\ PeerInv' /\ AirInv'
      /\ conex' = conex /\ tcp_efimero' = tcp_efimero /\ given' = given /\ told' = told /\ sent' = sent
    BY <1>1, ServerStays
<1>5. NetInv'
    <2>1. /\ card' \in BOOLEAN /\ ip' \in BOOLEAN /\ (ip' => card') /\ troubles' \in 0 .. MaxTroubles
          /\ events' <= MaxEvents /\ events' \in {events, events + 1}
        BY <1>1, <1>2, Constants DEF NetInv
    <2> QED BY <2>1, <1>1, <1>3, NetStays
<1>6. PICK m : m = Says("alarma", 0, <<>>) OBVIOUS
<1>7. m \in Message /\ m.type = "alarma" BY <1>6, SaysMessage
<1>8. mail' = Append(mail, m) BY <1>6 DEF Alarma
<1>9. mail' \in Seq(Message) /\ Len(mail') \in DOMAIN mail' /\ mail'[Len(mail')] = m BY <1>3, <1>7, <1>8
<1>10. PICK yes : yes = TRUE OBVIOUS
<1>11. prog' = [prog EXCEPT !.rung = yes] BY <1>10 DEF Alarma
<1>12. ProgOK(prog') BY <1>11, ProgIs, ProgOther
<1>13. ProgInv' BY <1>1, <1>12 DEF ProgInv, ProgOK
<1>14. InboxMail' BY <1>1, <1>3, <1>9 DEF InboxMail
<1>15. Awaited' BY <1>7, <1>9 DEF Awaited
<1> QED BY <1>4, <1>5, <1>13, <1>14, <1>15

\* The program at the start.
LEMMA NewProgIs ==
    ProgFields(NewProg) /\ NewProg.alive = TRUE /\ NewProg.h = 0 /\ NewProg.said = 0 /\ NewProg.waits = "none"
<1>1. PICK yes : yes = TRUE OBVIOUS
<1>2. PICK no : no = FALSE OBVIOUS
<1>3. NewProg = [alive |-> yes, waits |-> "none", h |-> 0, said |-> 0, got |-> <<>>, rung |-> no,
                 over |-> no, cut |-> {}, late |-> no]
    BY <1>1, <1>2 DEF NewProg
<1> QED BY <1>1, <1>3 DEF ProgFields

\* The program dies.
LEMMA DiesKeeps ==
    ASSUME TcpInv, Dies
    PROVE  TcpInv'
<1> USE DEF TcpInv
<1>1. UNCHANGED <<server, peer, toUs, toPeer>> /\ inbox' = inbox /\ card' = card /\ ip' = ip
    BY DEF Dies
<1>2. events' = events + 1 /\ events < MaxEvents /\ troubles' = troubles + 1 /\ troubles < MaxTroubles
    BY DEF Dies, Trouble
<1>3. inbox \in Seq(Requests) BY DEF InboxMail
<1>4. /\ ConnInv' /\ PeerInv' /\ AirInv'
      /\ conex' = conex /\ tcp_efimero' = tcp_efimero /\ given' = given /\ told' = told /\ sent' = sent
    BY <1>1, ServerStays
<1>5. NetInv'
    <2>1. /\ card' \in BOOLEAN /\ ip' \in BOOLEAN /\ (ip' => card') /\ troubles' \in 0 .. MaxTroubles
          /\ events' <= MaxEvents /\ events' \in {events, events + 1}
        BY <1>1, <1>2, Constants DEF NetInv
    <2> QED BY <2>1, <1>1, <1>3, NetStays
<1>6. mail' \in Seq(Message)
    <2>1. mail' = <<>> BY DEF Dies
    <2> QED BY <2>1, EmptyIs
<1>7. PICK g : g = NewProg OBVIOUS
<1>8. PICK no \in BOOLEAN : no = FALSE OBVIOUS
<1>9. prog' = [g EXCEPT !.alive = no] BY <1>7, <1>8 DEF Dies
<1>10. ProgFields(g) /\ g.h = 0 /\ g.said = 0 /\ g.waits = "none" BY <1>7, NewProgIs
<1>11. ProgOK(prog')
    <2>1. ProgFields(prog') /\ prog'.h = 0 /\ prog'.said = 0 /\ prog'.waits = "none" /\ prog'.alive = no
        BY <1>9, <1>10 DEF ProgFields
    <2> QED BY <2>1, Constants DEF ProgOK
<1>12. prog'.waits = "none" BY <1>9, <1>10 DEF ProgFields
<1>13. ProgInv' BY <1>1, <1>11 DEF ProgInv, ProgOK
<1>14. InboxMail' BY <1>1, <1>3, <1>6 DEF InboxMail
<1>15. Awaited' BY <1>12 DEF Awaited
<1> QED BY <1>4, <1>5, <1>13, <1>14, <1>15

\* The card goes and comes back, and so does the address.
LEMMA CardKeeps ==
    ASSUME TcpInv, CardGone \/ CardBack \/ AddressBack
    PROVE  TcpInv'
<1> USE DEF TcpInv
<1>1. UNCHANGED <<server, program, peer, toUs, toPeer>> BY DEF CardGone, CardBack, AddressBack
<1>2. inbox' = inbox /\ mail' = mail /\ prog' = prog /\ UNCHANGED server /\ UNCHANGED <<server, peer, toUs, toPeer>>
    BY <1>1 DEF program
<1>3. inbox \in Seq(Requests) BY DEF InboxMail
<1>4. /\ ConnInv' /\ PeerInv' /\ AirInv'
      /\ conex' = conex /\ tcp_efimero' = tcp_efimero /\ given' = given /\ told' = told /\ sent' = sent
    BY <1>2, ServerStays
<1>5. NetInv'
    <2>1. /\ card' \in BOOLEAN /\ ip' \in BOOLEAN /\ (ip' => card') /\ troubles' \in 0 .. MaxTroubles
          /\ events' <= MaxEvents /\ events' \in {events, events + 1}
        <3>1. card \in BOOLEAN /\ ip \in BOOLEAN /\ (ip => card) /\ troubles \in 0 .. MaxTroubles
              /\ events \in 0 .. MaxEvents
            BY DEF NetInv
        <3>2. MaxEvents \in Nat /\ MaxTroubles \in Nat BY Constants
        <3>3. CASE CardGone
            <4>1. PICK no \in BOOLEAN : no = FALSE OBVIOUS
            <4>2. card' = no /\ ip' = no BY <3>3, <4>1 DEF CardGone
            <4>3. troubles' = troubles + 1 /\ troubles < MaxTroubles /\ events' = events + 1 /\ events < MaxEvents
                BY <3>3 DEF CardGone, Trouble
            <4>4. troubles' \in 0 .. MaxTroubles /\ events' <= MaxEvents BY <4>3, <3>1, <3>2
            <4> QED BY <4>2, <4>3, <4>4
        <3>4. CASE CardBack BY <3>1, <3>2, <3>4 DEF CardBack
        <3>5. CASE AddressBack BY <3>1, <3>2, <3>5 DEF AddressBack
        <3> QED BY <3>3, <3>4, <3>5
    <2> QED BY <2>1, <1>2, <1>3, NetStays
<1>6. ProgInv' BY <1>2 DEF ProgInv
<1>7. InboxMail' BY <1>2 DEF InboxMail
<1>8. Awaited' BY <1>2, <1>4 DEF Awaited
<1> QED BY <1>4, <1>5, <1>6, <1>7, <1>8

\* The server, the program and the card see nothing of what the other machine does.
LEMMA PeerOnly ==
    ASSUME TcpInv, UNCHANGED <<net, server, program>>, PeerInv', AirInv'
    PROVE  TcpInv'
<1> USE DEF TcpInv
<1>1. /\ conex' = conex /\ tcp_efimero' = tcp_efimero /\ given' = given /\ told' = told /\ sent' = sent
      /\ inbox' = inbox /\ mail' = mail /\ prog' = prog
      /\ card' = card /\ ip' = ip /\ troubles' = troubles /\ events' = events
    BY DEF net, server, program
<1>2. NetInv' BY <1>1 DEF NetInv, Asked
<1>3. ConnInv' BY <1>1 DEF ConnInv
<1>4. ProgInv' BY <1>1 DEF ProgInv
<1>5. InboxMail' BY <1>1 DEF InboxMail
<1>6. Awaited' BY <1>1 DEF Awaited
<1> QED BY <1>2, <1>3, <1>4, <1>5, <1>6
Confirmed(q) == Len(q.got) + Flag(q.fin)

\* A flag counts one or nothing.
LEMMA FlagIs ==
    ASSUME NEW b \in BOOLEAN PROVE Flag(b) \in {0, 1} /\ (b => Flag(b) = 1) /\ (~b => Flag(b) = 0)
BY DEF Flag

\* A segment of the other machine stays right when it has more.
LEMMA FromPeerGrows ==
    ASSUME NEW s, NEW q, NEW x, FromPeer(s, q), Confirmed(q) \in Nat, Confirmed(x) \in Nat,
           Confirmed(q) <= Confirmed(x)
    PROVE  FromPeer(s, x)
<1>1. PICK a \in 0 .. Confirmed(q) : s.ack = Plus(Iss, 1 + a) BY DEF FromPeer, Confirmed
<1>2. a \in 0 .. Confirmed(x) BY <1>1
<1>3. \E y \in 0 .. Len(x.got) + Flag(x.fin) : s.ack = Plus(Iss, 1 + y) BY <1>1, <1>2 DEF Confirmed
<1> QED BY <1>3 DEF FromPeer

\* What is known of the other machine.
LEMMA PeerWord ==
    ASSUME NEW q, NEW w, NEW closed, PeerOK(q, w, closed)
    PROVE  /\ q.got \in Seq(Nat) /\ q.fin \in BOOLEAN /\ Len(q.got) \in Nat /\ Len(q.got) <= Len(w)
           /\ Confirmed(q) \in Nat /\ Confirmed(q) <= Len(q.got) + 1
           /\ q.sent \in Nat /\ q.acked \in Nat /\ q.acked <= q.sent /\ q.sent <= PeerBytes + 1
           /\ q.room \in Nat /\ q.full \in BOOLEAN /\ q.st \in {"new", "rcvd", "open", "gone"}
<1>1. q.got \in Seq(Nat) /\ q.fin \in BOOLEAN /\ Slice(q.got, w, 0) BY DEF PeerOK
<1>2. Len(q.got) \in Nat BY <1>1
<1>3. 0 + Len(q.got) <= Len(w) BY <1>1 DEF Slice
<1>4. Confirmed(q) \in Nat /\ Confirmed(q) <= Len(q.got) + 1
    <2>1. Flag(q.fin) \in {0, 1} BY <1>1, FlagIs
    <2> QED BY <2>1, <1>2 DEF Confirmed
<1>5. /\ q.sent \in Nat /\ q.acked \in Nat /\ q.acked <= q.sent /\ q.sent <= PeerBytes + 1
      /\ q.room \in Nat /\ q.full \in BOOLEAN /\ q.st \in {"new", "rcvd", "open", "gone"}
    BY DEF PeerOK
<1> QED BY <1>1, <1>2, <1>3, <1>4, <1>5

\* One of the other machine's connections goes on, and what it sends is right.
LEMMA PeerChanges ==
    ASSUME NetInv, PeerInv, AirInv, UNCHANGED server, NEW p \in Ports, NEW x,
           PeerOK(x, sent[p], Closed(p)), Len(peer[p].got) <= Len(x.got), Confirmed(peer[p]) <= Confirmed(x),
           peer' = [peer EXCEPT ![p] = x], toPeer' \subseteq toPeer,
           \A s \in toUs' : s \in toUs \/ (s \in Segment /\ s.port = p /\ FromPeer(s, x))
    PROVE  PeerInv' /\ AirInv'
<1>1. conex' = conex /\ tcp_efimero' = tcp_efimero /\ told' = told /\ sent' = sent BY DEF server
<1>2. \A i \in Ports : Closed(i)' = Closed(i) BY <1>1 DEF Closed
<1>3. DOMAIN peer = Ports BY DEF PeerInv
<1>4. DOMAIN peer' = Ports /\ peer'[p] = x /\ \A i \in Ports : i # p => peer'[i] = peer[i] BY <1>3
<1>5. told[p] <= Len(x.got)
    <2>1. told[p] \in Nat BY DEF NetInv
    <2>2. Len(x.got) \in Nat BY PeerWord
    <2>3. told[p] <= Len(peer[p].got) /\ Len(peer[p].got) \in Nat BY LenOfGot
    <2> QED BY <2>1, <2>2, <2>3
<1>6. PeerInv'
    <2>1. ASSUME NEW i \in Ports PROVE PeerOK(peer'[i], sent'[i], Closed(i)') /\ told'[i] <= Len(peer'[i].got)
        <3>1. CASE i = p BY <3>1, <1>1, <1>2, <1>4, <1>5
        <3>2. CASE i # p
            <4>1. PeerOK(peer[i], sent[i], Closed(i)) /\ told[i] <= Len(peer[i].got) BY DEF PeerInv
            <4> QED BY <4>1, <3>2, <1>1, <1>2, <1>4
        <3> QED BY <3>1, <3>2
    <2> QED BY <2>1, <1>4 DEF PeerInv
<1>7. ASSUME NEW s \in toPeer' PROVE s \in Segment /\ FromUs(s, sent'[s.port], Closed(s.port)')
    <2>1. s \in Segment /\ FromUs(s, sent[s.port], Closed(s.port)) BY DEF AirInv
    <2>2. s.port \in Ports BY <2>1 DEF Segment
    <2> QED BY <2>1, <2>2, <1>1, <1>2
<1>8. ASSUME NEW s \in toUs' PROVE s \in Segment /\ FromPeer(s, peer'[s.port])
    <2>1. CASE s \in toUs
        <3>1. s \in Segment /\ FromPeer(s, peer[s.port]) BY <2>1 DEF AirInv
        <3>2. s.port \in Ports BY <3>1 DEF Segment
        <3>3. CASE s.port = p
            <4>1. PeerOK(peer[p], sent[p], Closed(p)) BY DEF PeerInv
            <4>2. Confirmed(peer[p]) \in Nat /\ Confirmed(x) \in Nat BY <4>1, PeerWord
            <4>3. FromPeer(s, x) BY <3>1, <3>3, <4>2, FromPeerGrows
            <4> QED BY <3>1, <3>3, <4>3, <1>4
        <3>4. CASE s.port # p BY <3>1, <3>2, <3>4, <1>4
        <3> QED BY <3>3, <3>4
    <2>2. CASE s \in Segment /\ s.port = p /\ FromPeer(s, x) BY <2>2, <1>4
    <2> QED BY <2>1, <2>2
<1> QED BY <1>6, <1>7, <1>8 DEF AirInv

\* Right from the other machine: what its segments may carry.
Spoken(flags, seq, data) ==
    \/ "rst" \in flags
    \/ flags = {"syn", "ack"} /\ seq = PeerIss /\ data = <<>>
    \/ /\ flags \in {{"ack"}, {"ack", "fin"}}
       /\ \E from \in 0 .. PeerBytes + 1 :
            /\ seq = Plus(PeerIss, 1 + from)
            /\ data # <<>> \/ "fin" \in flags => from + Len(data) <= PeerBytes
            /\ "fin" \in flags => from + Len(data) = PeerBytes
            /\ \A j \in 1 .. Len(data) : data[j] = from + j

\* A segment of the other machine with what may be in it.
LEMMA OutIs ==
    ASSUME NEW p \in Ports, NEW x, NEW w, NEW closed, PeerOK(x, w, closed), peer'[p] = x,
           NEW flags \in SUBSET {"syn", "ack", "fin", "rst"}, NEW seq \in 0 .. SeqSpace - 1,
           NEW data \in Seq(Nat), Spoken(flags, seq, data)
    PROVE  \A s \in Out(p, flags, seq, data) : s \in Segment /\ s.port = p /\ FromPeer(s, x)
<1>1. x.got \in Seq(Nat) /\ x.fin \in BOOLEAN /\ Len(x.got) \in Nat /\ Confirmed(x) \in Nat BY PeerWord
<1>2. Expects(x) = Plus(Iss, 1 + Confirmed(x))
    <2>1. 1 + Len(x.got) + (IF x.fin THEN 1 ELSE 0) = 1 + Confirmed(x)
        <3>1. PICK f : f = IF x.fin THEN 1 ELSE 0 OBVIOUS
        <3>2. f \in Nat BY <3>1
        <3>3. Confirmed(x) = Len(x.got) + f BY <3>1 DEF Confirmed, Flag
        <3>4. 1 + Len(x.got) + f = 1 + (Len(x.got) + f) BY <3>2, <1>1
        <3> QED BY <3>1, <3>3, <3>4
    <2> QED BY <2>1 DEF Expects
<1>3. Expects(x) \in 0 .. SeqSpace - 1
    <2>1. Iss \in Int /\ 1 + Confirmed(x) \in Int BY <1>1, Constants
    <2> QED BY <2>1, <1>2, PlusType
<1>4. PICK win \in Nat : win = IF x.full THEN 0 ELSE PeerWin
    <2>1. (IF x.full THEN 0 ELSE PeerWin) \in Nat BY Constants
    <2> QED BY <2>1
<1>5. PICK s : s = [port |-> p, flags |-> flags, seq |-> seq, ack |-> Expects(x), data |-> data, win |-> win]
    OBVIOUS
<1>6. Out(p, flags, seq, data) = {s} BY <1>4, <1>5, Zenon DEF Out
<1>7. s \in Segment BY <1>3, <1>5 DEF Segment
<1>8. s.port = p /\ s.flags = flags /\ s.seq = seq /\ s.ack = Expects(x) /\ s.data = data BY <1>5
<1>9. \E a \in 0 .. Len(x.got) + Flag(x.fin) : s.ack = Plus(Iss, 1 + a)
    <2>1. Confirmed(x) \in 0 .. Confirmed(x) BY <1>1
    <2> QED BY <2>1, <1>2, <1>8 DEF Confirmed
<1>10. Spoken(s.flags, s.seq, s.data) BY <1>8
<1>11. FromPeer(s, x) BY <1>9, <1>10, Zenon DEF FromPeer, Spoken
<1> QED BY <1>6, <1>7, <1>8, <1>11
\* What it takes is the next of what the server has put in flight.
Looked(p, s) ==
    IF "ack" \in s.flags /\ Minus(s.ack, Plus(PeerIss, 1 + p.acked)) \in 1 .. p.sent - p.acked
    THEN [p EXCEPT !.acked = @ + Minus(s.ack, Plus(PeerIss, 1 + p.acked)), !.room = s.win]
    ELSE [p EXCEPT !.room = s.win]

\* It looks at the acknowledgement and the window of a segment.
LEMMA LookedIs ==
    ASSUME NEW p, NEW w, NEW closed, PeerOK(p, w, closed), NEW s \in Segment, NEW x, x = Looked(p, s)
    PROVE  /\ PeerOK(x, w, closed) /\ x.got = p.got /\ x.fin = p.fin /\ x.st = p.st /\ x.full = p.full
           /\ x.sent = p.sent /\ x.acked \in Nat /\ x.acked <= p.sent
<1>1. PeerFields(p) /\ p.acked \in Nat /\ p.sent \in Nat /\ p.acked <= p.sent BY DEF PeerOK
<1>2. s.win \in Nat BY DEF Segment
<1>3. PICK n : n = Minus(s.ack, Plus(PeerIss, 1 + p.acked)) OBVIOUS
<1>4. CASE "ack" \in s.flags /\ n \in 1 .. p.sent - p.acked
    <2>1. PICK a : a = p.acked + n OBVIOUS
    <2>2. a \in Nat /\ a <= p.sent BY <2>1, <1>1, <1>4
    <2>3. x = [p EXCEPT !.acked = a, !.room = s.win] BY <1>3, <1>4, <2>1 DEF Looked
    <2>4. /\ PeerFields(x) /\ x.acked = a /\ x.room = s.win /\ x.got = p.got /\ x.fin = p.fin
          /\ x.st = p.st /\ x.full = p.full /\ x.sent = p.sent
        BY <2>3, <1>1 DEF PeerFields
    <2>5. PeerOK(x, w, closed) BY <2>2, <2>4, <1>2 DEF PeerOK
    <2> QED BY <2>2, <2>4, <2>5
<1>5. CASE ~("ack" \in s.flags /\ n \in 1 .. p.sent - p.acked)
    <2>1. x = [p EXCEPT !.room = s.win] BY <1>3, <1>5 DEF Looked
    <2>2. /\ PeerFields(x) /\ x.acked = p.acked /\ x.room = s.win /\ x.got = p.got /\ x.fin = p.fin
          /\ x.st = p.st /\ x.full = p.full /\ x.sent = p.sent
        BY <2>1, <1>1 DEF PeerFields
    <2>3. PeerOK(x, w, closed) BY <2>2, <1>2 DEF PeerOK
    <2> QED BY <2>2, <2>3, <1>1
<1> QED BY <1>4, <1>5

Gets(seen, chunk, full, fin) ==
    [seen EXCEPT !.got = @ \o chunk, !.full = full, !.fin = fin]

\* It takes what goes on from what it has.
LEMMA GetsIs ==
    ASSUME NEW p, NEW w \in Seq(Nat), NEW closed, PeerOK(p, w, closed), NEW chunk \in Seq(Nat),
           NEW full \in BOOLEAN, NEW fin \in BOOLEAN, Slice(chunk, w, Len(p.got)), ~p.fin,
           fin => closed /\ chunk = <<>> /\ Len(p.got) = Len(w), NEW x, x = Gets(p, chunk, full, fin)
    PROVE  /\ PeerOK(x, w, closed) /\ Len(p.got) <= Len(x.got) /\ Confirmed(p) <= Confirmed(x) /\ x.st = p.st
<1>1. PeerFields(p) /\ p.got \in Seq(Nat) /\ Slice(p.got, w, 0) BY DEF PeerOK
<1>2. PICK g : g = p.got \o chunk OBVIOUS
<1>3. g \in Seq(Nat) /\ Len(g) = Len(p.got) + Len(chunk) /\ Len(p.got) \in Nat /\ Len(chunk) \in Nat
      /\ (\A j \in 1 .. Len(p.got) : g[j] = p.got[j])
      /\ \A j \in 1 .. Len(chunk) : g[Len(p.got) + j] = chunk[j]
    BY <1>1, <1>2, Joined
<1>4. x = [p EXCEPT !.got = g, !.full = full, !.fin = fin] BY <1>2 DEF Gets
<1>5. /\ PeerFields(x) /\ x.got = g /\ x.full = full /\ x.fin = fin /\ x.st = p.st /\ x.acked = p.acked
      /\ x.sent = p.sent /\ x.room = p.room
    BY <1>1, <1>4 DEF PeerFields
<1>6. Slice(g, w, 0)
    <2>1. Len(p.got) + Len(chunk) <= Len(w) /\ \A j \in 1 .. Len(chunk) : chunk[j] = w[Len(p.got) + j] BY DEF Slice
    <2>2. \A j \in 1 .. Len(p.got) : p.got[j] = w[0 + j] BY <1>1 DEF Slice
    <2>3. ASSUME NEW j \in 1 .. Len(g) PROVE g[j] = w[0 + j]
        <3>1. CASE j \in 1 .. Len(p.got) BY <3>1, <2>2, <1>3
        <3>2. CASE j \notin 1 .. Len(p.got)
            <4>1. PICK i : i = j - Len(p.got) OBVIOUS
            <4>2. i \in 1 .. Len(chunk) /\ Len(p.got) + i = j /\ 0 + j = j BY <4>1, <3>2, <1>3
            <4>3. g[Len(p.got) + i] = chunk[i] BY <4>2, <1>3
            <4>4. chunk[i] = w[Len(p.got) + i] BY <4>2, <2>1
            <4> QED BY <4>2, <4>3, <4>4
        <3> QED BY <3>1, <3>2
    <2>4. 0 + Len(g) <= Len(w) BY <2>1, <1>3
    <2> QED BY <2>3, <2>4 DEF Slice
<1>7. fin => closed /\ Len(g) = Len(w)
    <2>1. fin => Len(chunk) = 0 OBVIOUS
    <2> QED BY <2>1, <1>3
<1>8. PeerOK(x, w, closed) BY <1>3, <1>5, <1>6, <1>7 DEF PeerOK
<1>9. Confirmed(p) <= Confirmed(x)
    <2>1. Flag(p.fin) = 0 BY DEF Flag
    <2>2. Flag(x.fin) \in Nat BY <1>5, FlagIs
    <2> QED BY <2>1, <2>2, <1>3, <1>5 DEF Confirmed
<1>10. Len(p.got) <= Len(x.got) BY <1>3, <1>5
<1> QED BY <1>5, <1>8, <1>9, <1>10

Lag(p, s)   == Minus(Expects(p), s.seq)
After(p, s) == SubSeq(s.data, Lag(p, s) + 1, Len(s.data))
Taking(p, s, n, full, x) ==
    x = Gets(Looked(p, s), SubSeq(After(p, s), 1, n), full, "fin" \in s.flags /\ n = Len(After(p, s)))

Rest(d, lag, z) ==
    /\ z \in Seq(Nat) /\ Len(z) = Len(d) - lag /\ Len(z) \in Nat
    /\ \A j \in 1 .. Len(z) : z[j] = d[lag + j]

\* The part of a segment it does not have yet.
LEMMA AfterIs ==
    ASSUME NEW s \in Segment, NEW lag \in 0 .. Len(s.data), NEW z, z = SubSeq(s.data, lag + 1, Len(s.data))
    PROVE  Rest(s.data, lag, z)
<1>1. s.data \in Seq(Nat) BY DEF Segment
<1>2. z \in Seq(Nat) /\ Len(z) = Len(s.data) - lag /\ \A j \in 1 .. Len(s.data) - lag : z[j] = s.data[lag + j]
    BY <1>1, CutAt
<1>3. Len(z) \in Nat BY <1>2
<1> QED BY <1>2, <1>3 DEF Rest

\* It takes nothing, or a beginning of that part.
LEMMA TakesAre ==
    ASSUME NEW p, NEW s \in Segment, Lag(p, s) \in Int, NEW x \in Takes(p, s)
    PROVE  \/ x = Looked(p, s)
           \/ /\ ~p.fin /\ Lag(p, s) \in 0 .. Len(s.data)
              /\ \E n \in 0 .. Len(After(p, s)), full \in BOOLEAN : Taking(p, s, n, full, x)
<1>1. Len(s.data) \in Nat BY DEF Segment
<1>2. CASE p.fin \/ Lag(p, s) < 0 \/ Lag(p, s) > Len(s.data)
    <2>1. Takes(p, s) = {Looked(p, s)} BY <1>2, Zenon DEF Takes, Looked, Lag
    <2> QED BY <2>1
<1>3. CASE ~(p.fin \/ Lag(p, s) < 0 \/ Lag(p, s) > Len(s.data))
    <2>1. Lag(p, s) \in 0 .. Len(s.data) BY <1>1, <1>3
    <2>2. PICK z : z = After(p, s) OBVIOUS
    <2>7. z = SubSeq(s.data, Lag(p, s) + 1, Len(s.data)) BY <2>2 DEF After
    <2>8. Rest(s.data, Lag(p, s), z) BY <2>1, <2>7, AfterIs
    <2>3. Len(z) \in Nat BY <2>8 DEF Rest
    <2>4. PICK h : h = Len(z) \div 2 OBVIOUS
    <2>5. h \in 0 .. Len(z) /\ Len(z) \in 0 .. Len(z) BY <2>3, <2>4
    <2>6. PICK some \in BOOLEAN : some = (z # <<>>) OBVIOUS
    <2>9. Taking(p, s, Len(z), FALSE, x) \/ Taking(p, s, h, some, x)
        <3>1. Takes(p, s) = {Gets(Looked(p, s), SubSeq(After(p, s), 1, Len(After(p, s))), FALSE,
                                  "fin" \in s.flags /\ Len(After(p, s)) = Len(After(p, s))),
                             Gets(Looked(p, s), SubSeq(After(p, s), 1, Len(After(p, s)) \div 2), After(p, s) # <<>>,
                                  "fin" \in s.flags /\ Len(After(p, s)) \div 2 = Len(After(p, s)))}
            BY <1>3, Zenon DEF Takes, Looked, Gets, After, Lag
        <3>2. x = Gets(Looked(p, s), SubSeq(After(p, s), 1, Len(After(p, s))), FALSE,
                       "fin" \in s.flags /\ Len(After(p, s)) = Len(After(p, s)))
              \/ x = Gets(Looked(p, s), SubSeq(After(p, s), 1, Len(After(p, s)) \div 2), After(p, s) # <<>>,
                          "fin" \in s.flags /\ Len(After(p, s)) \div 2 = Len(After(p, s)))
            BY <3>1
        <3> QED BY <3>2, <2>2, <2>4, <2>6, Zenon DEF Taking
    <2> QED BY <1>3, <2>1, <2>2, <2>5, <2>9
<1> QED BY <1>2, <1>3

\* What is taken is the next of the stream, and the FIN its end.
LEMMA TakenFollows ==
    ASSUME NEW p, NEW w \in Seq(Nat), NEW closed, PeerOK(p, w, closed), ~p.fin, NEW s \in Segment,
           FromUs(s, w, closed), "rst" \notin s.flags, "syn" \notin s.flags, Len(w) <= Budget(MaxEvents),
           Lag(p, s) \in 0 .. Len(s.data), NEW n \in 0 .. Len(After(p, s))
    PROVE  /\ SubSeq(After(p, s), 1, n) \in Seq(Nat)
           /\ Slice(SubSeq(After(p, s), 1, n), w, Len(p.got))
           /\ "fin" \in s.flags => closed /\ SubSeq(After(p, s), 1, n) = <<>> /\ Len(p.got) = Len(w)
<1>1. PICK lag : lag = Lag(p, s) OBVIOUS
<1>2. PICK z : z = After(p, s) OBVIOUS
<1>3. lag \in 0 .. Len(s.data) /\ z = SubSeq(s.data, lag + 1, Len(s.data)) BY <1>1, <1>2 DEF After
<1>4. /\ z \in Seq(Nat) /\ Len(z) = Len(s.data) - lag /\ Len(z) \in Nat
      /\ \A j \in 1 .. Len(z) : z[j] = s.data[lag + j]
    <2>1. Rest(s.data, lag, z) BY <1>3, AfterIs
    <2> QED BY <2>1 DEF Rest
<1>5. PICK chunk : chunk = SubSeq(z, 1, n) OBVIOUS
<1>6. chunk \in Seq(Nat) /\ Len(chunk) = n /\ \A j \in 1 .. n : chunk[j] = z[j]
    BY <1>2, <1>4, <1>5, CutAt
<1>7. n \in Nat /\ n <= Len(s.data) - lag /\ Len(s.data) \in Nat
    <2>1. Len(s.data) \in Nat BY DEF Segment
    <2> QED BY <2>1, <1>2, <1>4
<1>8. PICK g : g = Len(p.got) OBVIOUS
<1>9. g \in Nat /\ g <= Len(w) /\ Len(w) \in Nat
    <2>1. Len(p.got) \in Nat /\ Len(p.got) <= Len(w) BY PeerWord
    <2> QED BY <2>1, <1>8
<1>10. Expects(p) = Plus(Iss, 1 + g)
    <2>1. 1 + g + (IF p.fin THEN 1 ELSE 0) = 1 + g BY <1>9
    <2> QED BY <2>1, <1>8 DEF Expects
<1>11. g <= Budget(MaxEvents) /\ 1 + g \in 1 .. Far /\ Far \in Nat
    <2>1. Budget(MaxEvents) \in Nat BY BudgetIs
    <2>2. g <= Budget(MaxEvents) BY <2>1, <1>9
    <2>3. 1 + g \in 0 .. Far BY <2>2, <1>9, ShortEnough
    <2> QED BY <2>2, <2>3, <1>9, Constants
<1>12. Iss \in 0 .. SeqSpace - 1 BY Constants
<1>13. ASSUME NEW i \in 0 .. Len(w), s.seq = Plus(Iss, 1 + i) PROVE lag = g - i
    <2>1. i \in Nat /\ i <= Budget(MaxEvents)
        <3>1. Budget(MaxEvents) \in Nat BY BudgetIs
        <3> QED BY <3>1, <1>9
    <2>2. 1 + i \in 0 .. Far BY <2>1, ShortEnough
    <2>3. 1 + i \in 1 .. Far BY <2>1, <2>2, <1>11
    <2>4. Minus(Plus(Iss, 1 + g), Plus(Iss, 1 + i)) = (1 + g) - (1 + i) BY <2>3, <1>11, <1>12, MinusIs
    <2>5. lag = Minus(Plus(Iss, 1 + g), Plus(Iss, 1 + i)) BY <1>1, <1>10, <1>13 DEF Lag
    <2> QED BY <2>1, <2>4, <2>5, <1>9
<1>14. ASSUME s.data = <<>> PROVE n = 0 /\ lag = 0 /\ chunk = <<>>
    <2>1. Len(s.data) = 0 BY <1>14
    <2>2. n = 0 /\ lag = 0 BY <2>1, <1>3, <1>7
    <2>3. Len(chunk) = 0 BY <2>2, <1>6
    <2> QED BY <2>2, <2>3, <1>6
<1>15. Slice(chunk, w, g)
    <2>1. CASE s.data = <<>>
        <3>1. Len(chunk) = 0 BY <2>1, <1>14
        <3> QED BY <3>1, <1>9 DEF Slice
    <2>2. CASE s.data # <<>>
        <3>1. PICK i \in 0 .. Len(w) : s.seq = Plus(Iss, 1 + i) /\ Slice(s.data, w, i)
            BY <2>2 DEF FromUs
        <3>2. lag = g - i BY <3>1, <1>13
        <3>3. i + Len(s.data) <= Len(w) /\ \A j \in 1 .. Len(s.data) : s.data[j] = w[i + j] BY <3>1 DEF Slice
        <3>4. g + Len(chunk) <= Len(w) BY <3>2, <3>3, <1>6, <1>7, <1>9
        <3>5. ASSUME NEW j \in 1 .. Len(chunk) PROVE chunk[j] = w[g + j]
            <4>1. j \in 1 .. n /\ j \in 1 .. Len(z) BY <1>6, <1>7, <1>4
            <4>2. lag + j \in 1 .. Len(s.data) /\ i + (lag + j) = g + j BY <4>1, <1>3, <1>7, <3>2, <1>9
            <4>3. chunk[j] = s.data[lag + j] BY <4>1, <1>4, <1>6
            <4>4. s.data[lag + j] = w[i + (lag + j)] BY <4>2, <3>3
            <4> QED BY <4>2, <4>3, <4>4
        <3> QED BY <3>4, <3>5 DEF Slice
    <2> QED BY <2>1, <2>2
<1>16. ASSUME "fin" \in s.flags PROVE closed /\ chunk = <<>> /\ g = Len(w)
    <2>1. closed /\ s.data = <<>> /\ s.seq = Plus(Iss, 1 + Len(w)) BY <1>16 DEF FromUs
    <2>2. Len(w) \in 0 .. Len(w) BY <1>9
    <2>3. lag = g - Len(w) BY <2>1, <2>2, <1>13
    <2>4. lag = 0 /\ chunk = <<>> BY <2>1, <1>14
    <2>5. g = Len(w) BY <2>3, <2>4, <1>9
    <2> QED BY <2>1, <2>4, <2>5
<1>17. chunk = SubSeq(After(p, s), 1, n) BY <1>2, <1>5
<1> QED BY <1>6, <1>8, <1>15, <1>16, <1>17

\* Whatever it takes, it has a beginning of what was put in flight.
LEMMA TakesOK ==
    ASSUME NEW p, NEW w \in Seq(Nat), NEW closed, PeerOK(p, w, closed), NEW s \in Segment,
           FromUs(s, w, closed), "rst" \notin s.flags, "syn" \notin s.flags, Len(w) <= Budget(MaxEvents),
           NEW x \in Takes(p, s)
    PROVE  /\ PeerOK(x, w, closed) /\ Len(p.got) <= Len(x.got) /\ Confirmed(p) <= Confirmed(x) /\ x.st = p.st
<1>1. p.got \in Seq(Nat) /\ p.fin \in BOOLEAN /\ Len(p.got) \in Nat /\ Confirmed(p) \in Nat BY PeerWord
<1>2. Lag(p, s) \in Int
    <2>1. s.seq \in Int BY DEF Segment
    <2>2. Iss \in Int /\ 1 + Len(p.got) + (IF p.fin THEN 1 ELSE 0) \in Int BY <1>1, Constants
    <2>3. Expects(p) \in 0 .. SeqSpace - 1 BY <2>2, PlusType DEF Expects
    <2>4. Expects(p) \in Int BY <2>3
    <2> QED BY <2>1, <2>4, MinusType DEF Lag
<1>3. PICK q : q = Looked(p, s) OBVIOUS
<1>4. /\ PeerOK(q, w, closed) /\ q.got = p.got /\ q.fin = p.fin /\ q.st = p.st
    BY <1>3, LookedIs
<1>5. Confirmed(q) = Confirmed(p) BY <1>4 DEF Confirmed
<1>6. CASE x = q BY <1>1, <1>4, <1>5, <1>6
<1>7. CASE x # q
    <2>1. /\ ~p.fin /\ Lag(p, s) \in 0 .. Len(s.data)
          /\ \E n \in 0 .. Len(After(p, s)), full \in BOOLEAN : Taking(p, s, n, full, x)
        BY <1>2, <1>3, <1>7, TakesAre
    <2>2. PICK n \in 0 .. Len(After(p, s)), full \in BOOLEAN : Taking(p, s, n, full, x) BY <2>1
    <2>3. PICK chunk : chunk = SubSeq(After(p, s), 1, n) OBVIOUS
    <2>4. /\ SubSeq(After(p, s), 1, n) \in Seq(Nat)
          /\ Slice(SubSeq(After(p, s), 1, n), w, Len(p.got))
          /\ "fin" \in s.flags => closed /\ SubSeq(After(p, s), 1, n) = <<>> /\ Len(p.got) = Len(w)
        BY <2>1, TakenFollows
    <2>5. chunk \in Seq(Nat) /\ Slice(chunk, w, Len(q.got)) BY <2>3, <2>4, <1>4
    <2>6. PICK fin \in BOOLEAN : fin = ("fin" \in s.flags /\ n = Len(After(p, s))) OBVIOUS
    <2>7. fin => closed /\ chunk = <<>> /\ Len(q.got) = Len(w) BY <2>3, <2>4, <2>6, <1>4
    <2>8. x = Gets(q, chunk, full, fin) BY <2>2, <2>3, <2>6, <1>3 DEF Taking
    <2>9. ~q.fin BY <2>1, <1>4
    <2>10. /\ PeerOK(x, w, closed) /\ Len(q.got) <= Len(x.got) /\ Confirmed(q) <= Confirmed(x) /\ x.st = q.st
        BY <2>5, <2>7, <2>8, <2>9, <1>4, GetsIs
    <2> QED BY <2>10, <1>4, <1>5
<1> QED BY <1>6, <1>7

Silent(port, q) == peer' = [peer EXCEPT ![port] = q] /\ UNCHANGED toUs
Answering(port, q, flags) ==
    /\ peer' = [peer EXCEPT ![port] = q]
    /\ toUs' \in Into(toUs, Out(port, flags, IF "syn" \in flags THEN PeerIss ELSE Plus(PeerIss, 1 + q.sent), <<>>))

\* A state of the other machine.
LEMMA PeerStates ==
    ASSUME NEW p, NEW w, NEW closed, PeerOK(p, w, closed), NEW st \in {"new", "rcvd", "open", "gone"},
           NEW x, x = [p EXCEPT !.st = st]
    PROVE  /\ PeerOK(x, w, closed) /\ x.got = p.got /\ x.fin = p.fin /\ x.st = st /\ Confirmed(x) = Confirmed(p)
<1>1. PeerFields(p) BY DEF PeerOK
<1>2. /\ PeerFields(x) /\ x.got = p.got /\ x.fin = p.fin /\ x.st = st /\ x.acked = p.acked /\ x.sent = p.sent
      /\ x.room = p.room /\ x.full = p.full
    BY <1>1 DEF PeerFields
<1> QED BY <1>2 DEF PeerOK, Confirmed

\* The room it knows of.
LEMMA PeerRooms ==
    ASSUME NEW p, NEW w, NEW closed, PeerOK(p, w, closed), NEW room \in Nat, NEW x, x = [p EXCEPT !.room = room]
    PROVE  /\ PeerOK(x, w, closed) /\ x.got = p.got /\ x.fin = p.fin /\ Confirmed(x) = Confirmed(p)
<1>1. PeerFields(p) BY DEF PeerOK
<1>2. /\ PeerFields(x) /\ x.got = p.got /\ x.fin = p.fin /\ x.st = p.st /\ x.acked = p.acked /\ x.sent = p.sent
      /\ x.room = room /\ x.full = p.full
    BY <1>1 DEF PeerFields
<1> QED BY <1>2 DEF PeerOK, Confirmed

\* A step of the other machine that says nothing, and one that sends a segment.
LEMMA QuietKeeps ==
    ASSUME TcpInv, UNCHANGED <<net, server, program>>, NEW p \in Ports, NEW x, PeerOK(x, sent[p], Closed(p)),
           Len(peer[p].got) <= Len(x.got), Confirmed(peer[p]) <= Confirmed(x), toPeer' \subseteq toPeer, Silent(p, x)
    PROVE  TcpInv'
<1>1. peer' = [peer EXCEPT ![p] = x] /\ toUs' = toUs BY DEF Silent
<1>2. NetInv /\ PeerInv /\ AirInv BY DEF TcpInv
<1>3. PeerInv' /\ AirInv' BY <1>1, <1>2, PeerChanges
<1> QED BY <1>3, PeerOnly

\* The other machine goes on and sends what may be sent.
LEMMA SpeaksRight ==
    ASSUME NetInv, PeerInv, AirInv, UNCHANGED server, NEW p \in Ports, NEW x, PeerOK(x, sent[p], Closed(p)),
           Len(peer[p].got) <= Len(x.got), Confirmed(peer[p]) <= Confirmed(x), toPeer' \subseteq toPeer,
           peer' = [peer EXCEPT ![p] = x], NEW flags \in SUBSET {"syn", "ack", "fin", "rst"},
           NEW seq \in 0 .. SeqSpace - 1, NEW data \in Seq(Nat), Spoken(flags, seq, data),
           toUs' \in Into(toUs, Out(p, flags, seq, data))
    PROVE  PeerInv' /\ AirInv'
<1>1. DOMAIN peer = Ports BY DEF PeerInv
<1>2. peer'[p] = x BY <1>1
<1>3. PICK o : o = Out(p, flags, seq, data) OBVIOUS
<1>4. \A s \in o : s \in Segment /\ s.port = p /\ FromPeer(s, x) BY <1>2, <1>3, OutIs
<1>5. \A s \in toUs' : s \in toUs \/ s \in o BY <1>3 DEF Into
<1>6. \A s \in toUs' : s \in toUs \/ (s \in Segment /\ s.port = p /\ FromPeer(s, x)) BY <1>4, <1>5
<1> QED BY <1>6, PeerChanges

\* It answers without data.
LEMMA AnsweringKeeps ==
    ASSUME TcpInv, UNCHANGED <<net, server, program>>, NEW p \in Ports, NEW x, PeerOK(x, sent[p], Closed(p)),
           Len(peer[p].got) <= Len(x.got), Confirmed(peer[p]) <= Confirmed(x), toPeer' \subseteq toPeer,
           NEW flags \in {{"syn", "ack"}, {"ack"}, {"rst"}}, Answering(p, x, flags)
    PROVE  TcpInv'
<1>1. NetInv /\ PeerInv /\ AirInv BY DEF TcpInv
<1>2. PICK seq : seq = IF "syn" \in flags THEN PeerIss ELSE Plus(PeerIss, 1 + x.sent) OBVIOUS
<1>3. PICK data : data = <<>> OBVIOUS
<1>4. data \in Seq(Nat) /\ Len(data) = 0 BY <1>3
<1>5. x.sent \in Nat /\ x.sent <= PeerBytes + 1 BY PeerWord
<1>6. x.sent \in 0 .. PeerBytes + 1 BY <1>5, Constants
<1>7. PeerIss \in 0 .. SeqSpace - 1 /\ Plus(PeerIss, 1 + x.sent) \in 0 .. SeqSpace - 1
    <2>1. PeerIss \in Int /\ 1 + x.sent \in Int BY <1>5, Constants
    <2> QED BY <2>1, PlusType, Constants
<1>8. seq \in 0 .. SeqSpace - 1 BY <1>2, <1>7
<1>9. Spoken(flags, seq, data)
    <2>1. CASE flags = {"syn", "ack"}
        <3>1. seq = PeerIss BY <2>1, <1>2
        <3> QED BY <2>1, <3>1, <1>3 DEF Spoken
    <2>2. CASE flags = {"ack"}
        <3>1. "syn" \notin flags /\ "fin" \notin flags BY <2>2
        <3>2. seq = Plus(PeerIss, 1 + x.sent) BY <3>1, <1>2
        <3>3. \A j \in 1 .. Len(data) : data[j] = x.sent + j BY <1>4
        <3> QED BY <2>2, <3>1, <3>2, <3>3, <1>3, <1>6 DEF Spoken
    <2>3. CASE flags = {"rst"} BY <2>3 DEF Spoken
    <2> QED BY <2>1, <2>2, <2>3
<1>10. peer' = [peer EXCEPT ![p] = x] /\ toUs' \in Into(toUs, Out(p, flags, seq, data))
    BY <1>2, <1>3 DEF Answering
<1>11. flags \in SUBSET {"syn", "ack", "fin", "rst"} OBVIOUS
<1>12. PeerInv' /\ AirInv' BY <1>1, <1>4, <1>8, <1>9, <1>10, <1>11, SpeaksRight
<1> QED BY <1>12, PeerOnly

\* The ways it takes a segment.
LEMMA PeerGetsIs ==
    ASSUME NEW s, PeerGets(s), NEW p, p = peer[s.port]
    PROVE  /\ toPeer' = toPeer \ {s} /\ UNCHANGED <<net, server, program>>
           /\ \/ "rst" \in s.flags /\ Silent(s.port, [p EXCEPT !.st = "gone"])
              \/ Answering(s.port, [p EXCEPT !.st = "rcvd", !.room = s.win], {"syn", "ack"})
              \/ /\ "rst" \notin s.flags /\ "syn" \notin s.flags
                 /\ \E q \in Takes([p EXCEPT !.st = "open"], s) : Silent(s.port, q) \/ Answering(s.port, q, {"ack"})
              \/ Answering(s.port, p, {"ack"}) \/ Answering(s.port, p, {"rst"})
<1>1. toPeer' = toPeer \ {s} /\ UNCHANGED <<net, server, program>> BY DEF PeerGets
<1>2. CASE "rst" \in s.flags
    <2>1. s.flags # {"syn"} /\ s.flags \cap {"rst", "syn"} # {} BY <1>2
    <2>2. Silent(s.port, [p EXCEPT !.st = "gone"]) BY <1>2, <2>1, Zenon DEF PeerGets, Silent
    <2> QED BY <1>1, <1>2, <2>2
<1>3. CASE "rst" \notin s.flags /\ p.st \in {"new", "rcvd"} /\ s.flags = {"syn"}
    BY <1>1, <1>3, Zenon DEF PeerGets, Answering
<1>4. CASE "rst" \notin s.flags /\ ~(p.st \in {"new", "rcvd"} /\ s.flags = {"syn"})
           /\ p.st \in {"rcvd", "open"} /\ s.flags \cap {"rst", "syn"} = {}
    <2>1. "syn" \notin s.flags BY <1>4
    <2> QED BY <1>1, <1>4, <2>1, Zenon DEF PeerGets, Answering, Silent
<1>5. CASE "rst" \notin s.flags /\ ~(p.st \in {"new", "rcvd"} /\ s.flags = {"syn"})
           /\ ~(p.st \in {"rcvd", "open"} /\ s.flags \cap {"rst", "syn"} = {})
    BY <1>1, <1>5, Zenon DEF PeerGets, Answering
<1> QED BY <1>2, <1>3, <1>4, <1>5

\* A segment arrives at the other machine.
LEMMA PeerGetsKeeps ==
    ASSUME TcpInv, NEW s \in toPeer, PeerGets(s)
    PROVE  TcpInv'
<1>1. NetInv /\ PeerInv /\ AirInv /\ InboxMail BY DEF TcpInv
<1>2. s \in Segment /\ FromUs(s, sent[s.port], Closed(s.port)) BY <1>1 DEF AirInv
<1>3. s.port \in Ports /\ s.win \in Nat BY <1>2 DEF Segment
<1>4. PICK i \in Ports : i = s.port BY <1>3
<1>5. PICK p : p = peer[i] OBVIOUS
<1>6. PeerOK(p, sent[i], Closed(i)) BY <1>1, <1>5 DEF PeerInv
<1>7. Len(p.got) \in Nat /\ Confirmed(p) \in Nat BY <1>6, PeerWord
<1>8. /\ toPeer' = toPeer \ {s} /\ UNCHANGED <<net, server, program>>
      /\ \/ "rst" \in s.flags /\ Silent(i, [p EXCEPT !.st = "gone"])
         \/ Answering(i, [p EXCEPT !.st = "rcvd", !.room = s.win], {"syn", "ack"})
         \/ /\ "rst" \notin s.flags /\ "syn" \notin s.flags
            /\ \E q \in Takes([p EXCEPT !.st = "open"], s) : Silent(i, q) \/ Answering(i, q, {"ack"})
         \/ Answering(i, p, {"ack"}) \/ Answering(i, p, {"rst"})
    BY <1>4, <1>5, PeerGetsIs
<1>9. toPeer' \subseteq toPeer /\ UNCHANGED <<net, server, program>> BY <1>8
<1>10. CASE "rst" \in s.flags /\ Silent(i, [p EXCEPT !.st = "gone"])
    <2>1. PICK x : x = [p EXCEPT !.st = "gone"] OBVIOUS
    <2>2. PeerOK(x, sent[i], Closed(i)) /\ x.got = p.got /\ Confirmed(x) = Confirmed(p)
        BY <2>1, <1>6, PeerStates
    <2>3. Silent(i, x) BY <2>1, <1>10
    <2>4. Len(peer[i].got) <= Len(x.got) /\ Confirmed(peer[i]) <= Confirmed(x) BY <2>2, <1>5, <1>7
    <2> QED BY <2>2, <2>3, <2>4, <1>9, QuietKeeps
<1>11. CASE Answering(i, [p EXCEPT !.st = "rcvd", !.room = s.win], {"syn", "ack"})
    <2>1. PICK y : y = [p EXCEPT !.st = "rcvd"] OBVIOUS
    <2>2. PICK x : x = [y EXCEPT !.room = s.win] OBVIOUS
    <2>3. PeerOK(y, sent[i], Closed(i)) /\ y.got = p.got /\ Confirmed(y) = Confirmed(p)
        BY <2>1, <1>6, PeerStates
    <2>4. PeerOK(x, sent[i], Closed(i)) /\ x.got = y.got /\ Confirmed(x) = Confirmed(y)
        BY <2>2, <2>3, <1>3, PeerRooms
    <2>5. x = [p EXCEPT !.st = "rcvd", !.room = s.win] BY <2>1, <2>2
    <2>6. PICK flags \in {{"syn", "ack"}, {"ack"}, {"rst"}} : flags = {"syn", "ack"} OBVIOUS
    <2>7. Answering(i, x, flags) BY <2>5, <2>6, <1>11
    <2>8. Len(peer[i].got) <= Len(x.got) /\ Confirmed(peer[i]) <= Confirmed(x) BY <2>3, <2>4, <1>5, <1>7
    <2> QED BY <2>4, <2>7, <2>8, <1>9, AnsweringKeeps
<1>12. CASE /\ "rst" \notin s.flags /\ "syn" \notin s.flags
            /\ \E q \in Takes([p EXCEPT !.st = "open"], s) : Silent(i, q) \/ Answering(i, q, {"ack"})
    <2>1. PICK y : y = [p EXCEPT !.st = "open"] OBVIOUS
    <2>2. PeerOK(y, sent[i], Closed(i)) /\ y.got = p.got /\ Confirmed(y) = Confirmed(p)
        BY <2>1, <1>6, PeerStates
    <2>3. PICK x \in Takes(y, s) : Silent(i, x) \/ Answering(i, x, {"ack"}) BY <2>1, <1>12
    <2>4. sent[i] \in Seq(Nat) BY <1>1 DEF NetInv
    <2>5. Len(sent[i]) <= Budget(MaxEvents)
        <3>1. Len(inbox) \in Nat BY <1>1 DEF InboxMail
        <3> QED BY <3>1, <1>1, SentFits
    <2>6. FromUs(s, sent[i], Closed(i)) BY <1>2, <1>4
    <2>7. PeerOK(x, sent[i], Closed(i)) /\ Len(y.got) <= Len(x.got) /\ Confirmed(y) <= Confirmed(x)
        BY <2>2, <2>3, <2>4, <2>5, <2>6, <1>2, <1>12, TakesOK
    <2>8. Len(peer[i].got) <= Len(x.got) /\ Confirmed(peer[i]) <= Confirmed(x) BY <2>2, <2>7, <1>5
    <2>9. CASE Silent(i, x) BY <2>7, <2>8, <2>9, <1>9, QuietKeeps
    <2>10. CASE Answering(i, x, {"ack"})
        <3>1. PICK flags \in {{"syn", "ack"}, {"ack"}, {"rst"}} : flags = {"ack"} OBVIOUS
        <3>2. Answering(i, x, flags) BY <3>1, <2>10
        <3> QED BY <3>2, <2>7, <2>8, <1>9, AnsweringKeeps
    <2> QED BY <2>3, <2>9, <2>10
<1>13. CASE Answering(i, p, {"ack"}) \/ Answering(i, p, {"rst"})
    <2>1. PICK flags \in {{"syn", "ack"}, {"ack"}, {"rst"}} : Answering(i, p, flags) BY <1>13
    <2>2. Len(peer[i].got) <= Len(p.got) /\ Confirmed(peer[i]) <= Confirmed(p) BY <1>5, <1>7
    <2> QED BY <2>1, <2>2, <1>6, <1>9, AnsweringKeeps
<1> QED BY <1>8, <1>10, <1>11, <1>12, <1>13

\* It has said more.
LEMMA PeerSays ==
    ASSUME NEW p, NEW w, NEW closed, PeerOK(p, w, closed), NEW n \in Nat, n <= PeerBytes + 1,
           NEW x, x = [p EXCEPT !.sent = Most(@, n)]
    PROVE  /\ PeerOK(x, w, closed) /\ x.got = p.got /\ Confirmed(x) = Confirmed(p)
<1>1. PeerFields(p) /\ p.sent \in Nat /\ p.acked \in Nat /\ p.acked <= p.sent /\ p.sent <= PeerBytes + 1 BY DEF PeerOK
<1>2. PICK m : m = Most(p.sent, n) OBVIOUS
<1>3. m \in Nat /\ p.acked <= m /\ m <= PeerBytes + 1 BY <1>1, <1>2 DEF Most
<1>4. x = [p EXCEPT !.sent = m] BY <1>2
<1>5. /\ PeerFields(x) /\ x.got = p.got /\ x.fin = p.fin /\ x.st = p.st /\ x.acked = p.acked /\ x.sent = m
      /\ x.room = p.room /\ x.full = p.full
    BY <1>1, <1>4 DEF PeerFields
<1>6. PeerOK(x, w, closed) BY <1>3, <1>5 DEF PeerOK
<1>7. Confirmed(x) = Confirmed(p) BY <1>5 DEF Confirmed
<1> QED BY <1>5, <1>6, <1>7

\* What the other machine puts in a segment.
Reaching(p, from, size) ==
    Least(PeerBytes, Least(from + size, p.acked + IF p.room = 0 THEN 1 ELSE p.room))

\* How far a segment of it reaches.
LEMMA ReachingIs ==
    ASSUME NEW p, NEW w, NEW closed, PeerOK(p, w, closed), NEW from \in {p.acked, p.sent}, NEW size \in {1, Mss},
           NEW to, to = Reaching(p, from, size)
    PROVE  to \in Nat /\ to <= PeerBytes /\ from \in Nat
<1>1. p.sent \in Nat /\ p.acked \in Nat /\ p.room \in Nat BY DEF PeerOK
<1>2. PICK room : room = IF p.room = 0 THEN 1 ELSE p.room OBVIOUS
<1>3. room \in Nat BY <1>1, <1>2
<1>4. from \in Nat /\ size \in Nat /\ PeerBytes \in Nat BY <1>1, Constants
<1>5. to = Least(PeerBytes, Least(from + size, p.acked + room)) BY <1>2 DEF Reaching
<1> QED BY <1>1, <1>3, <1>4, <1>5 DEF Least

SendsSo(port, from, to, fin) ==
    /\ from <= PeerBytes /\ (to > from \/ fin)
    /\ peer' = [peer EXCEPT ![port].sent = Most(@, to + IF fin THEN 1 ELSE 0)]
    /\ toUs' \in Into(toUs, Out(port, {"ack"} \cup IF fin THEN {"fin"} ELSE {},
                                Plus(PeerIss, 1 + from), Bytes(from + 1, to)))
SendsFrom(port, p, from, size) ==
    SendsSo(port, from, Reaching(p, from, size), Reaching(p, from, size) = PeerBytes /\ size = Mss)

\* What a segment of it carries, taken apart.
LEMMA PeerSendsIs ==
    ASSUME NEW port, PeerSends(port)
    PROVE  /\ UNCHANGED <<net, server, program, toPeer>>
           /\ \E from \in {peer[port].acked, peer[port].sent}, size \in {1, Mss} :
                SendsFrom(port, peer[port], from, size)
<1>1. UNCHANGED <<net, server, program, toPeer>> BY DEF PeerSends
<1>2. \E from \in {peer[port].acked, peer[port].sent}, size \in {1, Mss} :
        SendsFrom(port, peer[port], from, size)
    BY ZenonT(60) DEF PeerSends, SendsSo, SendsFrom, Reaching
<1> QED BY <1>1, <1>2

\* It sends, again or for the first time.
LEMMA PeerSendsKeeps ==
    ASSUME TcpInv, NEW i \in Ports, PeerSends(i)
    PROVE  TcpInv'
<1>1. NetInv /\ PeerInv /\ AirInv BY DEF TcpInv
<1>2. PICK p : p = peer[i] OBVIOUS
<1>3. PeerOK(p, sent[i], Closed(i)) BY <1>1, <1>2 DEF PeerInv
<1>4. Len(p.got) \in Nat /\ Confirmed(p) \in Nat BY <1>3, PeerWord
<1>5. UNCHANGED <<net, server, program, toPeer>> BY PeerSendsIs
<1>6. PICK from \in {p.acked, p.sent}, size \in {1, Mss} : SendsFrom(i, p, from, size) BY <1>2, PeerSendsIs
<1>7. PICK to : to = Reaching(p, from, size) OBVIOUS
<1>8. PICK fin \in BOOLEAN :
            /\ fin = (to = PeerBytes /\ size = Mss)
            /\ from <= PeerBytes /\ (to > from \/ fin)
            /\ peer' = [peer EXCEPT ![i].sent = Most(@, to + IF fin THEN 1 ELSE 0)]
            /\ toUs' \in Into(toUs, Out(i, {"ack"} \cup IF fin THEN {"fin"} ELSE {},
                                        Plus(PeerIss, 1 + from), Bytes(from + 1, to)))
    <2>1. PICK fin \in BOOLEAN : fin = (to = PeerBytes /\ size = Mss) OBVIOUS
    <2>2. SendsSo(i, from, to, fin) BY <1>6, <1>7, <2>1 DEF SendsFrom
    <2> QED BY <2>1, <2>2, Zenon DEF SendsSo
<1>9. to \in Nat /\ to <= PeerBytes /\ from \in Nat BY <1>3, <1>7, ReachingIs
<1>10. from <= to /\ (fin => to = PeerBytes)
    <2>1. fin => to = PeerBytes BY <1>8
    <2>2. CASE fin BY <2>1, <2>2, <1>8
    <2>3. CASE ~fin BY <2>3, <1>8, <1>9
    <2> QED BY <2>1, <2>2, <2>3
<1>11. PICK n : n = to + IF fin THEN 1 ELSE 0 OBVIOUS
<1>12. n \in Nat /\ n <= PeerBytes + 1 BY <1>9, <1>11, Constants
<1>13. PICK x : x = [p EXCEPT !.sent = Most(@, n)] OBVIOUS
<1>14. PeerOK(x, sent[i], Closed(i)) /\ x.got = p.got /\ Confirmed(x) = Confirmed(p)
    BY <1>3, <1>12, <1>13, PeerSays
<1>15. peer' = [peer EXCEPT ![i] = x]
    <2>1. peer' = [peer EXCEPT ![i].sent = Most(@, n)] BY <1>8, <1>11
    <2> QED BY <2>1, <1>2, <1>13
<1>16. PICK flags : flags = {"ack"} \cup IF fin THEN {"fin"} ELSE {} OBVIOUS
<1>17. flags \in {{"ack"}, {"ack", "fin"}} /\ ("fin" \in flags => fin)
    <2>1. CASE fin BY <2>1, <1>16
    <2>2. CASE ~fin BY <2>2, <1>16
    <2> QED BY <2>1, <2>2
<1>18. PICK data : data = Bytes(from + 1, to) OBVIOUS
<1>19. data \in Seq(Nat) /\ Len(data) = to - from /\ \A k \in 1 .. Len(data) : data[k] = from + k
    <2>1. from + 1 \in Nat \ {0} /\ from + 1 <= to + 1 /\ to - (from + 1) + 1 = to - from BY <1>9, <1>10
    <2>2. Bytes(from + 1, to) \in Seq(Nat) /\ Len(Bytes(from + 1, to)) = to - (from + 1) + 1
          /\ \A k \in 1 .. to - (from + 1) + 1 : Bytes(from + 1, to)[k] = (from + 1) + k - 1
        BY <2>1, <1>9, BytesIs
    <2>3. ASSUME NEW k \in 1 .. to - from PROVE data[k] = from + k
        <3>1. data[k] = (from + 1) + k - 1 BY <2>1, <2>2, <1>18
        <3> QED BY <3>1, <1>9
    <2> QED BY <2>1, <2>2, <2>3, <1>18
<1>20. PICK seq : seq = Plus(PeerIss, 1 + from) OBVIOUS
<1>21. seq \in 0 .. SeqSpace - 1
    <2>1. PeerIss \in Int /\ 1 + from \in Int BY <1>9, Constants
    <2> QED BY <2>1, <1>20, PlusType
<1>22. from + Len(data) = to /\ from \in 0 .. PeerBytes + 1 BY <1>9, <1>10, <1>19, Constants
<1>23. Spoken(flags, seq, data) BY <1>9, <1>10, <1>17, <1>19, <1>20, <1>22 DEF Spoken
<1>24. toUs' \in Into(toUs, Out(i, flags, seq, data)) BY <1>8, <1>16, <1>18, <1>20
<1>25. Len(peer[i].got) <= Len(x.got) /\ Confirmed(peer[i]) <= Confirmed(x) BY <1>2, <1>4, <1>14
<1>26. flags \in SUBSET {"syn", "ack", "fin", "rst"} BY <1>17
<1>27. UNCHANGED server /\ toPeer' \subseteq toPeer /\ UNCHANGED <<net, server, program>> BY <1>5
<1>28. PeerInv' /\ AirInv'
    BY <1>1, <1>14, <1>15, <1>19, <1>21, <1>23, <1>24, <1>25, <1>26, <1>27, SpeaksRight
<1> QED BY <1>27, <1>28, PeerOnly

\* It gives up.
LEMMA PeerGivesUpKeeps ==
    ASSUME TcpInv, NEW i \in Ports, PeerGivesUp(i)
    PROVE  TcpInv'
<1>1. NetInv /\ PeerInv /\ AirInv /\ InboxMail BY DEF TcpInv
<1>2. /\ Trouble /\ UNCHANGED <<card, ip, server, program, toPeer>>
      /\ peer' = [peer EXCEPT ![i].st = "gone"]
      /\ toUs' \in Into(toUs, IF peer[i].st = "new" THEN {} ELSE Out(i, {"rst"}, 0, <<>>))
    BY DEF PeerGivesUp
<1>3. PICK p : p = peer[i] OBVIOUS
<1>4. PeerOK(p, sent[i], Closed(i)) BY <1>1, <1>3 DEF PeerInv
<1>5. Len(p.got) \in Nat /\ Confirmed(p) \in Nat BY <1>4, PeerWord
<1>6. PICK x : x = [p EXCEPT !.st = "gone"] OBVIOUS
<1>7. PeerOK(x, sent[i], Closed(i)) /\ x.got = p.got /\ Confirmed(x) = Confirmed(p) BY <1>4, <1>6, PeerStates
<1>8. peer' = [peer EXCEPT ![i] = x] BY <1>2, <1>3, <1>6
<1>9. Len(peer[i].got) <= Len(x.got) /\ Confirmed(peer[i]) <= Confirmed(x) BY <1>3, <1>5, <1>7
<1>10. PeerInv' /\ AirInv'
    <2>1. UNCHANGED server /\ toPeer' \subseteq toPeer BY <1>2
    <2>2. CASE peer[i].st = "new"
        <3>1. toUs' \in Into(toUs, {}) BY <2>2, <1>2
        <3>2. \A s \in toUs' : s \in toUs BY <3>1 DEF Into
        <3>3. \A s \in toUs' : s \in toUs \/ (s \in Segment /\ s.port = i /\ FromPeer(s, x)) BY <3>2
        <3> QED BY <2>1, <3>3, <1>1, <1>7, <1>8, <1>9, PeerChanges
    <2>3. CASE peer[i].st # "new"
        <3>1. PICK flags \in SUBSET {"syn", "ack", "fin", "rst"} : flags = {"rst"} OBVIOUS
        <3>2. PICK data : data = <<>> OBVIOUS
        <3>3. PICK seq : seq = 0 OBVIOUS
        <3>4. toUs' \in Into(toUs, Out(i, flags, seq, data)) BY <2>3, <3>1, <3>2, <3>3, <1>2
        <3>5. data \in Seq(Nat) /\ seq \in 0 .. SeqSpace - 1 BY <3>2, <3>3, Constants
        <3>6. Spoken(flags, seq, data) BY <3>1 DEF Spoken
        <3> QED BY <2>1, <3>4, <3>5, <3>6, <1>1, <1>7, <1>8, <1>9, SpeaksRight
    <2> QED BY <2>2, <2>3
<1>11. /\ conex' = conex /\ tcp_efimero' = tcp_efimero /\ given' = given /\ told' = told /\ sent' = sent
       /\ inbox' = inbox /\ mail' = mail /\ prog' = prog /\ card' = card /\ ip' = ip
    BY <1>2 DEF server, program
<1>12. NetInv'
    <2>1. troubles' \in 0 .. MaxTroubles /\ events' \in {events, events + 1} /\ events' <= MaxEvents
        <3>1. troubles < MaxTroubles /\ events < MaxEvents /\ troubles' = troubles + 1 /\ events' = events + 1
            BY <1>2 DEF Trouble
        <3>2. troubles \in 0 .. MaxTroubles /\ events \in 0 .. MaxEvents BY <1>1 DEF NetInv
        <3> QED BY <3>1, <3>2, Constants
    <2>2. card' \in BOOLEAN /\ ip' \in BOOLEAN /\ (ip' => card') BY <1>1, <1>11 DEF NetInv
    <2>3. inbox \in Seq(Requests) /\ UNCHANGED <<server, inbox>> BY <1>1, <1>2, <1>11 DEF InboxMail
    <2> QED BY <2>1, <2>2, <2>3, <1>1, NetStays
<1>13. ConnInv' BY <1>11 DEF ConnInv, TcpInv
<1>14. ProgInv' BY <1>11 DEF ProgInv, TcpInv
<1>15. InboxMail' BY <1>11 DEF InboxMail, TcpInv
<1>16. Awaited' BY <1>11 DEF Awaited, TcpInv
<1> QED BY <1>10, <1>12, <1>13, <1>14, <1>15, <1>16 DEF TcpInv

NewPeer == [st |-> "new", acked |-> 0, sent |-> 0, room |-> 0, got |-> <<>>, fin |-> FALSE, full |-> FALSE]

\* The other machine at the start.
LEMMA NewPeerIs ==
    ASSUME NEW w \in Seq(Nat), NEW closed, NEW x, x = NewPeer
    PROVE  PeerOK(x, w, closed) /\ Len(x.got) = 0
<1>1. PICK no \in BOOLEAN : no = FALSE OBVIOUS
<1>2. PICK e : e = <<>> OBVIOUS
<1>3. e \in Seq(Nat) /\ Len(e) = 0 BY <1>2
<1>4. x = [st |-> "new", acked |-> 0, sent |-> 0, room |-> 0, got |-> e, fin |-> no, full |-> no]
    BY <1>1, <1>2 DEF NewPeer
<1>5. /\ PeerFields(x) /\ x.st = "new" /\ x.acked = 0 /\ x.sent = 0 /\ x.room = 0 /\ x.got = e
      /\ x.fin = no /\ x.full = no
    BY <1>4 DEF PeerFields
<1>6. Slice(e, w, 0)
    <2>1. Len(w) \in Nat OBVIOUS
    <2> QED BY <2>1, <1>3 DEF Slice
<1>7. PeerOK(x, w, closed) BY <1>1, <1>3, <1>5, <1>6, Constants DEF PeerOK
<1> QED BY <1>3, <1>5, <1>7

\* The invariant holds at the start,
LEMMA InitHolds ==
    ASSUME Init
    PROVE  TcpInv
<1>1. /\ card = TRUE /\ ip = TRUE /\ troubles = 0 /\ events = 0
      /\ conex = [k \in Slots |-> NoConn] /\ tcp_efimero = 0
      /\ given = [p \in Ports |-> <<>>] /\ told = [p \in Ports |-> 0] /\ sent = [p \in Ports |-> <<>>]
      /\ inbox = <<>> /\ mail = <<>> /\ prog = NewProg /\ toUs = {} /\ toPeer = {}
      /\ peer = [p \in Ports |-> NewPeer]
    BY DEF Init, NewPeer
<1>2. <<>> \in Seq(Nat) /\ <<>> \in Seq(Requests) /\ <<>> \in Seq(Message) /\ Len(<<>>) = 0 BY EmptyIs
<1>3. InboxMail BY <1>1, <1>2 DEF InboxMail
<1>4. Asked("abrir") = 0
    <2>1. OfKind(inbox, "abrir") = {} BY <1>1, <1>2 DEF OfKind
    <2>2. inbox \in Seq(Requests) BY <1>1, <1>2
    <2>3. Asked("abrir") = Cardinality({}) BY <2>1, <2>2, AskedIs
    <2> QED BY <2>3, FS_EmptySet
<1>5. NetInv
    <2>1. Budget(0) = 0 BY Constants DEF Budget
    <2>2. Len(inbox) = 0 BY <1>1, <1>2
    <2>3. ASSUME NEW p \in Ports
          PROVE  /\ given[p] \in Seq(Nat) /\ sent[p] \in Seq(Nat) /\ told[p] \in Nat
                 /\ given[p] = <<>> /\ sent[p] = <<>> /\ told[p] = 0
                 /\ Len(sent[p]) + Budget(Len(inbox)) <= Budget(events)
        <3>1. given[p] = <<>> /\ sent[p] = <<>> /\ told[p] = 0 BY <1>1
        <3>2. Len(sent[p]) = 0 BY <3>1, <1>2
        <3>3. Len(sent[p]) + Budget(Len(inbox)) = 0 /\ Budget(events) = 0 BY <3>2, <2>1, <2>2, <1>1
        <3> QED BY <3>1, <3>3, <1>2
    <2>4. DOMAIN given = Ports /\ DOMAIN sent = Ports /\ DOMAIN told = Ports BY <1>1
    <2>5. troubles \in 0 .. MaxTroubles /\ events \in 0 .. MaxEvents BY <1>1, Constants
    <2>6. tcp_efimero \in Nat /\ tcp_efimero + Asked("abrir") <= MaxOpens BY <1>1, <1>4, Constants
    <2>7. card \in BOOLEAN /\ ip \in BOOLEAN /\ (ip => card) BY <1>1
    <2> QED BY <2>3, <2>4, <2>5, <2>6, <2>7 DEF NetInv
<1>6. ConnInv
    <2>1. DOMAIN conex = Slots /\ \A k \in Slots : conex[k] = NoConn BY <1>1
    <2>2. NoConn.local = 0 BY DEF NoConn
    <2> QED BY <2>1, <2>2 DEF ConnInv
<1>7. PeerInv
    <2>1. ASSUME NEW p \in Ports PROVE PeerOK(peer[p], sent[p], Closed(p)) /\ told[p] <= Len(peer[p].got)
        <3>1. peer[p] = NewPeer /\ sent[p] = <<>> /\ told[p] = 0 BY <1>1
        <3>2. sent[p] \in Seq(Nat) BY <3>1, <1>2
        <3>3. PeerOK(peer[p], sent[p], Closed(p)) /\ Len(peer[p].got) = 0 BY <3>1, <3>2, NewPeerIs
        <3> QED BY <3>1, <3>3
    <2>2. DOMAIN peer = Ports BY <1>1
    <2> QED BY <2>1, <2>2 DEF PeerInv
<1>8. AirInv BY <1>1 DEF AirInv
<1>9. prog = NewProg BY <1>1
<1>10. ProgInv
    <2>1. ProgFields(prog) /\ prog.alive \in BOOLEAN /\ prog.h \in 0 .. Conex /\ prog.said \in Nat
          /\ prog.waits = "none"
        BY <1>9, Constants DEF NewProg, ProgFields
    <2>2. \A i \in 1 .. Len(inbox) : FALSE BY <1>1, <1>2
    <2> QED BY <2>1, <2>2 DEF ProgInv
<1>11. Awaited BY <1>9 DEF Awaited, NewProg
<1> QED BY <1>3, <1>5, <1>6, <1>7, <1>8, <1>10, <1>11 DEF TcpInv

\* every step keeps it,
LEMMA NextKeeps ==
    ASSUME TcpInv, [Next]_vars
    PROVE  TcpInv'
<1>1. CASE Attend BY <1>1, AttendKeeps
<1>2. CASE CadaSegundo BY <1>2, CadaSegundoKeeps
<1>3. CASE \E s \in toUs : Llega(s)
    <2>1. PICK s \in toUs : Llega(s) BY <1>3
    <2> QED BY <2>1, LlegaKeeps
<1>4. CASE CardGone \/ CardBack \/ AddressBack BY <1>4, CardKeeps
<1>5. CASE Conectar \/ TcpEnviar \/ TcpRecibir \/ TcpCerrar BY <1>5, AsksKeep
<1>6. CASE RedEsperar BY <1>6, RedEsperarKeeps
<1>7. CASE Alarma BY <1>7, AlarmaKeeps
<1>8. CASE Dies BY <1>8, DiesKeeps
<1>9. CASE \E s \in toPeer : PeerGets(s)
    <2>1. PICK s \in toPeer : PeerGets(s) BY <1>9
    <2> QED BY <2>1, PeerGetsKeeps
<1>10. CASE \E p \in Ports : PeerSends(p) \/ PeerGivesUp(p)
    <2>1. PICK p \in Ports : PeerSends(p) \/ PeerGivesUp(p) BY <1>10
    <2> QED BY <2>1, PeerSendsKeeps, PeerGivesUpKeeps
<1>11. CASE UNCHANGED vars
    <2>1. UNCHANGED <<net, server, program>> /\ peer' = peer /\ toUs' = toUs /\ toPeer' = toPeer BY <1>11 DEF vars
    <2>2. UNCHANGED <<server, peer, toUs, toPeer>> BY <2>1
    <2>3. PeerInv' /\ AirInv' BY <2>2, ServerStays DEF TcpInv
    <2> QED BY <2>1, <2>3, PeerOnly
<1> QED BY <1>1, <1>2, <1>3, <1>4, <1>5, <1>6, <1>7, <1>8, <1>9, <1>10, <1>11 DEF Next

\* and so it always holds (user/red.c with lib/red.c, whatever the air does).
THEOREM TcpAlways == Spec => []TcpInv
<1>1. Init => TcpInv BY InitHolds
<1>2. TcpInv /\ [Next]_vars => TcpInv' BY NextKeeps
<1> QED BY <1>1, <1>2, PTL DEF Spec

ConnTyped(c) ==
    /\ c.estado \in {"libre", "syn", "abierta", "cerrando", "muerta"}
    /\ c.buz \in Seq(Nat) /\ Len(c.buz) <= Buz
    /\ c.reintentos \in 0 .. Retries /\ c.morir_en \in {Never} \cup 1 .. 10
    /\ {c.snd_una, c.snd_nxt, c.rcv_nxt} \subseteq 0 .. SeqSpace - 1

\* The types are part of it.
LEMMA TypedIs ==
    ASSUME TcpInv
    PROVE  TypeOK
<1>1. ASSUME NEW k \in Slots PROVE ConnTyped(conex[k])
    <2>1. CASE conex[k] = NoConn
        <3>1. PICK c : c = NoConn OBVIOUS
        <3>2. /\ c.estado = "libre" /\ c.buz = <<>> /\ c.reintentos = 0 /\ c.morir_en = Never
              /\ c.snd_una = 0 /\ c.snd_nxt = 0 /\ c.rcv_nxt = 0
            BY <3>1 DEF NoConn
        <3>3. c.buz \in Seq(Nat) /\ Len(c.buz) = 0 BY <3>2
        <3>4. ConnTyped(c) BY <3>2, <3>3, Constants DEF ConnTyped
        <3> QED BY <3>1, <3>4, <2>1
    <2>2. CASE conex[k] # NoConn
        <3>1. ConnType(conex[k]) BY <2>2 DEF TcpInv, ConnInv, Sound
        <3> QED BY <3>1 DEF ConnType, ConnTyped
    <2> QED BY <2>1, <2>2
<1>2. toUs \cup toPeer \subseteq Segment BY DEF TcpInv, AirInv
<1>3. {card, ip} \subseteq BOOLEAN /\ (ip => card) BY DEF TcpInv, NetInv
<1>4. mail \in Seq(Message) BY DEF TcpInv, InboxMail
<1> QED BY <1>1, <1>2, <1>3, <1>4 DEF TypeOK, ConnTyped

\* Two words with the same letters.
LEMMA SameWord ==
    ASSUME NEW x \in Seq(Nat), NEW y \in Seq(Nat), Len(x) = Len(y), \A k \in 1 .. Len(x) : x[k] = y[k]
    PROVE  x = y
OBVIOUS

\* What has been handed out and what is kept are the stream from its start.
LEMMA WholeIs ==
    ASSUME NEW c, NEW g \in Seq(Nat), NEW t, NEW w, Sound(c, g, t, w), c.estado \in {"abierta", "cerrando"},
           NEW whole, whole = g \o c.buz
    PROVE  /\ whole = Bytes(1, Len(whole))
           /\ c.rcv_nxt = Plus(PeerIss, 1 + Len(whole) + IF c.fin_recibido THEN 1 ELSE 0)
           /\ c.fin_recibido => Len(whole) = PeerBytes
<1>1. ConnType(c) /\ Taken(c, g) BY DEF Sound, Reading
<1>2. PICK b : b = c.buz OBVIOUS
<1>3. b \in Seq(Nat) /\ c.fin_recibido \in BOOLEAN BY <1>1, <1>2 DEF ConnType
<1>4. whole \in Seq(Nat) /\ Len(whole) = Len(g) + Len(b) /\ (\A j \in 1 .. Len(g) : whole[j] = g[j])
      /\ \A j \in 1 .. Len(b) : whole[Len(g) + j] = b[j]
    BY <1>2, <1>3, Joined
<1>5. Len(g) \in Nat /\ Len(b) \in Nat /\ Len(whole) \in Nat BY <1>3, <1>4
<1>6. /\ \A j \in 1 .. Len(g) : g[j] = j
      /\ \A j \in 1 .. Len(b) : b[j] = Len(g) + j
      /\ c.rcv_nxt = Plus(PeerIss, 1 + (Len(g) + Len(b)) + Flag(c.fin_recibido))
      /\ c.fin_recibido => Len(g) + Len(b) = PeerBytes
    BY <1>1, <1>2 DEF Taken
<1>7. ASSUME NEW j \in 1 .. Len(whole) PROVE whole[j] = j
    <2>1. CASE j \in 1 .. Len(g) BY <2>1, <1>4, <1>6
    <2>2. CASE j \notin 1 .. Len(g)
        <3>1. PICK i : i = j - Len(g) OBVIOUS
        <3>2. i \in 1 .. Len(b) /\ Len(g) + i = j BY <3>1, <2>2, <1>4, <1>5
        <3> QED BY <3>2, <1>4, <1>6
    <2> QED BY <2>1, <2>2
<1>8. PICK n : n = Len(whole) OBVIOUS
<1>9. Bytes(1, n) \in Seq(Nat) /\ Len(Bytes(1, n)) = n - 1 + 1
      /\ \A k \in 1 .. n - 1 + 1 : Bytes(1, n)[k] = 1 + k - 1
    <2>1. 1 \in Nat \ {0} /\ n \in Nat /\ 1 <= n + 1 BY <1>5, <1>8
    <2> QED BY <2>1, BytesIs
<1>10. n - 1 + 1 = n /\ \A k \in 1 .. n : 1 + k - 1 = k BY <1>5, <1>8
<1>11. \A k \in 1 .. n : Bytes(1, n)[k] = whole[k] BY <1>7, <1>8, <1>9, <1>10
<1>12. whole = Bytes(1, n)
    <2>1. PICK z : z = Bytes(1, n) OBVIOUS
    <2>2. z \in Seq(Nat) /\ Len(z) = n BY <2>1, <1>9, <1>10
    <2>3. \A k \in 1 .. n : z[k] = whole[k] BY <2>1, <1>11
    <2>4. z = whole BY <2>2, <2>3, <1>4, <1>8, SameWord
    <2> QED BY <2>1, <2>4
<1>13. c.rcv_nxt = Plus(PeerIss, 1 + Len(whole) + IF c.fin_recibido THEN 1 ELSE 0)
    BY <1>4, <1>6 DEF Flag
<1> QED BY <1>4, <1>6, <1>8, <1>12, <1>13

\* A slice from the start is a beginning.
LEMMA PrefixIs ==
    ASSUME NEW d \in Seq(Nat), NEW w \in Seq(Nat), Slice(d, w, 0)
    PROVE  d = SubSeq(w, 1, Len(d))
<1>1. Len(d) \in Nat /\ Len(w) \in Nat OBVIOUS
<1>2. Len(d) <= Len(w) /\ \A j \in 1 .. Len(d) : d[j] = w[j]
    <2>1. 0 + Len(d) <= Len(w) /\ \A j \in 1 .. Len(d) : d[j] = w[0 + j] BY DEF Slice
    <2>2. \A j \in 1 .. Len(d) : 0 + j = j OBVIOUS
    <2> QED BY <2>1, <2>2, <1>1
<1>3. PICK n \in 0 .. Len(w) : n = Len(d) BY <1>1, <1>2
<1>4. SubSeq(w, 1, n) \in Seq(Nat) /\ Len(SubSeq(w, 1, n)) = n /\ \A j \in 1 .. n : SubSeq(w, 1, n)[j] = w[j]
    BY CutAt
<1>5. \A j \in 1 .. n : d[j] = SubSeq(w, 1, n)[j] BY <1>2, <1>3, <1>4
<1> QED BY <1>3, <1>4, <1>5

\* The streams are whole.
LEMMA StreamsWhole ==
    ASSUME TcpInv
    PROVE  StreamsAreWhole
<1>1. InOrderOnce
    <2> DEFINE P(c, whole) == c.estado \in {"abierta", "cerrando"} =>
            /\ whole = Bytes(1, Len(whole))
            /\ c.rcv_nxt = Plus(PeerIss, 1 + Len(whole) + IF c.fin_recibido THEN 1 ELSE 0)
            /\ c.fin_recibido => Len(whole) = PeerBytes
    <2>1. ASSUME NEW k \in Slots PROVE P(conex[k], given[conex[k].local] \o conex[k].buz)
        <3>1. CASE conex[k].estado \in {"abierta", "cerrando"}
            <4>1. conex[k] # NoConn BY <3>1 DEF NoConn
            <4>2. PICK c : c = conex[k] OBVIOUS
            <4>3. PICK p : p = c.local OBVIOUS
            <4>4. Sound(c, given[p], told[p], sent[p]) BY <4>1, <4>2, <4>3 DEF TcpInv, ConnInv
            <4>5. p \in Ports BY <4>3, <4>4 DEF Sound, ConnType
            <4>6. given[p] \in Seq(Nat) BY <4>5 DEF TcpInv, NetInv
            <4>7. PICK whole : whole = given[p] \o c.buz OBVIOUS
            <4>8. P(c, whole) BY <4>2, <4>4, <4>6, <4>7, <3>1, WholeIs
            <4> QED BY <4>2, <4>3, <4>7, <4>8
        <3>2. CASE conex[k].estado \notin {"abierta", "cerrando"} BY <3>2
        <3> QED BY <3>1, <3>2
    <2> QED BY <2>1, Zenon DEF InOrderOnce
<1>2. ToldIsThere
    <2>1. ASSUME NEW p \in Ports
          PROVE  peer[p].got = SubSeq(sent[p], 1, Len(peer[p].got)) /\ told[p] <= Len(peer[p].got)
        <3>1. PeerOK(peer[p], sent[p], Closed(p)) /\ told[p] <= Len(peer[p].got) BY DEF TcpInv, PeerInv
        <3>2. peer[p].got \in Seq(Nat) /\ Slice(peer[p].got, sent[p], 0) BY <3>1 DEF PeerOK
        <3>3. sent[p] \in Seq(Nat) BY DEF TcpInv, NetInv
        <3> QED BY <3>1, <3>2, <3>3, PrefixIs
    <2> QED BY <2>1 DEF ToldIsThere
<1> QED BY <1>1, <1>2 DEF StreamsAreWhole

WaitsWell(c) ==
    /\ c.lector => c.buz = <<>> /\ ~c.fin_recibido /\ c.estado \in {"syn", "abierta", "cerrando"}
    /\ c.envio  => c.vuelo.data # <<>> /\ c.estado = "abierta"
    /\ c.estado = "syn" => c.vuelo.flags = {"syn"}

\* Who waits on a connection waits for what may still come.
LEMMA WaitsWellIs ==
    ASSUME NEW c, NEW g, NEW t, NEW w, Sound(c, g, t, w), Patient(c)
    PROVE  WaitsWell(c)
<1>1. c.estado \in {"syn", "abierta", "cerrando", "muerta"} BY DEF Sound, ConnType
<1>2. c.lector => c.buz = <<>> /\ ~c.fin_recibido /\ c.estado # "muerta" BY DEF Patient
<1>3. CASE c.estado = "syn"
    <2>1. ~c.envio /\ c.vuelo.flags = {"syn"} BY <1>3 DEF Sound, Opening
    <2> QED BY <2>1, <1>2, <1>3 DEF WaitsWell
<1>4. CASE c.estado = "abierta"
    <2>1. c.envio => c.vuelo.data # <<>> BY <1>4 DEF Sound, Sending
    <2> QED BY <2>1, <1>2, <1>4 DEF WaitsWell
<1>5. CASE c.estado = "cerrando"
    <2>1. ~c.envio BY <1>5 DEF Sound, Closing
    <2> QED BY <2>1, <1>2, <1>5 DEF WaitsWell
<1>6. CASE c.estado = "muerta"
    <2>1. ~c.envio BY <1>6 DEF Sound, Over
    <2> QED BY <2>1, <1>2, <1>6 DEF WaitsWell
<1> QED BY <1>1, <1>3, <1>4, <1>5, <1>6

\* And who asks for a connection has its request, its SYN or its answer.
LEMMA NobodyInVain ==
    ASSUME TcpInv
    PROVE  NobodyWaitsInVain
<1>1. ASSUME NEW k \in Slots PROVE WaitsWell(conex[k])
    <2>1. CASE conex[k] = NoConn BY <2>1 DEF NoConn, WaitsWell
    <2>2. CASE conex[k] # NoConn
        <3>1. PICK p : p = conex[k].local OBVIOUS
        <3>2. Sound(conex[k], given[p], told[p], sent[p]) /\ Patient(conex[k])
            BY <2>2, <3>1 DEF TcpInv, ConnInv
        <3> QED BY <3>2, WaitsWellIs
    <2> QED BY <2>1, <2>2
<1>2. ASSUME inbox # <<>>, inbox[Len(inbox)].op = "abrir" PROVE Asked("abrir") > 0
    <2>1. inbox \in Seq(Requests) BY DEF TcpInv, InboxMail
    <2>2. Len(inbox) \in 1 .. Len(inbox) BY <2>1, <1>2
    <2>3. PICK S : S = OfKind(inbox, "abrir") OBVIOUS
    <2>4. IsFiniteSet(S) /\ Cardinality(S) \in Nat BY <2>1, <2>3, OfKindFinite
    <2>5. S # {} BY <2>2, <2>3, <1>2 DEF OfKind
    <2>6. Cardinality(S) # 0 BY <2>4, <2>5, FS_EmptySet
    <2>7. Asked("abrir") = Cardinality(S) BY <2>1, <2>3, AskedIs
    <2> QED BY <2>4, <2>6, <2>7
<1>3. prog.waits = "abierta" =>
        \/ Asked("abrir") > 0 \/ \E k \in Slots : conex[k].estado = "syn"
        \/ \E i \in DOMAIN mail : mail[i].type \in {"abierta", "error", "alarma"}
    BY <1>2 DEF TcpInv, Awaited
<1> QED BY <1>1, <1>3 DEF NobodyWaitsInVain, WaitsWell

\* The state of the server and of the air has its shape, nobody keeps more than
\* TCP_BUZ unread bytes and the repeats stop at the fifth (tcp_tick).
THEOREM TcpTypeOK == Spec => []TypeOK
<1>1. TcpInv => TypeOK BY TypedIs
<1> QED BY <1>1, TcpAlways, PTL

\* Both streams are whole and in order, whatever is lost, repeated or late: what
\* tcp_datos_llegan() keeps and hands out, what the other machine gets, and what
\* UMSG_TCP_HUECO says that went in.
THEOREM EveryStreamIsWhole == Spec => []StreamsAreWhole
<1>1. TcpInv => StreamsAreWhole BY StreamsWhole
<1> QED BY <1>1, TcpAlways, PTL

\* Nobody waits for what is there or cannot come: tcp_entregar(), tcp_terminar() and
\* tcp_llego() answer whoever waits before they take away what it waits for.
THEOREM NoWaitIsInVain == Spec => []NobodyWaitsInVain
<1>1. TcpInv => NobodyWaitsInVain BY NobodyInVain
<1> QED BY <1>1, TcpAlways, PTL

(* ---------------- What the program and the server say to each other ------ *)

\* Nobody waits at any connection.
Still == \A k \in Slots : Waits(conex[k], "none")

\* Nothing for the program but its alarm.
Silence == \A i \in 1 .. Len(mail) : mail[i].type = "alarma"

InOrder(got) == got \in Seq(Nat) /\ \A j \in 1 .. Len(got) : got[j] = j

\* Slot h has handed out got and told said, and goes on from there.
Have(h, got, said) ==
    /\ InOrder(got)
    /\ h # 0 /\ conex[h] # NoConn =>
        /\ conex[h].estado # "syn" /\ Taken(conex[h], got)
        /\ given[conex[h].local] = got /\ told[conex[h].local] = said

Knows == Have(prog.h, prog.got, prog.said)

OpOf(w) == IF w = "abierta" THEN "abrir" ELSE IF w = "hueco" THEN "enviar" ELSE "leer"

\* The program asks nothing.
AtRest ==
    /\ prog.waits = "none" /\ Still /\ Silence /\ Knows
    /\ \A i \in 1 .. Len(inbox) : inbox[i].op = "cerrar"

\* Its request is in the port.
Asking ==
    /\ prog.waits # "none" /\ Still /\ Silence /\ Knows /\ inbox # <<>>
    /\ \A i \in 1 .. Len(inbox) - 1 : inbox[i].op = "cerrar"
    /\ inbox[Len(inbox)].op = OpOf(prog.waits)
    /\ prog.waits # "abierta" => inbox[Len(inbox)].slot = prog.h

\* One connection has taken it.
WorkingAt(k) ==
    /\ Waits(conex[k], prog.waits) /\ (prog.waits # "abierta" => k = prog.h)
    /\ \A j \in Slots \ {k} : Waits(conex[j], "none")

Working == prog.waits # "none" /\ inbox = <<>> /\ Silence /\ Knows /\ \E k \in Slots : WorkingAt(k)

\* What the program has when it takes m.
Becomes(m, h, got, said) ==
    /\ m.type \in {prog.waits, "error"}
    /\ \/ m.type = "error"   /\ h = prog.h /\ got = prog.got /\ said = prog.said
       \/ m.type = "abierta" /\ h = m.con  /\ got = <<>> /\ said = 0
       \/ m.type = "hueco"   /\ h = prog.h /\ got = prog.got /\ said = prog.said + m.n
       \/ m.type = "datos"   /\ h = prog.h /\ got = prog.got \o m.data /\ said = prog.said

Tells(m) == \E h \in 0 .. Conex : \E got, said : Becomes(m, h, got, said) /\ Have(h, got, said)

\* One answer is on its way.
Replied ==
    /\ prog.waits # "none" /\ inbox = <<>> /\ Still
    /\ \E i \in 1 .. Len(mail) :
        Tells(mail[i]) /\ \A j \in 1 .. Len(mail) : j # i => mail[j].type = "alarma"

\* Or none will come, and only the alarm ends the wait.
Lost == prog.waits # "none" /\ inbox = <<>> /\ Still /\ Silence /\ Knows

Dialogue ==
    prog.alive /\ ~prog.late =>
        /\ InOrder(prog.got)
        /\ prog.waits = "abierta" => prog.h = 0
        /\ prog.waits \in {"hueco", "datos"} => prog.h # 0
        /\ AtRest \/ Asking \/ Working \/ Replied \/ Lost

\* A connection waits for one thing.
LEMMA WaitsOne ==
    ASSUME NEW c, NEW v \in Words, NEW w \in Words, Waits(c, v), Waits(c, w)
    PROVE  v = w
BY DEF Waits, Words

\* Nobody waits at a free slot.
LEMMA WaitsFree ==
    Waits(NoConn, "none")
BY DEF Waits, NoConn

\* What a handler leaves of slot j, where the program waited for w: it is let go, or it is X.
Turns(j, X, w) ==
    \/ conex'[j] = NoConn /\ X.says = <<>>
    \/ /\ conex[j] # NoConn /\ conex'[j] = X.c /\ X.c.local = conex[j].local /\ Speaks(X, w)
       /\ given[X.c.local] \in Seq(Nat) /\ given'[X.c.local] = given[X.c.local] \o X.gave
       /\ told[X.c.local] \in Nat /\ told'[X.c.local] = told[X.c.local] + X.in
       /\ conex[j].estado # "syn" /\ Taken(conex[j], given[X.c.local]) => Taken(X.c, given'[X.c.local])
       /\ conex[j].estado = "syn" =>
            X.c.estado = "syn" \/ (TellsOpen(X) /\ Taken(X.c, given'[X.c.local])) \/ TellsError(X)

\* The slot hands out and tells nothing.
Keeps(j) ==
    \/ conex'[j] = NoConn
    \/ /\ conex[j] # NoConn /\ conex'[j].local = conex[j].local /\ conex'[j].estado # "syn"
       /\ given'[conex[j].local] = given[conex[j].local] /\ told'[conex[j].local] = told[conex[j].local]
       /\ conex[j].estado # "syn" /\ Taken(conex[j], given[conex[j].local])
            => Taken(conex'[j], given[conex[j].local])

\* A handler that is mute.
LEMMA MuteKeeps ==
    ASSUME NEW j \in Slots, NEW X, NEW w, Turns(j, X, w), Mute(X), X.c.estado # "syn" \/ conex'[j] = NoConn
    PROVE  Keeps(j)
<1>1. CASE conex'[j] = NoConn BY <1>1 DEF Keeps
<1>2. CASE conex'[j] # NoConn
    <2>1. /\ conex[j] # NoConn /\ conex'[j] = X.c /\ X.c.local = conex[j].local
          /\ given[X.c.local] \in Seq(Nat) /\ given'[X.c.local] = given[X.c.local] \o X.gave
          /\ told[X.c.local] \in Nat /\ told'[X.c.local] = told[X.c.local] + X.in
          /\ conex[j].estado # "syn" /\ Taken(conex[j], given[X.c.local]) => Taken(X.c, given'[X.c.local])
        BY <1>2 DEF Turns
    <2>2. PICK g : g = given[X.c.local] OBVIOUS
    <2>3. g \in Seq(Nat) /\ X.gave = <<>> /\ X.in = 0 BY <2>1, <2>2 DEF Mute
    <2>4. g \o <<>> = g BY <2>3, NothingMore
    <2>5. given'[X.c.local] = g BY <2>1, <2>2, <2>3, <2>4
    <2>6. told'[X.c.local] = told[X.c.local] BY <2>1, <2>3
    <2> QED BY <1>2, <2>1, <2>2, <2>5, <2>6 DEF Keeps
<1> QED BY <1>1, <1>2

\* Where nobody waits nothing is said.
LEMMA TurnsNone ==
    ASSUME NEW j \in Slots, NEW X, Turns(j, X, "none")
    PROVE  Keeps(j) /\ Waits(conex'[j], "none") /\ X.says = <<>>
<1>1. CASE conex'[j] = NoConn /\ X.says = <<>> BY <1>1, WaitsFree DEF Keeps
<1>2. CASE ~(conex'[j] = NoConn /\ X.says = <<>>)
    <2>1. conex'[j] = X.c /\ Speaks(X, "none") BY <1>2 DEF Turns
    <2>2. Mute(X) /\ Waits(X.c, "none") BY <2>1 DEF Speaks
    <2>3. X.c.estado # "syn" /\ X.says = <<>> BY <2>2 DEF Waits, Mute
    <2> QED BY <2>1, <2>2, <2>3, MuteKeeps
<1> QED BY <1>1, <1>2

\* What the program has of a connection that hands out nothing stays so.
LEMMA HaveKept ==
    ASSUME NEW h, NEW got, NEW said, Have(h, got, said), h # 0 => Keeps(h)
    PROVE  Have(h, got, said)'
BY DEF Have, Keeps

\* All that a step says is what one of the slots says.
Hears(R) == \A k \in Slots : (\A j \in Slots \ {k} : R[j].says = <<>>) => mail' = mail \o From(k, R[k].says)

\* Nothing said is no mail.
LEMMA FromNone ==
    ASSUME NEW k \in Slots
    PROVE  From(k, <<>>) = <<>>
<1>1. PICK e : e = <<>> OBVIOUS
<1>2. e \in Seq(Saying) /\ Len(e) = 0 BY <1>1, EmptyIs
<1>3. From(k, e) \in Seq(Message) /\ Len(From(k, e)) = 0 BY <1>2, FromType
<1>4. From(k, e) = <<>> BY <1>3
<1> QED BY <1>1, <1>4

\* One word is one message, of its connection.
LEMMA FromOne ==
    ASSUME NEW k \in Slots, NEW m \in Saying, NEW says, says = <<m>>
    PROVE  \E z \in Message : /\ From(k, says) = <<z>> /\ z.type = m.type /\ z.n = m.n
                              /\ z.data = m.data /\ z.con = k
<1>1. says \in Seq(Saying) /\ Len(says) = 1 /\ DOMAIN says = 1 .. 1 /\ says[1] = m OBVIOUS
<1>2. From(k, says) \in Seq(Message) /\ Len(From(k, says)) = 1 BY <1>1, FromType
<1>3. PICK z : z = [m EXCEPT !.con = k] OBVIOUS
<1>4. From(k, says) = [i \in 1 .. 1 |-> [says[i] EXCEPT !.con = k]] BY <1>1 DEF From
<1>5. From(k, says)[1] = z BY <1>1, <1>3, <1>4
<1>6. From(k, says) = <<z>> /\ z \in Message BY <1>2, <1>5
<1>7. z.type = m.type /\ z.n = m.n /\ z.data = m.data /\ z.con = k BY <1>3 DEF Saying
<1> QED BY <1>6, <1>7

\* A step where nobody waits.
LEMMA StillTurn ==
    ASSUME mail \in Seq(Message), NEW R, \A j \in Slots : Turns(j, R[j], "none"), Hears(R)
    PROVE  Still' /\ mail' = mail /\ \A j \in Slots : Keeps(j)
<1>1. \A j \in Slots : Keeps(j) /\ Waits(conex'[j], "none") /\ R[j].says = <<>> BY TurnsNone
<1>2. 1 \in Slots BY Constants DEF Slots
<1>3. mail' = mail \o From(1, R[1].says) BY <1>1, <1>2 DEF Hears
<1>4. From(1, R[1].says) = <<>> BY <1>1, <1>2, FromNone
<1>5. mail \o <<>> = mail OBVIOUS
<1> QED BY <1>1, <1>3, <1>4, <1>5 DEF Still

\* A message at the end.
LEMMA AtTheEnd ==
    ASSUME mail \in Seq(Message), NEW z \in Message, mail' = mail \o <<z>>
    PROVE  /\ Len(mail) \in Nat /\ Len(mail') = Len(mail) + 1 /\ mail'[Len(mail')] = z
           /\ \A i \in 1 .. Len(mail) : mail'[i] = mail[i]
OBVIOUS

\* So does what it has of its own.
LEMMA KnowsKept ==
    ASSUME Knows, prog' = prog, NEW h, h = prog.h, h # 0 => Keeps(h)
    PROVE  Knows'
<1>1. PICK got, said : got = prog.got /\ said = prog.said OBVIOUS
<1>2. Have(h, got, said) BY <1>1 DEF Knows
<1>3. Have(h, got, said)' BY <1>2, HaveKept
<1>4. prog'.h = h /\ prog'.got = got /\ prog'.said = said BY <1>1
<1> QED BY <1>3, <1>4 DEF Knows, Have

\* The answer is the whole of what the connection has done.
LEMMA AnswerBecomes ==
    ASSUME TcpInv, NEW k \in Slots, NEW w, w = prog.waits, w # "none", Knows, prog' = prog,
           NEW X, Turns(k, X, w), TellsOf(X, w), Waits(X.c, "none"), conex'[k] = X.c,
           w = "abierta" => conex[k].estado = "syn" /\ prog.h = 0, w # "abierta" => k = prog.h,
           NEW m \in Saying, X.says = <<m>>, m.type \in {w, "error"}, X.gave = m.data,
           X.in = IF m.type = "hueco" THEN m.n ELSE 0, m.type # "datos" => m.data = <<>>,
           NEW z \in Message, z.type = m.type, z.n = m.n, z.data = m.data, z.con = k
    PROVE  Tells(z)'
<1>1. PICK h, got, said : h = prog.h /\ got = prog.got /\ said = prog.said OBVIOUS
<1>2. prog'.h = h /\ prog'.got = got /\ prog'.said = said /\ prog'.waits = w BY <1>1
<1>3. Have(h, got, said) BY <1>1 DEF Knows
<1>4. h \in 0 .. Conex /\ k \in 0 .. Conex /\ k # 0 /\ said \in Nat
    BY <1>1, Constants DEF TcpInv, ProgInv, Slots
<1>5. PICK p : p = conex[k].local OBVIOUS
<1>6. PICK g : g = given[p] OBVIOUS
<1>7. /\ conex[k] # NoConn /\ X.c.local = p
      /\ g \in Seq(Nat) /\ given'[p] = g \o X.gave
      /\ told[p] \in Nat /\ told'[p] = told[p] + X.in
      /\ conex[k].estado # "syn" /\ Taken(conex[k], g) => Taken(X.c, given'[p])
      /\ conex[k].estado = "syn" =>
            X.c.estado = "syn" \/ (TellsOpen(X) /\ Taken(X.c, given'[p])) \/ TellsError(X)
    <2>1. X.says # <<>> OBVIOUS
    <2> QED BY <2>1, <1>5, <1>6 DEF Turns
<1>8. X.c.estado # "syn" BY DEF Waits
<1>9. m.type \in {"abierta", "hueco", "datos", "error"} /\ m.n \in 0 .. Mss /\ m.data \in Seq(Nat) BY DEF Saying
<1>10. m.n \in Nat /\ Mss \in Nat BY <1>9, Constants
<1>11. g \o <<>> = g BY <1>7, NothingMore
<1>12. \A i \in 1 .. Len(X.says) : X.says[i] = m OBVIOUS
<1>13. CASE w = "abierta" /\ m.type = "abierta"
    <2>1. ~TellsError(X) BY <1>12, <1>13 DEF TellsError
    <2>2. Taken(X.c, given'[p]) BY <2>1, <1>7, <1>8, <1>13
    <2>3. Opening(conex[k], given[p], told[p], sent[p])
        BY <1>5, <1>7 DEF TcpInv, ConnInv, Sound
    <2>4. g = <<>> /\ told[p] = 0 BY <2>3, <1>6, <1>13 DEF Opening
    <2>5. X.gave = <<>> /\ X.in = 0 BY <1>13
    <2>6. given'[p] = <<>> /\ told'[p] = 0 BY <2>4, <2>5, <1>7, <1>11
    <2>7. InOrder(<<>>) BY EmptyIs DEF InOrder
    <2>8. Have(k, <<>>, 0)' BY <2>2, <2>6, <2>7, <1>7, <1>8 DEF Have
    <2>9. Becomes(z, k, <<>>, 0)' BY <1>2, <1>13 DEF Becomes
    <2> QED BY <2>8, <2>9, <1>4 DEF Tells
<1>14. CASE w = "abierta" /\ m.type = "error"
    <2>1. h = 0 BY <1>1, <1>14
    <2>2. Have(h, got, said)' BY <2>1, <1>3 DEF Have
    <2>3. Becomes(z, h, got, said)' BY <1>2, <1>14 DEF Becomes
    <2> QED BY <2>2, <2>3, <1>4 DEF Tells
<1>15. CASE w # "abierta"
    <2>1. h = k BY <1>1, <1>15
    <2>2. conex[k].estado # "syn" /\ Taken(conex[k], got) /\ g = got /\ told[p] = said
        BY <2>1, <1>3, <1>4, <1>5, <1>6, <1>7 DEF Have
    <2>3. Taken(X.c, given'[p]) BY <2>2, <1>7
    <2>4. given'[p] = got \o m.data /\ told'[p] = said + X.in BY <2>2, <1>7
    <2>5. InOrder(got) /\ got \in Seq(Nat) BY <1>3 DEF Have, InOrder
    <2>6. CASE m.type = "error"
        <3>0. X.in = 0 /\ m.data = <<>> BY <2>6
        <3>1. given'[p] = got /\ told'[p] = said BY <3>0, <2>2, <2>4, <1>4, <1>11
        <3>2. Have(h, got, said)' BY <3>1, <2>1, <2>3, <2>5, <1>7, <1>8 DEF Have
        <3>3. Becomes(z, h, got, said)' BY <2>6, <1>2 DEF Becomes
        <3> QED BY <3>2, <3>3, <1>4 DEF Tells
    <2>7. CASE m.type = "hueco"
        <3>1. PICK s : s = said + m.n OBVIOUS
        <3>2. given'[p] = got /\ told'[p] = s BY <3>1, <2>2, <2>4, <2>7, <1>11
        <3>3. Have(h, got, s)' BY <3>2, <2>1, <2>3, <2>5, <1>7, <1>8 DEF Have
        <3>4. Becomes(z, h, got, s)' BY <3>1, <2>7, <1>2 DEF Becomes
        <3> QED BY <3>3, <3>4, <1>4 DEF Tells
    <2>8. CASE m.type = "datos"
        <3>1. PICK v : v = got \o m.data OBVIOUS
        <3>2. v \in Seq(Nat) BY <3>1, <2>5, <1>9
        <3>3. given'[p] = v /\ told'[p] = said BY <3>1, <2>4, <2>8, <1>4
        <3>4. InOrder(v) BY <3>2, <3>3, <2>3 DEF InOrder, Taken
        <3>5. Have(h, v, said)' BY <3>3, <3>4, <2>1, <2>3, <1>7, <1>8 DEF Have
        <3>6. Becomes(z, h, v, said)' BY <3>1, <2>8, <1>2 DEF Becomes
        <3> QED BY <3>5, <3>6, <1>4 DEF Tells
    <2> QED BY <2>6, <2>7, <2>8, <1>9, <1>15
<1> QED BY <1>13, <1>14, <1>15

\* What may come of a connection that has taken the request: it works on, answers or is lost.
LEMMA AnswerTurn ==
    ASSUME TcpInv, NEW k \in Slots, NEW w \in Words, w = prog.waits, w # "none", Silence, Knows,
           prog' = prog, inbox' = <<>>,
           NEW R, \A j \in Slots \ {k} : Turns(j, R[j], "none"), Turns(k, R[k], w), Hears(R),
           w = "abierta" => conex[k].estado = "syn" /\ prog.h = 0, w # "abierta" => k = prog.h
    PROVE  Working' \/ Replied' \/ Lost'
<1>1. \A j \in Slots \ {k} : Waits(conex'[j], "none") /\ R[j].says = <<>> BY TurnsNone
<1>2. PICK X : X = R[k] OBVIOUS
<1>3. Turns(k, X, w) /\ mail' = mail \o From(k, X.says) BY <1>1, <1>2 DEF Hears
<1>4. mail \in Seq(Message) /\ prog'.waits = w BY DEF TcpInv, InboxMail
<1>5. X.says = <<>> => mail' = mail
    <2>1. mail \o <<>> = mail BY <1>4
    <2> QED BY <2>1, <1>3, FromNone
<1>6. PICK h : h = prog.h OBVIOUS
<1>7. Keeps(k) \/ w = "abierta" => Knows'
    <2>1. w = "abierta" => h = 0 BY <1>6
    <2>2. w # "abierta" => h = k BY <1>6
    <2> QED BY <2>1, <2>2, <1>6, KnowsKept
<1>8. ASSUME conex'[k] = NoConn \/ Waits(conex'[k], "none") PROVE Still' BY <1>1, <1>8, WaitsFree DEF Still
<1>9. CASE conex'[k] = NoConn /\ X.says = <<>>
    <2>1. Still' BY <1>8, <1>9
    <2>2. Silence' BY <1>5, <1>9 DEF Silence
    <2>3. Knows' BY <1>7, <1>9 DEF Keeps
    <2> QED BY <2>1, <2>2, <2>3, <1>4 DEF Lost
<1>10. CASE ~(conex'[k] = NoConn /\ X.says = <<>>)
    <2>1. conex'[k] = X.c /\ Speaks(X, w) BY <1>3, <1>10 DEF Turns
    <2>2. CASE Mute(X) /\ Waits(X.c, w)
        <3>1. Silence' BY <1>5, <2>2 DEF Silence, Mute
        <3>2. X.c.estado = "syn" <=> w = "abierta" BY <2>2 DEF Waits
        <3>3. Knows' BY <3>2, <2>2, <1>3, <1>7, MuteKeeps
        <3>4. WorkingAt(k)' BY <2>1, <2>2, <1>1, <1>4 DEF WorkingAt
        <3> QED BY <3>1, <3>3, <3>4, <1>4 DEF Working
    <2>3. CASE Mute(X) /\ Waits(X.c, "none")
        <3>1. Silence' BY <1>5, <2>3 DEF Silence, Mute
        <3>2. X.c.estado # "syn" BY <2>3 DEF Waits
        <3>3. Knows' BY <3>2, <2>3, <1>3, <1>7, MuteKeeps
        <3>4. Still' BY <2>1, <2>3, <1>8
        <3> QED BY <3>1, <3>3, <3>4, <1>4 DEF Lost
    <2>4. CASE TellsOf(X, w) /\ Waits(X.c, "none")
        <3>1. PICK m \in Saying :
                /\ X.says = <<m>> /\ m.type \in {w, "error"} /\ X.gave = m.data
                /\ X.in = IF m.type = "hueco" THEN m.n ELSE 0
                /\ m.type # "datos" => m.data = <<>>
            BY <2>4 DEF TellsOf
        <3>2. PICK z \in Message : /\ From(k, X.says) = <<z>> /\ z.type = m.type /\ z.n = m.n
                                   /\ z.data = m.data /\ z.con = k
            BY <3>1, FromOne
        <3>4. Tells(z)' BY <2>1, <2>4, <3>1, <3>2, <1>3, AnswerBecomes
        <3>5. mail' = mail \o <<z>> BY <3>2, <1>3
        <3>6. /\ Len(mail) \in Nat /\ Len(mail') = Len(mail) + 1 /\ mail'[Len(mail')] = z
              /\ \A i \in 1 .. Len(mail) : mail'[i] = mail[i]
            BY <3>5, <1>4, AtTheEnd
        <3>7. ASSUME NEW j \in 1 .. Len(mail'), j # Len(mail') PROVE mail'[j].type = "alarma"
            <4>1. j \in 1 .. Len(mail) BY <3>6, <3>7
            <4> QED BY <4>1, <3>6 DEF Silence
        <3>8. Still' BY <2>1, <2>4, <1>8
        <3>9. Len(mail') \in 1 .. Len(mail') BY <3>6
        <3> QED BY <3>4, <3>6, <3>7, <3>8, <3>9, <1>4 DEF Replied
    <2> QED BY <2>1, <2>2, <2>3, <2>4 DEF Speaks
<1> QED BY <1>9, <1>10

\* A second where one slot speaks at most.
LEMMA RungOne ==
    ASSUME NEW r, NEW g, Rung(r, g), NEW k \in Slots, r[k].says \in Seq(Saying),
           \A j \in Slots \ {k} : r[j].says = <<>>
    PROVE  g[Conex] = From(k, r[k].says)
<1> DEFINE y == From(k, r[k].says)
           A == {n \in Nat : n <= Conex => g[n] = IF n < k THEN <<>> ELSE y}
<1>0. Conex \in Nat /\ k \in Nat /\ k <= Conex /\ 1 <= k BY Constants DEF Slots
<1>1. y \in Seq(Message) BY FromType
<1>2. (<<>> \o <<>> = <<>>) /\ (<<>> \o y = y) /\ (y \o <<>> = y) BY <1>1
<1> HIDE DEF y
<1>3. 0 \in A
    <2>1. g[0] = <<>> BY DEF Rung
    <2> QED BY <2>1, <1>0
<1>4. ASSUME NEW n \in Nat, n \in A PROVE n + 1 \in A
    <2> SUFFICES ASSUME n + 1 <= Conex PROVE g[n + 1] = IF n + 1 < k THEN <<>> ELSE y
        OBVIOUS
    <2>1. g[n] = IF n < k THEN <<>> ELSE y BY <1>0, <1>4
    <2>2. n + 1 \in Slots /\ n + 1 \in 1 .. Conex /\ (n + 1) - 1 = n BY <1>0 DEF Slots
    <2>3. g[n + 1] = g[n] \o From(n + 1, r[n + 1].says) BY <2>2 DEF Rung
    <2>4. CASE n + 1 = k
        <3>1. From(n + 1, r[n + 1].says) = y BY <2>4 DEF y
        <3>2. g[n] = <<>> BY <2>1, <2>4, <1>0
        <3>3. ~(n + 1 < k) BY <2>4, <1>0
        <3> QED BY <3>1, <3>2, <3>3, <2>3, <1>2
    <2>5. CASE n + 1 # k
        <3>1. From(n + 1, r[n + 1].says) = <<>> BY <2>2, <2>5, FromNone
        <3>2. n + 1 < k <=> n < k BY <2>5, <1>0
        <3> QED BY <3>1, <3>2, <2>1, <2>3, <1>2
    <2> QED BY <2>4, <2>5
<1>5. Conex \in A
    <2> HIDE DEF A
    <2> QED BY <1>0, <1>3, <1>4, SetInduction
<1>6. ~(Conex < k) BY <1>0
<1> QED BY <1>0, <1>5, <1>6 DEF y

\* A handler makes its turn.
LEMMA DoesTurns ==
    ASSUME NEW k \in Slots, conex[k] # NoConn, NetInv, ConnInv, NEW f, NEW b, Fronts(b, k, f), NEW r,
           Fits(r, b), Grew(b, k, r), NEW w \in Words, Speaks(r, w),
           conex[k].estado # "syn" /\ Taken(conex[k], b.g) => Held(r, b),
           conex[k].estado = "syn" => r.c.estado = "syn" \/ (TellsOpen(r) /\ Held(r, b)) \/ TellsError(r)
    PROVE  Turns(k, r, w)
<1>1. b.p = conex[k].local /\ b.g = given[b.p] /\ b.t = told[b.p] /\ b.p \in Ports BY DEF Fronts
<1>2. r.c.local = b.p BY DEF Fits
<1>3. DOMAIN given = Ports /\ DOMAIN told = Ports /\ DOMAIN conex = Slots BY DEF NetInv, ConnInv
<1>4. given[b.p] \in Seq(Nat) /\ told[b.p] \in Nat BY <1>1 DEF NetInv
<1>5. given'[b.p] = b.g \o r.gave /\ told'[b.p] = b.t + r.in /\ conex'[k] = r.c BY <1>1, <1>3 DEF Grew
<1>6. Held(r, b) <=> Taken(r.c, given'[b.p]) BY <1>5 DEF Held
<1>7. conex[k].estado # "syn" /\ Taken(conex[k], given[b.p]) => Taken(r.c, given'[b.p]) BY <1>1, <1>6
<1>8. conex[k].estado = "syn" => r.c.estado = "syn" \/ (TellsOpen(r) /\ Taken(r.c, given'[b.p])) \/ TellsError(r)
    BY <1>6
<1> QED BY <1>1, <1>2, <1>4, <1>5, <1>7, <1>8 DEF Turns

\* The others stay as they are.
LEMMA OthersTurn ==
    ASSUME NEW j \in Slots, NetInv, ConnInv, conex'[j] = conex[j],
           conex[j] # NoConn => given'[conex[j].local] = given[conex[j].local]
                                /\ told'[conex[j].local] = told[conex[j].local],
           NEW w \in Words, Waits(conex[j], w)
    PROVE  Turns(j, Start(conex[j]), w)
<1>1. PICK c : c = conex[j] OBVIOUS
<1>2. PICK X : X = Start(c) OBVIOUS
<1>3. X.c = c /\ X.says = <<>> /\ X.gave = <<>> /\ X.in = 0 BY <1>2 DEF Start
<1>4. CASE c = NoConn BY <1>1, <1>2, <1>3, <1>4 DEF Turns
<1>5. CASE c # NoConn
    <2>1. c.local \in Ports BY <1>1, <1>5, FreeIs
    <2>2. PICK g : g = given[c.local] OBVIOUS
    <2>3. g \in Seq(Nat) /\ told[c.local] \in Nat BY <2>1, <2>2 DEF NetInv
    <2>4. g \o <<>> = g BY <2>3, NothingMore
    <2>5. Speaks(X, w) BY <1>1, <1>3 DEF Speaks, Mute
    <2>6. given'[c.local] = g /\ told'[c.local] = told[c.local] /\ conex'[j] = c BY <1>1, <1>5, <2>2
    <2>7. Turns(j, X, w) BY <1>1, <1>3, <1>5, <2>2, <2>3, <2>4, <2>5, <2>6 DEF Turns
    <2> QED BY <2>7, <1>1, <1>2
<1> QED BY <1>4, <1>5

\* What is done at one connection, seen from all of them.
LEMMA DoesAll ==
    ASSUME NEW k \in Slots, conex[k] # NoConn, NetInv, ConnInv, NEW f, NEW b, Fronts(b, k, f), NEW r,
           Grew(b, k, r), Does(k, r), prog.alive,
           NEW R, R = [j \in Slots |-> IF j = k THEN r ELSE Start(conex[j])]
    PROVE  /\ R[k] = r /\ Hears(R)
           /\ \A j \in Slots \ {k}, w \in Words : Waits(conex[j], w) => Turns(j, R[j], w)
<1>1. R[k] = r /\ \A j \in Slots \ {k} : R[j] = Start(conex[j]) OBVIOUS
<1>2. \A j \in Slots \ {k} : R[j].says = <<>> BY <1>1 DEF Start
<1>3. mail' = mail \o From(k, r.says) BY DEF Does, Reply
<1>4. Hears(R)
    <2>1. ASSUME NEW i \in Slots, \A j \in Slots \ {i} : R[j].says = <<>>
          PROVE  mail' = mail \o From(i, R[i].says)
        <3>1. CASE i = k BY <3>1, <1>1, <1>3
        <3>2. CASE i # k
            <4>1. R[i].says = <<>> /\ r.says = <<>> BY <3>2, <2>1, <1>1, <1>2
            <4>2. From(i, R[i].says) = <<>> /\ From(k, r.says) = <<>> BY <4>1, FromNone
            <4> QED BY <4>2, <1>3
        <3> QED BY <3>1, <3>2
    <2> QED BY <2>1 DEF Hears
<1>5. b.p = conex[k].local /\ b.p \in Ports BY DEF Fronts
<1>6. DOMAIN conex = Slots /\ DOMAIN given = Ports /\ DOMAIN told = Ports BY DEF ConnInv, NetInv
<1>7. ASSUME NEW j \in Slots \ {k}, conex[j] # NoConn
      PROVE  given'[conex[j].local] = given[conex[j].local] /\ told'[conex[j].local] = told[conex[j].local]
    <2>1. conex[j].local # b.p
        <3>1. b.p # 0 BY <1>5 DEF Ports
        <3> QED BY <3>1, <1>5, <1>7 DEF ConnInv
    <2>2. conex[j].local \in Ports BY <1>7, FreeIs
    <2> QED BY <2>1, <2>2, <1>6 DEF Grew
<1>8. \A j \in Slots \ {k} : conex'[j] = conex[j] BY <1>6 DEF Grew
<1>9. \A j \in Slots \ {k}, w \in Words : Waits(conex[j], w) => Turns(j, R[j], w)
    BY <1>1, <1>7, <1>8, OthersTurn
<1> QED BY <1>1, <1>4, <1>9

\* An answer stays right as long as nothing else happens.
LEMMA TellsKept ==
    ASSUME NEW m, Tells(m), prog' = prog, \A j \in Slots : Keeps(j)
    PROVE  Tells(m)'
<1>1. PICK h \in 0 .. Conex : \E got, said : Becomes(m, h, got, said) /\ Have(h, got, said) BY DEF Tells
<1>2. PICK got, said : Becomes(m, h, got, said) /\ Have(h, got, said) BY <1>1
<1>3. h # 0 => Keeps(h) BY Constants DEF Slots
<1>4. Have(h, got, said)' BY <1>2, <1>3, HaveKept
<1>5. Becomes(m, h, got, said)' BY <1>2 DEF Becomes
<1> QED BY <1>4, <1>5 DEF Tells

\* Where nobody waits what there is stays.
LEMMA StillStays ==
    ASSUME TcpInv, Still, prog' = prog, NEW R, \A j \in Slots : Turns(j, R[j], "none"), Hears(R)
    PROVE  /\ Still' /\ mail' = mail
           /\ Silence => Silence'
           /\ Knows => Knows'
           /\ \A m : Tells(m) => Tells(m)'
<1>1. Still' /\ mail' = mail /\ \A j \in Slots : Keeps(j) BY StillTurn DEF TcpInv, InboxMail
<1>2. Silence => Silence' BY <1>1 DEF Silence
<1>3. PICK h : h = prog.h OBVIOUS
<1>4. h # 0 => Keeps(h) BY <1>1, <1>3, Constants DEF TcpInv, ProgInv, Slots
<1>5. Knows => Knows' BY <1>3, <1>4, KnowsKept
<1>6. ASSUME NEW m, Tells(m) PROVE Tells(m)' BY <1>1, <1>6, TellsKept
<1> QED BY <1>1, <1>2, <1>5, <1>6

\* The server goes on with what it has, and the dialogue stays right.
LEMMA ServerTurn ==
    ASSUME TcpInv, Dialogue, prog.alive, prog' = prog, inbox' = inbox, NEW R, Hears(R),
           \A j \in Slots, w \in Words : Waits(conex[j], w) => Turns(j, R[j], w)
    PROVE  Dialogue'
<1> SUFFICES ASSUME ~prog.late PROVE Dialogue'
    BY DEF Dialogue
<1>1. /\ InOrder(prog.got)
      /\ prog.waits = "abierta" => prog.h = 0
      /\ prog.waits \in {"hueco", "datos"} => prog.h # 0
      /\ AtRest \/ Asking \/ Working \/ Replied \/ Lost
    BY DEF Dialogue
<1>2. "none" \in Words BY DEF Words
<1>3. CASE Still
    <2>1. \A j \in Slots : Turns(j, R[j], "none") BY <1>2, <1>3 DEF Still
    <2>2. /\ Still' /\ mail' = mail
          /\ Silence => Silence'
          /\ Knows => Knows'
          /\ \A m : Tells(m) => Tells(m)'
        BY <1>3, <2>1, StillStays
    <2>3. AtRest => AtRest' BY <2>2 DEF AtRest
    <2>4. Asking => Asking' BY <2>2 DEF Asking
    <2>5. Lost => Lost' BY <2>2 DEF Lost
    <2>6. Replied => Replied'
        <3>1. ASSUME Replied PROVE Replied'
            <4>1. PICK i \in 1 .. Len(mail) :
                    Tells(mail[i]) /\ \A j \in 1 .. Len(mail) : j # i => mail[j].type = "alarma"
                BY <3>1 DEF Replied
            <4>2. PICK m : m = mail[i] OBVIOUS
            <4>3. Tells(m)' BY <4>1, <4>2, <2>2
            <4>4. i \in 1 .. Len(mail') /\ mail'[i] = m BY <4>2, <2>2
            <4>5. Tells(mail[i])' BY <4>3, <4>4 DEF Tells, Becomes
            <4> QED BY <4>1, <4>4, <4>5, <3>1, <2>2 DEF Replied
        <3> QED BY <3>1
    <2>7. Working => AtRest \/ Asking \/ Replied \/ Lost
        BY <1>1, <1>3, WaitsOne DEF Working, WorkingAt, Still, Lost
    <2> QED BY <2>3, <2>4, <2>5, <2>6, <2>7, <1>1 DEF Dialogue
<1>4. CASE Working
    <2>1. PICK w \in Words : w = prog.waits BY DEF TcpInv, ProgInv, Words
    <2>2. PICK k \in Slots : WorkingAt(k) BY <1>4 DEF Working
    <2>3. Turns(k, R[k], w) /\ \A j \in Slots \ {k} : Turns(j, R[j], "none") BY <1>2, <2>1, <2>2 DEF WorkingAt
    <2>4. w # "none" /\ Silence /\ Knows /\ inbox' = <<>> BY <1>4, <2>1 DEF Working
    <2>5. w = "abierta" => conex[k].estado = "syn" /\ prog.h = 0 BY <2>1, <2>2, <1>1 DEF WorkingAt, Waits
    <2>6. w # "abierta" => k = prog.h BY <2>1, <2>2 DEF WorkingAt
    <2>7. Working' \/ Replied' \/ Lost' BY <2>1, <2>3, <2>4, <2>5, <2>6, AnswerTurn
    <2> QED BY <2>7, <1>1 DEF Dialogue
<1> QED BY <1>1, <1>3, <1>4 DEF AtRest, Asking, Replied, Lost

\* A segment that arrives keeps the dialogue right.
LEMMA LlegaSpeaks ==
    ASSUME TcpInv, Dialogue, prog.alive, NEW s \in toUs, Llega(s)
    PROVE  Dialogue'
<1> USE DEF TcpInv
<1>1. prog' = prog /\ peer' = peer /\ inbox' = inbox /\ toUs' \subseteq toUs BY DEF Llega
<1>2. s \in Segment /\ FromPeer(s, peer[s.port]) BY DEF AirInv
<1>3. Len(inbox) \in Nat /\ mail \in Seq(Message) BY DEF InboxMail
<1>4. 0 \in 0 .. Mss BY Constants
<1> DEFINE mine == {k \in Slots : conex[k].estado # "libre" /\ conex[k].local = s.port}
<1>5. CASE mine = {}
    <2>1. UNCHANGED <<server, mail>> BY <1>5 DEF Llega
    <2>2. conex' = conex /\ given' = given /\ told' = told /\ mail' = mail BY <2>1 DEF server
    <2>3. PICK R : R = [j \in Slots |-> Start(conex[j])] OBVIOUS
    <2>4. ASSUME NEW j \in Slots, NEW w \in Words, Waits(conex[j], w) PROVE Turns(j, R[j], w)
        <3>1. R[j] = Start(conex[j]) BY <2>3
        <3> QED BY <3>1, <2>2, <2>4, OthersTurn
    <2>5. Hears(R)
        <3>1. \A j \in Slots : R[j].says = <<>> BY <2>3 DEF Start
        <3>2. \A j \in Slots : From(j, R[j].says) = <<>> BY <3>1, FromNone
        <3>3. mail \o <<>> = mail BY <1>3
        <3> QED BY <3>2, <3>3, <2>2 DEF Hears
    <2> QED BY <2>4, <2>5, <1>1, ServerTurn
<1>6. CASE mine # {}
    <2>1. PICK k : k = First(mine) OBVIOUS
    <2>2. k \in mine BY <1>6, <2>1, FirstIs
    <2>3. k \in Slots /\ conex[k].estado # "libre" /\ conex[k].local = s.port BY <2>2
    <2>4. conex[k] # NoConn BY <2>3, FreeIs
    <2>5. PICK b : b = Of(k, 0) OBVIOUS
    <2>6. Fronts(b, k, 0) BY <2>3, <2>4, <2>5, <1>3, <1>4, OfIs
    <2>7. PICK r : r = TcpLlego(conex[k], s) OBVIOUS
    <2>8. Does(k, r) /\ tcp_efimero' = tcp_efimero BY <1>6, <2>1, <2>7 DEF Llega
    <2>9. /\ Fits(r, b) /\ Patient(r.c) /\ Begun(r, conex[k])
          /\ conex[k].estado # "syn" /\ Taken(conex[k], b.g) => Held(r, b)
          /\ conex[k].estado = "syn" => r.c.estado = "syn" \/ (TellsOpen(r) /\ Held(r, b)) \/ TellsError(r)
        <3>1. PICK c : c = conex[k] OBVIOUS
        <3>2. Base(b) BY <2>6 DEF Fronts
        <3>3. Sound(c, b.g, b.t, b.w) BY <2>6, <3>1 DEF Fronts
        <3>4. b.e = c.estado BY <2>6, <3>1 DEF Fronts
        <3>5. c.local = b.p BY <2>6, <3>1 DEF Fronts
        <3>6. Patient(c) BY <2>6, <3>1 DEF Fronts
        <3>7. PICK q : q = peer[s.port] OBVIOUS
        <3>8. Peering(b, q) BY <2>3, <2>6, <3>7 DEF Fronts
        <3>9. FromPeer(s, q) BY <1>2, <3>7
        <3>10. r = TcpLlego(c, s) BY <2>7, <3>1
        <3>11. /\ Fits(r, b) /\ Patient(r.c) /\ Begun(r, c)
               /\ c.estado # "syn" /\ Taken(c, b.g) => Held(r, b)
               /\ c.estado = "syn" => r.c.estado = "syn" \/ (TellsOpen(r) /\ Held(r, b)) \/ TellsError(r)
            BY <3>2, <3>3, <3>4, <3>5, <3>6, <3>8, <3>9, <3>10, <1>2, LlegoFits
        <3> QED BY <3>1, <3>11
    <2>10. Grew(b, k, r) BY <2>3, <2>4, <2>6, <2>8, <2>9, <1>1, <1>3, <1>4, DoesAir
    <2>11. PICK R : R = [j \in Slots |-> IF j = k THEN r ELSE Start(conex[j])] OBVIOUS
    <2>12. /\ R[k] = r /\ Hears(R)
           /\ \A j \in Slots \ {k}, w \in Words : Waits(conex[j], w) => Turns(j, R[j], w)
        BY <2>3, <2>4, <2>6, <2>8, <2>10, <2>11, DoesAll
    <2>13. \A w \in Words : Waits(conex[k], w) => Speaks(r, w) BY <2>9 DEF Begun
    <2>14. ASSUME NEW w \in Words, Waits(conex[k], w) PROVE Turns(k, R[k], w)
        <3>1. Speaks(r, w) BY <2>13, <2>14
        <3> QED BY <3>1, <2>3, <2>4, <2>6, <2>9, <2>10, <2>12, DoesTurns
    <2>15. \A j \in Slots, w \in Words : Waits(conex[j], w) => Turns(j, R[j], w) BY <2>12, <2>14
    <2> QED BY <2>12, <2>15, <1>1, ServerTurn
<1> QED BY <1>5, <1>6

\* So does a second of the clock.
LEMMA CadaSegundoSpeaks ==
    ASSUME TcpInv, Dialogue, prog.alive, CadaSegundo
    PROVE  Dialogue'
<1> USE DEF TcpInv
<1>1. prog' = prog /\ inbox' = inbox /\ given' = given /\ told' = told BY DEF CadaSegundo
<1>2. Len(inbox) \in Nat /\ mail \in Seq(Message) BY DEF InboxMail
<1>3. 0 \in 0 .. Mss BY Constants
<1>4. PICK r : r = [k \in Slots |-> Second(conex[k], prog.alive)] OBVIOUS
<1>5. conex' = [k \in Slots |-> r[k].c] /\ \E g : Rung(r, g) /\ Reply(g[Conex])
    <2>1. SecondDone(r) BY <1>4, SecondIs
    <2> QED BY <2>1 DEF SecondDone
<1>6. PICK g : Rung(r, g) /\ Reply(g[Conex]) BY <1>5
<1>7. \A k \in Slots : conex'[k] = r[k].c BY <1>5
<1>8. PICK alive \in BOOLEAN : alive = prog.alive BY DEF ProgInv
<1>9. ASSUME NEW k \in Slots
      PROVE  r[k].says \in Seq(Saying) /\ \A w \in Words : Waits(conex[k], w) => Turns(k, r[k], w)
    <2>1. PICK c : c = conex[k] OBVIOUS
    <2>2. PICK X : X = Second(c, alive) OBVIOUS
    <2>3. r[k] = X /\ conex'[k] = X.c BY <1>4, <1>7, <1>8, <2>1, <2>2
    <2>4. CASE c = NoConn
        <3>1. X.c = NoConn /\ X.says = <<>> BY <2>2, <2>4, SecondFree
        <3>2. <<>> \in Seq(Saying) BY EmptyIs
        <3> QED BY <2>3, <3>1, <3>2 DEF Turns
    <2>5. CASE c # NoConn
        <3>1. PICK b : b = Of(k, 0) OBVIOUS
        <3>2. Fronts(b, k, 0) BY <1>2, <1>3, <2>1, <2>5, <3>1, OfIs
        <3>3. Base(b) BY <3>2 DEF Fronts
        <3>4. Sound(c, b.g, b.t, b.w) BY <2>1, <3>2 DEF Fronts
        <3>5. b.e = c.estado BY <2>1, <3>2 DEF Fronts
        <3>6. c.local = b.p BY <2>1, <3>2 DEF Fronts
        <3>7. Patient(c) BY <2>1, <3>2 DEF Fronts
        <3>8. /\ Ticked(X, b) /\ (c.estado = "syn" /\ alive => X.c.estado = "syn" \/ TellsError(X))
              /\ alive => Passes(X, c, b)
            BY <2>2, <3>3, <3>4, <3>5, <3>6, <3>7, SecondFits
        <3>9. X.says \in Seq(Saying) BY <3>8 DEF Ticked
        <3>10. Passes(X, c, b) BY <3>8, <1>8
        <3>11. CASE X.c = NoConn /\ X.says = <<>> BY <3>9, <3>11, <2>3 DEF Turns
        <3>12. CASE ~(X.c = NoConn /\ X.says = <<>>)
            <4>1. /\ Begun(X, c) /\ X.gave = <<>> /\ X.in = 0 /\ X.c.local = b.p
                  /\ Taken(c, b.g) => Taken(X.c, b.g)
                BY <3>10, <3>12 DEF Passes
            <4>2. b.g = given[b.p] /\ b.t = told[b.p] /\ b.p \in Ports BY <3>2 DEF Fronts
            <4>3. b.g \in Seq(Nat) /\ b.t \in Nat BY <3>3 DEF Base
            <4>4. b.g \o <<>> = b.g BY <4>3, NothingMore
            <4>5. given'[b.p] = b.g /\ told'[b.p] = b.t BY <4>2, <1>1
            <4>6. c.estado = "syn" => X.c.estado = "syn" \/ TellsError(X) BY <3>8, <1>8
            <4>7. ASSUME NEW w \in Words, Waits(c, w) PROVE Turns(k, X, w)
                <5>1. Speaks(X, w) BY <4>1, <4>7 DEF Begun
                <5> QED BY <5>1, <2>1, <2>3, <2>5, <3>6, <4>1, <4>2, <4>3, <4>4, <4>5, <4>6 DEF Turns
            <4> QED BY <4>7, <2>1, <2>3, <3>9
        <3> QED BY <3>11, <3>12
    <2> QED BY <2>4, <2>5
<1>10. Hears(r)
    <2>1. mail' = mail \o g[Conex] BY <1>6 DEF Reply
    <2>2. ASSUME NEW k \in Slots, \A j \in Slots \ {k} : r[j].says = <<>> PROVE mail' = mail \o From(k, r[k].says)
        <3>1. g[Conex] = From(k, r[k].says) BY <1>6, <1>9, <2>2, RungOne
        <3> QED BY <3>1, <2>1
    <2> QED BY <2>2 DEF Hears
<1> QED BY <1>1, <1>9, <1>10, ServerTurn

\* A request of the program, at its connection.
LEMMA PideTurns ==
    ASSUME TcpInv, Still, prog.alive, Attend, NEW q, q = Head(inbox), q.op # "abrir",
           conex[q.slot].estado # "libre", NEW w \in Words,
           w = IF q.op = "enviar" THEN "hueco" ELSE IF q.op = "leer" THEN "datos" ELSE "none"
    PROVE  \E R : /\ Hears(R) /\ q.slot \in Slots /\ Turns(q.slot, R[q.slot], w)
                  /\ \A j \in Slots \ {q.slot} : Turns(j, R[j], "none")
<1> USE DEF TcpInv
<1>1. inbox # <<>> /\ inbox' = Tail(inbox) /\ inbox \in Seq(Requests) /\ mail \in Seq(Message)
    BY DEF Attend, InboxMail
<1>2. prog' = prog /\ peer' = peer /\ toUs' = toUs BY DEF Attend
<1>3. /\ q \in Requests /\ Len(inbox) \in Nat /\ Len(inbox) # 0
      /\ q.slot # 0 /\ (q.op = "enviar" => q.data # <<>>)
    BY <1>1, InboxTail
<1>4. Mss \in Nat /\ Mss \in 0 .. Mss BY Constants
<1>5. Does(q.slot, Pide(conex[q.slot], q)) /\ tcp_efimero' = tcp_efimero BY DEF Attend
<1>6. PICK k : k = q.slot OBVIOUS
<1>7. k \in Slots BY <1>6, <1>3, Constants DEF Slots, Requests
<1>8. conex[k] # NoConn BY <1>6, <1>7, FreeIs
<1>9. PICK b : b = Of(k, Mss) OBVIOUS
<1>10. Fronts(b, k, Mss) BY <1>3, <1>4, <1>7, <1>8, <1>9, OfIs
<1>11. PICK r : r = Pide(conex[k], q) OBVIOUS
<1>12. Fits(r, b) /\ Patient(r.c) /\ Gives(r, conex[k], w, b)
    <2>1. PICK c : c = conex[k] OBVIOUS
    <2>2. Base(b) BY <1>10 DEF Fronts
    <2>3. Sound(c, b.g, b.t, b.w) BY <1>10, <2>1 DEF Fronts
    <2>4. b.e = c.estado BY <1>10, <2>1 DEF Fronts
    <2>5. c.local = b.p BY <1>10, <2>1 DEF Fronts
    <2>6. Patient(c) BY <1>10, <2>1 DEF Fronts
    <2>7. b.f = Mss BY <1>10 DEF Fronts
    <2>8. b.w = sent[b.p] /\ b.p \in Ports BY <1>10 DEF Fronts
    <2>9. Len(b.w) + Mss <= Budget(MaxEvents) BY <2>8, <1>3, SentFits
    <2>10. r = Pide(c, q) BY <1>11, <2>1
    <2>11. /\ Fits(r, b) /\ Patient(r.c)
           /\ Gives(r, c, IF q.op = "enviar" THEN "hueco" ELSE IF q.op = "leer" THEN "datos" ELSE "none", b)
        BY <2>2, <2>3, <2>4, <2>5, <2>6, <2>7, <2>9, <2>10, <1>3, PideFits
    <2> QED BY <2>1, <2>11
<1>13. Does(k, r) BY <1>5, <1>6, <1>11
<1>14. toUs' \subseteq toUs BY <1>2
<1>15. Grew(b, k, r)
    BY <1>1, <1>2, <1>3, <1>4, <1>5, <1>7, <1>8, <1>10, <1>12, <1>13, <1>14, DoesAir
<1>16. Waits(conex[k], "none") /\ "none" \in Words BY <1>7 DEF Still, Words
<1>17. Speaks(r, w) /\ (Taken(conex[k], b.g) => Held(r, b)) BY <1>12, <1>16 DEF Gives
<1>18. conex[k].estado # "syn" BY <1>16 DEF Waits
<1>19. PICK R : R = [j \in Slots |-> IF j = k THEN r ELSE Start(conex[j])] OBVIOUS
<1>20. /\ R[k] = r /\ Hears(R)
       /\ \A j \in Slots \ {k}, v \in Words : Waits(conex[j], v) => Turns(j, R[j], v)
    BY <1>7, <1>8, <1>10, <1>13, <1>15, <1>19, DoesAll
<1>21. Turns(k, r, w) BY <1>7, <1>8, <1>10, <1>12, <1>15, <1>17, <1>18, DoesTurns
<1>22. \A j \in Slots \ {k} : Turns(j, R[j], "none") BY <1>16, <1>20 DEF Still
<1> QED BY <1>6, <1>7, <1>20, <1>21, <1>22

\* A connection that is asked for begins, or there is an error.
LEMMA AbrirSpeaks ==
    ASSUME TcpInv, Still, Silence, Knows, prog.alive, prog' = prog, inbox' = <<>>, prog.waits = "abierta",
           prog.h = 0, Abrir, Asked("abrir") \in Nat, Asked("abrir") > 0
    PROVE  Working' \/ Replied'
<1> USE DEF TcpInv
<1> DEFINE free == {k \in Slots : conex[k].estado = "libre"}
           r == Volar(Start(Nuevo(tcp_efimero + 1)), {"syn"}, <<>>)
<1>1. mail \in Seq(Message) /\ prog'.waits = "abierta" BY DEF InboxMail
<1>2. PICK h, got, said : h = prog.h /\ got = prog.got /\ said = prog.said OBVIOUS
<1>3. prog'.h = h /\ prog'.got = got /\ prog'.said = said /\ h = 0 /\ h \in 0 .. Conex BY <1>2, Constants
<1>4. Have(h, got, said)'
    <2>1. Have(h, got, said) BY <1>2 DEF Knows
    <2> QED BY <2>1, <1>3 DEF Have
<1>5. CASE ~ip \/ free = {}
    <2>1. Reply(<<Says("error", 0, <<>>)>>) /\ UNCHANGED <<server, toPeer>> BY <1>5 DEF Abrir
    <2>2. conex' = conex BY <2>1 DEF server
    <2>3. PICK z : z = Says("error", 0, <<>>) OBVIOUS
    <2>4. z \in Message /\ z.type = "error" BY <2>3, SaysMessage
    <2>5. mail' = mail \o <<z>> BY <2>1, <2>3 DEF Reply
    <2>6. /\ Len(mail) \in Nat /\ Len(mail') = Len(mail) + 1 /\ mail'[Len(mail')] = z
          /\ \A i \in 1 .. Len(mail) : mail'[i] = mail[i]
        BY <2>4, <2>5, <1>1, AtTheEnd
    <2>7. Becomes(z, h, got, said)' BY <2>4, <1>1, <1>3 DEF Becomes
    <2>8. Tells(z)' BY <2>7, <1>3, <1>4 DEF Tells
    <2>9. Still' BY <2>2 DEF Still
    <2>10. ASSUME NEW j \in 1 .. Len(mail'), j # Len(mail') PROVE mail'[j].type = "alarma"
        <3>1. j \in 1 .. Len(mail) BY <2>6, <2>10
        <3> QED BY <3>1, <2>6 DEF Silence
    <2>11. Len(mail') \in 1 .. Len(mail') BY <2>6
    <2> QED BY <2>6, <2>8, <2>9, <2>10, <2>11, <1>1 DEF Replied
<1>6. CASE ip /\ free # {}
    <2>1. conex' = [conex EXCEPT ![First(free)] = r.c] /\ mail' = mail
        BY <1>6 DEF Abrir, Nuevo
    <2>2. PICK k : k = First(free) OBVIOUS
    <2>3. k \in Slots BY <1>6, <2>2, FirstIs
    <2>4. PICK port : port = tcp_efimero + 1 OBVIOUS
    <2>5. port \in Ports
        <3>1. tcp_efimero \in Nat /\ tcp_efimero + Asked("abrir") <= MaxOpens /\ MaxOpens \in Nat
            BY Constants DEF NetInv
        <3> QED BY <3>1, <2>4 DEF Ports
    <2>6. PICK R : R = Volar(Start(Nuevo(port)), {"syn"}, <<>>) OBVIOUS
    <2>7. R = r BY <2>4, <2>6
    <2> HIDE DEF r
    <2>8. Waits(R.c, "abierta") BY <2>5, <2>6, NuevoIs
    <2>9. DOMAIN conex = Slots BY DEF ConnInv
    <2>10. conex'[k] = R.c /\ \A j \in Slots \ {k} : conex'[j] = conex[j] BY <2>1, <2>2, <2>3, <2>7, <2>9
    <2>11. WorkingAt(k)' BY <2>8, <2>10, <1>1 DEF WorkingAt, Still
    <2>12. Silence' BY <2>1 DEF Silence
    <2>13. Knows' BY <1>3, <1>4 DEF Knows, Have
    <2> QED BY <2>3, <2>11, <2>12, <2>13, <1>1 DEF Working
<1> QED BY <1>5, <1>6

\* A close, or a request at a slot that has been let go, disturbs nobody.
LEMMA CerrarSpeaks ==
    ASSUME TcpInv, Still, prog.alive, Attend, Head(inbox).op # "abrir",
           Head(inbox).op = "cerrar" \/ conex[Head(inbox).slot].estado = "libre"
    PROVE  /\ Still' /\ mail' = mail
           /\ Silence => Silence'
           /\ Knows => Knows'
<1>1. PICK q : q = Head(inbox) OBVIOUS
<1>2. prog' = prog BY DEF Attend
<1>3. CASE conex[q.slot].estado = "libre"
    <2>1. UNCHANGED <<server, mail>> BY <1>1, <1>3 DEF Attend
    <2>2. conex' = conex /\ given' = given /\ told' = told /\ mail' = mail BY <2>1 DEF server
    <2> QED BY <2>2, <1>2 DEF Still, Silence, Knows, Have
<1>4. CASE conex[q.slot].estado # "libre"
    <2>1. PICK w \in Words : w = "none" BY DEF Words
    <2>2. q.op = "cerrar" BY <1>1, <1>4
    <2>3. w = IF q.op = "enviar" THEN "hueco" ELSE IF q.op = "leer" THEN "datos" ELSE "none" BY <2>1, <2>2
    <2>4. PICK R : /\ Hears(R) /\ q.slot \in Slots /\ Turns(q.slot, R[q.slot], w)
                   /\ \A j \in Slots \ {q.slot} : Turns(j, R[j], "none")
        BY <2>2, <2>3, <1>1, <1>4, PideTurns
    <2>5. \A j \in Slots : Turns(j, R[j], "none") BY <2>1, <2>4
    <2> QED BY <2>4, <2>5, <1>2, StillStays
<1> QED BY <1>3, <1>4

\* The request the program waits for is attended.
LEMMA AskedSpeaks ==
    ASSUME TcpInv, Asking, prog.alive, Attend, Len(inbox) = 1,
           prog.waits = "abierta" => prog.h = 0
    PROVE  Working' \/ Replied' \/ Lost'
<1>1. PICK q : q = Head(inbox) OBVIOUS
<1>2. inbox \in Seq(Requests) /\ inbox' = Tail(inbox) /\ prog' = prog BY DEF Attend, TcpInv, InboxMail
<1>3. inbox' = <<>> /\ inbox[Len(inbox)] = q BY <1>1, <1>2
<1>4. PICK w \in Words : w = prog.waits BY DEF TcpInv, ProgInv, Words
<1>5. /\ w # "none" /\ Still /\ Silence /\ Knows /\ q.op = OpOf(w)
      /\ w # "abierta" => q.slot = prog.h
    BY <1>3, <1>4 DEF Asking
<1>6. w \in {"abierta", "hueco", "datos"} BY <1>5 DEF Words
<1>7. CASE w = "abierta"
    <2>1. q.op = "abrir" BY <1>5, <1>7 DEF OpOf
    <2>2. Abrir BY <1>1, <2>1 DEF Attend
    <2>3. /\ Asked("abrir") \in Nat /\ Asked("abrir")' \in Nat
          /\ Head(inbox).op = "abrir" => Asked("abrir")' + 1 <= Asked("abrir")
        BY <1>2, InboxTail DEF Asking, TcpInv
    <2>4. Asked("abrir") > 0 BY <1>1, <2>1, <2>3
    <2> QED BY <1>2, <1>3, <1>4, <1>5, <1>7, <2>2, <2>3, <2>4, AbrirSpeaks
<1>8. CASE w # "abierta"
    <2>1. q.op = (IF w = "hueco" THEN "enviar" ELSE "leer") BY <1>5, <1>8 DEF OpOf
    <2>2. q.op # "abrir" /\ q.op # "cerrar"
          /\ w = IF q.op = "enviar" THEN "hueco" ELSE IF q.op = "leer" THEN "datos" ELSE "none"
        BY <2>1, <1>6, <1>8
    <2>3. CASE conex[q.slot].estado = "libre"
        <3>1. /\ Still' /\ mail' = mail
              /\ Silence => Silence'
              /\ Knows => Knows'
            BY <1>1, <1>5, <2>2, <2>3, CerrarSpeaks
        <3> QED BY <3>1, <1>2, <1>3, <1>4, <1>5 DEF Lost
    <2>4. CASE conex[q.slot].estado # "libre"
        <3>1. PICK R : /\ Hears(R) /\ q.slot \in Slots /\ Turns(q.slot, R[q.slot], w)
                       /\ \A j \in Slots \ {q.slot} : Turns(j, R[j], "none")
            BY <1>1, <1>5, <2>2, <2>4, PideTurns
        <3> QED BY <3>1, <1>2, <1>3, <1>4, <1>5, <1>8, AnswerTurn
    <2> QED BY <2>3, <2>4
<1> QED BY <1>7, <1>8

\* Attending a request keeps the dialogue right.
LEMMA AttendSpeaks ==
    ASSUME TcpInv, Dialogue, prog.alive, Attend
    PROVE  Dialogue'
<1> SUFFICES ASSUME ~prog.late PROVE Dialogue'
    BY DEF Dialogue, Attend
<1>1. /\ InOrder(prog.got)
      /\ prog.waits = "abierta" => prog.h = 0
      /\ prog.waits \in {"hueco", "datos"} => prog.h # 0
      /\ AtRest \/ Asking \/ Working \/ Replied \/ Lost
    BY DEF Dialogue
<1>2. inbox \in Seq(Requests) /\ inbox # <<>> /\ inbox' = Tail(inbox) /\ prog' = prog
    BY DEF Attend, TcpInv, InboxMail
<1>3. /\ Len(inbox) \in Nat \ {0} /\ Len(inbox') = Len(inbox) - 1 /\ inbox' \in Seq(Requests)
      /\ (\A i \in 1 .. Len(inbox') : inbox'[i] = inbox[i + 1]) /\ Head(inbox) = inbox[1]
    BY <1>2
<1>4. CASE AtRest
    <2>1. Head(inbox).op = "cerrar" BY <1>3, <1>4 DEF AtRest
    <2>2. /\ Still' /\ mail' = mail
          /\ Silence => Silence'
          /\ Knows => Knows'
        BY <1>4, <2>1, CerrarSpeaks DEF AtRest
    <2>3. ASSUME NEW i \in 1 .. Len(inbox') PROVE inbox'[i].op = "cerrar"
        <3>1. i + 1 \in 1 .. Len(inbox) BY <1>3
        <3> QED BY <3>1, <1>3, <1>4 DEF AtRest
    <2>4. AtRest' BY <2>2, <2>3, <1>2, <1>4 DEF AtRest
    <2> QED BY <2>4, <1>1, <1>2 DEF Dialogue
<1>5. CASE Asking /\ Len(inbox) = 1
    <2>1. Working' \/ Replied' \/ Lost' BY <1>1, <1>5, AskedSpeaks
    <2> QED BY <2>1, <1>1, <1>2 DEF Dialogue
<1>6. CASE Asking /\ Len(inbox) # 1
    <2>1. 1 \in 1 .. Len(inbox) - 1 BY <1>3, <1>6
    <2>2. Head(inbox).op = "cerrar" BY <2>1, <1>3, <1>6 DEF Asking
    <2>3. /\ Still' /\ mail' = mail
          /\ Silence => Silence'
          /\ Knows => Knows'
        BY <1>6, <2>2, CerrarSpeaks DEF Asking
    <2>4. ASSUME NEW i \in 1 .. Len(inbox') - 1 PROVE inbox'[i].op = "cerrar"
        <3>1. i \in 1 .. Len(inbox') /\ i + 1 \in 1 .. Len(inbox) - 1 BY <1>3
        <3> QED BY <3>1, <1>3, <1>6 DEF Asking
    <2>5. inbox' # <<>> /\ Len(inbox') \in 1 .. Len(inbox') /\ Len(inbox') + 1 = Len(inbox) BY <1>3, <2>1
    <2>6. inbox'[Len(inbox')] = inbox[Len(inbox)] BY <2>5, <1>3
    <2>7. Asking' BY <2>3, <2>4, <2>5, <2>6, <1>2, <1>6 DEF Asking
    <2> QED BY <2>7, <1>1, <1>2 DEF Dialogue
<1> QED BY <1>1, <1>2, <1>4, <1>5, <1>6 DEF Working, Replied, Lost

\* The program keeps what it has and what it waits for.
SameProg ==
    /\ prog'.waits = prog.waits /\ prog'.h = prog.h /\ prog'.got = prog.got /\ prog'.said = prog.said
    /\ prog'.late = prog.late /\ prog'.alive = prog.alive

\* What the server has of a connection stays.
LEMMA HaveStays ==
    ASSUME NEW h, NEW got, NEW said, Have(h, got, said), conex' = conex, given' = given, told' = told
    PROVE  Have(h, got, said)'
BY DEF Have

\* And so does what the program knows of it,
LEMMA KnowsStays ==
    ASSUME Knows, SameProg, conex' = conex, given' = given, told' = told
    PROVE  Knows'
<1>1. PICK h, got, said : h = prog.h /\ got = prog.got /\ said = prog.said OBVIOUS
<1>2. Have(h, got, said) BY <1>1 DEF Knows
<1>3. Have(h, got, said)' BY <1>2, HaveStays
<1>4. prog'.h = h /\ prog'.got = got /\ prog'.said = said BY <1>1 DEF SameProg
<1> QED BY <1>3, <1>4 DEF Knows

\* and what an answer says.
LEMMA TellsStays ==
    ASSUME NEW m, Tells(m), SameProg, conex' = conex, given' = given, told' = told
    PROVE  Tells(m)'
<1>1. PICK h \in 0 .. Conex : \E got, said : Becomes(m, h, got, said) /\ Have(h, got, said) BY DEF Tells
<1>2. PICK got, said : Becomes(m, h, got, said) /\ Have(h, got, said) BY <1>1
<1>3. Have(h, got, said)' BY <1>2, HaveStays
<1>4. Becomes(m, h, got, said)' BY <1>2 DEF Becomes, SameProg
<1> QED BY <1>3, <1>4 DEF Tells

\* An alarm more, or nothing, and the dialogue goes on where it was.
LEMMA AlarmSpeaks ==
    ASSUME Dialogue, SameProg, conex' = conex, given' = given, told' = told, inbox' = inbox,
           Len(mail) \in Nat, Len(mail') \in Nat, Len(mail) <= Len(mail'),
           \A i \in 1 .. Len(mail) : mail'[i] = mail[i],
           \A i \in 1 .. Len(mail') : i > Len(mail) => mail'[i].type = "alarma"
    PROVE  Dialogue'
<1> SUFFICES ASSUME prog.alive, ~prog.late PROVE Dialogue'
    BY DEF Dialogue, SameProg
<1>1. /\ InOrder(prog.got)
      /\ prog.waits = "abierta" => prog.h = 0
      /\ prog.waits \in {"hueco", "datos"} => prog.h # 0
      /\ AtRest \/ Asking \/ Working \/ Replied \/ Lost
    BY DEF Dialogue
<1>2. Knows => Knows' BY KnowsStays
<1>3. Still => Still' BY DEF Still
<1>4. ASSUME NEW i \in 1 .. Len(mail') PROVE i \in 1 .. Len(mail) \/ mail'[i].type = "alarma" OBVIOUS
<1>5. Silence => Silence' BY <1>4 DEF Silence
<1>6. prog'.waits = prog.waits /\ prog'.h = prog.h BY DEF SameProg
<1>7. AtRest => AtRest' BY <1>2, <1>3, <1>5, <1>6 DEF AtRest
<1>8. Asking => Asking' BY <1>2, <1>3, <1>5, <1>6 DEF Asking
<1>9. Working => Working' BY <1>2, <1>5, <1>6 DEF Working, WorkingAt
<1>10. Lost => Lost' BY <1>2, <1>3, <1>5, <1>6 DEF Lost
<1>11. ASSUME Replied PROVE Replied'
    <2>1. PICK i \in 1 .. Len(mail) :
            Tells(mail[i]) /\ \A j \in 1 .. Len(mail) : j # i => mail[j].type = "alarma"
        BY <1>11 DEF Replied
    <2>2. PICK m : m = mail[i] OBVIOUS
    <2>3. Tells(m)' BY <2>1, <2>2, TellsStays
    <2>4. i \in 1 .. Len(mail') /\ mail'[i] = m BY <2>2
    <2>5. Tells(mail[i])' BY <2>3, <2>4 DEF Tells, Becomes
    <2>6. \A j \in 1 .. Len(mail') : j # i => mail'[j].type = "alarma" BY <2>1, <1>4
    <2> QED BY <2>4, <2>5, <2>6, <1>3, <1>6, <1>11 DEF Replied
<1>12. InOrder(prog'.got) BY <1>1 DEF SameProg
<1> QED BY <1>1, <1>6, <1>7, <1>8, <1>9, <1>10, <1>11, <1>12 DEF Dialogue

\* What the other machine and the card do changes nothing here.
LEMMA QuietSpeaks ==
    ASSUME TcpInv, Dialogue, UNCHANGED <<server, program>>
    PROVE  Dialogue'
<1>1. conex' = conex /\ given' = given /\ told' = told /\ inbox' = inbox /\ mail' = mail /\ prog' = prog
    BY DEF server, program
<1>2. Len(mail) \in Nat BY DEF TcpInv, InboxMail
<1>3. SameProg BY <1>1 DEF SameProg
<1>4. /\ Len(mail') \in Nat /\ Len(mail) <= Len(mail') /\ (\A i \in 1 .. Len(mail) : mail'[i] = mail[i])
      /\ \A i \in 1 .. Len(mail') : i > Len(mail) => mail'[i].type = "alarma"
    BY <1>1, <1>2
<1> QED BY <1>1, <1>2, <1>3, <1>4, AlarmSpeaks

\* The alarm of the program.
LEMMA AlarmaSpeaks ==
    ASSUME TcpInv, Dialogue, Alarma
    PROVE  Dialogue'
<1>1. conex' = conex /\ given' = given /\ told' = told /\ inbox' = inbox BY DEF Alarma, server
<1>2. PICK m : m = Says("alarma", 0, <<>>) OBVIOUS
<1>3. m \in Message /\ m.type = "alarma" BY <1>2, SaysMessage
<1>4. mail \in Seq(Message) /\ mail' = Append(mail, m) BY <1>2 DEF Alarma, TcpInv, InboxMail
<1>5. /\ Len(mail) \in Nat /\ Len(mail') = Len(mail) + 1 /\ mail'[Len(mail')] = m
      /\ \A i \in 1 .. Len(mail) : mail'[i] = mail[i]
    BY <1>3, <1>4
<1>6. /\ Len(mail') \in Nat /\ Len(mail) <= Len(mail')
      /\ \A i \in 1 .. Len(mail') : i > Len(mail) => mail'[i].type = "alarma"
    BY <1>3, <1>5
<1>7. PICK yes : yes = TRUE OBVIOUS
<1>8. prog' = [prog EXCEPT !.rung = yes] BY <1>7 DEF Alarma
<1>9. SameProg BY <1>8 DEF SameProg, TcpInv, ProgInv, ProgFields
<1> QED BY <1>1, <1>5, <1>6, <1>9, AlarmSpeaks

\* A call of the program starts the dialogue, or ends it without waiting.
LEMMA AskSpeaks ==
    ASSUME TcpInv, Dialogue, Idle, NEW op \in {"abrir", "enviar", "leer", "cerrar"}, NEW slot \in 0 .. Conex,
           NEW data \in Seq(Nat), NEW w \in Words, Ask(op, slot, data, w),
           w = "none" => op = "cerrar", w # "none" => op = OpOf(w),
           w = "abierta" => prog.h = 0, w # "abierta" => prog.h # 0 /\ slot = prog.h
    PROVE  Dialogue'
<1>1. conex' = conex /\ given' = given /\ told' = told /\ mail' = mail BY DEF Ask, server
<1>2. PICK q : q = [op |-> op, slot |-> slot, data |-> data] OBVIOUS
<1>3. q \in Requests /\ q.op = op /\ q.slot = slot BY <1>2 DEF Requests
<1>4. inbox \in Seq(Requests) /\ inbox' = Append(inbox, q) BY <1>2 DEF Ask, TcpInv, InboxMail
<1>5. /\ Len(inbox) \in Nat /\ Len(inbox') = Len(inbox) + 1 /\ inbox' # <<>> /\ inbox'[Len(inbox')] = q
      /\ \A i \in 1 .. Len(inbox) : inbox'[i] = inbox[i]
    BY <1>3, <1>4
<1>6. PICK h : h = IF w = "none" THEN 0 ELSE prog.h OBVIOUS
<1>7. prog' = [prog EXCEPT !.waits = w, !.h = h] BY <1>6 DEF Ask
<1>8. /\ prog'.waits = w /\ prog'.h = h /\ prog'.got = prog.got /\ prog'.said = prog.said
      /\ prog'.late = prog.late /\ prog'.alive = prog.alive
    BY <1>7 DEF TcpInv, ProgInv, ProgFields
<1> SUFFICES ASSUME prog.alive, ~prog.late PROVE Dialogue'
    BY <1>8 DEF Dialogue
<1>9. AtRest /\ InOrder(prog.got)
    BY DEF Dialogue, Idle, Asking, Working, Replied, Lost
<1>10. Still' /\ Silence' BY <1>1, <1>9 DEF AtRest, Still, Silence
<1>11. Knows'
    <2>1. CASE w = "none" BY <2>1, <1>6, <1>8, <1>9 DEF Knows, Have
    <2>2. CASE w # "none"
        <3>1. PICK k, got, said : k = prog.h /\ got = prog.got /\ said = prog.said OBVIOUS
        <3>2. Have(k, got, said) BY <3>1, <1>9 DEF AtRest, Knows
        <3>3. Have(k, got, said)' BY <3>2, <1>1, HaveStays
        <3>4. prog'.h = k /\ prog'.got = got /\ prog'.said = said BY <3>1, <2>2, <1>6, <1>8
        <3> QED BY <3>3, <3>4 DEF Knows
    <2> QED BY <2>1, <2>2
<1>12. \A i \in 1 .. Len(inbox) : inbox'[i].op = "cerrar" BY <1>5, <1>9 DEF AtRest
<1>13. CASE w = "none"
    <2>1. \A i \in 1 .. Len(inbox') : i \in 1 .. Len(inbox) \/ i = Len(inbox') BY <1>5
    <2>2. \A i \in 1 .. Len(inbox') : inbox'[i].op = "cerrar" BY <2>1, <1>3, <1>5, <1>12, <1>13
    <2>3. AtRest' BY <2>2, <1>8, <1>10, <1>11, <1>13 DEF AtRest
    <2> QED BY <2>3, <1>8, <1>9, <1>13 DEF Dialogue
<1>14. CASE w # "none"
    <2>1. h = prog.h BY <1>6, <1>14
    <2>2. Len(inbox') - 1 = Len(inbox) BY <1>5
    <2>3. \A i \in 1 .. Len(inbox') - 1 : inbox'[i].op = "cerrar" BY <2>2, <1>12
    <2>4. Asking' BY <2>1, <2>3, <1>3, <1>5, <1>8, <1>10, <1>11, <1>14 DEF Asking
    <2>5. (w = "abierta" => h = 0) /\ (w \in {"hueco", "datos"} => h # 0) BY <2>1
    <2> QED BY <2>4, <2>5, <1>8, <1>9 DEF Dialogue
<1> QED BY <1>13, <1>14

\* The calls of the program.
LEMMA AsksSpeak ==
    ASSUME TcpInv, Dialogue, Conectar \/ TcpEnviar \/ TcpRecibir \/ TcpCerrar
    PROVE  Dialogue'
<1>1. prog.h \in 0 .. Conex /\ prog.said \in Nat /\ Conex \in Nat /\ ProgBytes \in Nat
    BY Constants DEF TcpInv, ProgInv
<1>2. PICK z : z = 0 OBVIOUS
<1>3. PICK n : n = <<>> OBVIOUS
<1>4. z \in 0 .. Conex /\ n \in Seq(Nat) BY <1>1, <1>2, <1>3, EmptyIs
<1>5. PICK a \in Words : a = "abierta" BY DEF Words
<1>6. PICK b \in Words : b = "hueco" BY DEF Words
<1>7. PICK c \in Words : c = "datos" BY DEF Words
<1>8. PICK d \in Words : d = "none" BY DEF Words
<1>9. OpOf(a) = "abrir" /\ OpOf(b) = "enviar" /\ OpOf(c) = "leer" BY <1>5, <1>6, <1>7 DEF OpOf
<1>10. CASE Conectar
    <2>1. PICK o \in {"abrir", "enviar", "leer", "cerrar"} : o = "abrir" OBVIOUS
    <2>2. Idle /\ prog.h = 0 /\ Ask(o, z, n, a) BY <2>1, <1>2, <1>3, <1>5, <1>10 DEF Conectar
    <2> QED BY <2>1, <2>2, <1>4, <1>5, <1>9, AskSpeaks
<1>11. CASE TcpEnviar
    <2>1. PICK x : x = Bytes(prog.said + 1, ProgBytes) OBVIOUS
    <2>2. PICK o \in {"abrir", "enviar", "leer", "cerrar"} : o = "enviar" OBVIOUS
    <2>3. Idle /\ prog.h # 0 /\ prog.said < ProgBytes /\ Ask(o, prog.h, x, b)
        BY <2>1, <2>2, <1>6, <1>11 DEF TcpEnviar
    <2>4. x \in Seq(Nat)
        <3>1. prog.said + 1 \in Nat \ {0} /\ prog.said + 1 <= ProgBytes + 1 BY <2>3, <1>1
        <3> QED BY <2>1, <3>1, <1>1, BytesIs
    <2>5. PICK h \in 0 .. Conex : h = prog.h BY <1>1
    <2>6. h # 0 /\ Ask(o, h, x, b) BY <2>3, <2>5
    <2> QED BY <2>2, <2>3, <2>4, <2>5, <2>6, <1>6, <1>9, AskSpeaks
<1>12. CASE TcpRecibir
    <2>1. PICK o \in {"abrir", "enviar", "leer", "cerrar"} : o = "leer" OBVIOUS
    <2>2. PICK h \in 0 .. Conex : h = prog.h BY <1>1
    <2>3. Idle /\ h # 0 /\ Ask(o, h, n, c) BY <2>1, <2>2, <1>3, <1>7, <1>12 DEF TcpRecibir
    <2> QED BY <2>1, <2>2, <2>3, <1>4, <1>7, <1>9, AskSpeaks
<1>13. CASE TcpCerrar
    <2>1. PICK o \in {"abrir", "enviar", "leer", "cerrar"} : o = "cerrar" OBVIOUS
    <2>2. PICK h \in 0 .. Conex : h = prog.h BY <1>1
    <2>3. Idle /\ h # 0 /\ Ask(o, h, n, d) BY <2>1, <2>2, <1>3, <1>8, <1>13 DEF TcpCerrar
    <2> QED BY <2>1, <2>2, <2>3, <1>4, <1>8, AskSpeaks
<1> QED BY <1>10, <1>11, <1>12, <1>13

\* A program that waits no more, and has this.
Has(X, h, got, said) ==
    /\ X.waits = "none" /\ X.h = h /\ X.got = got /\ X.said = said
    /\ X.alive = prog.alive /\ X.late = prog.late

\* A call that returns well has what its answer says.
LEMMA ReturnsIs ==
    ASSUME TcpInv, NEW m \in Message, prog.waits # "none", m.type = prog.waits,
           NEW h, NEW got, NEW said, Becomes(m, h, got, said),
           NEW X, X = [Returns(m) EXCEPT !.waits = "none", !.rung = FALSE]
    PROVE  Has(X, h, got, said)
<1>1. ProgFields(prog) /\ m.type \in {"abierta", "hueco", "datos"} BY DEF TcpInv, ProgInv
<1>2. PICK no : no = FALSE OBVIOUS
<1>3. PICK g : g = Returns(m) OBVIOUS
<1>4. X = [g EXCEPT !.waits = "none", !.rung = no] BY <1>2, <1>3
<1>5. ProgFields(g)
    <2>1. ProgOK(g) BY <1>3, ReturnsOK DEF TcpInv
    <2> QED BY <2>1 DEF ProgOK
<1>6. X.waits = "none" /\ X.h = g.h /\ X.got = g.got /\ X.said = g.said /\ X.alive = g.alive /\ X.late = g.late
    BY <1>4, <1>5 DEF ProgFields
<1>7. CASE m.type = "abierta"
    <2>1. h = m.con /\ got = <<>> /\ said = 0 BY <1>7 DEF Becomes
    <2>2. g = [prog EXCEPT !.h = m.con, !.said = 0, !.got = <<>>, !.cut = {}, !.over = no]
        BY <1>2, <1>3, <1>7 DEF Returns
    <2>3. g.h = m.con /\ g.got = <<>> /\ g.said = 0 /\ g.alive = prog.alive /\ g.late = prog.late
        BY <2>2, <1>1 DEF ProgFields
    <2> QED BY <2>1, <2>3, <1>6 DEF Has
<1>8. CASE m.type = "hueco"
    <2>1. h = prog.h /\ got = prog.got /\ said = prog.said + m.n BY <1>8 DEF Becomes
    <2>2. g = [prog EXCEPT !.said = said] BY <2>1, <1>3, <1>8 DEF Returns, Entered
    <2>3. g.h = prog.h /\ g.got = prog.got /\ g.said = said /\ g.alive = prog.alive /\ g.late = prog.late
        BY <2>2, <1>1 DEF ProgFields
    <2> QED BY <2>1, <2>3, <1>6 DEF Has
<1>9. CASE m.type = "datos"
    <2>1. h = prog.h /\ got = prog.got \o m.data /\ said = prog.said BY <1>9 DEF Becomes
    <2>2. PICK o : o = (m.n = 0) OBVIOUS
    <2>3. g = [prog EXCEPT !.got = got, !.over = o] BY <2>1, <2>2, <1>3, <1>9 DEF Returns
    <2>4. g.h = prog.h /\ g.got = got /\ g.said = prog.said /\ g.alive = prog.alive /\ g.late = prog.late
        BY <2>3, <1>1 DEF ProgFields
    <2> QED BY <2>1, <2>4, <1>6 DEF Has
<1> QED BY <1>1, <1>7, <1>8, <1>9

\* The program takes its answer, or gives up.
LEMMA RedEsperarSpeaks ==
    ASSUME TcpInv, Dialogue, RedEsperar
    PROVE  Dialogue'
<1>1. prog.waits # "none" /\ mail # <<>> /\ mail' = Tail(mail) /\ inbox' = inbox BY DEF RedEsperar
<1>2. conex' = conex /\ given' = given /\ told' = told BY DEF RedEsperar, server
<1>3. mail \in Seq(Message) /\ prog.waits \in {"none", "abierta", "hueco", "datos"} /\ ProgFields(prog)
    BY DEF TcpInv, InboxMail, ProgInv
<1>4. /\ Head(mail) \in Message /\ Head(mail) = mail[1] /\ Len(mail) \in Nat \ {0} /\ Len(mail') = Len(mail) - 1
      /\ \A i \in 1 .. Len(mail') : mail'[i] = mail[i + 1]
    BY <1>1, <1>3
<1>5. PICK m \in Message : m = Head(mail) BY <1>4
<1> DEFINE back == [prog EXCEPT !.waits = "none", !.rung = FALSE]
           word == prog.waits
           late == [back EXCEPT !.cut = @ \cup {word}, !.late = TRUE]
           ret == [Returns(m) EXCEPT !.waits = "none", !.rung = FALSE]
<1>6. /\ m.type = prog.waits => prog' = ret
      /\ m.type # prog.waits /\ m.type = "error" => prog' = back
      /\ m.type # prog.waits /\ m.type = "alarma" => prog' = late
    BY <1>5 DEF RedEsperar
<1>12. m.type # prog.waits => prog' = back \/ prog' = late \/ prog' = prog
    BY <1>5 DEF RedEsperar
<1>7. /\ back.waits = "none" /\ back.h = prog.h /\ back.got = prog.got /\ back.said = prog.said
      /\ back.alive = prog.alive /\ back.late = prog.late /\ ProgFields(back)
    <2>1. PICK no : no = FALSE OBVIOUS
    <2>2. PICK X : X = [prog EXCEPT !.waits = "none", !.rung = no] OBVIOUS
    <2>3. /\ X.waits = "none" /\ X.h = prog.h /\ X.got = prog.got /\ X.said = prog.said
          /\ X.alive = prog.alive /\ X.late = prog.late /\ ProgFields(X)
        BY <2>2, <1>3 DEF ProgFields
    <2>4. back = X BY <2>1, <2>2
    <2> QED BY <2>3, <2>4
<1>8. late.late = TRUE
    <2>1. PICK yes : yes = TRUE OBVIOUS
    <2>2. PICK v : v = back.cut \cup {word} OBVIOUS
    <2>3. late = [back EXCEPT !.cut = v, !.late = yes] BY <2>1, <2>2
    <2> HIDE DEF late, back
    <2>4. [back EXCEPT !.cut = v, !.late = yes].late = yes BY <1>7 DEF ProgFields
    <2> QED BY <2>1, <2>3, <2>4
<1>9. ASSUME NEW h, NEW got, NEW said, Becomes(m, h, got, said), m.type # "error"
      PROVE  /\ ret.waits = "none" /\ ret.h = h /\ ret.got = got /\ ret.said = said
             /\ ret.alive = prog.alive /\ ret.late = prog.late
    <2>1. m.type = prog.waits BY <1>9 DEF Becomes
    <2>2. PICK X : X = ret OBVIOUS
    <2>3. X = [Returns(m) EXCEPT !.waits = "none", !.rung = FALSE] BY <2>2
    <2> HIDE DEF ret
    <2>4. Has(X, h, got, said) BY <2>1, <2>3, <1>1, <1>9, ReturnsIs
    <2>5. /\ X.waits = "none" /\ X.h = h /\ X.got = got /\ X.said = said
          /\ X.alive = prog.alive /\ X.late = prog.late
        BY <2>4 DEF Has
    <2> QED BY <2>2, <2>5
<1> HIDE DEF back, late, ret
<1>10. prog.late => Dialogue'
    <2> SUFFICES ASSUME prog.late PROVE prog'.late
        BY DEF Dialogue
    <2>1. CASE m.type = prog.waits
        <3>1. \E h, got, said : Becomes(m, h, got, said) /\ m.type # "error"
            BY <2>1, <1>1, <1>3 DEF Becomes
        <3>2. PICK h, got, said : Becomes(m, h, got, said) /\ m.type # "error" BY <3>1
        <3> QED BY <3>2, <1>6, <1>9, <2>1
    <2>2. CASE m.type # prog.waits
        <3>1. prog' = back \/ prog' = late \/ prog' = prog BY <1>12, <2>2
        <3> QED BY <3>1, <1>7, <1>8
    <2> QED BY <2>1, <2>2
<1>11. CASE prog.alive /\ ~prog.late /\ m.type = "alarma"
    <2>1. prog' = late BY <1>3, <1>6, <1>11
    <2> QED BY <2>1, <1>8 DEF Dialogue
<1>13. CASE prog.alive /\ ~prog.late /\ m.type # "alarma"
    <2>1. AtRest \/ Asking \/ Working \/ Replied \/ Lost BY <1>13 DEF Dialogue
    <2>2. 1 \in 1 .. Len(mail) /\ mail[1] = m BY <1>4, <1>5
    <2>3. ~Silence BY <2>2, <1>13 DEF Silence
    <2>4. Replied BY <2>1, <2>3, <1>1 DEF AtRest, Asking, Working, Lost
    <2>5. PICK i \in 1 .. Len(mail) :
            Tells(mail[i]) /\ \A j \in 1 .. Len(mail) : j # i => mail[j].type = "alarma"
        BY <2>4 DEF Replied
    <2>6. i = 1 BY <2>2, <2>5, <1>13
    <2>7. Tells(m) BY <2>2, <2>5, <2>6
    <2>8. Silence'
        <3>1. ASSUME NEW j \in 1 .. Len(mail') PROVE mail'[j].type = "alarma"
            <4>1. j + 1 \in 1 .. Len(mail) /\ j + 1 # i BY <2>6, <1>4
            <4> QED BY <4>1, <2>5, <1>4
        <3> QED BY <3>1 DEF Silence
    <2>9. inbox' = <<>> /\ Still' BY <2>4, <1>1, <1>2 DEF Replied, Still
    <2>10. PICK h \in 0 .. Conex : \E got, said : Becomes(m, h, got, said) /\ Have(h, got, said)
        BY <2>7 DEF Tells
    <2>11. PICK got, said : Becomes(m, h, got, said) /\ Have(h, got, said) BY <2>10
    <2>12. Have(h, got, said)' BY <2>11, <1>2, HaveStays
    <2>13. prog'.waits = "none" /\ prog'.h = h /\ prog'.got = got /\ prog'.said = said
        <3>1. CASE m.type = "error"
            <4>1. prog' = back BY <3>1, <1>3, <1>6
            <4>2. h = prog.h /\ got = prog.got /\ said = prog.said BY <3>1, <2>11, <1>3 DEF Becomes
            <4> QED BY <4>1, <4>2, <1>7
        <3>2. CASE m.type # "error"
            <4>1. m.type = prog.waits BY <3>2, <2>11 DEF Becomes
            <4> QED BY <4>1, <3>2, <2>11, <1>6, <1>9
        <3> QED BY <3>1, <3>2
    <2>14. Knows' /\ InOrder(prog'.got)
        <3>1. Knows' BY <2>12, <2>13 DEF Knows
        <3> QED BY <3>1 DEF Knows, Have
    <2>15. Len(inbox') = 0 BY <2>9
    <2>16. AtRest' BY <2>8, <2>9, <2>13, <2>14, <2>15 DEF AtRest
    <2> QED BY <2>13, <2>14, <2>16 DEF Dialogue
<1>14. prog.alive BY DEF RedEsperar
<1> QED BY <1>10, <1>11, <1>13, <1>14

\* At the start nobody asks for anything,
LEMMA InitSpeaks ==
    ASSUME Init PROVE Dialogue
<1>1. /\ conex = [k \in Slots |-> NoConn] /\ inbox = <<>> /\ mail = <<>> /\ prog = NewProg BY DEF Init
<1>2. Still BY <1>1, WaitsFree DEF Still
<1>3. Len(mail) = 0 /\ Len(inbox) = 0 BY <1>1
<1>4. Silence BY <1>3 DEF Silence
<1>5. prog.waits = "none" /\ prog.h = 0 /\ prog.got = <<>>
    <2>1. PICK g : g = NewProg OBVIOUS
    <2>2. g.waits = "none" /\ g.h = 0 BY <2>1, NewProgIs
    <2>3. g.got = <<>>
        <3>1. PICK yes : yes = TRUE OBVIOUS
        <3>2. PICK no : no = FALSE OBVIOUS
        <3>3. g = [alive |-> yes, waits |-> "none", h |-> 0, said |-> 0, got |-> <<>>, rung |-> no,
                   over |-> no, cut |-> {}, late |-> no]
            BY <2>1, <3>1, <3>2 DEF NewProg
        <3> QED BY <3>3
    <2> QED BY <2>1, <2>2, <2>3, <1>1
<1>6. InOrder(prog.got)
    <2>1. prog.got \in Seq(Nat) /\ Len(prog.got) = 0 BY <1>5, EmptyIs
    <2> QED BY <2>1 DEF InOrder
<1>7. Knows BY <1>5, <1>6 DEF Knows, Have
<1>8. AtRest BY <1>2, <1>3, <1>4, <1>5, <1>7 DEF AtRest
<1> QED BY <1>5, <1>6, <1>8 DEF Dialogue

\* every step keeps the dialogue right,
LEMMA NextSpeaks ==
    ASSUME TcpInv, Dialogue, [Next]_vars
    PROVE  Dialogue'
<1>1. CASE Attend \/ CadaSegundo \/ \E s \in toUs : Llega(s)
    <2>1. CASE ~prog.alive
        <3>1. prog' = prog BY <1>1 DEF Attend, CadaSegundo, Llega
        <3> QED BY <3>1, <2>1 DEF Dialogue
    <2>2. CASE prog.alive /\ Attend BY <2>2, AttendSpeaks
    <2>3. CASE prog.alive /\ CadaSegundo BY <2>3, CadaSegundoSpeaks
    <2>4. CASE prog.alive /\ \E s \in toUs : Llega(s)
        <3>1. PICK s \in toUs : Llega(s) BY <2>4
        <3> QED BY <3>1, <2>4, LlegaSpeaks
    <2> QED BY <1>1, <2>1, <2>2, <2>3, <2>4 DEF TcpInv, ProgInv
<1>2. CASE CardGone \/ CardBack \/ AddressBack
    <2>1. UNCHANGED <<server, program>> BY <1>2 DEF CardGone, CardBack, AddressBack
    <2> QED BY <2>1, QuietSpeaks
<1>3. CASE Conectar \/ TcpEnviar \/ TcpRecibir \/ TcpCerrar BY <1>3, AsksSpeak
<1>4. CASE RedEsperar BY <1>4, RedEsperarSpeaks
<1>5. CASE Alarma BY <1>5, AlarmaSpeaks
<1>6. CASE Dies
    <2>1. PICK g : g = NewProg OBVIOUS
    <2>2. PICK no : no = FALSE OBVIOUS
    <2>3. prog' = [g EXCEPT !.alive = no] /\ ProgFields(g) BY <2>1, <2>2, <1>6, NewProgIs DEF Dies
    <2>4. prog'.alive = no BY <2>3 DEF ProgFields
    <2> QED BY <2>2, <2>4 DEF Dialogue
<1>7. CASE \E s \in toPeer : PeerGets(s)
    <2>1. UNCHANGED <<server, program>> BY <1>7 DEF PeerGets
    <2> QED BY <2>1, QuietSpeaks
<1>8. CASE \E p \in Ports : PeerSends(p) \/ PeerGivesUp(p)
    <2>1. UNCHANGED <<server, program>> BY <1>8 DEF PeerSends, PeerGivesUp
    <2> QED BY <2>1, QuietSpeaks
<1>9. CASE UNCHANGED vars
    <2>1. UNCHANGED <<server, program>> BY <1>9 DEF vars
    <2> QED BY <2>1, QuietSpeaks
<1> QED BY <1>1, <1>2, <1>3, <1>4, <1>5, <1>6, <1>7, <1>8, <1>9 DEF Next

\* and what the program has is what the other machine has and sent.
LEMMA SpokenIs ==
    ASSUME TcpInv, Dialogue
    PROVE  StreamUntilCut
<1> SUFFICES ASSUME prog.alive, ~prog.late
             PROVE  /\ prog.got = Bytes(1, Len(prog.got))
                    /\ prog.h # 0 /\ conex[prog.h].estado = "abierta" =>
                         prog.said <= Len(peer[conex[prog.h].local].got)
    BY DEF StreamUntilCut
<1>1. /\ InOrder(prog.got)
      /\ prog.waits = "abierta" => prog.h = 0
      /\ AtRest \/ Asking \/ Working \/ Replied \/ Lost
    BY DEF Dialogue
<1>2. PICK x : x = prog.got OBVIOUS
<1>3. x \in Seq(Nat) /\ Len(x) \in Nat /\ \A j \in 1 .. Len(x) : x[j] = j BY <1>1, <1>2 DEF InOrder
<1>4. PICK n \in Nat : n = Len(x) BY <1>3
<1>5. Bytes(1, n) \in Seq(Nat) /\ Len(Bytes(1, n)) = n - 1 + 1
      /\ \A k \in 1 .. n - 1 + 1 : Bytes(1, n)[k] = 1 + k - 1
    <2>1. 1 \in Nat \ {0} /\ n \in Nat /\ 1 <= n + 1 OBVIOUS
    <2> QED BY <2>1, BytesIs
<1>6. PICK z : z = Bytes(1, n) OBVIOUS
<1>7. n - 1 + 1 = n /\ \A k \in 1 .. n : 1 + k - 1 = k OBVIOUS
<1>8. z \in Seq(Nat) /\ Len(z) = n /\ \A k \in 1 .. n : z[k] = k BY <1>5, <1>6, <1>7
<1>9. \A k \in 1 .. n : x[k] = z[k] BY <1>3, <1>4, <1>8
<1>10. x = z BY <1>3, <1>4, <1>8, <1>9, SameWord
<1>11. prog.got = Bytes(1, Len(prog.got)) BY <1>2, <1>4, <1>6, <1>10
<1>12. ASSUME prog.h # 0, conex[prog.h].estado = "abierta"
       PROVE  prog.said <= Len(peer[conex[prog.h].local].got)
    <2>1. PICK h \in Slots : h = prog.h BY <1>12, Constants DEF TcpInv, ProgInv, Slots
    <2>2. conex[h] # NoConn BY <2>1, <1>12 DEF NoConn
    <2>3. PICK L \in Ports : L = conex[h].local BY <2>2, FreeIs DEF TcpInv
    <2>4. Len(peer[L].got) \in Nat /\ told[L] <= Len(peer[L].got) BY <2>3, LenOfGot DEF TcpInv
    <2>5. prog.said \in Nat /\ told[L] \in Nat /\ mail \in Seq(Message) BY DEF TcpInv, ProgInv, NetInv, InboxMail
    <2>6. prog.said <= told[L]
        <3>1. CASE Knows
            <4>1. told[L] = prog.said BY <3>1, <2>1, <2>2, <2>3, <1>12 DEF Knows, Have
            <4> QED BY <4>1, <2>5
        <3>2. CASE Replied
            <4>1. PICK i \in 1 .. Len(mail) : Tells(mail[i]) BY <3>2 DEF Replied
            <4>2. PICK m \in Message : m = mail[i] BY <2>5
            <4>3. PICK k \in 0 .. Conex : \E got, said : Becomes(m, k, got, said) /\ Have(k, got, said)
                BY <4>1, <4>2 DEF Tells
            <4>4. PICK got, said : Becomes(m, k, got, said) /\ Have(k, got, said) BY <4>3
            <4>5. prog.waits # "abierta" BY <1>1, <1>12
            <4>6. m.n \in Nat BY Constants DEF Message
            <4>7. m.type # "abierta" BY <4>4, <4>5 DEF Becomes
            <4>8. k = prog.h /\ (said = prog.said \/ said = prog.said + m.n) BY <4>4, <4>7 DEF Becomes
            <4>9. told[L] = said BY <4>4, <4>8, <2>1, <2>2, <2>3, <1>12 DEF Have
            <4> QED BY <4>6, <4>8, <4>9, <2>5
        <3> QED BY <3>1, <3>2, <1>1 DEF AtRest, Asking, Working, Lost
    <2>7. prog.said <= Len(peer[L].got) BY <2>4, <2>5, <2>6
    <2> QED BY <2>1, <2>3, <2>7
<1> QED BY <1>11, <1>12

\* As long as no wait was given up, what the program has read is the stream and what
\* it believes sent has arrived: red_esperar() of lib/red.c takes no other answer
\* for its own until an alarm has cut a wait.
THEOREM StreamUntilItIsCut == Spec => []StreamUntilCut
<1>1. Init => TcpInv /\ Dialogue BY InitHolds, InitSpeaks
<1>2. TcpInv /\ Dialogue /\ [Next]_vars => TcpInv' /\ Dialogue' BY NextKeeps, NextSpeaks
<1>3. TcpInv /\ Dialogue => StreamUntilCut BY SpokenIs
<1> QED BY <1>1, <1>2, <1>3, PTL DEF Spec
=============================================================================
