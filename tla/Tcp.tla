-------------------------------- MODULE Tcp --------------------------------
(***************************************************************************)
(* The TCP of the network server, user/red.c, with the program that uses   *)
(* it through lib/red.c.  The server is one process that attends one       *)
(* message at a time: a request, a segment that has arrived, a second of   *)
(* the clock.  It keeps one segment in flight per connection, takes only   *)
(* what arrives in sequence and closes in two seconds.                     *)
(*                                                                         *)
(* Between the server and the other machine a segment may be lost, come    *)
(* twice, late or in another order.  The other machine is a correct TCP    *)
(* that repeats what is not acknowledged whenever it likes.  The program   *)
(* asks, waits for an answer of the kind it expects, throws away any other *)
(* and may give up on an alarm.                                            *)
(*                                                                         *)
(* The k-th byte of a stream is the number k.  Sequence numbers wrap at    *)
(* SeqSpace.  The three connections of red.c only share the search for a   *)
(* free one; a server the program does not use and checksums are left out. *)
(***************************************************************************)
EXTENDS Integers, FiniteSets, Sequences

CONSTANTS
    Conex,                 \* TCP_CONEX
    SeqSpace,              \* 2^32
    Buz, Mss, Retries,     \* TCP_BUZ, the agreed segment, the five repeats
    Iss, PeerIss,          \* where each machine starts counting
    PeerWin,               \* the window the other machine announces when it has room
    PeerBytes, ProgBytes,  \* bounds: what each side has to say
    MaxOpens, MaxEvents, MaxTroubles, MaxAir  \* bounds

ASSUME TcpAssumption ==
    /\ {Conex, SeqSpace, Buz, Mss, Retries, PeerBytes, ProgBytes, PeerWin, MaxOpens, MaxAir} \subseteq Nat \ {0}
    /\ {MaxEvents, MaxTroubles} \subseteq Nat
    /\ {Iss, PeerIss} \subseteq 0 .. SeqSpace - 1
    /\ SeqSpace > 2 * (PeerBytes + Mss * MaxEvents + 2)
    /\ Mss <= Buz

VARIABLES
    card, ip,     \* driver # 0; we have an address
    troubles,     \* how many things have gone wrong, up to MaxTroubles
    events,       \* and how many calls the program has made, up to MaxEvents
    conex,        \* the connections, by slot
    tcp_efimero,  \* the last local port, counted from 40000
    toUs, toPeer, \* segments in the air
    peer,         \* the other machine, by the local port it sees
    inbox, mail,  \* PORT_RED, and the port of the program
    prog,         \* the program: alive, what it waits for, its connection
    given,        \* bytes the server has handed out, by local port
    told,         \* bytes it has said that were in, by local port
    sent          \* bytes it has been given to send and has put in flight, by local port

net     == <<card, ip, troubles, events>>
server  == <<conex, tcp_efimero, given, told, sent>>
program == <<inbox, mail, prog>>
vars    == <<net, server, program, peer, toUs, toPeer>>

Slots == 1 .. Conex
Ports == 1 .. MaxOpens
Never == -1
Bytes(i, j) == [k \in 1 .. j - i + 1 |-> i + k - 1]
Least(a, b) == IF a < b THEN a ELSE b
Most(a, b)  == IF a < b THEN b ELSE a
First(S)    == CHOOSE k \in S : \A j \in S : k <= j

(* ------------------------- Sequence numbers ----------------------------- *)

Plus(a, n) == (a + n) % SeqSpace

\* (int32_t)(a - b)
Minus(a, b) == LET d == (a - b) % SeqSpace IN IF d < SeqSpace \div 2 THEN d ELSE d - SeqSpace

Segment == [port : Ports, flags : SUBSET {"syn", "ack", "fin", "rst"}, seq : 0 .. SeqSpace - 1,
            ack : 0 .. SeqSpace - 1, win : Nat, data : Seq(Nat)]

(* --------------------------- One connection ----------------------------- *)

Grounded == [flags |-> {}, seq |-> 0, data |-> <<>>]
NoConn == [estado |-> "libre", local |-> 0, snd_una |-> 0, snd_nxt |-> 0, rcv_nxt |-> 0,
           ventana_otro |-> 0, vuelo |-> Grounded, reintentos |-> 0, buz |-> <<>>,
           fin_recibido |-> FALSE, ventana_dicha |-> 0, lector |-> FALSE, envio |-> FALSE,
           cerrar_pedido |-> FALSE, morir_en |-> Never]

Hueco(c) == Buz - Len(c.buz)

\* What a handler has done so far: the connection, the segments it has sent, the
\* answers it has given; in them, the bytes it has handed out and how many it
\* has said that were in; and the bytes it has put in flight.
Start(c) == [c |-> c, out |-> {}, says |-> <<>>, gave |-> <<>>, in |-> 0, flew |-> <<>>]

Says(type, n, data) == [type |-> type, n |-> n, data |-> data, con |-> 0]

Answer(r, type, n, data) ==
    [r EXCEPT !.says = Append(@, Says(type, n, data)), !.gave = @ \o data,
              !.in = @ + IF type = "hueco" THEN n ELSE 0]

Mandar(r, flags, seq, data) ==
    [r EXCEPT
        !.c.ventana_dicha = Hueco(r.c),
        !.out = @ \cup {[port |-> r.c.local, flags |-> flags, seq |-> seq,
                         ack |-> IF "ack" \in flags THEN r.c.rcv_nxt ELSE 0,
                         win |-> Hueco(r.c), data |-> data]}]

Ack(r) == Mandar(r, {"ack"}, r.c.snd_nxt, <<>>)

Volar(r, flags, data) ==
    LET consumes == Len(data) + IF flags \cap {"syn", "fin"} # {} THEN 1 ELSE 0
    IN  Mandar([r EXCEPT !.flew = @ \o data,
                         !.c.vuelo = [flags |-> flags, seq |-> r.c.snd_una, data |-> data],
                         !.c.reintentos = 0,
                         !.c.snd_nxt = Plus(r.c.snd_una, consumes)],
               flags, r.c.snd_una, data)

\* Whoever waits for something is told, and the slot is let go in a while.
Terminar(r, why) ==
    LET c    == r.c
        dead == [c EXCEPT !.estado = "muerta", !.vuelo = Grounded,
                          !.envio = FALSE, !.lector = FALSE,
                          !.morir_en = IF c.estado = "syn" THEN 1
                                       ELSE IF c.morir_en = Never THEN 2 ELSE c.morir_en]
        one(b, a) == IF b THEN <<a>> ELSE <<>>
        err  == Says("error", 0, <<>>)
    IN  [r EXCEPT !.c = dead,
                  !.says = @ \o one(c.estado = "syn", err) \o one(c.envio, err)
                             \o one(c.lector, IF why /\ c.buz = <<>> THEN err
                                              ELSE Says("datos", 0, <<>>))]

\* Mutant: the end of the stream does not count as something to deliver.
SomethingToSayBytes(c) == c.buz # <<>>

SomethingToSay(c) == c.buz # <<>> \/ c.fin_recibido \/ c.estado = "muerta"

\* To whoever waits, and the other machine is told when the room has grown.
Entregar(r) ==
    LET c == r.c
        n == Least(Len(c.buz), Mss)
        delivered == [Answer(r, "datos", n, SubSeq(c.buz, 1, n)) EXCEPT
                        !.c.lector = FALSE, !.c.buz = SubSeq(c.buz, n + 1, Len(c.buz))]
    IN  IF ~c.lector \/ ~SomethingToSay(c) THEN r
        ELSE IF /\ n > 0 /\ c.estado = "abierta"
                /\ Hueco(delivered.c) >= c.ventana_dicha + Least(Mss, Buz \div 2)
        THEN Ack(delivered) ELSE delivered

(* -------------------------- A segment arrives --------------------------- *)

SynAckLlego(c, s) ==
    IF ~({"syn", "ack"} \subseteq s.flags) \/ s.ack # c.snd_nxt THEN Start(c)
    ELSE Answer(Ack(Start([c EXCEPT !.snd_una = s.ack, !.rcv_nxt = Plus(s.seq, 1),
                                    !.vuelo = Grounded, !.ventana_otro = s.win,
                                    !.estado = "abierta"])),
                "abierta", 0, <<>>)

\* What the other machine acknowledges.
AckLlego(c, s) ==
    IF ~("ack" \in s.flags /\ Minus(s.ack, c.snd_una) > 0 /\ Minus(s.ack, c.snd_nxt) <= 0)
    THEN Start(c)
    ELSE LET seen == [c EXCEPT !.snd_una = s.ack, !.ventana_otro = s.win]
             done == [seen EXCEPT !.vuelo = Grounded, !.envio = FALSE]
             r    == IF c.envio THEN Answer(Start(done), "hueco", Len(c.vuelo.data), <<>>)
                     ELSE Start(done)
         IN  IF s.ack # c.snd_nxt THEN Start(seen)
             ELSE IF c.cerrar_pedido /\ c.estado = "abierta"
             THEN Volar([r EXCEPT !.c.cerrar_pedido = FALSE, !.c.estado = "cerrando"],
                        {"fin", "ack"}, <<>>)
             ELSE IF "fin" \in c.vuelo.flags /\ c.estado = "cerrando" /\ c.fin_recibido
             THEN Terminar(r, FALSE) ELSE r

\* Mutant: what comes ahead of its turn is taken too.
InSequenceOrAhead(c, seq) == Minus(seq, c.rcv_nxt) >= 0

InSequence(c, seq) == seq = c.rcv_nxt

\* Data in sequence, as much as there is room for; then the FIN in its place.
DatosLlegan(r, s) ==
    LET c       == r.c
        ahead   == Minus(c.rcv_nxt, s.seq)
        old     == IF ahead > 0 THEN ahead ELSE 0
        fresh   == SubSeq(s.data, old + 1, Len(s.data))
        seq     == Plus(s.seq, old)
        takes   == Least(Len(fresh), Hueco(c))
        stored  == IF s.data = <<>> THEN r
                   ELSE Ack([r EXCEPT !.c.buz = @ \o SubSeq(fresh, 1, takes),
                                      !.c.rcv_nxt = Plus(@, takes)])
        end     == IF s.data = <<>> THEN s.seq ELSE Plus(seq, Len(fresh))
        closed  == Ack([stored EXCEPT !.c.fin_recibido = TRUE,
                                      !.c.rcv_nxt = Plus(@, 1)])
    IN  IF s.data # <<>> /\ (ahead >= Len(s.data) \/ ~InSequence(c, seq)) THEN Ack(r)
        ELSE IF ~("fin" \in s.flags /\ end = stored.c.rcv_nxt) THEN Entregar(stored)
        ELSE Entregar(IF c.estado = "cerrando" /\ c.snd_una = c.snd_nxt
                      THEN Terminar(closed, FALSE) ELSE closed)

TcpLlego(c, s) ==
    IF "rst" \in s.flags THEN Terminar(Start(c), TRUE)
    ELSE IF c.estado = "syn" THEN SynAckLlego(c, s)
    ELSE DatosLlegan(AckLlego(c, s), s)

\* To nobody: a RST, unless it was one.
RstSuelto(s) ==
    IF "rst" \in s.flags THEN {}
    ELSE IF "ack" \in s.flags
    THEN {[port |-> s.port, flags |-> {"rst"}, seq |-> s.ack, ack |-> 0, win |-> 0, data |-> <<>>]}
    ELSE {[port |-> s.port, flags |-> {"rst", "ack"}, seq |-> 0, win |-> 0, data |-> <<>>,
           ack |-> Plus(s.seq, Len(s.data) + IF "syn" \in s.flags THEN 1 ELSE 0)]}

(* ------------------------- The clock, each second ----------------------- *)

Tick(c, alive) ==
    LET left  == IF c.morir_en = Never THEN Never ELSE c.morir_en - 1
        older == [c EXCEPT !.morir_en = left]
    IN  IF c.estado = "libre" THEN Start(c)
        ELSE IF ~alive
        THEN [Start(NoConn) EXCEPT
                !.out = IF c.estado \in {"abierta", "syn"}
                        THEN Mandar(Start(c), {"rst"}, c.snd_nxt, <<>>).out ELSE {}]
        ELSE IF left = 0 THEN Start(NoConn)
        ELSE IF c.vuelo.flags = {} THEN Start(older)
        ELSE IF c.reintentos = Retries THEN Terminar(Start(older), TRUE)
        ELSE Mandar(Start([older EXCEPT !.reintentos = @ + 1]),
                    c.vuelo.flags, c.vuelo.seq, c.vuelo.data)

(* --------------------------- What is asked for -------------------------- *)

Enviar(c, data) ==
    LET n == IF c.ventana_otro = 0 THEN Least(Len(data), Mss)
             ELSE Least(Least(Len(data), Mss), c.ventana_otro)
    IN  IF c.estado # "abierta" \/ c.vuelo.flags # {} THEN Answer(Start(c), "error", 0, <<>>)
        ELSE Volar(Start([c EXCEPT !.envio = TRUE]), {"ack"}, SubSeq(data, 1, n))

Leer(c) == Entregar(Start([c EXCEPT !.lector = TRUE]))

\* A limit of ten seconds, whatever happens.
Cerrar(c) ==
    LET quiet == [c EXCEPT !.lector = FALSE, !.envio = FALSE,
                           !.morir_en = IF @ = Never THEN 10 ELSE @]
    IN  IF c.estado = "abierta" /\ c.vuelo.flags # {} THEN Start([quiet EXCEPT !.cerrar_pedido = TRUE])
        ELSE IF c.estado = "abierta"
        THEN Volar(Start([quiet EXCEPT !.estado = "cerrando"]), {"fin", "ack"}, <<>>)
        ELSE IF c.estado = "syn"
        THEN Mandar(Start([quiet EXCEPT !.estado = "muerta", !.morir_en = 1]),
                    {"rst"}, c.snd_nxt, <<>>)
        ELSE Start(quiet)

Pide(c, q) == CASE q.op = "enviar" -> Enviar(c, q.data)
                [] q.op = "leer"   -> Leer(c)
                [] q.op = "cerrar" -> Cerrar(c)

(* ------------------------------ The server ------------------------------ *)

\* The air loses what it does not hold any more, and what it never delivers.
Into(held, new) ==
    {a \in SUBSET (held \cup new) : Cardinality(a) = Least(MaxAir, Cardinality(held \cup new))}

\* Without a card nothing leaves; without an address nobody would answer it.
Leave(out) == toPeer' \in IF card /\ ip THEN Into(toPeer, out) ELSE {toPeer}

Reply(says) == mail' = IF prog.alive THEN mail \o says ELSE mail

From(k, says) == [i \in DOMAIN says |-> [says[i] EXCEPT !.con = k]]

Noted(port, r) ==
    /\ given' = [given EXCEPT ![port] = @ \o r.gave]
    /\ told' = [told EXCEPT ![port] = @ + r.in]
    /\ sent' = [sent EXCEPT ![port] = @ \o r.flew]

Does(k, r) ==
    /\ conex' = [conex EXCEPT ![k] = r.c]
    /\ Leave(r.out) /\ Reply(From(k, r.says)) /\ Noted(conex[k].local, r)

Abrir ==
    LET free == {k \in Slots : conex[k].estado = "libre"}
        r    == Volar(Start([NoConn EXCEPT !.estado = "syn", !.local = tcp_efimero + 1,
                                           !.snd_una = Iss]), {"syn"}, <<>>)
    IN  IF ~ip \/ free = {}
        THEN Reply(<<Says("error", 0, <<>>)>>) /\ UNCHANGED <<server, toPeer>>
        ELSE /\ tcp_efimero' = tcp_efimero + 1
             /\ conex' = [conex EXCEPT ![First(free)] = r.c]
             /\ Leave(r.out)
             /\ UNCHANGED <<given, told, sent, mail>>

\* A connection that is not the program's, or not any more, gets no answer.
Attend ==
    /\ inbox # <<>>
    /\ inbox' = Tail(inbox)
    /\ LET q == Head(inbox) IN
       IF q.op = "abrir" THEN Abrir
       ELSE IF conex[q.slot].estado = "libre" THEN UNCHANGED <<server, toPeer, mail>>
       ELSE Does(q.slot, Pide(conex[q.slot], q)) /\ UNCHANGED tcp_efimero
    /\ UNCHANGED <<net, prog, peer, toUs>>

\* A segment from the air, which may come again.
Llega(s) ==
    /\ card /\ ip
    /\ toUs' \in {toUs, toUs \ {s}}
    /\ LET mine == {k \in Slots : conex[k].estado # "libre" /\ conex[k].local = s.port} IN
       IF mine = {} THEN Leave(RstSuelto(s)) /\ UNCHANGED <<server, mail>>
       ELSE Does(First(mine), TcpLlego(conex[First(mine)], s)) /\ UNCHANGED tcp_efimero
    /\ UNCHANGED <<net, prog, peer, inbox>>

\* Without a card the seconds are counted, and nobody is looked at.
Second(c, alive) ==
    IF card THEN Tick(c, alive)
    ELSE Start([c EXCEPT !.morir_en = IF @ \in {Never, 1} THEN @ ELSE @ - 1])

CadaSegundo ==
    /\ \E k \in Slots : conex[k].estado # "libre"
    /\ LET r == [k \in Slots |-> Second(conex[k], prog.alive)]
           says[k \in 0 .. Conex] == IF k = 0 THEN <<>> ELSE says[k - 1] \o From(k, r[k].says)
       IN  /\ conex' = [k \in Slots |-> r[k].c]
           /\ Leave(UNION {r[k].out : k \in Slots})
           /\ Reply(says[Conex])
    /\ UNCHANGED <<net, tcp_efimero, given, told, sent, prog, peer, inbox, toUs>>

(* ------------------ The rest of red.c: card and address ----------------- *)

Trouble == /\ troubles < MaxTroubles /\ events < MaxEvents
           /\ troubles' = troubles + 1 /\ events' = events + 1

CardGone ==
    /\ card /\ Trouble
    /\ card' = FALSE /\ ip' = FALSE
    /\ UNCHANGED <<server, program, peer, toUs, toPeer>>

CardBack    == ~card /\ card' = TRUE /\ UNCHANGED <<ip, troubles, events, server, program, peer, toUs, toPeer>>
AddressBack == card /\ ~ip /\ ip' = TRUE /\ UNCHANGED <<card, troubles, events, server, program, peer, toUs, toPeer>>

(* ------------------- The program and its lib/red.c ---------------------- *)

NewProg == [alive |-> TRUE, waits |-> "none", h |-> 0, said |-> 0, got |-> <<>>, rung |-> FALSE,
            over |-> FALSE, cut |-> {}, late |-> FALSE]

Idle == prog.alive /\ prog.waits = "none" /\ events < MaxEvents /\ events' = events + 1

Ask(op, slot, data, waits) ==
    /\ inbox' = Append(inbox, [op |-> op, slot |-> slot, data |-> data])
    /\ prog' = [prog EXCEPT !.waits = waits, !.h = IF waits = "none" THEN 0 ELSE @]
    /\ UNCHANGED <<card, ip, troubles, server, mail, peer, toUs, toPeer>>

Asked(op) == Cardinality({i \in DOMAIN inbox : inbox[i].op = op})

Conectar == /\ Idle /\ prog.h = 0 /\ tcp_efimero + Asked("abrir") < MaxOpens
            /\ Ask("abrir", 0, <<>>, "abierta")

TcpEnviar == /\ Idle /\ prog.h # 0 /\ "hueco" \notin prog.cut /\ prog.said < ProgBytes
             /\ Ask("enviar", prog.h, Bytes(prog.said + 1, ProgBytes), "hueco")

TcpRecibir == Idle /\ prog.h # 0 /\ Ask("leer", prog.h, <<>>, "datos")

TcpCerrar == Idle /\ prog.h # 0 /\ Ask("cerrar", prog.h, <<>>, "none")

\* Mutant: everything it was asked to send counts as sent.
EnteredAll(m) == ProgBytes - prog.said

\* How much went in, which may be less.
Entered(m) == m.n

\* What the program has when its call returns well.
Returns(m) ==
    CASE m.type = "abierta" ->
            [prog EXCEPT !.h = m.con, !.said = 0, !.got = <<>>, !.cut = {}, !.over = FALSE]
      [] m.type = "hueco" -> [prog EXCEPT !.said = @ + Entered(m)]
      [] m.type = "datos" -> [prog EXCEPT !.got = @ \o m.data, !.over = m.n = 0]

\* The next message: what it waits for, an error, the alarm, or nothing to it.
RedEsperar ==
    /\ prog.alive /\ prog.waits # "none" /\ mail # <<>>
    /\ mail' = Tail(mail)
    /\ LET m    == Head(mail)
           back == [prog EXCEPT !.waits = "none", !.rung = FALSE]
       IN  prog' = IF m.type = prog.waits
                   THEN [Returns(m) EXCEPT !.waits = "none", !.rung = FALSE]
                   ELSE IF m.type = "error" THEN back
                   ELSE IF m.type = "alarma" THEN [back EXCEPT !.cut = @ \cup {prog.waits}, !.late = TRUE]
                   ELSE prog
    /\ UNCHANGED <<net, server, inbox, peer, toUs, toPeer>>

Alarma ==
    /\ prog.alive /\ prog.waits # "none" /\ ~prog.rung /\ Trouble
    /\ mail' = Append(mail, Says("alarma", 0, <<>>))
    /\ prog' = [prog EXCEPT !.rung = TRUE]
    /\ UNCHANGED <<card, ip, server, inbox, peer, toUs, toPeer>>

Dies == /\ prog.alive /\ Trouble
        /\ prog' = [NewProg EXCEPT !.alive = FALSE]
        /\ mail' = <<>>
        /\ UNCHANGED <<card, ip, server, inbox, peer, toUs, toPeer>>

(* ---------------- The other machine: any correct TCP -------------------- *)

Expects(p) == Plus(Iss, 1 + Len(p.got) + IF p.fin THEN 1 ELSE 0)

Out(port, flags, seq, data) ==
    {[port |-> port, flags |-> flags, seq |-> seq, ack |-> Expects(peer'[port]), data |-> data,
      win |-> IF peer'[port].full THEN 0 ELSE PeerWin]}

\* It takes what comes in sequence, or half of it when it has no more room.
Takes(p, s) ==
    LET old   == Minus(Expects(p), s.seq)
        fresh == SubSeq(s.data, old + 1, Len(s.data))
        seen  == IF "ack" \in s.flags /\ Minus(s.ack, Plus(PeerIss, 1 + p.acked)) \in 1 .. p.sent - p.acked
                 THEN [p EXCEPT !.acked = @ + Minus(s.ack, Plus(PeerIss, 1 + p.acked)), !.room = s.win]
                 ELSE [p EXCEPT !.room = s.win]
        gets(n, full) == [seen EXCEPT !.got = @ \o SubSeq(fresh, 1, n), !.full = full,
                                      !.fin = "fin" \in s.flags /\ n = Len(fresh)]
    IN  IF p.fin \/ old < 0 \/ old > Len(s.data) THEN {seen}
        ELSE {gets(Len(fresh), FALSE), gets(Len(fresh) \div 2, fresh # <<>>)}

PeerGets(s) ==
    LET p == peer[s.port]
        answers(q, flags) ==
            /\ peer' = [peer EXCEPT ![s.port] = q]
            /\ toUs' \in Into(toUs, Out(s.port, flags, IF "syn" \in flags THEN PeerIss
                                                       ELSE Plus(PeerIss, 1 + q.sent), <<>>))
        quiet(q) == peer' = [peer EXCEPT ![s.port] = q] /\ UNCHANGED toUs
    IN  /\ toPeer' = toPeer \ {s}
        /\ CASE "rst" \in s.flags -> quiet([p EXCEPT !.st = "gone"])
             [] p.st \in {"new", "rcvd"} /\ s.flags = {"syn"} ->
                    answers([p EXCEPT !.st = "rcvd", !.room = s.win], {"syn", "ack"})
             [] p.st \in {"rcvd", "open"} /\ s.flags \cap {"rst", "syn"} = {} ->
                    \E q \in Takes([p EXCEPT !.st = "open"], s) :
                        IF s.data = <<>> /\ "fin" \notin s.flags THEN quiet(q) ELSE answers(q, {"ack"})
             [] OTHER -> answers(p, IF p.st = "open" THEN {"ack"} ELSE {"rst"})
        /\ UNCHANGED <<net, server, program>>

\* What is not acknowledged, again or going on from what is in the air, as far
\* as the room it knows of, one byte if none.  Its FIN goes with its last bytes
\* or alone, after them.
PeerSends(port) ==
    /\ peer[port].st = "open"
    /\ LET p == peer[port] IN
       \E from \in {p.acked, p.sent}, size \in {1, Mss} :
        LET room == IF p.room = 0 THEN 1 ELSE p.room
            to   == Least(PeerBytes, Least(from + size, p.acked + room))
            fin  == to = PeerBytes /\ size = Mss
        IN  /\ from = p.acked \/ size = Mss
            /\ from <= PeerBytes /\ (to > from \/ fin)
            /\ peer' = [peer EXCEPT ![port].sent = Most(@, to + IF fin THEN 1 ELSE 0)]
            /\ toUs' \in Into(toUs, Out(port, {"ack"} \cup IF fin THEN {"fin"} ELSE {},
                                      Plus(PeerIss, 1 + from), Bytes(from + 1, to)))
    /\ UNCHANGED <<net, server, program, toPeer>>

PeerGivesUp(port) ==
    /\ peer[port].st \in {"new", "open"} /\ Trouble
    /\ peer' = [peer EXCEPT ![port].st = "gone"]
    /\ toUs' \in Into(toUs, IF peer[port].st = "new" THEN {} ELSE Out(port, {"rst"}, 0, <<>>))
    /\ UNCHANGED <<card, ip, server, program, toPeer>>

(* ------------------------------------------------------------------------ *)

Init ==
    /\ card = TRUE /\ ip = TRUE /\ troubles = 0 /\ events = 0
    /\ conex = [k \in Slots |-> NoConn] /\ tcp_efimero = 0
    /\ given = [p \in Ports |-> <<>>] /\ told = [p \in Ports |-> 0] /\ sent = [p \in Ports |-> <<>>]
    /\ inbox = <<>> /\ mail = <<>>
    /\ prog = NewProg
    /\ peer = [p \in Ports |-> [st |-> "new", acked |-> 0, sent |-> 0, room |-> 0,
                                got |-> <<>>, fin |-> FALSE, full |-> FALSE]]
    /\ toUs = {} /\ toPeer = {}

Next ==
    \/ Attend \/ CadaSegundo \/ \E s \in toUs : Llega(s)
    \/ CardGone \/ CardBack \/ AddressBack
    \/ Conectar \/ TcpEnviar \/ TcpRecibir \/ TcpCerrar \/ RedEsperar \/ Alarma \/ Dies
    \/ \E s \in toPeer : PeerGets(s)
    \/ \E p \in Ports : PeerSends(p) \/ PeerGivesUp(p)

Spec == Init /\ [][Next]_vars

(* ----------------------------- Properties ------------------------------- *)

Message == [type : {"abierta", "hueco", "datos", "error", "alarma"}, n : 0 .. Mss, data : Seq(Nat),
            con : 0 .. Conex]

\* The state has its shape, nobody keeps more than TCP_BUZ unread bytes, and
\* the repeats stop at the fifth.
TypeOK ==
    /\ {card, ip} \subseteq BOOLEAN /\ ip => card
    /\ \A k \in Slots :
        LET c == conex[k] IN
        /\ c.estado \in {"libre", "syn", "abierta", "cerrando", "muerta"}
        /\ c.buz \in Seq(Nat) /\ Len(c.buz) <= Buz
        /\ c.reintentos \in 0 .. Retries /\ c.morir_en \in {Never} \cup 1 .. 10
        /\ {c.snd_una, c.snd_nxt, c.rcv_nxt} \subseteq 0 .. SeqSpace - 1
    /\ toUs \cup toPeer \subseteq Segment
    /\ mail \in Seq(Message)

\* What the server has handed out and what it still keeps are the bytes the
\* other machine sent, all, in order and once, as far as it has acknowledged
\* (include/net_abi.h, "llega todo, llega en orden, llega una vez").
InOrderOnce ==
    \A k \in Slots :
        LET c == conex[k]
            whole == given[c.local] \o c.buz
        IN  c.estado \in {"abierta", "cerrando"} =>
            /\ whole = Bytes(1, Len(whole))
            /\ c.rcv_nxt = Plus(PeerIss, 1 + Len(whole) + IF c.fin_recibido THEN 1 ELSE 0)
            /\ c.fin_recibido => Len(whole) = PeerBytes

\* The other machine gets what the server was given to send, in order and once,
\* and what the program is told went in, the other machine has (UMSG_TCP_HUECO).
ToldIsThere ==
    \A p \in Ports : /\ peer[p].got = SubSeq(sent[p], 1, Len(peer[p].got))
                     /\ told[p] <= Len(peer[p].got)

\* What each of the two has is the stream of the other, whole and in its order,
\* whatever the segments that are lost, repeated or late.
StreamsAreWhole == InOrderOnce /\ ToldIsThere

\* Nobody waits for data that are there, for an end that has come, for the
\* acknowledgement of what is not in flight, or on a connection that is over;
\* and who asks for a connection has its request, its SYN or its answer.
NobodyWaitsInVain ==
    /\ \A k \in Slots :
        LET c == conex[k] IN
        /\ c.lector => c.buz = <<>> /\ ~c.fin_recibido /\ c.estado \in {"syn", "abierta", "cerrando"}
        /\ c.envio  => c.vuelo.data # <<>> /\ c.estado = "abierta"
        /\ c.estado = "syn" => c.vuelo.flags = {"syn"}
    /\ prog.waits = "abierta" =>
        \/ Asked("abrir") > 0 \/ \E k \in Slots : conex[k].estado = "syn"
        \/ \E i \in DOMAIN mail : mail[i].type \in {"abierta", "error", "alarma"}

\* As long as no wait was given up, what the program has read is the stream
\* and what it believes sent has arrived: the answer that comes late is what
\* lib/red.c takes for that of another question or throws away.
StreamUntilCut ==
    prog.alive /\ ~prog.late =>
        /\ prog.got = Bytes(1, Len(prog.got))
        /\ prog.h # 0 /\ conex[prog.h].estado = "abierta" =>
             prog.said <= Len(peer[conex[prog.h].local].got)

\* "What else comes is dealt with" (lib/red.c:62-63; 215-219 for TCP): also the
\* data of a wait that was given up.  It does not hold: they come to the next
\* call, which waits for something else and throws them away.
ReadsAreTheStream == prog.alive => prog.got = Bytes(1, Len(prog.got))

\* tcp_recibir() returns 0 at the end of the download, and that is no error
\* (lib/red.c, tcp_recibir).  It does not hold: a connection that the other
\* machine breaks with RST while nobody reads says 0 to the next who reads.
EndIsTheEnd == prog.over /\ prog.cut = {} => Len(prog.got) = PeerBytes
===========================================================================
