-------------------------------- MODULE Net --------------------------------
(***************************************************************************)
(* The network server (user/red.c) below and beside TCP: ARP, DHCP, ping,  *)
(* names, the time and the sockets of UDP; and the library with which      *)
(* programs ask (lib/red.c).  TCP has a module of its own, Tcp.  The way   *)
(* of a frame between the server and the card is one step here: the driver *)
(* passes at once what it is given.                                        *)
(*                                                                         *)
(* The server is a loop of msg_recv over a port of a few messages          *)
(* (src/ipc.c; see Ports): a send to a full port waits, and a notice of    *)
(* the kernel to a full port is lost.  A handler is one step, with the     *)
(* frames that it sends; what it sends to programs goes out message by     *)
(* message, in order, each when it fits, and the server takes the next     *)
(* message when all have gone.  A second stands for as many as it takes    *)
(* for what is asked again to be due.                                      *)
(*                                                                         *)
(* The handlers are functions from the state of the server to its state,   *)
(* R; its field sent has the frames that the handler has given to the      *)
(* card, and its field out the messages for programs that are left to send.*)
(***************************************************************************)
EXTENDS Naturals, Sequences, FiniteSets

CONSTANTS
    Progs,       \* programs
    Scripts,     \* what a program does: calls of the library, one after another
    Names,       \* what they ask the name server for
    Room,        \* PORT_QUEUE: the messages that each port holds
    NumericPool, \* whether the server of time is given by its number (zona_leer())
    Slots,       \* consultas[] and enchufes[]
    Tries,       \* times that what nobody answers is asked again, 3 of each
    Near,        \* the first hop to a neighbour: his own card, or "router"
    Clients,     \* clientes[]
    MaxQuestions, \* bound: numbers that a life of the server gives to its questions
    MaxAir,      \* bound: frames on their way
    MaxTroubles  \* bound: frames repeated or that nobody asked for, refusals, deaths

ASSUME NetAssumption ==
    /\ Scripts \subseteq Seq({"resolve", "ping", "time", "info", "open", "bind", "put", "take", "close"})
    /\ Room \in [{"red"} \cup Progs -> Nat \ {0}] /\ Slots \in Nat \ {0} /\ Clients \in Nat \ {0} /\ Tries \in Nat \ {0}
    /\ MaxAir \in Nat /\ Progs \cap {"red", "usb", "hora"} = {}
    /\ MaxQuestions < 2^16 \* dns_id has 16 bits, and does not come round

VARIABLES
    q,           \* the ports of red and of each program
    up,          \* the servers that are alive
    red,         \* the state of the network server
    told,        \* pila_avisada, of the driver
    air,         \* frames on their way to the server
    prog,        \* the programs: their call, and what it has returned
    troubles

vars == <<q, up, red, told, air, prog, troubles>>

Servers == {"red", "usb"}
Free    == [id |-> 0]
NoCall  == [c |-> "none"]
Pool    == "pool.ntp.org"
Numeric == IF NumericPool THEN {Pool} ELSE {}

\* The address of a name.  old is not in the code: it says that it is the answer
\* to a question of a server that has died since.
Address(name) == [of |-> name, old |-> FALSE]
Nothing == Address("none")

\* dnsid and efimero are counters of the process, and begin again with it.  The
\* number 1 stands for one that programs ask for; the others are given.
RedStart == [card |-> FALSE, st |-> 0, xid |-> 0, tries |-> 0, ip |-> FALSE, ntp |-> FALSE, ns |-> FALSE,
             arp |-> {}, pend |-> {}, dns |-> [i \in 1..Slots |-> Free], dnsid |-> 0,
             hst |-> 0, htries |-> 0, again |-> FALSE, clients |-> <<>>,
             ping |-> {}, socks |-> {}, efimero |-> 1, sent |-> {}, out |-> <<>>]

\* A program: k says how many have had its port, and so its process.
ProgStart(script, k) == [st |-> "free", todo |-> script, call |-> NoCall, alarm |-> FALSE,
                         kept |-> FALSE, sock |-> 0, k |-> k]

Init ==
    /\ q = [p \in {"red"} \cup Progs |-> <<>>]
    /\ up = Servers /\ red = RedStart /\ told = FALSE /\ air = {}
    /\ \E s \in [Progs -> Scripts] : prog = [p \in Progs |-> ProgStart(s[p], 1)]
    /\ troubles = 0

Trouble == troubles < MaxTroubles /\ troubles' = troubles + 1
Full(p) == Len(q[p]) >= Room[p]
Alive(p) == IF p \in Servers THEN p \in up ELSE prog[p].st # "dead"

(***************************************************************************)
(* What red sends.                                                         *)
(***************************************************************************)
Put(R, to, m) == [R EXCEPT !.out = Append(@, [to |-> to, m |-> m])]

\* enviar(): with no driver a frame goes nowhere; that it is not there any
\* more is learned here.
Enviar(R, f) ==
    IF ~R.card THEN R
    ELSE IF Alive("usb") THEN [R EXCEPT !.sent = @ \cup {f}]
    ELSE [R EXCEPT !.card = FALSE, !.ip = FALSE]

\* xid is the time: a number that no other search has had, here the smallest
\* that cannot be taken for that of another.
Frames ==
    air \cup {w.f : w \in red.pend}
        \cup {q["red"][i].f : i \in {j \in DOMAIN q["red"] : q["red"][j].t = "frame"}}
Fresh(xid) ==
    LET T == {xid} \cup {f.x : f \in {g \in Frames : "x" \in DOMAIN g}}
    IN  CHOOSE n \in 1..Cardinality(T) + 1 : n \notin T /\ \A k \in 1..n - 1 : k \in T

\* ip_enviar(): by the hop that is known, or the frame waits, in the place of
\* the one that waited, while it is asked who has the hop.
IpEnviar(R, hop, f) ==
    IF hop \in R.arp THEN Enviar(R, f)
    ELSE Enviar([R EXCEPT !.pend = {[hop |-> hop, f |-> f]}], [t |-> "arp", hop |-> hop])

ErrorA(R, p) == Put(R, p, [t |-> "error"])

\* arp_llego(): what is learned, and what was waiting for it.
ArpLlego(R, hop) ==
    LET L == [R EXCEPT !.arp = @ \cup {hop}]
    IN  IF \E w \in R.pend : w.hop = hop
        THEN Enviar([L EXCEPT !.pend = {}], (CHOOSE w \in R.pend : w.hop = hop).f)
        ELSE L

(***************************************************************************)
(* The time: who waits for it, the question to the name server, the one to *)
(* the server of time.                                                     *)
(***************************************************************************)

\* contestar_clientes(): each of those who wait, once.
Contestar(R, m) ==
    [R EXCEPT !.out = @ \o [i \in DOMAIN R.clients |-> [to |-> R.clients[i], m |-> m]],
              !.clients = <<>>]

\* Mutant: the failure is kept, and those who wait are not told.
HoraFalloQuietly(R) == [R EXCEPT !.hst = 0, !.again = TRUE]

HoraFallo(R) == [Contestar(R, [t |-> "error"]) EXCEPT !.hst = 0, !.htries = 0, !.again = TRUE]

NtpPedir(R) == IpEnviar(R, "router", [t |-> "ntp"])

HoraResuelto(R) ==
    IF R.hst = 1 THEN NtpPedir([R EXCEPT !.hst = 2, !.htries = 0]) ELSE R

\* ntp_llego(): the time, or a server that does not have it.
NtpLlego(R, good) ==
    IF R.hst # 2 THEN R
    ELSE IF ~good THEN HoraFallo(R)
    ELSE [Contestar(R, [t |-> "time"]) EXCEPT !.hst = 0, !.htries = 0, !.again = TRUE]

(***************************************************************************)
(* Names.                                                                  *)
(***************************************************************************)

\* What dns_contestar() tells: to the time, which is inside, or to a program.
DnsSay(R, who, name, addr) ==
    IF who = "hora" THEN (IF addr.of # "none" THEN HoraResuelto(R) ELSE HoraFallo(R))
    ELSE IF addr.of # "none" THEN Put(R, who, [t |-> "resolved", name |-> name, addr |-> addr])
    ELSE ErrorA(R, who)

DnsContestar(R, i, addr) ==
    DnsSay([R EXCEPT !.dns[i] = Free], R.dns[i].who, R.dns[i].name, addr)

\* dns_mandar(): with no server to ask it goes to the address 0.
DnsMandar(R, i) ==
    IpEnviar([R EXCEPT !.dns[i].tries = @ + 1], "router",
             IF R.ns THEN [t |-> "query", id |-> R.dns[i].id, name |-> R.dns[i].name]
             ELSE [t |-> "nowhere"])

\* dns_consultar(): each question takes the next number, the one that is an
\* address, which is read, and the one that there is no place, no server or no
\* address of its own to ask, which is refused, too.
DnsConsultar(R, who, name) ==
    LET free == {i \in 1..Slots : R.dns[i] = Free}
        i    == CHOOSE k \in free : \A j \in free : k <= j
        C    == [R EXCEPT !.dnsid = @ + 1]
    IN  IF name \in Numeric THEN DnsSay(C, who, name, Address(name))
        ELSE IF free = {} \/ ~R.ns \/ ~R.ip THEN DnsSay(C, who, name, Nothing)
        ELSE DnsMandar([C EXCEPT !.dns[i] = [id |-> C.dnsid, who |-> who, name |-> name, tries |-> 0]], i)

\* Mutant: the first question is the one that is answered.
AskedFirst(R, id) == {i \in 1..Slots : R.dns[i] # Free}

\* The question whose identifier the answer carries.
Asked(R, id) == {i \in 1..Slots : R.dns[i] # Free /\ R.dns[i].id = id}

DnsLlego(R, f) ==
    LET w == Asked(R, f.id)
    IN  IF w = {} THEN R ELSE DnsContestar(R, CHOOSE i \in w : \A j \in w : i <= j, f.addr)

\* dns_tick(): a few times, and then that nobody answers.
DnsTick(R) ==
    LET after[i \in 0..Slots] ==
            IF i = 0 THEN R
            ELSE LET S == after[i - 1]
                 IN  IF S.dns[i] = Free THEN S
                     ELSE IF S.dns[i].tries >= Tries THEN DnsContestar(S, i, Nothing)
                     ELSE DnsMandar(S, i)
    IN  after[Slots]

\* hora_iniciar(): the server of the lease, or the name of one.
HoraIniciar(R) ==
    IF ~R.ip THEN R
    ELSE LET H == [R EXCEPT !.htries = 0, !.again = FALSE]
         IN  IF R.ntp THEN NtpPedir([H EXCEPT !.hst = 2])
             ELSE DnsConsultar([H EXCEPT !.hst = 1], "hora", Pool)

\* hora_tick(): asked again, given up, or, in a while, started again.
HoraTick(R, due) ==
    IF R.hst = 2
    THEN (IF R.htries >= Tries THEN HoraFallo(R) ELSE NtpPedir([R EXCEPT !.htries = @ + 1]))
    ELSE IF R.hst = 0 /\ R.again /\ R.ip /\ due THEN HoraIniciar(R) ELSE R

\* hora_pedida(): the fifth of those who wait is not written down.
HoraPedida(R, p) ==
    LET C == IF Len(R.clients) < Clients THEN [R EXCEPT !.clients = Append(@, p)] ELSE R
    IN  IF ~R.card \/ ~R.ip THEN Contestar(C, [t |-> "error"])
        ELSE IF R.hst = 0 THEN HoraIniciar(C) ELSE C

(***************************************************************************)
(* The address.                                                            *)
(***************************************************************************)
DhcpMandar(R, t) == Enviar(R, [t |-> t, x |-> R.xid])

DhcpBuscar(R) ==
    DhcpMandar([R EXCEPT !.st = 1, !.ip = FALSE, !.xid = Fresh(@), !.tries = 1], "discover")

\* dhcp_llego(): only what carries the xid of this search.
DhcpLlego(R, f) ==
    CASE f.x = R.xid /\ f.t = "offer" /\ R.st = 1 ->
            DhcpMandar([R EXCEPT !.st = 2, !.tries = 1], "request")
      [] f.x = R.xid /\ f.t = "ack" /\ R.st \in {2, 3} ->
            LET A == [R EXCEPT !.st = 3, !.tries = 0, !.ip = TRUE, !.ntp = f.ntp, !.ns = f.ns]
            IN  IF R.st = 2 THEN HoraIniciar(A) ELSE A
      [] f.x = R.xid /\ f.t = "nak" -> DhcpBuscar(R)
      [] OTHER -> R

\* The first part of cada_segundo(): what is repeated, renewed or lost when it
\* is due; ends says that the lease is over.
DhcpTick(R, due, ends) ==
    CASE R.st = 1 /\ due -> DhcpMandar(R, "discover")
      [] R.st = 2 /\ due -> IF R.tries >= Tries THEN DhcpBuscar(R)
                            ELSE DhcpMandar([R EXCEPT !.tries = @ + 1], "request")
      [] R.st = 3 /\ (due \/ ends) ->
            LET N == IF due THEN DhcpMandar(R, "request") ELSE R
            IN  IF ends THEN DhcpBuscar(N) ELSE N
      [] OTHER -> R

(***************************************************************************)
(* Sockets, and pings.                                                     *)
(***************************************************************************)

\* The process k of those that have had the port p is still there: kill(pid, 0).
Lives(p, k) == prog[p].k = k /\ prog[p].st # "dead"

\* enchufes_barrer(): what a dead program leaves open is taken back.
Barrer(R) == [R EXCEPT !.socks = {e \in @ : Lives(e.p, e.k)}]

\* enchufe_por_puerto(): the socket of a local number; and only for its owner.
At(R, n) == {e \in R.socks : e.n = n}
Own(R, m) == {e \in At(R, m.n) : e.p = m.p /\ e.k = m.k}

\* Mutant: the dead who has the number is passed over, and not taken back.
AbrirByTheLiving(R, m) ==
    LET C == IF m.n = 0 THEN [R EXCEPT !.efimero = @ + 1] ELSE R
        n == IF m.n = 0 THEN C.efimero ELSE m.n
    IN  IF (\E e \in At(R, m.n) : Lives(e.p, e.k)) \/ Cardinality(R.socks) >= Slots THEN ErrorA(C, m.p)
        ELSE Put([C EXCEPT !.socks = @ \cup {[p |-> m.p, k |-> m.k, n |-> n]}], m.p,
                 [t |-> "opened", n |-> n])

\* enchufe_abrir(): a place and a local number, that which is asked for if
\* nobody has it, or else (0) the next.
Abrir(R, m) ==
    LET B == Barrer(R)
        C == IF m.n = 0 THEN [B EXCEPT !.efimero = @ + 1] ELSE B
        n == IF m.n = 0 THEN C.efimero ELSE m.n
    IN  IF At(B, m.n) # {} \/ Cardinality(B.socks) >= Slots THEN ErrorA(C, m.p)
        ELSE Put([C EXCEPT !.socks = @ \cup {[p |-> m.p, k |-> m.k, n |-> n]}], m.p,
                 [t |-> "opened", n |-> n])

Cerrar(R, S) == [R EXCEPT !.socks = @ \ S]

EnchufeEnviar(R, m) ==
    IF Own(R, m) = {} THEN R
    ELSE IF ~R.ip THEN ErrorA(R, m.p)
    ELSE IpEnviar(R, Near, [t |-> "dgram", n |-> m.n])

\* enchufe_entregar(): to the port of who has the local number that it carries.
\* k is not in the code: it says whose the socket is.
EnchufeEntregar(R, n) ==
    IF At(R, n) = {} THEN R
    ELSE LET e == CHOOSE x \in At(R, n) : TRUE
         IN  Put(R, e.p, [t |-> "dgram", n |-> n, k |-> e.k])

\* ping_pedido() and icmp_llego(): one in flight, and the next takes its place.
PingPedido(R, p, s) ==
    IF ~R.ip THEN ErrorA(R, p)
    ELSE IpEnviar([R EXCEPT !.ping = {[who |-> p, s |-> s]}], Near, [t |-> "echo", s |-> s])

\* An echo is known by who sends it, here always the same, and by its number.
IcmpLlego(R, f) ==
    IF R.ping = {} THEN R
    ELSE LET v == CHOOSE w \in R.ping : TRUE
             D == [R EXCEPT !.ping = {}]
         IN  CASE f.t = "echoed" /\ f.s = v.s -> Put(D, v.who, [t |-> "ponged", s |-> v.s])
               [] f.t = "unreachable" -> ErrorA(D, v.who)
               [] OTHER -> R

(***************************************************************************)
(* The loop of red.                                                        *)
(***************************************************************************)

\* What comes by IP from a neighbour says what his card is.
Learned(R, f) ==
    IF R.ip /\ f.t \in {"echoed", "dgram", "pinged"} THEN [R EXCEPT !.arp = @ \cup {Near}] ELSE R

\* trama_llego(), arp_llego(), ip_llego(), udp_llego(): who a frame is for.  But
\* for what is of DHCP, only with an address of its own.
TramaLlego(R, f) ==
    LET N == Learned(R, f)
    IN  CASE f.t = "isat" -> ArpLlego(R, f.hop)
          [] f.t = "whois" -> LET L == [R EXCEPT !.arp = @ \cup {Near}]
                              IN  IF R.ip THEN Enviar(L, [t |-> "itisme"]) ELSE L
          [] f.t \in {"offer", "ack", "nak"} -> DhcpLlego(R, f)
          [] ~R.ip /\ f.t \notin {"isat", "whois", "offer", "ack", "nak"} -> R
          [] R.ip /\ f.t = "answer" -> DnsLlego(R, f)
          [] R.ip /\ f.t = "time" -> NtpLlego(R, f.good)
          [] R.ip /\ f.t \in {"echoed", "unreachable"} -> IcmpLlego(N, f)
          [] R.ip /\ f.t = "pinged" -> IpEnviar(N, Near, [t |-> "itisme"])
          [] R.ip /\ f.t = "dgram" -> EnchufeEntregar(N, f.n)

\* cada_segundo(): with no card, nothing; a search that starts from the
\* request that nobody answers ends the second.
CadaSegundo(R, due, ends, again) ==
    IF ~R.card THEN R
    ELSE LET D == DhcpTick(R, due, ends)
         IN  IF R.st = 2 /\ D.st = 1 THEN D ELSE Barrer(DnsTick(HoraTick(D, again)))

\* tarjeta_llego().
TarjetaLlego(R) == DhcpBuscar([R EXCEPT !.card = TRUE])

\* What the message does to the server, whatever is due when it comes.
Handled(R, m) ==
    CASE m.t = "card"    -> {TarjetaLlego(R)}
      [] m.t = "frame"   -> {TramaLlego(R, m.f)}
      [] m.t = "alarm"   -> {CadaSegundo(R, due, ends, again) : due, ends, again \in BOOLEAN}
      [] m.t = "time"    -> {HoraPedida(R, m.p)}
      [] m.t = "resolve" -> {DnsConsultar(R, m.p, m.n)}
      [] m.t = "info"    -> {Put(R, m.p, [t |-> "info"])}
      [] m.t = "ping"    -> {PingPedido(R, m.p, m.s)}
      [] m.t = "open"    -> {Abrir(R, m)}
      [] m.t = "put"     -> {EnchufeEnviar(R, m)}
      [] m.t = "close"   -> {Cerrar(R, Own(R, m))}

\* The other machines: what they may say to a frame.
Replies(f) ==
    CASE f.t = "discover" -> {[t |-> "offer", x |-> f.x]}
      [] f.t = "request"  -> {[t |-> "ack", x |-> f.x, ntp |-> a, ns |-> b] : a, b \in BOOLEAN}
      [] f.t = "arp"      -> {[t |-> "isat", hop |-> f.hop]}
      [] f.t = "query"    -> {[t |-> "answer", id |-> f.id, addr |-> a] : a \in {Address(f.name), Nothing}}
      [] f.t = "ntp"      -> {[t |-> "time", good |-> b] : b \in BOOLEAN}
      [] f.t = "echo"     -> {[t |-> "echoed", s |-> f.s]}
      [] f.t = "dgram"    -> {f}
      [] f.t \in {"itisme", "nowhere"} -> {}

Refusals(f) ==
    CASE f.t = "request" -> {[t |-> "nak", x |-> f.x]}
      [] f.t = "echo"    -> {[t |-> "unreachable"]}
      [] OTHER           -> {}

\* Frames are answered, or lost on their way or on the way back.
Goes(F) ==
    \/ /\ \E A \in SUBSET UNION {Replies(f) : f \in F} : air' = air \cup A
       /\ Cardinality(air') <= MaxAir /\ UNCHANGED troubles
    \/ /\ \E r \in UNION {Refusals(f) : f \in F} : air' = air \cup {r}
       /\ Cardinality(air') <= MaxAir /\ Trouble

RedReceives ==
    /\ Alive("red") /\ red.out = <<>> /\ q["red"] # <<>>
    /\ q' = [q EXCEPT !["red"] = Tail(@)]
    /\ \E R \in Handled(red, Head(q["red"])) :
          /\ R.dnsid <= MaxQuestions
          /\ red' = [R EXCEPT !.sent = {}]
          /\ Goes(R.sent)
    /\ UNCHANGED <<up, told, prog>>

\* One message of a handler.  If the program is not there, enchufe_entregar()
\* takes its socket back.
RedSends ==
    /\ Alive("red") /\ red.out # <<>>
    /\ LET h == Head(red.out)  R == [red EXCEPT !.out = Tail(@)]
       IN  \/ /\ Alive(h.to) /\ ~Full(h.to)
              /\ q' = [q EXCEPT ![h.to] = Append(@, h.m)] /\ red' = R
           \/ /\ ~Alive(h.to) /\ UNCHANGED q
              /\ red' = IF h.m.t = "dgram" THEN Cerrar(R, At(R, h.m.n)) ELSE R
    /\ UNCHANGED <<up, told, air, prog, troubles>>

\* It dies, with what it knew and its counters; what answers to it is still on
\* its way, and it is started again, on the same port.
Older(f) == IF f.t = "answer" THEN [f EXCEPT !.addr.old = TRUE] ELSE f

RedDies ==
    /\ Alive("red") /\ Trouble
    /\ up' = up \ {"red"} /\ red' = RedStart /\ q' = [q EXCEPT !["red"] = <<>>]
    /\ air' = {Older(f) : f \in air}
    /\ UNCHANGED <<told, prog>>

RedStarts ==
    /\ ~Alive("red") /\ up' = up \cup {"red"}
    /\ UNCHANGED <<q, red, told, air, prog, troubles>>

(***************************************************************************)
(* The driver, and the kernel.                                             *)
(***************************************************************************)

\* nic_anunciar(), at the start and then until there is a stack to tell.
Announce ==
    /\ Alive("usb") /\ ~told /\ Alive("red") /\ ~Full("red")
    /\ q' = [q EXCEPT !["red"] = Append(@, [t |-> "card"])] /\ told' = TRUE
    /\ UNCHANGED <<up, red, air, prog, troubles>>

\* The driver's trama_llego(): a frame comes, or comes and will come again, or
\* is one that nobody has asked for.  That the stack has gone is seen here.
Arrives ==
    /\ Alive("usb") /\ told /\ (Alive("red") => ~Full("red"))
    /\ \E f \in air \cup {[t |-> "whois"], [t |-> "pinged"]} :
          /\ \/ f \in air /\ air' = air \ {f} /\ UNCHANGED troubles
             \/ Trouble /\ UNCHANGED air
          /\ IF Alive("red") THEN q' = [q EXCEPT !["red"] = Append(@, [t |-> "frame", f |-> f])]
                                  /\ UNCHANGED told
             ELSE told' = FALSE /\ UNCHANGED q
    /\ UNCHANGED <<up, red, prog>>

UsbDies ==
    /\ Alive("usb") /\ Trouble /\ up' = up \ {"usb"} /\ told' = FALSE
    /\ UNCHANGED <<q, red, air, prog>>

UsbStarts ==
    /\ ~Alive("usb") /\ up' = up \cup {"usb"}
    /\ UNCHANGED <<q, red, told, air, prog, troubles>>

Waiting(p, t) == \E i \in DOMAIN q[p] : q[p][i].t = t

\* alarmas_tick(): of the server, that takes it before it is due again.
Second ==
    /\ Alive("red") /\ ~Full("red") /\ ~Waiting("red", "alarm")
    /\ q' = [q EXCEPT !["red"] = Append(@, [t |-> "alarm"])]
    /\ UNCHANGED <<up, red, told, air, prog, troubles>>

\* alarmas_tick(): of a program that waits with a limit.
Ring(p) ==
    /\ prog[p].alarm /\ ~Full(p) /\ ~Waiting(p, "alarm")
    /\ q' = [q EXCEPT ![p] = Append(@, [t |-> "alarm"])]
    /\ UNCHANGED <<up, red, told, air, prog, troubles>>

(***************************************************************************)
(* The library.                                                            *)
(***************************************************************************)
Becomes(p, s) == prog' = [prog EXCEPT ![p] = s]

\* udp_recibir(): what was kept, or to wait for one.
Take(p, s) ==
    Becomes(p, IF s.kept THEN [s EXCEPT !.kept = FALSE]
               ELSE [s EXCEPT !.st = "waiting", !.alarm = TRUE, !.call = [c |-> "take"]])

\* A call that has something to ask: first the request, which waits for room.
Call(p) ==
    /\ prog[p].st = "free" /\ prog[p].todo # <<>>
    /\ LET k == Head(prog[p].todo)  next == [prog[p] EXCEPT !.todo = Tail(@)]
       IN  IF k \in {"put", "take", "close"} /\ prog[p].sock = 0 THEN Becomes(p, next)
           ELSE IF k = "take" THEN Take(p, next)
           ELSE \E n \in IF k = "resolve" THEN Names ELSE {Pool} :
                   Becomes(p, [next EXCEPT !.st = "asking",
                                           !.call = [c |-> k, n |-> n, s |-> Len(prog[p].todo)]])
    /\ UNCHANGED <<q, up, red, told, air, troubles>>

Request(p, c) ==
    CASE c.c = "resolve" -> [t |-> "resolve", p |-> p, n |-> c.n]
      [] c.c = "ping"    -> [t |-> "ping", p |-> p, s |-> c.s]
      [] c.c \in {"open", "bind"} -> [t |-> "open", p |-> p, k |-> prog[p].k, n |-> IF c.c = "bind" THEN 1 ELSE 0]
      [] c.c \in {"put", "close"} -> [t |-> c.c, p |-> p, k |-> prog[p].k, n |-> prog[p].sock]
      [] c.c \in {"time", "info"} -> [t |-> c.c, p |-> p]

Done(s) == [s EXCEPT !.st = "free", !.alarm = FALSE, !.call = NoCall]

\* Then the wait, with an alarm; of udp_enviar() and udp_cerrar() there is none.
Sends(p) ==
    /\ prog[p].st = "asking"
    /\ LET s == prog[p]  k == s.call.c
       IN  \/ /\ Alive("red") /\ ~Full("red")
              /\ q' = [q EXCEPT !["red"] = Append(@, Request(p, s.call))]
              /\ Becomes(p, CASE k = "put"   -> Done(s)
                              [] k = "close" -> [Done(s) EXCEPT !.sock = 0, !.kept = FALSE]
                              [] OTHER       -> [s EXCEPT !.st = "waiting", !.alarm = TRUE])
           \/ /\ ~Alive("red") /\ UNCHANGED q
              /\ Becomes(p, IF k = "close" THEN [Done(s) EXCEPT !.sock = 0, !.kept = FALSE] ELSE Done(s))
    /\ UNCHANGED <<up, red, told, air, troubles>>

Good(k) == CASE k = "resolve" -> "resolved" [] k = "ping" -> "ponged" [] k \in {"open", "bind"} -> "opened"
             [] k = "take" -> "dgram" [] OTHER -> k

\* What ends the wait: an answer of its kind; of a ping, with its number, and of
\* a datagram, for its socket.
Mine(s, m) ==
    /\ m.t = Good(s.call.c)
    /\ m.t = "ponged" => m.s = s.call.s
    /\ m.t = "dgram" => m.n = s.sock

\* red_esperar() and udp_recibir(): one message.  The answer, an error or the
\* alarm end the wait, and the alarm is put out; a datagram is kept; the rest
\* is dropped.  hora.c counts twenty alarms before it gives up.
ProgReceives(p) ==
    /\ prog[p].st = "waiting" /\ q[p] # <<>>
    /\ q' = [q EXCEPT ![p] = Tail(@)]
    /\ LET m == Head(q[p])  s == prog[p]  k == s.call.c
       IN  \/ /\ Mine(s, m)
              /\ Becomes(p, [Done(s) EXCEPT !.sock = IF k \in {"open", "bind"} THEN m.n ELSE @])
           \/ m.t = "error" /\ k # "take" /\ Becomes(p, Done(s))
           \/ m.t = "alarm" /\ Becomes(p, Done(s))
           \/ m.t = "alarm" /\ k = "time" /\ Becomes(p, s)
           \/ m.t = "dgram" /\ ~Mine(s, m) /\ Becomes(p, [s EXCEPT !.kept = @ \/ m.n = s.sock])
           \/ ~Mine(s, m) /\ m.t \notin {"error", "alarm", "dgram"} /\ Becomes(p, s)
           \/ m.t = "error" /\ k = "take" /\ Becomes(p, s)
    /\ UNCHANGED <<up, red, told, air, troubles>>

ProgDies(p) ==
    /\ prog[p].st # "dead" /\ Trouble
    /\ Becomes(p, [Done(prog[p]) EXCEPT !.st = "dead", !.todo = <<>>, !.sock = 0, !.kept = FALSE])
    /\ q' = [q EXCEPT ![p] = <<>>]
    /\ UNCHANGED <<up, red, told, air>>

\* Another program is given the port of one that has died.
ProgStarts(p) ==
    /\ prog[p].st = "dead"
    /\ \E script \in Scripts : Becomes(p, ProgStart(script, prog[p].k + 1))
    /\ UNCHANGED <<q, up, red, told, air, troubles>>

Program(p) ==
    Call(p) \/ Sends(p) \/ ProgReceives(p) \/ ProgDies(p) \/ ProgStarts(p) \/ Ring(p)

Next ==
    \/ RedReceives \/ RedSends \/ RedDies \/ RedStarts
    \/ Announce \/ Arrives \/ UsbDies \/ UsbStarts \/ Second
    \/ \E p \in Progs : Program(p)

Spec == Init /\ [][Next]_vars
-----------------------------------------------------------------------------
(***************************************************************************)
(* What should hold.                                                       *)
(***************************************************************************)

\* The shape of the state; and that an address is only held with a
\* lease, that no two questions have the same number, that none is asked for
\* ever, that one of the places of each kind is never given twice.
TypeOK ==
    /\ \A p \in DOMAIN q : Len(q[p]) <= Room[p]
    /\ up \subseteq Servers /\ told \in BOOLEAN /\ Cardinality(air) <= MaxAir
    /\ red.st \in 0..3 /\ red.hst \in 0..2 /\ red.tries \in 0..Tries /\ red.htries \in 0..Tries
    /\ red.ip => red.st = 3
    /\ Cardinality(red.pend) <= 1 /\ Cardinality(red.ping) <= 1
    /\ Len(red.clients) <= Clients /\ Cardinality(red.socks) <= Slots
    /\ \A i \in 1..Slots : red.dns[i] # Free =>
          /\ red.dns[i].tries \in 1..Tries
          /\ \A j \in 1..Slots \ {i} : red.dns[j].id # red.dns[i].id

\* Somebody sees to those who wait for the time: the question of the time is
\* out, as a name or to the server of time, as long as there are any
\* (contestar_clientes(), hora_fallo(); nobody else empties clientes[]).
ClientsHaveSomebody ==
    /\ red.clients # <<>> => red.hst # 0
    /\ red.hst = 1 => \E i \in 1..Slots : red.dns[i] # Free /\ red.dns[i].who = "hora"
    /\ red.hst = 0 /\ red.ip => red.again

\* The address that a program is told is the one of the name that it comes with,
\* whatever answers are late, lost or repeated, and whatever question has the
\* place of the one that they answer; but for the answers to a server that has
\* died (dns_llego()).
MailIsRight ==
    \A p \in Progs : \A i \in DOMAIN q[p] :
        q[p][i].t = "resolved" => q[p][i].addr.of = q[p][i].name \/ q[p][i].addr.old

\* A datagram in the port of a program, that its socket would take, is for a
\* socket of this program, though the port and the number may have been those of
\* one that died with it open (enchufe_abrir(), enchufe_entregar(), udp_abrir()).
DatagramsAreTheirs ==
    \A p \in Progs : \A i \in DOMAIN q[p] :
        q[p][i].t = "dgram" /\ q[p][i].n = prog[p].sock => q[p][i].k = prog[p].k

\* The same with no exception: the answer is matched by its number, which is all
\* that comes back (red.c:613).  It does not hold: the numbers start again with
\* the server (red.c:522, 697).
AnswersAreOfTheirNames ==
    \A p \in Progs : \A i \in DOMAIN q[p] :
        q[p][i].t = "resolved" => q[p][i].addr.of = q[p][i].name

\* What resolver() takes for its answer is of the name that it has asked for
\* (lib/red.c, resolver(); lib/red.h:25).  It does not hold: the answer to one
\* that was not waited for any longer is taken for that to the next.
ResolverIsOfItsName ==
    [][\A p \in Progs :
         /\ prog[p].st = "waiting" /\ prog[p].call.c = "resolve"
         /\ q[p] # <<>> /\ Head(q[p]).t = "resolved" /\ q'[p] = Tail(q[p])
         => Head(q[p]).name = prog[p].call.n]_vars
=============================================================================
