----------------------------- MODULE NetProofs -----------------------------
(***************************************************************************)
(* Proofs about Net, for any programs and scripts, any names, any sizes of *)
(* the tables and of the ports, and any number of frames on their way: the *)
(* shape of the server, that those who wait for the time always have       *)
(* somebody who sees to them, and that an answer is given to the program   *)
(* for the name that it carries, but for those to a server that has died.  *)
(*                                                                         *)
(* Server(R) is what each handler finds and leaves in the state R of the   *)
(* server.  What it says of names is that every frame there is, wherever   *)
(* it is, is TrueTo the questions that are open: if it carries the number  *)
(* of one it carries its name, or no address, or it is an answer to a      *)
(* server that has died.  The other frames carry numbers that the counter  *)
(* of the server has passed already, and so those that were there when a   *)
(* question gets the next number stay true to it.  Seen(R) is about who    *)
(* waits for the time.                                                     *)
(***************************************************************************)
EXTENDS Net, FiniteSetTheorems, SequenceTheorems, WellFoundedInduction, NaturalsInduction, TLAPS

IsList(s) == \E S : s \in Seq(S)

\* What may be said to the server and by it.
CardFrame(f) ==
    /\ f.t \in {"discover", "request", "arp", "query", "ntp", "echo", "dgram", "itisme", "nowhere"}
    /\ f.t = "query" => f = [t |-> "query", id |-> f.id, name |-> f.name]

AirFrame(f) ==
    /\ f.t \in {"isat", "whois", "offer", "ack", "nak", "answer", "time", "echoed", "unreachable",
                "pinged", "dgram"}
    /\ f.t = "answer" => f = [t |-> "answer", id |-> f.id, addr |-> [of |-> f.addr.of, old |-> f.addr.old]]

RedMail(m) ==
    /\ m.t \in {"card", "frame", "alarm", "time", "resolve", "info", "ping", "open", "put", "close"}
    /\ m.t = "frame" => AirFrame(m.f)
    /\ m.t \in {"time", "resolve", "info", "ping", "open", "put", "close"} => m.p \in Progs

ProgMail(m) == m.t = "resolved" => m.addr.of = m.name \/ m.addr.old

Question(x) ==
    /\ x = [id |-> x.id, who |-> x.who, name |-> x.name, tries |-> x.tries]
    /\ x.id \in Nat \ {0} /\ x.who \in Progs \cup {"hora"} /\ x.tries \in 1..Tries

\* What the frame says of a name is what is asked with its number.
Fits(f, x) ==
    f.t \in {"query", "answer"} /\ x # Free /\ x.id = f.id =>
        IF f.t = "query" THEN f.name = x.name ELSE f.addr.of \in {x.name, "none"} \/ f.addr.old

\* Its number is one that has been given, by a server that is still there.
Counted(f, n) == f.t = "query" \/ (f.t = "answer" /\ ~f.addr.old) => f.id \in 1..n

TrueTo(f, dns, n) == Counted(f, n) /\ \A i \in 1..Slots : Fits(f, dns[i])

Fields(R) ==
    R = [card |-> R.card, st |-> R.st, xid |-> R.xid, tries |-> R.tries, ip |-> R.ip, ntp |-> R.ntp, ns |-> R.ns,
         arp |-> R.arp, pend |-> R.pend, dns |-> R.dns, dnsid |-> R.dnsid,
         hst |-> R.hst, htries |-> R.htries, again |-> R.again, clients |-> R.clients,
         ping |-> R.ping, socks |-> R.socks, efimero |-> R.efimero, sent |-> R.sent, out |-> R.out]

Lease(R) ==
    /\ {R.card, R.ip} \subseteq BOOLEAN
    /\ R.st \in 0..3 /\ R.hst \in 0..2 /\ R.tries \in 0..Tries /\ R.htries \in 0..Tries
    /\ R.ip => R.st = 3

Questions(dns, n) ==
    /\ dns = [i \in 1..Slots |-> dns[i]] /\ n \in Nat
    /\ \A i \in 1..Slots : dns[i] = Free \/ (Question(dns[i]) /\ dns[i].id \in 1..n)
    /\ \A i, j \in 1..Slots : dns[i] # Free /\ dns[j] # Free /\ i # j => dns[i].id # dns[j].id

Users(R) ==
    /\ R.clients \in Seq(Progs) /\ Len(R.clients) <= Clients
    /\ R.ping = {} \/ \E v : R.ping = {v} /\ v.who \in Progs
    /\ IsFiniteSet(R.socks) /\ Cardinality(R.socks) <= Slots /\ \A e \in R.socks : e.p \in Progs

ToProgs(out) ==
    /\ IsList(out)
    /\ \A i \in 1..Len(out) : out[i].to \in Progs /\ ProgMail(out[i].m)

ToCard(R) ==
    /\ R.pend = {} \/ \E w : R.pend = {w} /\ CardFrame(w.f) /\ TrueTo(w.f, R.dns, R.dnsid)
    /\ IsFiniteSet(R.sent) /\ \A f \in R.sent : CardFrame(f) /\ TrueTo(f, R.dns, R.dnsid)

Core(R) == Fields(R) /\ Lease(R) /\ Questions(R.dns, R.dnsid) /\ Users(R) /\ ToProgs(R.out) /\ ToCard(R)

Server(R) ==
    /\ Core(R)
    /\ \A f \in Frames : TrueTo(f, R.dns, R.dnsid)

\* Who sees to those who wait for the time.
Seen(R) ==
    /\ R.clients # <<>> => R.hst # 0
    /\ R.hst = 1 => \E i \in 1..Slots : R.dns[i] # Free /\ R.dns[i].who = "hora"
    /\ R.st = 3 /\ R.hst = 0 => R.again

Same(R, X) ==
    /\ X.st = R.st /\ X.dns = R.dns /\ X.dnsid = R.dnsid /\ X.hst = R.hst /\ X.again = R.again
    /\ X.clients = R.clients /\ X.htries = R.htries
    /\ X.ip => R.ip
-----------------------------------------------------------------------------
\* A list with one more at its end.
LEMMA ListAppend ==
    ASSUME NEW s, IsList(s), NEW m
    PROVE  /\ IsList(Append(s, m)) /\ Len(Append(s, m)) = Len(s) + 1 /\ Len(s) \in Nat
           /\ \A i \in 1..Len(s) : Append(s, m)[i] = s[i]
           /\ Append(s, m)[Len(s) + 1] = m
<1>1. PICK S : s \in Seq(S)
  BY DEF IsList
<1> DEFINE T == S \cup {m}
<1>2. s \in Seq(T) /\ m \in T
  BY <1>1
<1> HIDE DEF T
<1>3. Append(s, m) \in Seq(T)
  BY <1>2
<1> QED BY <1>2, <1>3 DEF IsList

\* A list without its head.
LEMMA ListTail ==
    ASSUME NEW s, IsList(s), s # <<>>
    PROVE  /\ IsList(Tail(s)) /\ Len(Tail(s)) = Len(s) - 1 /\ Len(s) \in Nat \ {0}
           /\ \A i \in 1..Len(s) - 1 : Tail(s)[i] = s[i + 1]
           /\ Head(s) = s[1]
<1>1. PICK S : s \in Seq(S)
  BY DEF IsList
<1> QED BY <1>1 DEF IsList

\* A message to be sent to a program is noted, and nothing else changes.
LEMMA PutKeeps ==
    ASSUME NEW R, Server(R), NEW p \in Progs, NEW m, ProgMail(m)
    PROVE  Server(Put(R, p, m)) /\ Same(R, Put(R, p, m))
<1> DEFINE X == Put(R, p, m)
           o == [to |-> p, m |-> m]
<1>1. Fields(R) /\ ToProgs(R.out)
  BY DEF Server, Core
<1>0. PICK a : a = Append(R.out, o)
  OBVIOUS
<1>5. X = [R EXCEPT !.out = a]
  BY <1>0 DEF Put
<1> HIDE DEF X
<1>2. /\ Fields(X) /\ X.out = Append(R.out, o)
      /\ X.dns = R.dns /\ X.dnsid = R.dnsid /\ X.pend = R.pend /\ X.sent = R.sent
      /\ Same(R, X) /\ (Lease(R) => Lease(X)) /\ (Users(R) => Users(X))
  BY <1>0, <1>1, <1>5 DEF Fields, Same, Lease, Users
<1>3. ToProgs(X.out)
  <2>1. IsList(R.out)
    BY <1>1 DEF ToProgs
  <2>2. /\ IsList(X.out) /\ Len(X.out) = Len(R.out) + 1 /\ Len(R.out) \in Nat
        /\ \A i \in 1..Len(R.out) : X.out[i] = R.out[i]
        /\ X.out[Len(R.out) + 1] = o
    BY <2>1, <1>2, ListAppend
  <2>3. o.to \in Progs /\ ProgMail(o.m)
    BY Zenon
  <2> QED BY <2>2, <2>3, <1>1 DEF ToProgs
<1>4. ToCard(X)
  BY <1>2 DEF Server, Core, ToCard
<1> HIDE DEF X
<1> QED BY <1>2, <1>3, <1>4 DEF Server, Core, X

\* enviar(): the frame is sent, or it is learned that there is no driver.
LEMMA EnviarKeeps ==
    ASSUME NEW R, Server(R), NEW f, CardFrame(f), TrueTo(f, R.dns, R.dnsid)
    PROVE  /\ Server(Enviar(R, f)) /\ Same(R, Enviar(R, f)) /\ Enviar(R, f).pend = R.pend
           /\ Enviar(R, f).out = R.out /\ Enviar(R, f).ping = R.ping
           /\ Enviar(R, f).sent \subseteq R.sent \cup {f}
<1> DEFINE X == Enviar(R, f)
<1>1. Fields(R) /\ Lease(R)
  BY DEF Server, Core
<1>2. /\ Fields(X) /\ X.dns = R.dns /\ X.dnsid = R.dnsid /\ X.out = R.out /\ X.pend = R.pend /\ X.ping = R.ping
      /\ X.sent = R.sent \/ X.sent = R.sent \cup {f}
      /\ Same(R, X) /\ Lease(X) /\ (Users(R) => Users(X))
  BY <1>1 DEF Fields, Enviar, Same, Lease, Users
<1>3. ToCard(X)
  <2>1. IsFiniteSet(X.sent)
    BY <1>2, FS_AddElement DEF Server, Core, ToCard
  <2> HIDE DEF X
  <2> QED BY <1>2, <2>1 DEF Server, Core, ToCard
<1> HIDE DEF X
<1> QED BY <1>2, <1>3 DEF Server, Core, X

\* ip_enviar(): the frame goes, or waits for the answer of the neighbour.
LEMMA IpEnviarKeeps ==
    ASSUME NEW R, Server(R), NEW hop, NEW f, CardFrame(f), TrueTo(f, R.dns, R.dnsid)
    PROVE  /\ Server(IpEnviar(R, hop, f)) /\ Same(R, IpEnviar(R, hop, f))
           /\ IpEnviar(R, hop, f).out = R.out
<1>1. CASE hop \in R.arp
  BY <1>1, EnviarKeeps DEF IpEnviar
<1>2. CASE hop \notin R.arp
  <2> DEFINE P == [R EXCEPT !.pend = {[hop |-> hop, f |-> f]}]
             g == [t |-> "arp", hop |-> hop]
  <2>1. IpEnviar(R, hop, f) = Enviar(P, g)
    BY <1>2 DEF IpEnviar
  <2> HIDE DEF P
  <2>2. Fields(R) /\ P = [R EXCEPT !.pend = {[hop |-> hop, f |-> f]}]
    BY DEF Server, Core, P
  <2>3. /\ Fields(P) /\ P.dns = R.dns /\ P.dnsid = R.dnsid /\ P.out = R.out /\ P.sent = R.sent /\ Same(R, P)
        /\ (Lease(R) => Lease(P)) /\ (Users(R) => Users(P)) /\ P.pend = {[hop |-> hop, f |-> f]}
    BY <2>2 DEF Fields, Same, Lease, Users
  <2>4. ToCard(P)
    BY <2>3 DEF Server, Core, ToCard
  <2>5. Server(P)
    BY <2>3, <2>4 DEF Server, Core
  <2>6. CardFrame(g) /\ TrueTo(g, P.dns, P.dnsid)
    BY DEF CardFrame, TrueTo, Counted, Fits
  <2> HIDE DEF g
  <2>7. Server(Enviar(P, g)) /\ Same(P, Enviar(P, g)) /\ Enviar(P, g).out = P.out
    BY <2>5, <2>6, EnviarKeeps
  <2> QED BY <2>1, <2>3, <2>7 DEF Same
<1> QED BY <1>1, <1>2

\* A change of the lease, of the time or of the users only.
LEMMA ChangeKeeps ==
    ASSUME NEW R, Server(R), NEW X, Fields(X), Lease(X), Users(X), X.dns = R.dns /\ X.dnsid = R.dnsid, X.out = R.out,
           X.pend = R.pend, X.sent = R.sent
    PROVE  Server(X)
BY DEF Server, Core, ToCard

\* What the server being right gives at once.
LEMMA ServerHas ==
    ASSUME NEW R, Server(R)
    PROVE  Fields(R) /\ Lease(R) /\ Users(R) /\ Questions(R.dns, R.dnsid)
BY DEF Server, Core

\* The constants, and that the servers are not programs.
LEMMA ConstantsAre ==
    /\ Slots \in Nat \ {0} /\ Clients \in Nat \ {0} /\ Tries \in Nat \ {0} /\ MaxAir \in Nat
    /\ "hora" \notin Progs /\ "red" \notin Progs /\ "usb" \notin Progs
BY NetAssumption

\* contestar_clientes(): all of those who wait are told, and nobody waits.
LEMMA ContestarKeeps ==
    ASSUME NEW R, Server(R), NEW m, m.t \in {"error", "time"}
    PROVE  LET X == Contestar(R, m)
           IN  /\ Server(X) /\ X.clients = <<>>
               /\ X.st = R.st /\ X.dns = R.dns /\ X.dnsid = R.dnsid /\ X.hst = R.hst /\ X.again = R.again /\ X.ip = R.ip
<1> DEFINE X == Contestar(R, m)
           more == [i \in DOMAIN R.clients |-> [to |-> R.clients[i], m |-> m]]
<1>1. Fields(R) /\ R.clients \in Seq(Progs) /\ ToProgs(R.out)
  BY DEF Server, Core, Users
<1> HIDE DEF X, more
<1>0. X = [R EXCEPT !.out = @ \o more, !.clients = <<>>]
  BY DEF X, more, Contestar
<1>2. /\ Fields(X) /\ X.out = R.out \o more /\ X.clients = <<>> /\ X.ping = R.ping /\ X.socks = R.socks
      /\ X.st = R.st /\ X.dns = R.dns /\ X.dnsid = R.dnsid /\ X.hst = R.hst /\ X.again = R.again /\ X.ip = R.ip
      /\ X.pend = R.pend /\ X.sent = R.sent
      /\ (Lease(R) => Lease(X))
  BY <1>0, <1>1 DEF Fields, Lease
<1>3. Users(R) => Users(X)
  BY <1>2, ConstantsAre DEF Users
<1>4. ToProgs(X.out)
  <2>1. PICK S : R.out \in Seq(S)
    BY <1>1 DEF ToProgs, IsList
  <2> DEFINE T == S \cup [to : Progs, m : {m}]
  <2>2. R.out \in Seq(T)
    BY <2>1
  <2>3. more \in Seq(T) /\ Len(more) = Len(R.clients)
        /\ \A i \in 1..Len(more) : more[i].to \in Progs /\ more[i].m = m
    BY <1>1 DEF more, T
  <2> HIDE DEF T
  <2>4. /\ R.out \o more \in Seq(T) /\ Len(R.out \o more) = Len(R.out) + Len(more)
        /\ \A i \in 1..Len(R.out) + Len(more) :
              (R.out \o more)[i] = IF i <= Len(R.out) THEN R.out[i] ELSE more[i - Len(R.out)]
    <3>1. R.out \in Seq(T) /\ more \in Seq(T)
      BY <2>2, <2>3
    <3> QED BY <3>1, ConcatProperties, Zenon
  <2>5. ProgMail(m)
    BY DEF ProgMail
  <2>6. Len(R.out) \in Nat /\ Len(more) \in Nat
    BY <2>2, <2>3
  <2>7. ASSUME NEW i \in 1..Len(R.out \o more)
        PROVE  (R.out \o more)[i].to \in Progs /\ ProgMail((R.out \o more)[i].m)
    <3>1. CASE i <= Len(R.out)
      <4>1. i \in 1..Len(R.out) /\ (R.out \o more)[i] = R.out[i]
        BY <3>1, <2>4, <2>6
      <4>2. R.out[i].to \in Progs /\ ProgMail(R.out[i].m)
        BY <4>1, <1>1 DEF ToProgs
      <4> QED BY <4>1, <4>2
    <3>2. CASE ~(i <= Len(R.out))
      <4>1. (R.out \o more)[i] = more[i - Len(R.out)] /\ i - Len(R.out) \in 1..Len(more)
        BY <3>2, <2>4, <2>6
      <4> QED BY <4>1, <2>3, <2>5, Zenon
    <3> QED BY <3>1, <3>2
  <2> QED BY <2>4, <2>7, <1>2 DEF ToProgs, IsList
<1>5. Server(X)
  BY <1>2, <1>3, <1>4 DEF Server, Core, ToCard
<1> QED BY <1>2, <1>5 DEF X

\* What is written down of the time.
Timed(R, h, n, a) == [R EXCEPT !.hst = h, !.htries = n, !.again = a]

\* The state of the time changes and nothing else does.
LEMMA TimeKeeps ==
    ASSUME NEW R, Server(R), NEW h \in 0..2, NEW n \in 0..Tries, NEW a,
           NEW X, X = Timed(R, h, n, a)
    PROVE  /\ Server(X) /\ X.hst = h /\ X.htries = n /\ X.again = a /\ X.st = R.st /\ X.dns = R.dns /\ X.dnsid = R.dnsid
           /\ X.ip = R.ip /\ X.clients = R.clients /\ X.ntp = R.ntp /\ X.sent = R.sent /\ X.pend = R.pend
           /\ X.out = R.out
<1>1. Fields(R) /\ Lease(R) /\ Users(R)
  BY ServerHas
<1>2. /\ Fields(X) /\ X.dns = R.dns /\ X.dnsid = R.dnsid /\ X.out = R.out /\ X.pend = R.pend /\ X.sent = R.sent
      /\ X.hst = h /\ X.htries = n /\ X.again = a /\ X.st = R.st /\ X.ip = R.ip /\ X.card = R.card
      /\ X.tries = R.tries /\ X.clients = R.clients /\ X.ping = R.ping /\ X.socks = R.socks /\ X.ntp = R.ntp
  BY <1>1 DEF Fields, Timed
<1>3. Lease(X)
  BY <1>1, <1>2 DEF Lease
<1>4. Users(X)
  BY <1>1, <1>2 DEF Users
<1> QED BY <1>2, <1>3, <1>4, ChangeKeeps

\* hora_fallo(): those who wait are told, and it starts again later.
LEMMA HoraFalloKeeps ==
    ASSUME NEW R, Server(R)
    PROVE  LET X == HoraFallo(R)
           IN  Server(X) /\ Seen(X) /\ X.st = R.st /\ X.dns = R.dns /\ X.dnsid = R.dnsid /\ X.ip = R.ip
<1> DEFINE C == Contestar(R, [t |-> "error"])
           X == HoraFallo(R)
<1>1. Server(C) /\ C.clients = <<>> /\ C.st = R.st /\ C.dns = R.dns /\ C.dnsid = R.dnsid /\ C.ip = R.ip
  BY ContestarKeeps
<1>2. X = Timed(C, 0, 0, TRUE)
  BY DEF HoraFallo, Timed
<1> HIDE DEF C, X
<1>3. /\ Server(X) /\ X.hst = 0 /\ X.again = TRUE /\ X.st = C.st /\ X.dns = C.dns /\ X.dnsid = C.dnsid /\ X.ip = C.ip
      /\ X.clients = C.clients
  <2>1. 0 \in 0..2 /\ 0 \in 0..Tries
    BY ConstantsAre
  <2>2. PICK a : a = TRUE
    OBVIOUS
  <2>3. X = Timed(C, 0, 0, a)
    BY <1>2, <2>2
  <2>4. /\ Server(X) /\ X.hst = 0 /\ X.again = a /\ X.st = C.st /\ X.dns = C.dns /\ X.dnsid = C.dnsid /\ X.ip = C.ip
        /\ X.clients = C.clients
    BY <2>1, <2>3, <1>1, TimeKeeps
  <2> QED BY <2>2, <2>4
<1> QED BY <1>1, <1>3 DEF Seen, X

\* ntp_pedir(): the question to the server of time.
LEMMA NtpPedirKeeps ==
    ASSUME NEW R, Server(R)
    PROVE  Server(NtpPedir(R)) /\ Same(R, NtpPedir(R)) /\ NtpPedir(R).out = R.out
<1>1. CardFrame([t |-> "ntp"]) /\ TrueTo([t |-> "ntp"], R.dns, R.dnsid)
  BY DEF CardFrame, TrueTo, Counted, Fits
<1> QED BY <1>1, IpEnviarKeeps DEF NtpPedir

\* hora_resuelto(): the name of the server of time has its address, or fails.
LEMMA HoraResueltoKeeps ==
    ASSUME NEW R, Server(R), R.hst # 1 => Seen(R)
    PROVE  LET X == HoraResuelto(R)
           IN  Server(X) /\ Seen(X) /\ X.st = R.st /\ X.dns = R.dns /\ X.dnsid = R.dnsid /\ (X.ip => R.ip)
<1>1. CASE R.hst = 1
  <2> DEFINE H == [R EXCEPT !.hst = 2, !.htries = 0]
  <2>1. HoraResuelto(R) = NtpPedir(H)
    BY <1>1 DEF HoraResuelto
  <2>2. Fields(R)
    BY DEF Server, Core
  <2> HIDE DEF H
  <2>3. H = Timed(R, 2, 0, R.again)
    BY <2>2 DEF H, Fields, Timed
  <2>4. Server(H) /\ H.hst = 2 /\ H.st = R.st /\ H.dns = R.dns /\ H.dnsid = R.dnsid /\ H.ip = R.ip
    BY <2>2, <2>3, ConstantsAre, TimeKeeps
  <2>5. Server(NtpPedir(H)) /\ Same(H, NtpPedir(H))
    BY <2>4, NtpPedirKeeps
  <2> QED BY <2>1, <2>4, <2>5 DEF Same, Seen
<1>2. CASE R.hst # 1
  BY <1>2 DEF HoraResuelto
<1> QED BY <1>1, <1>2

\* ntp_llego(): the time comes, well or badly.
LEMMA NtpLlegoKeeps ==
    ASSUME NEW R, Server(R), Seen(R), NEW good
    PROVE  LET X == NtpLlego(R, good) IN Server(X) /\ Seen(X)
<1>1. CASE R.hst # 2
  BY <1>1 DEF NtpLlego
<1>2. CASE R.hst = 2 /\ ~good
  BY <1>2, HoraFalloKeeps DEF NtpLlego
<1>3. CASE R.hst = 2 /\ good
  <2> DEFINE C == Contestar(R, [t |-> "time"])
             X == Timed(C, 0, 0, TRUE)
  <2>1. Server(C) /\ C.clients = <<>>
    BY ContestarKeeps
  <2>2. X = NtpLlego(R, good)
    BY <1>3 DEF NtpLlego, Timed
  <2> HIDE DEF C
  <2>3. Server(X) /\ X.hst = 0 /\ X.again = TRUE /\ X.clients = C.clients
    <3>1. 0 \in 0..2 /\ 0 \in 0..Tries
      BY ConstantsAre
    <3>2. PICK a : a = TRUE
      OBVIOUS
    <3>3. X = Timed(C, 0, 0, a)
      BY <3>2
    <3> HIDE DEF X
    <3>4. Server(X) /\ X.hst = 0 /\ X.again = a /\ X.clients = C.clients
      BY <3>1, <3>3, <2>1, TimeKeeps
    <3> QED BY <3>2, <3>4
  <2> HIDE DEF X
  <2> QED BY <2>1, <2>2, <2>3 DEF Seen
<1> QED BY <1>1, <1>2, <1>3
-----------------------------------------------------------------------------
(* The least of a set of numbers, and induction with sets for predicates.    *)

LEMMA LeastIs ==
    ASSUME NEW T, T \subseteq Nat, T # {}
    PROVE  \E m \in T : \A k \in T : m <= k
<1>1. \E x \in T : \A y \in T : ~(<<y, x>> \in OpToRel(<, Nat))
  BY WFMin, NatLessThanWellFounded
<1>2. PICK x \in T : \A y \in T : ~(<<y, x>> \in OpToRel(<, Nat))
  BY <1>1
<1>3. \A y \in T : ~(y < x)
  <2>1. SUFFICES ASSUME NEW y \in T, y < x PROVE FALSE
    OBVIOUS
  <2>2. <<y, x>> \in OpToRel(<, Nat)
    BY <2>1, Zenon DEF OpToRel
  <2> QED BY <2>2, <1>2
<1>4. \A y \in T : x \in Nat /\ y \in Nat
  OBVIOUS
<1> QED BY <1>3, <1>4

\* Induction on the naturals, as a property of a set.
LEMMA SetInduction ==
    ASSUME NEW A, 0 \in A, \A n \in Nat : n \in A => n + 1 \in A
    PROVE  Nat \subseteq A
<1>1. SUFFICES ASSUME Nat \ A # {} PROVE FALSE
  OBVIOUS
<1>2. PICK m \in Nat \ A : \A k \in Nat \ A : m <= k
  <2> DEFINE T == Nat \ A
  <2>1. T \subseteq Nat /\ T # {}
    BY <1>1
  <2> HIDE DEF T
  <2>2. \E m \in T : \A k \in T : m <= k
    BY <2>1, LeastIs
  <2> QED BY <2>2 DEF T
<1>3. m # 0 /\ m - 1 \in Nat /\ m - 1 \in A
  BY <1>2
<1> QED BY <1>2, <1>3

\* A function with one value changed, place by place.
LEMMA ExceptIs ==
    ASSUME NEW S, NEW d, d = [j \in S |-> d[j]], NEW i \in S, NEW v, NEW e, e = [d EXCEPT ![i] = v]
    PROVE  /\ \A j \in S : e[j] = IF j = i THEN v ELSE d[j]
           /\ e = [j \in S |-> e[j]]
<1>1. DOMAIN d = S
  OBVIOUS
<1>2. DOMAIN e = S /\ e = [j \in S |-> IF j = i THEN v ELSE d[j]]
  BY <1>1
<1> QED BY <1>2

\* A question more, less, or asked once more.
Asks(R, i, v) == [R EXCEPT !.dns[i] = v]

\* A place of the table of names is freed, or takes a question that is new.
LEMMA QuestionKeeps ==
    ASSUME NEW R, Server(R), NEW i \in 1..Slots, NEW v, NEW X, X = Asks(R, i, v),
           \/ v = Free
           \/ Question(v) /\ v.id \in 1..R.dnsid /\ \A j \in 1..Slots : j # i /\ R.dns[j] # Free => R.dns[j].id # v.id,
           \A f \in Frames : Fits(f, v), \A f \in R.sent : Fits(f, v), \A w \in R.pend : Fits(w.f, v)
    PROVE  /\ Server(X) /\ X.st = R.st /\ X.hst = R.hst /\ X.again = R.again /\ X.clients = R.clients
           /\ X.ip = R.ip /\ X.htries = R.htries
           /\ X.dns = [R.dns EXCEPT ![i] = v] /\ X.dnsid = R.dnsid /\ X.ns = R.ns /\ X.pend = R.pend /\ X.sent = R.sent
<1>1. Fields(R) /\ Lease(R) /\ Users(R) /\ Questions(R.dns, R.dnsid)
  BY ServerHas
<1>2. /\ Fields(X) /\ X.dnsid = R.dnsid /\ X.ns = R.ns /\ X.dns = [R.dns EXCEPT ![i] = v] /\ X.out = R.out /\ X.pend = R.pend /\ X.sent = R.sent
      /\ X.hst = R.hst /\ X.htries = R.htries /\ X.again = R.again /\ X.st = R.st /\ X.ip = R.ip
      /\ X.card = R.card /\ X.tries = R.tries /\ X.clients = R.clients /\ X.ping = R.ping /\ X.socks = R.socks
  BY <1>1 DEF Fields, Asks
<1>3. Lease(X) /\ Users(X)
  BY <1>1, <1>2 DEF Lease, Users
<1>4. /\ \A j \in 1..Slots : X.dns[j] = IF j = i THEN v ELSE R.dns[j]
      /\ X.dns = [j \in 1..Slots |-> X.dns[j]]
  <2>1. R.dns = [j \in 1..Slots |-> R.dns[j]]
    BY <1>1 DEF Questions
  <2> QED BY <1>2, <2>1, ExceptIs
<1>5. Questions(X.dns, X.dnsid)
  <2>1. ASSUME NEW j \in 1..Slots
        PROVE  X.dns[j] = Free \/ (Question(X.dns[j]) /\ X.dns[j].id \in 1..R.dnsid)
    BY <1>1, <1>4 DEF Questions
  <2>2. ASSUME NEW j \in 1..Slots, NEW k \in 1..Slots, X.dns[j] # Free, X.dns[k] # Free, j # k
        PROVE  X.dns[j].id # X.dns[k].id
    BY <1>1, <1>4, <2>2 DEF Questions
  <2> QED BY <1>1, <1>2, <1>4, <2>1, <2>2 DEF Questions
<1>6. \A f : TrueTo(f, R.dns, R.dnsid) /\ Fits(f, v) => TrueTo(f, X.dns, X.dnsid)
  BY <1>2, <1>4 DEF TrueTo
<1>7. ToCard(X)
  BY <1>2, <1>6 DEF Server, Core, ToCard
<1> QED BY <1>2, <1>3, <1>5, <1>6, <1>7 DEF Server, Core

\* error_a(): one program is told that it failed.
LEMMA ErrorAKeeps ==
    ASSUME NEW R, Server(R), NEW p \in Progs
    PROVE  Server(ErrorA(R, p)) /\ Same(R, ErrorA(R, p))
<1>1. ProgMail([t |-> "error"])
  BY DEF ProgMail
<1> QED BY <1>1, PutKeeps DEF ErrorA

\* The waits for the time depend on their fields alone.
LEMMA SeenSame ==
    ASSUME NEW R, NEW X, Seen(R), Same(R, X)
    PROVE  Seen(X)
BY DEF Seen, Same

\* dns_contestar(): the question is over, and who asked is told.
LEMMA DnsContestarKeeps ==
    ASSUME NEW R, Server(R), Seen(R), NEW i \in 1..Slots, R.dns[i] # Free,
           NEW addr, addr.of \in {R.dns[i].name, "none"} \/ addr.old
    PROVE  LET X == DnsContestar(R, i, addr) IN Server(X) /\ Seen(X)
<1> DEFINE E == [R EXCEPT !.dns[i] = Free]
           who == R.dns[i].who
<1>1. Question(R.dns[i]) /\ R.dns = [j \in 1..Slots |-> R.dns[j]]
  BY DEF Server, Core, Questions
<1>2. DnsContestar(R, i, addr) = DnsSay(E, who, R.dns[i].name, addr)
  BY DEF DnsContestar
<1>3. /\ Server(E) /\ E.st = R.st /\ E.hst = R.hst /\ E.again = R.again /\ E.clients = R.clients
      /\ E.ip = R.ip /\ E.dns = [R.dns EXCEPT ![i] = Free]
  <2> HIDE DEF E
  <2>1. E = Asks(R, i, Free) /\ \A f : Fits(f, Free)
    BY DEF E, Fits, Asks
  <2> QED BY <2>1, QuestionKeeps
<1>4. CASE who # "hora"
  <2>1. who \in Progs
    BY <1>1, <1>4 DEF Question
  <2>2. Seen(E)
    <3> HIDE DEF E
    <3>1. \A j \in 1..Slots : R.dns[j].who = "hora" => E.dns[j] = R.dns[j]
      BY <1>1, <1>3, <1>4
    <3> QED BY <1>3, <3>1 DEF Seen
  <2> HIDE DEF E
  <2>3. CASE addr.of # "none"
    <3> DEFINE m == [t |-> "resolved", name |-> R.dns[i].name, addr |-> addr]
    <3>1. ProgMail(m) /\ DnsSay(E, who, R.dns[i].name, addr) = Put(E, who, m)
      BY <1>4, <2>3 DEF ProgMail, DnsSay
    <3> HIDE DEF m, who
    <3> QED BY <3>1, <2>1, <2>2, <1>2, <1>3, PutKeeps, SeenSame
  <2>4. CASE addr.of = "none"
    BY <2>4, <2>1, <2>2, <1>2, <1>3, <1>4, ErrorAKeeps, SeenSame DEF DnsSay
  <2> QED BY <2>3, <2>4
<1>5. CASE who = "hora"
  <2> HIDE DEF E
  <2>1. CASE addr.of # "none"
    <3>1. E.hst # 1 => Seen(E)
      BY <1>3 DEF Seen
    <3> QED BY <1>2, <1>3, <1>5, <2>1, <3>1, HoraResueltoKeeps DEF DnsSay
  <2>2. CASE addr.of = "none"
    BY <1>2, <1>3, <1>5, <2>2, HoraFalloKeeps DEF DnsSay
  <2> QED BY <2>1, <2>2
<1> QED BY <1>4, <1>5
-----------------------------------------------------------------------------
(* Names, and the time.                                                     *)

LEMMA DnsMandarKeeps ==
    ASSUME NEW R, Server(R), NEW i \in 1..Slots, R.dns[i] # Free, ~(R.dns[i].tries >= Tries)
    PROVE  LET X == DnsMandar(R, i)
           IN  /\ Server(X) /\ X.st = R.st /\ (X.ip => R.ip)
               /\ Seen(R) => Seen(X)
<1> DEFINE x == R.dns[i]
           v == [x EXCEPT !.tries = @ + 1]
           E == [R EXCEPT !.dns[i].tries = @ + 1]
           ask == [t |-> "query", id |-> x.id, name |-> x.name]
           f == IF R.ns THEN ask ELSE [t |-> "nowhere"]
<1>1. Questions(R.dns, R.dnsid) /\ Question(x) /\ x.id \in 1..R.dnsid
  BY DEF Server, Core, Questions
<1>2. Question(v) /\ v.id = x.id /\ v.name = x.name /\ v.who = x.who /\ v # Free
  BY <1>1, ConstantsAre DEF Question, Free
<1>3. \A g : Fits(g, x) => Fits(g, v)
  <2> HIDE DEF v, x
  <2> QED BY <1>2 DEF Fits, x
<1>4. /\ \A g \in Frames : Fits(g, v)
      /\ \A g \in R.sent : Fits(g, v)
      /\ \A w \in R.pend : Fits(w.f, v)
  <2>1. \A g : TrueTo(g, R.dns, R.dnsid) => Fits(g, x)
    BY DEF TrueTo
  <2> HIDE DEF v, x
  <2> QED BY <1>3, <2>1 DEF Server, Core, ToCard
<1>5. \A j \in 1..Slots : j # i /\ R.dns[j] # Free => R.dns[j].id # v.id
  <2> HIDE DEF v
  <2> QED BY <1>1, <1>2 DEF Questions
<1>6. E = Asks(R, i, v)
  BY DEF Asks
<1>7. DnsMandar(R, i) = IpEnviar(E, "router", f)
  <2>1. Fields(R) /\ R.dns = [j \in 1..Slots |-> R.dns[j]]
    BY <1>1 DEF Server, Core, Questions
  <2> HIDE DEF E
  <2>2. E.dns = [R.dns EXCEPT ![i] = v]
    BY <1>6, <2>1 DEF Fields, Asks
  <2> HIDE DEF v
  <2>3. E.dns[i] = v
    BY <2>1, <2>2, ExceptIs
  <2> QED BY <1>2, <2>3 DEF DnsMandar, E
<1> HIDE DEF E, v
<1>8. /\ Server(E) /\ E.st = R.st /\ E.hst = R.hst /\ E.again = R.again /\ E.clients = R.clients
      /\ E.ip = R.ip /\ E.dns = [R.dns EXCEPT ![i] = v] /\ E.dnsid = R.dnsid
  BY <1>1, <1>2, <1>4, <1>5, <1>6, QuestionKeeps
<1>9. \A j \in 1..Slots : E.dns[j] = IF j = i THEN v ELSE R.dns[j]
  <2>1. R.dns = [j \in 1..Slots |-> R.dns[j]]
    BY <1>1 DEF Questions
  <2> QED BY <1>8, <2>1, ExceptIs
<1>10. CardFrame(f) /\ TrueTo(f, E.dns, E.dnsid)
  <2>1. CardFrame(ask) /\ TrueTo(ask, E.dns, E.dnsid)
    BY <1>1, <1>2, <1>5, <1>8, <1>9 DEF CardFrame, TrueTo, Counted, Fits
  <2>2. CardFrame([t |-> "nowhere"]) /\ TrueTo([t |-> "nowhere"], E.dns, E.dnsid)
    BY DEF CardFrame, TrueTo, Counted, Fits
  <2> HIDE DEF ask
  <2> QED BY <2>1, <2>2
<1>11. Server(IpEnviar(E, "router", f)) /\ Same(E, IpEnviar(E, "router", f))
  <2> HIDE DEF f
  <2> QED BY <1>8, <1>10, IpEnviarKeeps
<1>12. Seen(R) => Seen(E)
  BY <1>2, <1>8, <1>9 DEF Seen
<1> QED BY <1>7, <1>8, <1>11, <1>12, SeenSame DEF Same

\* The counter goes on: what is known is true of the next number, too.
LEMMA CountKeeps ==
    ASSUME NEW R, Server(R), NEW X, X = [R EXCEPT !.dnsid = @ + 1]
    PROVE  /\ Server(X) /\ X.dnsid = R.dnsid + 1 /\ R.dnsid \in Nat /\ X.dns = R.dns
           /\ X.st = R.st /\ X.hst = R.hst /\ X.again = R.again /\ X.clients = R.clients /\ X.ip = R.ip
           /\ X.pend = R.pend /\ X.sent = R.sent
           /\ Seen(R) => Seen(X)
<1>1. Fields(R) /\ Lease(R) /\ Users(R) /\ Questions(R.dns, R.dnsid) /\ ToProgs(R.out) /\ ToCard(R)
  BY DEF Server, Core
<1>2. PICK n : n = R.dnsid + 1
  OBVIOUS
<1>3. X = [R EXCEPT !.dnsid = n]
  BY <1>2
<1>4. /\ Fields(X) /\ X.dnsid = n /\ X.dns = R.dns /\ X.out = R.out /\ X.pend = R.pend /\ X.sent = R.sent
      /\ X.hst = R.hst /\ X.htries = R.htries /\ X.again = R.again /\ X.st = R.st /\ X.ip = R.ip
      /\ X.card = R.card /\ X.tries = R.tries /\ X.clients = R.clients /\ X.ping = R.ping /\ X.socks = R.socks
  BY <1>1, <1>3 DEF Fields
<1>5. Lease(X) /\ Users(X)
  BY <1>1, <1>4 DEF Lease, Users
<1>6. R.dnsid \in Nat /\ n \in Nat /\ 1..R.dnsid \subseteq 1..n
  BY <1>1, <1>2 DEF Questions
<1>7. Questions(X.dns, n)
  BY <1>1, <1>4, <1>6 DEF Questions
<1>8. \A f : TrueTo(f, R.dns, R.dnsid) => TrueTo(f, X.dns, n)
  BY <1>4, <1>6 DEF TrueTo, Counted
<1>9. ToCard(X)
  BY <1>1, <1>4, <1>8 DEF ToCard
<1>10. Server(X)
  BY <1>1, <1>4, <1>5, <1>7, <1>8, <1>9 DEF Server, Core
<1>11. Seen(R) => Seen(X)
  BY <1>4 DEF Seen
<1> QED BY <1>2, <1>4, <1>6, <1>10, <1>11

\* What is told at once, to a program or to the time.
LEMMA DnsSayKeeps ==
    ASSUME NEW R, Server(R), NEW who \in Progs \cup {"hora"}, NEW name,
           who = "hora" => R.hst = 1, who # "hora" => Seen(R),
           NEW addr, addr.of \in {name, "none"}
    PROVE  LET X == DnsSay(R, who, name, addr) IN Server(X) /\ Seen(X) /\ X.st = R.st
<1>1. CASE who = "hora" /\ addr.of # "none"
  BY <1>1, HoraResueltoKeeps DEF DnsSay
<1>2. CASE who = "hora" /\ addr.of = "none"
  BY <1>2, HoraFalloKeeps DEF DnsSay
<1>3. CASE who # "hora" /\ addr.of # "none"
  <2> DEFINE m == [t |-> "resolved", name |-> name, addr |-> addr]
  <2>1. ProgMail(m) /\ DnsSay(R, who, name, addr) = Put(R, who, m)
    BY <1>3 DEF ProgMail, DnsSay
  <2> HIDE DEF m
  <2> QED BY <1>3, <2>1, PutKeeps, SeenSame DEF Same
<1>4. CASE who # "hora" /\ addr.of = "none"
  <2>1. DnsSay(R, who, name, addr) = ErrorA(R, who)
    BY <1>4 DEF DnsSay
  <2> QED BY <1>4, <2>1, ErrorAKeeps, SeenSame DEF Same
<1> QED BY <1>1, <1>2, <1>3, <1>4

\* dns_consultar(): a name is asked with a number of its own, or there is no place.
LEMMA DnsConsultarKeeps ==
    ASSUME NEW R, Server(R), NEW who \in Progs \cup {"hora"}, NEW name,
           who = "hora" => R.hst = 1, who # "hora" => Seen(R)
    PROVE  LET X == DnsConsultar(R, who, name) IN Server(X) /\ Seen(X) /\ X.st = R.st
<1> DEFINE free == {i \in 1..Slots : R.dns[i] = Free}
           i == CHOOSE k \in free : \A j \in free : k <= j
           C == [R EXCEPT !.dnsid = @ + 1]
           id == C.dnsid
           v == [id |-> id, who |-> who, name |-> name, tries |-> 0]
           u == [id |-> id, who |-> who, name |-> name, tries |-> 1]
           E == [C EXCEPT !.dns[i] = v]
           F == [C EXCEPT !.dns[i] = u]
           ask == [t |-> "query", id |-> id, name |-> name]
           f == IF C.ns THEN ask ELSE [t |-> "nowhere"]
<1>0. /\ Server(C) /\ id = R.dnsid + 1 /\ R.dnsid \in Nat /\ C.dns = R.dns
      /\ C.st = R.st /\ C.hst = R.hst /\ C.again = R.again /\ C.clients = R.clients /\ C.ip = R.ip
      /\ C.pend = R.pend /\ C.sent = R.sent
      /\ Seen(R) => Seen(C)
  <2> HIDE DEF C
  <2>1. C = [R EXCEPT !.dnsid = @ + 1]
    BY DEF C
  <2> QED BY <2>1, CountKeeps
<1>1. CASE name \in Numeric
  <2>1. DnsConsultar(R, who, name) = DnsSay(C, who, name, Address(name))
    BY <1>1 DEF DnsConsultar
  <2> HIDE DEF C
  <2>2. Address(name).of = name
    BY DEF Address
  <2> QED BY <2>1, <2>2, <1>0, DnsSayKeeps
<1>2. CASE name \notin Numeric /\ (free = {} \/ ~R.ns \/ ~R.ip)
  <2>1. DnsConsultar(R, who, name) = DnsSay(C, who, name, Nothing)
    BY <1>2 DEF DnsConsultar
  <2> HIDE DEF C
  <2>2. Nothing.of = "none"
    BY DEF Nothing, Address
  <2> QED BY <2>1, <2>2, <1>0, DnsSayKeeps
<1>3. CASE ~(name \in Numeric) /\ ~(free = {} \/ ~R.ns \/ ~R.ip)
  <2>1. DnsConsultar(R, who, name) = DnsMandar(E, i)
    BY <1>3 DEF DnsConsultar
  <2>2. i \in 1..Slots /\ R.dns[i] = Free
    <3>1. free \subseteq Nat /\ free # {}
      BY <1>3
    <3>2. \E k \in free : \A j \in free : k <= j
      <4> HIDE DEF free
      <4> QED BY <3>1, LeastIs
    <3>3. i \in free
      <4> HIDE DEF free
      <4> QED BY <3>2
    <3> HIDE DEF i
    <3> QED BY <3>3
  <2> HIDE DEF i, free
  <2>3. Fields(C) /\ C.dns = [j \in 1..Slots |-> C.dns[j]] /\ C.dns[i] = Free
    <3> HIDE DEF C
    <3> QED BY <1>0, <2>2 DEF Server, Core, Questions
  <2> HIDE DEF C
  <2>4. Question(u) /\ u # Free /\ u.id = id /\ u.who = who /\ u.name = name /\ id \in 1..id
    <3>1. PICK n \in Nat \ {0} : n = id
      BY <1>0
    <3>2. u = [id |-> n, who |-> who, name |-> name, tries |-> 1]
      BY <3>1
    <3> HIDE DEF u
    <3>3. Question(u) /\ u # Free /\ u.id = n /\ u.who = who /\ u.name = name /\ n \in 1..n
      BY <3>2, ConstantsAre DEF Question, Free
    <3> QED BY <3>1, <3>3
  <2>5. ASSUME NEW h, TrueTo(h, R.dns, R.dnsid) PROVE Fits(h, u)
    <3> HIDE DEF u
    <3>1. h.t = "query" \/ (h.t = "answer" /\ ~h.addr.old) => h.id # u.id
      BY <1>0, <2>4, <2>5 DEF TrueTo, Counted
    <3> QED BY <3>1 DEF Fits
  <2>6. /\ \A h \in Frames : Fits(h, u)
        /\ \A h \in C.sent : Fits(h, u)
        /\ \A w \in C.pend : Fits(w.f, u)
    <3> HIDE DEF u
    <3> QED BY <1>0, <2>5 DEF Server, Core, ToCard
  <2>7. \A j \in 1..Slots : j # i /\ C.dns[j] # Free => C.dns[j].id # u.id
    <3> HIDE DEF u
    <3>1. Questions(R.dns, R.dnsid)
      BY DEF Server, Core
    <3> QED BY <1>0, <2>4, <3>1 DEF Questions
  <2> HIDE DEF F
  <2>8. F = Asks(C, i, u)
    BY DEF Asks, F
  <2>9. /\ Server(F) /\ F.st = C.st /\ F.hst = C.hst /\ F.again = C.again /\ F.clients = C.clients
        /\ F.ip = C.ip /\ F.dns = [C.dns EXCEPT ![i] = u] /\ F.dnsid = id /\ F.ns = C.ns
    <3> HIDE DEF u
    <3>1. Question(u) /\ u.id \in 1..C.dnsid
      BY <2>4
    <3> QED BY <1>0, <2>2, <2>6, <2>7, <2>8, <3>1, QuestionKeeps, SMTT(30)
  <2>10. DnsMandar(E, i) = IpEnviar(F, "router", f)
    <3> HIDE DEF E, v
    <3>1. E = [C EXCEPT !.dns[i] = v]
      BY DEF E
    <3>2. Fields(E) /\ E.dns = [C.dns EXCEPT ![i] = v] /\ E.ns = C.ns
      BY <3>1, <2>3 DEF Fields
    <3>3. E.dns[i] = v
      BY <2>2, <2>3, <3>2, ExceptIs
    <3>4. [E EXCEPT !.dns[i].tries = @ + 1] = F
      <4>1. [E EXCEPT !.dns[i].tries = @ + 1] = [E EXCEPT !.dns = [E.dns EXCEPT ![i] = [v EXCEPT !.tries = @ + 1]]]
        BY <3>3
      <4>2. [v EXCEPT !.tries = @ + 1] = u
        BY DEF v
      <4> HIDE DEF u
      <4>3. [E.dns EXCEPT ![i] = u] = [C.dns EXCEPT ![i] = u]
        BY <2>2, <2>3, <3>2
      <4>4. [E EXCEPT !.dns = [C.dns EXCEPT ![i] = u]] = F
        BY <3>1, <2>3 DEF F, Fields
      <4> QED BY <4>1, <4>2, <4>3, <4>4
    <3>5. v.id = id /\ v.name = name
      BY DEF v
    <3> QED BY <3>2, <3>3, <3>4, <3>5 DEF DnsMandar
  <2>11. \A j \in 1..Slots : F.dns[j] = IF j = i THEN u ELSE C.dns[j]
    <3> HIDE DEF u
    <3> QED BY <2>2, <2>3, <2>9, ExceptIs
  <2>12. CardFrame(f) /\ TrueTo(f, F.dns, F.dnsid)
    <3> HIDE DEF u, id
    <3>1. CardFrame(ask) /\ TrueTo(ask, F.dns, F.dnsid)
      BY <2>4, <2>7, <2>9, <2>11 DEF CardFrame, TrueTo, Counted, Fits
    <3>2. CardFrame([t |-> "nowhere"]) /\ TrueTo([t |-> "nowhere"], F.dns, F.dnsid)
      BY DEF CardFrame, TrueTo, Counted, Fits
    <3> HIDE DEF ask
    <3> QED BY <3>1, <3>2
  <2>13. Server(IpEnviar(F, "router", f)) /\ Same(F, IpEnviar(F, "router", f))
    <3> HIDE DEF f
    <3> QED BY <2>9, <2>12, IpEnviarKeeps
  <2>14. Seen(F)
    <3> HIDE DEF u
    <3>1. CASE who = "hora"
      BY <3>1, <1>0, <2>2, <2>4, <2>9, <2>11 DEF Seen
    <3>2. CASE who # "hora"
      BY <3>2, <1>0, <2>3, <2>4, <2>9, <2>11 DEF Seen
    <3> QED BY <3>1, <3>2
  <2> HIDE DEF f
  <2> QED BY <1>0, <2>1, <2>9, <2>10, <2>13, <2>14, SeenSame DEF Same
<1> QED BY <1>1, <1>2, <1>3

\* dns_llego(): an answer goes to the question of its number, if there is one.
LEMMA DnsLlegoKeeps ==
    ASSUME NEW R, Server(R), Seen(R), NEW f, f.t = "answer", TrueTo(f, R.dns, R.dnsid)
    PROVE  LET X == DnsLlego(R, f) IN Server(X) /\ Seen(X)
<1> DEFINE w == Asked(R, f.id)
           i == CHOOSE k \in w : \A j \in w : k <= j
<1>1. CASE w = {}
  BY <1>1 DEF DnsLlego
<1>2. CASE w # {}
  <2>1. w \subseteq Nat
    BY DEF Asked
  <2>2. \E k \in w : \A j \in w : k <= j
    <3> HIDE DEF w
    <3> QED BY <2>1, <1>2, LeastIs
  <2>3. i \in w
    <3> HIDE DEF w
    <3> QED BY <2>2
  <2>4. DnsLlego(R, f) = DnsContestar(R, i, f.addr)
    BY <1>2 DEF DnsLlego
  <2> HIDE DEF i
  <2>5. i \in 1..Slots /\ R.dns[i] # Free /\ R.dns[i].id = f.id
    BY <2>3 DEF Asked
  <2>6. f.addr.of \in {R.dns[i].name, "none"} \/ f.addr.old
    BY <2>5 DEF TrueTo, Fits
  <2> QED BY <2>4, <2>5, <2>6, DnsContestarKeeps
<1> QED BY <1>1, <1>2

\* One place of consultas[] in a second.
TickStep(S, i) ==
    IF S.dns[i] = Free THEN S
    ELSE IF S.dns[i].tries >= Tries THEN DnsContestar(S, i, Nothing)
    ELSE DnsMandar(S, i)

\* One place in dns_tick(): asked again, or given up.
LEMMA TickStepKeeps ==
    ASSUME NEW S, Server(S), Seen(S), NEW i \in 1..Slots
    PROVE  Server(TickStep(S, i)) /\ Seen(TickStep(S, i))
<1>1. CASE S.dns[i] # Free /\ S.dns[i].tries >= Tries
  <2>1. Nothing.of = "none"
    BY DEF Nothing, Address
  <2> QED BY <1>1, <2>1, DnsContestarKeeps DEF TickStep
<1>2. CASE S.dns[i] # Free /\ ~(S.dns[i].tries >= Tries)
  BY <1>2, DnsMandarKeeps DEF TickStep
<1> QED BY <1>1, <1>2 DEF TickStep

\* The places one after another, as a function of how many have been seen.
LEMMA DnsTickIs ==
    ASSUME NEW R
    PROVE  \E g : /\ g[0] = R /\ \A i \in 1..Slots : g[i] = TickStep(g[i - 1], i)
                  /\ DnsTick(R) = g[Slots]
<1> DEFINE Chain(g, n) == g = [i \in 0..n |-> IF i = 0 THEN R ELSE TickStep(g[i - 1], i)]
           A == {n \in Nat : \E g : Chain(g, n)}
<1>1. 0 \in A
  <2>1. Chain([i \in 0..0 |-> R], 0)
    OBVIOUS
  <2> QED BY <2>1
<1>2. ASSUME NEW n \in Nat, n \in A PROVE n + 1 \in A
  <2>1. PICK g : Chain(g, n)
    BY <1>2
  <2> DEFINE h == [i \in 0..n + 1 |-> IF i <= n THEN g[i] ELSE TickStep(g[n], n + 1)]
  <2>2. \A i \in 0..n : h[i] = g[i] /\ g[i] = IF i = 0 THEN R ELSE TickStep(g[i - 1], i)
    BY <2>1
  <2>3. h[n + 1] = TickStep(g[n], n + 1) /\ h[n] = g[n]
    OBVIOUS
  <2>4. \A i \in 0..n + 1 : h[i] = IF i = 0 THEN R ELSE TickStep(h[i - 1], i)
    <3> HIDE DEF h
    <3>1. ASSUME NEW i \in 0..n + 1 PROVE h[i] = IF i = 0 THEN R ELSE TickStep(h[i - 1], i)
      <4>1. CASE i = 0
        BY <4>1, <2>2
      <4>2. CASE i \in 1..n
        <5>1. i \in 0..n /\ i - 1 \in 0..n /\ i # 0
          BY <4>2
        <5>2. h[i] = g[i] /\ h[i - 1] = g[i - 1] /\ g[i] = TickStep(g[i - 1], i)
          BY <5>1, <2>2
        <5> QED BY <5>1, <5>2
      <4>3. CASE i = n + 1
        BY <4>3, <2>3
      <4> QED BY <4>1, <4>2, <4>3
    <3> QED BY <3>1
  <2>5. h = [i \in 0..n + 1 |-> h[i]]
    OBVIOUS
  <2> HIDE DEF h
  <2>6. Chain(h, n + 1)
    BY <2>4, <2>5
  <2> QED BY <2>6
<1>3. PICK g : Chain(g, Slots)
  <2> HIDE DEF A
  <2>1. Slots \in A
    BY <1>1, <1>2, SetInduction, ConstantsAre
  <2> QED BY <2>1 DEF A
<1> DEFINE after == CHOOSE h : Chain(h, Slots)
<1>4. Chain(after, Slots)
  BY <1>3
<1>5. DnsTick(R) = after[Slots]
  BY DEF DnsTick, TickStep
<1> HIDE DEF after
<1>6. after[0] = R /\ \A i \in 1..Slots : after[i] = TickStep(after[i - 1], i)
  BY <1>4, ConstantsAre
<1> QED BY <1>5, <1>6

\* dns_tick(): all the places, one after another.
LEMMA DnsTickKeeps ==
    ASSUME NEW R, Server(R), Seen(R)
    PROVE  Server(DnsTick(R)) /\ Seen(DnsTick(R))
<1>1. PICK g : /\ g[0] = R /\ \A i \in 1..Slots : g[i] = TickStep(g[i - 1], i)
               /\ DnsTick(R) = g[Slots]
  BY DnsTickIs
<1> DEFINE A == {n \in Nat : n <= Slots => Server(g[n]) /\ Seen(g[n])}
<1>2. 0 \in A
  BY <1>1
<1>3. ASSUME NEW n \in Nat, n \in A PROVE n + 1 \in A
  <2>1. CASE n + 1 <= Slots
    <3>1. n + 1 \in 1..Slots /\ Server(g[n]) /\ Seen(g[n]) /\ (n + 1) - 1 = n
      BY <2>1, <1>3, ConstantsAre
    <3>2. g[n + 1] = TickStep(g[n], n + 1)
      BY <1>1, <3>1
    <3> QED BY <3>1, <3>2, TickStepKeeps
  <2> QED BY <2>1
<1> HIDE DEF A
<1>4. Slots \in A
  BY <1>2, <1>3, SetInduction, ConstantsAre
<1> QED BY <1>1, <1>4, ConstantsAre DEF A

\* hora_iniciar(): whatever waits, it is asked or told.
LEMMA HoraIniciarKeeps ==
    ASSUME NEW R, Server(R), R.ip
    PROVE  LET X == HoraIniciar(R) IN Server(X) /\ Seen(X) /\ X.st = R.st
<1> DEFINE H == [R EXCEPT !.htries = 0, !.again = FALSE]
           T == [H EXCEPT !.hst = 2]
           D == [H EXCEPT !.hst = 1]
<1>1. HoraIniciar(R) = IF R.ntp THEN NtpPedir(T) ELSE DnsConsultar(D, "hora", Pool)
  BY DEF HoraIniciar
<1>2. Fields(R)
  BY DEF Server, Core
<1>3. T = Timed(R, 2, 0, FALSE) /\ D = Timed(R, 1, 0, FALSE)
  BY <1>2 DEF Fields, Timed
<1> HIDE DEF T, D
<1>4. PICK no : no = FALSE
  OBVIOUS
<1>5. T = Timed(R, 2, 0, no) /\ D = Timed(R, 1, 0, no)
  BY <1>3, <1>4
<1>6. /\ Server(T) /\ T.hst = 2 /\ T.st = R.st
      /\ Server(D) /\ D.hst = 1 /\ D.st = R.st /\ D.pend = R.pend /\ D.sent = R.sent
  BY <1>5, TimeKeeps, ConstantsAre
<1>7. Server(NtpPedir(T)) /\ Same(T, NtpPedir(T))
  BY <1>6, NtpPedirKeeps
<1>9. LET X == DnsConsultar(D, "hora", Pool) IN Server(X) /\ Seen(X) /\ X.st = D.st
  BY <1>6, DnsConsultarKeeps
<1> QED BY <1>1, <1>6, <1>7, <1>9 DEF Same, Seen

\* hora_tick(): the time is asked again, given up or started anew.
LEMMA HoraTickKeeps ==
    ASSUME NEW R, Server(R), Seen(R), NEW due
    PROVE  LET X == HoraTick(R, due) IN Server(X) /\ Seen(X)
<1>1. CASE R.hst = 2 /\ R.htries >= Tries
  BY <1>1, HoraFalloKeeps DEF HoraTick
<1>2. CASE R.hst = 2 /\ ~(R.htries >= Tries)
  <2> DEFINE T == [R EXCEPT !.htries = @ + 1]
  <2>1. Fields(R) /\ R.htries \in 0..Tries
    BY DEF Server, Core, Lease
  <2>2. HoraTick(R, due) = NtpPedir(T)
    BY <1>2 DEF HoraTick
  <2>3. T = Timed(R, 2, R.htries + 1, R.again)
    BY <1>2, <2>1 DEF Fields, Timed
  <2> HIDE DEF T
  <2>4. Server(T) /\ T.hst = 2 /\ T.st = R.st
    BY <2>1, <2>3, <1>2, TimeKeeps, ConstantsAre
  <2>5. Server(NtpPedir(T)) /\ Same(T, NtpPedir(T))
    BY <2>4, NtpPedirKeeps
  <2> QED BY <2>2, <2>4, <2>5 DEF Same, Seen
<1>3. CASE R.hst # 2
  BY <1>3, HoraIniciarKeeps DEF HoraTick
<1> QED BY <1>1, <1>2, <1>3

\* hora_pedida(): one more waits for the time.
LEMMA HoraPedidaKeeps ==
    ASSUME NEW R, Server(R), Seen(R), NEW p \in Progs
    PROVE  LET X == HoraPedida(R, p) IN Server(X) /\ Seen(X)
<1> DEFINE C == IF Len(R.clients) < Clients THEN [R EXCEPT !.clients = Append(@, p)] ELSE R
<1>1. HoraPedida(R, p) = IF ~R.card \/ ~R.ip THEN Contestar(C, [t |-> "error"])
                         ELSE IF R.hst = 0 THEN HoraIniciar(C) ELSE C
  BY DEF HoraPedida
<1>2. /\ Server(C) /\ C.hst = R.hst /\ C.dns = R.dns /\ C.dnsid = R.dnsid /\ C.st = R.st /\ C.again = R.again /\ C.ip = R.ip
      /\ C.pend = R.pend /\ C.sent = R.sent
  <2>1. CASE Len(R.clients) < Clients
    <3> HIDE DEF C
    <3>1. C = [R EXCEPT !.clients = Append(@, p)] /\ Fields(R) /\ Lease(R) /\ Users(R)
      BY <2>1, ServerHas DEF C
    <3>2. /\ Fields(C) /\ C.dns = R.dns /\ C.dnsid = R.dnsid /\ C.out = R.out /\ C.pend = R.pend /\ C.sent = R.sent
          /\ C.hst = R.hst /\ C.htries = R.htries /\ C.again = R.again /\ C.st = R.st /\ C.ip = R.ip
          /\ C.card = R.card /\ C.tries = R.tries /\ C.ping = R.ping /\ C.socks = R.socks
          /\ C.clients = Append(R.clients, p)
      BY <3>1 DEF Fields
    <3>3. Lease(C) /\ Users(C)
      BY <2>1, <3>1, <3>2, ConstantsAre DEF Lease, Users
    <3> QED BY <3>2, <3>3, ChangeKeeps
  <2>2. CASE ~(Len(R.clients) < Clients)
    BY <2>2
  <2> QED BY <2>1, <2>2
<1> HIDE DEF C
<1>3. LET X == Contestar(C, [t |-> "error"])
      IN  /\ Server(X) /\ X.clients = <<>>
          /\ X.st = C.st /\ X.dns = C.dns /\ X.dnsid = C.dnsid /\ X.hst = C.hst /\ X.again = C.again /\ X.ip = C.ip
  BY <1>2, ContestarKeeps
<1>4. CASE ~R.card \/ ~R.ip
  BY <1>1, <1>2, <1>3, <1>4 DEF Seen
<1>5. CASE ~(~R.card \/ ~R.ip) /\ R.hst = 0
  BY <1>1, <1>2, <1>5, HoraIniciarKeeps
<1>6. CASE ~(~R.card \/ ~R.ip) /\ R.hst # 0
  BY <1>1, <1>2, <1>6 DEF Seen
<1> QED BY <1>4, <1>5, <1>6
-----------------------------------------------------------------------------
(* The address.                                                             *)

LEMMA DhcpMandarKeeps ==
    ASSUME NEW R, Server(R), NEW t \in {"discover", "request"}
    PROVE  LET X == DhcpMandar(R, t)
           IN  Server(X) /\ Same(R, X) /\ (Seen(R) => Seen(X))
<1> DEFINE f == [t |-> t, x |-> R.xid]
           X == DhcpMandar(R, t)
<1>1. CardFrame(f) /\ TrueTo(f, R.dns, R.dnsid)
  BY DEF CardFrame, TrueTo, Counted, Fits
<1> HIDE DEF f
<1>2. Server(X) /\ Same(R, X) /\ X.pend = R.pend /\ X.sent \subseteq R.sent \cup {f}
  BY <1>1, EnviarKeeps DEF DhcpMandar, f
<1> HIDE DEF X
<1> QED BY <1>2, SeenSame DEF X

\* A step of the search for an address.
LEMMA LeaseKeeps ==
    ASSUME NEW R, Server(R), NEW X, Fields(X), Lease(X), X.dns = R.dns /\ X.dnsid = R.dnsid, X.out = R.out, X.pend = R.pend,
           X.sent = R.sent, X.clients = R.clients, X.ping = R.ping, X.socks = R.socks
    PROVE  Server(X)
BY ServerHas, ChangeKeeps DEF Users

\* dhcp_buscar(): the address is looked for from the start.
LEMMA DhcpBuscarKeeps ==
    ASSUME NEW R, Server(R), Seen(R)
    PROVE  LET X == DhcpBuscar(R) IN Server(X) /\ Seen(X)
<1> DEFINE n == Fresh(R.xid)
           S == [R EXCEPT !.st = 1, !.ip = FALSE, !.xid = n, !.tries = 1]
<1>1. DhcpBuscar(R) = DhcpMandar(S, "discover")
  BY DEF DhcpBuscar
<1> HIDE DEF n, S
<1>2. S = [R EXCEPT !.st = 1, !.ip = FALSE, !.xid = n, !.tries = 1] /\ Fields(R) /\ Lease(R)
  BY ServerHas DEF S
<1>3. /\ Fields(S) /\ S.dns = R.dns /\ S.dnsid = R.dnsid /\ S.out = R.out /\ S.pend = R.pend
      /\ S.sent = R.sent /\ S.clients = R.clients /\ S.ping = R.ping /\ S.socks = R.socks
      /\ S.st = 1 /\ ~S.ip /\ S.tries = 1 /\ S.hst = R.hst /\ S.htries = R.htries /\ S.card = R.card
      /\ S.again = R.again
  BY <1>2 DEF Fields
<1>4. S.ip = FALSE
  BY <1>2 DEF Fields
<1>5. Lease(S)
  BY <1>2, <1>3, <1>4, ConstantsAre DEF Lease
<1>6. Server(S)
  BY <1>3, <1>5, LeaseKeeps
<1>7. Seen(S)
  BY <1>3 DEF Seen
<1> QED BY <1>1, <1>6, <1>7, DhcpMandarKeeps

\* tarjeta_llego(): there is a card.
LEMMA TarjetaLlegoKeeps ==
    ASSUME NEW R, Server(R), Seen(R)
    PROVE  LET X == TarjetaLlego(R) IN Server(X) /\ Seen(X)
<1> DEFINE S == [R EXCEPT !.card = TRUE]
<1>1. TarjetaLlego(R) = DhcpBuscar(S)
  BY DEF TarjetaLlego
<1> HIDE DEF S
<1>2. S = [R EXCEPT !.card = TRUE] /\ Fields(R) /\ Lease(R)
  BY ServerHas DEF S
<1>3. /\ Fields(S) /\ S.dns = R.dns /\ S.dnsid = R.dnsid /\ S.out = R.out /\ S.pend = R.pend
      /\ S.sent = R.sent /\ S.clients = R.clients /\ S.ping = R.ping /\ S.socks = R.socks
      /\ S.st = R.st /\ S.ip = R.ip /\ S.tries = R.tries /\ S.hst = R.hst /\ S.htries = R.htries
      /\ S.again = R.again
  BY <1>2 DEF Fields
<1>4. S.card = TRUE
  BY <1>2 DEF Fields
<1>5. Lease(S)
  BY <1>2, <1>3, <1>4 DEF Lease
<1>6. Server(S)
  BY <1>3, <1>5, LeaseKeeps
<1>7. Seen(S)
  BY <1>3 DEF Seen
<1> QED BY <1>1, <1>6, <1>7, DhcpBuscarKeeps

\* dhcp_llego(): with the address, the time is asked for.
LEMMA DhcpLlegoKeeps ==
    ASSUME NEW R, Server(R), Seen(R), NEW f, f.t \in {"offer", "ack", "nak"}
    PROVE  LET X == DhcpLlego(R, f) IN Server(X) /\ Seen(X)
<1> DEFINE offer == f.x = R.xid /\ f.t = "offer" /\ R.st = 1
           ack == f.x = R.xid /\ f.t = "ack" /\ R.st \in {2, 3}
           nak == f.x = R.xid /\ f.t = "nak"
<1>0. Fields(R) /\ Lease(R)
  BY ServerHas
<1>1. CASE offer
  <2> DEFINE S == [R EXCEPT !.st = 2, !.tries = 1]
  <2>1. DhcpLlego(R, f) = DhcpMandar(S, "request")
    BY <1>1 DEF DhcpLlego
  <2> HIDE DEF S
  <2>2. S = [R EXCEPT !.st = 2, !.tries = 1]
    BY DEF S
  <2>3. /\ Fields(S) /\ S.dns = R.dns /\ S.dnsid = R.dnsid /\ S.out = R.out /\ S.pend = R.pend
        /\ S.sent = R.sent /\ S.clients = R.clients /\ S.ping = R.ping /\ S.socks = R.socks
        /\ S.st = 2 /\ S.ip = R.ip /\ S.tries = 1 /\ S.hst = R.hst /\ S.htries = R.htries /\ S.card = R.card
        /\ S.again = R.again
    BY <1>0, <2>2 DEF Fields
  <2>4. Lease(S)
    BY <1>0, <1>1, <2>3, ConstantsAre DEF Lease
  <2>5. Server(S) /\ Seen(S)
    BY <2>3, <2>4, LeaseKeeps DEF Seen
  <2> QED BY <2>1, <2>5, DhcpMandarKeeps
<1>2. CASE ack
  <2> DEFINE A == [R EXCEPT !.st = 3, !.tries = 0, !.ip = TRUE, !.ntp = f.ntp, !.ns = f.ns]
  <2>1. DhcpLlego(R, f) = IF R.st = 2 THEN HoraIniciar(A) ELSE A
    BY <1>2 DEF DhcpLlego
  <2> HIDE DEF A
  <2>2. A = [R EXCEPT !.st = 3, !.tries = 0, !.ip = TRUE, !.ntp = f.ntp, !.ns = f.ns]
    BY DEF A
  <2>3. /\ Fields(A) /\ A.dns = R.dns /\ A.dnsid = R.dnsid /\ A.out = R.out /\ A.pend = R.pend
        /\ A.sent = R.sent /\ A.clients = R.clients /\ A.ping = R.ping /\ A.socks = R.socks
        /\ A.st = 3 /\ A.tries = 0 /\ A.hst = R.hst /\ A.htries = R.htries /\ A.card = R.card
        /\ A.again = R.again
    BY <1>0, <2>2 DEF Fields
  <2>4. A.ip = TRUE
    BY <1>0, <2>2 DEF Fields
  <2>5. Lease(A)
    <3>1. {A.card, A.ip} \subseteq BOOLEAN
      BY <1>0, <2>3, <2>4 DEF Lease
    <3>2. A.st \in 0..3 /\ A.hst \in 0..2 /\ A.tries \in 0..Tries /\ A.htries \in 0..Tries
      BY <1>0, <2>3, ConstantsAre DEF Lease
    <3> QED BY <3>1, <3>2, <2>3 DEF Lease
  <2>6. Server(A)
    BY <2>3, <2>5, LeaseKeeps
  <2>7. CASE R.st = 2
    BY <2>1, <2>4, <2>6, <2>7, HoraIniciarKeeps
  <2>8. CASE R.st = 3
    BY <2>1, <2>3, <2>6, <2>8 DEF Seen
  <2> QED BY <1>2, <2>7, <2>8
<1>3. CASE nak
  BY <1>3, DhcpBuscarKeeps DEF DhcpLlego
<1>4. CASE ~offer /\ ~ack /\ ~nak
  BY <1>4 DEF DhcpLlego
<1> QED BY <1>1, <1>2, <1>3, <1>4

\* The lease is asked again, renewed or over (cada_segundo).
LEMMA DhcpTickKeeps ==
    ASSUME NEW R, Server(R), Seen(R), NEW due, NEW ends
    PROVE  LET X == DhcpTick(R, due, ends)
           IN  Server(X) /\ Seen(X)
<1>0. Fields(R) /\ Lease(R)
  BY ServerHas
<1>1. CASE R.st = 1 /\ due
  <2>1. DhcpTick(R, due, ends) = DhcpMandar(R, "discover")
    BY <1>1 DEF DhcpTick
  <2> QED BY <2>1, DhcpMandarKeeps
<1>2. CASE R.st = 2 /\ due /\ R.tries >= Tries
  <2>1. DhcpTick(R, due, ends) = DhcpBuscar(R)
    BY <1>2 DEF DhcpTick
  <2> QED BY <1>2, <2>1, DhcpBuscarKeeps
<1>3. CASE R.st = 2 /\ due /\ ~(R.tries >= Tries)
  <2> DEFINE S == [R EXCEPT !.tries = @ + 1]
  <2>1. DhcpTick(R, due, ends) = DhcpMandar(S, "request")
    BY <1>3 DEF DhcpTick
  <2> HIDE DEF S
  <2>2. S = [R EXCEPT !.tries = @ + 1]
    BY DEF S
  <2>3. /\ Fields(S) /\ S.dns = R.dns /\ S.dnsid = R.dnsid /\ S.out = R.out /\ S.pend = R.pend
        /\ S.sent = R.sent /\ S.clients = R.clients /\ S.ping = R.ping /\ S.socks = R.socks
        /\ S.st = R.st /\ S.ip = R.ip /\ S.tries = R.tries + 1 /\ S.hst = R.hst /\ S.htries = R.htries
        /\ S.card = R.card /\ S.again = R.again
    BY <1>0, <2>2 DEF Fields
  <2>4. Lease(S)
    BY <1>0, <1>3, <2>3, ConstantsAre DEF Lease
  <2>5. Server(S) /\ Seen(S)
    BY <2>3, <2>4, LeaseKeeps DEF Seen
  <2> QED BY <2>1, <2>5, DhcpMandarKeeps
<1>4. CASE R.st = 3 /\ (due \/ ends)
  <2> DEFINE N == IF due THEN DhcpMandar(R, "request") ELSE R
  <2>1. DhcpTick(R, due, ends) = IF ends THEN DhcpBuscar(N) ELSE N
    BY <1>4 DEF DhcpTick
  <2>2. Server(N) /\ Seen(N)
    BY DhcpMandarKeeps
  <2> HIDE DEF N
  <2> QED BY <1>4, <2>1, <2>2, DhcpBuscarKeeps
<1>5. CASE /\ ~(R.st = 1 /\ due) /\ ~(R.st = 2 /\ due) /\ ~(R.st = 3 /\ (due \/ ends))
  BY <1>5 DEF DhcpTick
<1> QED BY <1>1, <1>2, <1>3, <1>4, <1>5
-----------------------------------------------------------------------------
(* Neighbours, sockets and pings.                                           *)

\* One of the fields of which nothing but its own shape is said.
LEMMA SmallKeeps ==
    ASSUME NEW R, Server(R), NEW X, Fields(X), X.card = R.card, X.st = R.st, X.tries = R.tries,
           X.ip = R.ip, X.dns = R.dns /\ X.dnsid = R.dnsid, X.hst = R.hst, X.htries = R.htries, X.again = R.again,
           X.clients = R.clients, X.out = R.out, X.sent = R.sent,
           X.pend = R.pend \/ X.pend = {},
           \/ X.ping = R.ping
           \/ X.ping = {}
           \/ \E v : X.ping = {v} /\ v.who \in Progs,
           \/ X.socks = R.socks
           \/ IsFiniteSet(X.socks) /\ Cardinality(X.socks) <= Slots /\ \A e \in X.socks : e.p \in Progs
    PROVE  Server(X) /\ Same(R, X) /\ (Seen(R) => Seen(X))
<1>1. Lease(X)
  BY ServerHas DEF Lease
<1>2. Users(X)
  BY ServerHas DEF Users
<1>3. Same(R, X)
  BY DEF Same
<1>4. ToCard(X)
  BY DEF Server, Core, ToCard
<1> QED BY <1>1, <1>2, <1>3, <1>4, SeenSame DEF Server, Core

\* The table of ARP may hold anything.
LEMMA ArpKeeps ==
    ASSUME NEW R, Server(R), NEW a, NEW X, X = [R EXCEPT !.arp = a]
    PROVE  Server(X) /\ Same(R, X) /\ (Seen(R) => Seen(X)) /\ X.pend = R.pend /\ X.sent = R.sent
           /\ X.ping = R.ping /\ X.socks = R.socks /\ X.ip = R.ip
<1>1. Fields(R)
  BY DEF Server, Core
<1>2. /\ Fields(X) /\ X.card = R.card /\ X.st = R.st /\ X.tries = R.tries
      /\ X.ip = R.ip /\ X.dns = R.dns /\ X.dnsid = R.dnsid /\ X.hst = R.hst /\ X.htries = R.htries /\ X.again = R.again
      /\ X.clients = R.clients /\ X.out = R.out /\ X.sent = R.sent
      /\ X.pend = R.pend /\ X.ping = R.ping /\ X.socks = R.socks
  BY <1>1 DEF Fields
<1> QED BY <1>2, SmallKeeps

\* arp_llego(): what waited for an address goes out.
LEMMA ArpLlegoKeeps ==
    ASSUME NEW R, Server(R), Seen(R), NEW hop
    PROVE  Server(ArpLlego(R, hop)) /\ Seen(ArpLlego(R, hop))
<1> DEFINE L == [R EXCEPT !.arp = @ \cup {hop}]
           w == CHOOSE x \in R.pend : x.hop = hop
           P == [L EXCEPT !.pend = {}]
<1>1. Server(L) /\ Seen(L) /\ L.pend = R.pend
  <2>1. PICK a : a = R.arp \cup {hop}
    OBVIOUS
  <2>2. L = [R EXCEPT !.arp = a]
    BY <2>1
  <2> HIDE DEF L
  <2> QED BY <2>2, ArpKeeps
<1>2. CASE \E x \in R.pend : x.hop = hop
  <2>1. ArpLlego(R, hop) = Enviar(P, w.f)
    BY <1>2 DEF ArpLlego
  <2>2. w \in R.pend
    BY <1>2
  <2> HIDE DEF L, w, P
  <2>3. CardFrame(w.f) /\ TrueTo(w.f, L.dns, L.dnsid)
    BY <2>2, <1>1 DEF Server, Core, ToCard
  <2>4. Fields(L) /\ P = [L EXCEPT !.pend = {}]
    BY <1>1 DEF Server, Core, P
  <2>5. /\ Fields(P) /\ P.card = L.card /\ P.st = L.st /\ P.tries = L.tries
        /\ P.ip = L.ip /\ P.dns = L.dns /\ P.dnsid = L.dnsid /\ P.hst = L.hst /\ P.htries = L.htries /\ P.again = L.again
        /\ P.clients = L.clients /\ P.out = L.out /\ P.sent = L.sent
        /\ P.pend = {} /\ P.ping = L.ping /\ P.socks = L.socks
    BY <2>4 DEF Fields
  <2>6. Server(P) /\ Seen(P) /\ P.dns = L.dns /\ P.dnsid = L.dnsid
    BY <1>1, <2>5, SmallKeeps
  <2> QED BY <2>1, <2>3, <2>6, EnviarKeeps, SeenSame
<1>3. CASE ~\E x \in R.pend : x.hop = hop
  BY <1>1, <1>3 DEF ArpLlego
<1> QED BY <1>2, <1>3

\* The sockets change: still few, still of programs.
LEMMA SocksKeep ==
    ASSUME NEW R, Server(R), NEW s, NEW X, X = [R EXCEPT !.socks = s],
           IsFiniteSet(s), Cardinality(s) <= Slots, \A e \in s : e.p \in Progs
    PROVE  Server(X) /\ Same(R, X) /\ (Seen(R) => Seen(X)) /\ X.socks = s
<1>1. Fields(R)
  BY DEF Server, Core
<1>2. /\ Fields(X) /\ X.card = R.card /\ X.st = R.st /\ X.tries = R.tries
      /\ X.ip = R.ip /\ X.dns = R.dns /\ X.dnsid = R.dnsid /\ X.hst = R.hst /\ X.htries = R.htries /\ X.again = R.again
      /\ X.clients = R.clients /\ X.out = R.out /\ X.sent = R.sent
      /\ X.pend = R.pend /\ X.ping = R.ping /\ X.socks = s
  BY <1>1 DEF Fields
<1> QED BY <1>2, SmallKeeps

\* Of the sockets some.
LEMMA FewerSocks ==
    ASSUME NEW R, Server(R), NEW s, s \subseteq R.socks
    PROVE  IsFiniteSet(s) /\ Cardinality(s) <= Slots /\ \A e \in s : e.p \in Progs
<1>1. IsFiniteSet(R.socks) /\ Cardinality(R.socks) <= Slots /\ \A e \in R.socks : e.p \in Progs
  BY DEF Server, Core, Users
<1>2. IsFiniteSet(s) /\ Cardinality(s) <= Cardinality(R.socks)
  BY <1>1, FS_Subset
<1>3. Cardinality(s) \in Nat /\ Cardinality(R.socks) \in Nat
  BY <1>1, <1>2, FS_CardinalityType
<1> QED BY <1>1, <1>2, <1>3, ConstantsAre

\* enchufes_barrer(): the sockets of the dead are let go.
LEMMA BarrerKeeps ==
    ASSUME NEW R, Server(R)
    PROVE  LET X == Barrer(R)
           IN  Server(X) /\ Same(R, X) /\ (Seen(R) => Seen(X)) /\ X.socks \subseteq R.socks
<1> DEFINE s == {e \in R.socks : Lives(e.p, e.k)}
           X == Barrer(R)
<1>1. X = [R EXCEPT !.socks = s] /\ s \subseteq R.socks
  BY DEF Barrer
<1> HIDE DEF s, X
<1> QED BY <1>1, FewerSocks, SocksKeep DEF X

\* A socket is opened.
LEMMA AbrirKeeps ==
    ASSUME NEW R, Server(R), Seen(R), NEW m, m.p \in Progs
    PROVE  Server(Abrir(R, m)) /\ Seen(Abrir(R, m))
<1> DEFINE B == Barrer(R)
           C == IF m.n = 0 THEN [B EXCEPT !.efimero = @ + 1] ELSE B
           n == IF m.n = 0 THEN C.efimero ELSE m.n
           e == [p |-> m.p, k |-> m.k, n |-> n]
           s == C.socks \cup {e}
           E == [C EXCEPT !.socks = @ \cup {e}]
           g == [t |-> "opened", n |-> n]
           none == At(B, m.n) # {} \/ Cardinality(B.socks) >= Slots
<1>1. Server(B) /\ Seen(B)
  BY BarrerKeeps
<1>2. Abrir(R, m) = IF none THEN ErrorA(C, m.p) ELSE Put(E, m.p, g)
  BY DEF Abrir
<1>3. E = [C EXCEPT !.socks = s] /\ e.p \in Progs
  OBVIOUS
<1>4. ProgMail(g)
  BY DEF ProgMail
<1>5. Server(C) /\ Seen(C) /\ C.socks = B.socks
  <2> HIDE DEF B
  <2>1. CASE m.n = 0
    <3>1. PICK c : c = B.efimero + 1
      OBVIOUS
    <3>2. C = [B EXCEPT !.efimero = c]
      BY <2>1, <3>1
    <3> HIDE DEF C
    <3>3. Fields(B)
      BY <1>1 DEF Server, Core
    <3>4. /\ Fields(C) /\ C.card = B.card /\ C.st = B.st /\ C.tries = B.tries
          /\ C.ip = B.ip /\ C.dns = B.dns /\ C.dnsid = B.dnsid /\ C.hst = B.hst /\ C.htries = B.htries
          /\ C.again = B.again /\ C.clients = B.clients /\ C.out = B.out /\ C.sent = B.sent
          /\ C.pend = B.pend /\ C.ping = B.ping /\ C.socks = B.socks
      BY <3>2, <3>3 DEF Fields
    <3> QED BY <1>1, <3>4, SmallKeeps
  <2>2. CASE m.n # 0
    BY <1>1, <2>2
  <2> QED BY <2>1, <2>2
<1> HIDE DEF B, C, E, g, e
<1>6. CASE none
  BY <1>2, <1>5, <1>6, ErrorAKeeps, SeenSame
<1>7. CASE ~none
  <2>1. IsFiniteSet(C.socks) /\ \A d \in C.socks : d.p \in Progs
    BY <1>5 DEF Server, Core, Users
  <2>2. Cardinality(C.socks) \in Nat /\ ~(Cardinality(C.socks) >= Slots)
    BY <1>5, <1>7, <2>1, FS_CardinalityType
  <2>3. IsFiniteSet(s) /\ Cardinality(s) <= Cardinality(C.socks) + 1
    <3>1. Cardinality(s) = IF e \in C.socks THEN Cardinality(C.socks) ELSE Cardinality(C.socks) + 1
      BY <2>1, FS_AddElement
    <3> QED BY <2>1, <2>2, <3>1, FS_AddElement
  <2>4. Cardinality(s) <= Slots
    <3>1. Cardinality(s) \in Nat
      BY <2>3, FS_CardinalityType
    <3> HIDE DEF s
    <3> QED BY <3>1, <2>2, <2>3, ConstantsAre
  <2>5. \A d \in s : d.p \in Progs
    BY <1>3, <2>1
  <2> HIDE DEF s
  <2>6. Server(E) /\ Seen(E)
    BY <1>3, <1>5, <2>3, <2>4, <2>5, SocksKeep
  <2> QED BY <1>2, <1>4, <1>7, <2>6, PutKeeps, SeenSame
<1> QED BY <1>6, <1>7

\* A socket is closed.
LEMMA CerrarKeeps ==
    ASSUME NEW R, Server(R), Seen(R), NEW S
    PROVE  Server(Cerrar(R, S)) /\ Seen(Cerrar(R, S))
<1> DEFINE s == R.socks \ S
           X == Cerrar(R, S)
<1>1. X = [R EXCEPT !.socks = s] /\ s \subseteq R.socks
  BY DEF Cerrar
<1> HIDE DEF s, X
<1> QED BY <1>1, FewerSocks, SocksKeep DEF X

\* A datagram goes out by an open socket.
LEMMA EnchufeEnviarKeeps ==
    ASSUME NEW R, Server(R), Seen(R), NEW m, m.p \in Progs
    PROVE  Server(EnchufeEnviar(R, m)) /\ Seen(EnchufeEnviar(R, m))
<1> DEFINE f == [t |-> "dgram", n |-> m.n]
<1>1. CASE Own(R, m) = {}
  BY <1>1 DEF EnchufeEnviar
<1>2. CASE Own(R, m) # {} /\ ~R.ip
  <2>1. EnchufeEnviar(R, m) = ErrorA(R, m.p)
    BY <1>2 DEF EnchufeEnviar
  <2> QED BY <2>1, ErrorAKeeps, SeenSame
<1>3. CASE Own(R, m) # {} /\ R.ip
  <2>1. CardFrame(f) /\ TrueTo(f, R.dns, R.dnsid)
    BY DEF CardFrame, TrueTo, Counted, Fits
  <2>2. EnchufeEnviar(R, m) = IpEnviar(R, Near, f)
    BY <1>3 DEF EnchufeEnviar
  <2> HIDE DEF f
  <2> QED BY <2>1, <2>2, IpEnviarKeeps, SeenSame
<1> QED BY <1>1, <1>2, <1>3

\* A datagram that comes goes to who has its socket open.
LEMMA EnchufeEntregarKeeps ==
    ASSUME NEW R, Server(R), Seen(R), NEW n
    PROVE  Server(EnchufeEntregar(R, n)) /\ Seen(EnchufeEntregar(R, n))
<1> DEFINE e == CHOOSE x \in At(R, n) : TRUE
           m == [t |-> "dgram", n |-> n, k |-> e.k]
<1>1. CASE At(R, n) = {}
  BY <1>1 DEF EnchufeEntregar
<1>2. CASE At(R, n) # {}
  <2>1. e \in At(R, n)
    BY <1>2
  <2> HIDE DEF e
  <2>2. e.p \in Progs
    BY <2>1 DEF At, Server, Core, Users
  <2>3. ProgMail(m)
    BY DEF ProgMail
  <2>4. EnchufeEntregar(R, n) = Put(R, e.p, m)
    BY <1>2 DEF EnchufeEntregar, e
  <2> HIDE DEF m
  <2> QED BY <2>2, <2>3, <2>4, PutKeeps, SeenSame
<1> QED BY <1>1, <1>2

\* The ping changes: none, or one of a program.
LEMMA PingKeeps ==
    ASSUME NEW R, Server(R), NEW g, g = {} \/ \E v : g = {v} /\ v.who \in Progs,
           NEW X, X = [R EXCEPT !.ping = g]
    PROVE  Server(X) /\ Same(R, X) /\ (Seen(R) => Seen(X))
<1>1. Fields(R)
  BY DEF Server, Core
<1>2. /\ Fields(X) /\ X.card = R.card /\ X.st = R.st /\ X.tries = R.tries
      /\ X.ip = R.ip /\ X.dns = R.dns /\ X.dnsid = R.dnsid /\ X.hst = R.hst /\ X.htries = R.htries /\ X.again = R.again
      /\ X.clients = R.clients /\ X.out = R.out /\ X.sent = R.sent
      /\ X.pend = R.pend /\ X.ping = g /\ X.socks = R.socks
  BY <1>1 DEF Fields
<1> QED BY <1>2, SmallKeeps

\* An echo is asked for, one at a time.
LEMMA PingPedidoKeeps ==
    ASSUME NEW R, Server(R), Seen(R), NEW p \in Progs, NEW s
    PROVE  Server(PingPedido(R, p, s)) /\ Seen(PingPedido(R, p, s))
<1> DEFINE g == {[who |-> p, s |-> s]}
           E == [R EXCEPT !.ping = g]
           f == [t |-> "echo", s |-> s]
<1>1. CASE ~R.ip
  BY <1>1, ErrorAKeeps, SeenSame DEF PingPedido
<1>2. CASE R.ip
  <2>1. \E v : g = {v} /\ v.who \in Progs
    <3>1. [who |-> p, s |-> s].who \in Progs
      OBVIOUS
    <3> QED BY <3>1, Zenon
  <2>2. PingPedido(R, p, s) = IpEnviar(E, Near, f)
    BY <1>2 DEF PingPedido
  <2>3. CardFrame(f) /\ \A dns, n : TrueTo(f, dns, n)
    BY DEF CardFrame, TrueTo, Counted, Fits
  <2> HIDE DEF g, f
  <2>4. E = [R EXCEPT !.ping = g]
    OBVIOUS
  <2> HIDE DEF E
  <2>5. Server(E) /\ Seen(E)
    BY <2>1, <2>4, PingKeeps
  <2> QED BY <2>2, <2>3, <2>5, IpEnviarKeeps, SeenSame
<1> QED BY <1>1, <1>2

\* icmp_llego(): an echo ends the ping of its number, or is nothing.
LEMMA IcmpLlegoKeeps ==
    ASSUME NEW R, Server(R), Seen(R), NEW f
    PROVE  Server(IcmpLlego(R, f)) /\ Seen(IcmpLlego(R, f))
<1> DEFINE v == CHOOSE w \in R.ping : TRUE
           D == [R EXCEPT !.ping = {}]
           good == f.t = "echoed" /\ f.s = v.s
           bad == f.t = "unreachable"
           m == [t |-> "ponged", s |-> v.s]
<1>1. CASE R.ping = {}
  BY <1>1 DEF IcmpLlego
<1>2. CASE R.ping # {}
  <2>1. v \in R.ping
    BY <1>2
  <2>2. v.who \in Progs
    <3> HIDE DEF v
    <3> QED BY <2>1 DEF Server, Core, Users
  <2>3. ProgMail(m)
    BY DEF ProgMail
  <2>4. Server(D) /\ Seen(D)
    <3>1. PICK g : g = {}
      OBVIOUS
    <3>2. D = [R EXCEPT !.ping = g]
      BY <3>1
    <3> HIDE DEF D
    <3> QED BY <3>1, <3>2, PingKeeps
  <2>5. CASE good
    <3>1. IcmpLlego(R, f) = Put(D, v.who, m)
      BY <1>2, <2>5 DEF IcmpLlego
    <3> HIDE DEF v, D, m
    <3> QED BY <3>1, <2>2, <2>3, <2>4, PutKeeps, SeenSame
  <2>6. CASE bad
    <3>1. IcmpLlego(R, f) = ErrorA(D, v.who)
      BY <1>2, <2>6 DEF IcmpLlego
    <3> HIDE DEF v, D
    <3> QED BY <3>1, <2>2, <2>4, ErrorAKeeps, SeenSame
  <2>7. CASE ~good /\ ~bad
    BY <1>2, <2>7 DEF IcmpLlego
  <2> QED BY <2>5, <2>6, <2>7
<1> QED BY <1>1, <1>2
-----------------------------------------------------------------------------
(* The loop of the server.                                                  *)

LEMMA LearnedKeeps ==
    ASSUME NEW R, Server(R), Seen(R), NEW f
    PROVE  LET N == Learned(R, f) IN Server(N) /\ Seen(N) /\ N.dns = R.dns /\ N.dnsid = R.dnsid
<1>1. CASE Learned(R, f) = R
  BY <1>1
<1>2. CASE Learned(R, f) = [R EXCEPT !.arp = @ \cup {Near}]
  <2> DEFINE N == Learned(R, f)
  <2>1. PICK a : a = R.arp \cup {Near}
    OBVIOUS
  <2>2. N = [R EXCEPT !.arp = a]
    BY <1>2, <2>1
  <2> HIDE DEF N
  <2>3. Server(N) /\ Seen(N) /\ Same(R, N)
    BY <2>2, ArpKeeps
  <2> QED BY <2>3 DEF Same, N
<1> QED BY <1>1, <1>2 DEF Learned

\* trama_llego(): any frame the air may hold.
LEMMA TramaLlegoKeeps ==
    ASSUME NEW R, Server(R), Seen(R), NEW f, AirFrame(f), TrueTo(f, R.dns, R.dnsid)
    PROVE  Server(TramaLlego(R, f)) /\ Seen(TramaLlego(R, f))
<1> DEFINE N == Learned(R, f)
           L == [R EXCEPT !.arp = @ \cup {Near}]
           me == [t |-> "itisme"]
<1>1. Server(N) /\ Seen(N)
  BY LearnedKeeps
<1>2. Server(L) /\ Seen(L)
  <2>1. PICK a : a = R.arp \cup {Near}
    OBVIOUS
  <2>2. L = [R EXCEPT !.arp = a]
    BY <2>1
  <2> HIDE DEF L
  <2> QED BY <2>2, ArpKeeps
<1>3. CardFrame(me) /\ \A dns, n : TrueTo(me, dns, n)
  BY DEF CardFrame, TrueTo, Counted, Fits
<1>4. Server(IpEnviar(N, Near, me)) /\ Seen(IpEnviar(N, Near, me))
  <2> HIDE DEF N, me
  <2> QED BY <1>1, <1>3, IpEnviarKeeps, SeenSame
<1>5. Server(Enviar(L, me)) /\ Seen(Enviar(L, me))
  <2> HIDE DEF L, me
  <2> QED BY <1>2, <1>3, EnviarKeeps, SeenSame
<1> HIDE DEF N, L, me
<1>6. CASE f.t = "isat"
  <2>1. TramaLlego(R, f) = ArpLlego(R, f.hop)
    BY <1>6 DEF TramaLlego
  <2> QED BY <2>1, ArpLlegoKeeps
<1>7. CASE f.t = "whois"
  <2>1. TramaLlego(R, f) = IF R.ip THEN Enviar(L, me) ELSE L
    BY <1>7 DEF TramaLlego, L, me
  <2> QED BY <2>1, <1>2, <1>5
<1>8. CASE f.t \in {"offer", "ack", "nak"}
  <2>1. TramaLlego(R, f) = DhcpLlego(R, f)
    BY <1>8 DEF TramaLlego
  <2> QED BY <2>1, <1>8, DhcpLlegoKeeps
<1>9. CASE f.t \notin {"isat", "whois", "offer", "ack", "nak"} /\ ~R.ip
  <2>1. TramaLlego(R, f) = R
    BY <1>9 DEF TramaLlego
  <2> QED BY <2>1
<1>10. CASE f.t = "answer" /\ R.ip
  <2>1. TramaLlego(R, f) = DnsLlego(R, f)
    BY <1>10 DEF TramaLlego
  <2> QED BY <2>1, <1>10, DnsLlegoKeeps
<1>11. CASE f.t = "time" /\ R.ip
  <2>1. TramaLlego(R, f) = NtpLlego(R, f.good)
    BY <1>11 DEF TramaLlego
  <2> QED BY <2>1, NtpLlegoKeeps
<1>12. CASE f.t \in {"echoed", "unreachable"} /\ R.ip
  <2>1. TramaLlego(R, f) = IcmpLlego(N, f)
    BY <1>12 DEF TramaLlego, N
  <2> QED BY <2>1, <1>1, IcmpLlegoKeeps
<1>13. CASE f.t = "pinged" /\ R.ip
  <2>1. TramaLlego(R, f) = IpEnviar(N, Near, me)
    BY <1>13 DEF TramaLlego, N, me
  <2> QED BY <2>1, <1>4
<1>14. CASE f.t = "dgram" /\ R.ip
  <2>1. TramaLlego(R, f) = EnchufeEntregar(N, f.n)
    BY <1>14 DEF TramaLlego, N
  <2> QED BY <2>1, <1>1, EnchufeEntregarKeeps
<1> QED BY <1>6, <1>7, <1>8, <1>9, <1>10, <1>11, <1>12, <1>13, <1>14 DEF AirFrame

\* cada_segundo(): the lease, the time and the names, in this order.
LEMMA CadaSegundoKeeps ==
    ASSUME NEW R, Server(R), Seen(R), NEW due, NEW ends, NEW again
    PROVE  LET X == CadaSegundo(R, due, ends, again) IN Server(X) /\ Seen(X)
<1> DEFINE D == DhcpTick(R, due, ends)
           H == HoraTick(D, again)
           T == DnsTick(H)
<1>1. Server(D) /\ Seen(D)
  BY DhcpTickKeeps
<1>2. Server(H) /\ Seen(H)
  <2> HIDE DEF D
  <2> QED BY <1>1, HoraTickKeeps
<1>3. Server(T) /\ Seen(T)
  <2> HIDE DEF H
  <2> QED BY <1>2, DnsTickKeeps
<1>4. Server(Barrer(T)) /\ Seen(Barrer(T))
  <2> HIDE DEF T
  <2> QED BY <1>3, BarrerKeeps
<1> QED BY <1>1, <1>4 DEF CadaSegundo

\* Every handler.
LEMMA HandledKeeps ==
    ASSUME NEW R, Server(R), Seen(R), NEW m, RedMail(m),
           m.t = "frame" => TrueTo(m.f, R.dns, R.dnsid), NEW X \in Handled(R, m)
    PROVE  Server(X) /\ Seen(X)
<1>1. CASE m.t = "card"
  <2>1. X = TarjetaLlego(R)
    BY <1>1 DEF Handled
  <2> QED BY <2>1, TarjetaLlegoKeeps
<1>2. CASE m.t = "frame"
  <2>1. X = TramaLlego(R, m.f)
    BY <1>2 DEF Handled
  <2> QED BY <2>1, <1>2, TramaLlegoKeeps DEF RedMail
<1>3. CASE m.t = "alarm"
  <2>1. X \in {CadaSegundo(R, due, ends, again) : due, ends, again \in BOOLEAN}
    BY <1>3 DEF Handled
  <2>2. PICK due, ends, again : X = CadaSegundo(R, due, ends, again)
    BY <2>1
  <2> QED BY <2>2, CadaSegundoKeeps
<1>4. CASE m.t = "time"
  <2>1. X = HoraPedida(R, m.p)
    BY <1>4 DEF Handled
  <2> QED BY <2>1, <1>4, HoraPedidaKeeps DEF RedMail
<1>5. CASE m.t = "resolve"
  <2>1. X = DnsConsultar(R, m.p, m.n)
    BY <1>5 DEF Handled
  <2>2. m.p \in Progs \cup {"hora"} /\ m.p # "hora"
    BY <1>5, ConstantsAre DEF RedMail
  <2> QED BY <2>1, <2>2, DnsConsultarKeeps
<1>6. CASE m.t = "info"
  <2>1. X = Put(R, m.p, [t |-> "info"])
    BY <1>6 DEF Handled
  <2>2. m.p \in Progs /\ ProgMail([t |-> "info"])
    BY <1>6 DEF RedMail, ProgMail
  <2> QED BY <2>1, <2>2, PutKeeps, SeenSame
<1>7. CASE m.t = "ping"
  <2>1. X = PingPedido(R, m.p, m.s)
    BY <1>7 DEF Handled
  <2> QED BY <2>1, <1>7, PingPedidoKeeps DEF RedMail
<1>8. CASE m.t = "open"
  <2>1. X = Abrir(R, m)
    BY <1>8 DEF Handled
  <2> QED BY <2>1, <1>8, AbrirKeeps DEF RedMail
<1>9. CASE m.t = "put"
  <2>1. X = EnchufeEnviar(R, m)
    BY <1>9 DEF Handled
  <2> QED BY <2>1, <1>9, EnchufeEnviarKeeps DEF RedMail
<1>10. CASE m.t = "close"
  <2>1. X = Cerrar(R, Own(R, m))
    BY <1>10 DEF Handled
  <2> QED BY <2>1, CerrarKeeps
<1> QED BY <1>1, <1>2, <1>3, <1>4, <1>5, <1>6, <1>7, <1>8, <1>9, <1>10 DEF RedMail
-----------------------------------------------------------------------------
(***************************************************************************)
(* Ports, frames and programs: the invariant.                              *)
(***************************************************************************)

Owners == {"red"} \cup Progs

QueuesOK(Q) ==
    /\ Q = [p \in Owners |-> Q[p]]
    /\ \A p \in Owners : IsList(Q[p]) /\ Len(Q[p]) <= Room[p]
    /\ \A i \in 1..Len(Q["red"]) : RedMail(Q["red"][i])
    /\ \A p \in Progs : \A i \in 1..Len(Q[p]) : ProgMail(Q[p][i])

\* What the frames in a port say is what is asked.
PortTrue(Q, dns, n) ==
    \A i \in 1..Len(Q["red"]) : Q["red"][i].t = "frame" => TrueTo(Q["red"][i].f, dns, n)

AirTrue(A, dns, n) ==
    IsFiniteSet(A) /\ Cardinality(A) <= MaxAir /\ \A f \in A : AirFrame(f) /\ TrueTo(f, dns, n)

Calls == {"resolve", "ping", "time", "info", "open", "bind", "put", "take", "close"}

Shape(s) ==
    s = [st |-> s.st, todo |-> s.todo, call |-> s.call, alarm |-> s.alarm, kept |-> s.kept,
         sock |-> s.sock, k |-> s.k]

ProgOK(s) ==
    /\ Shape(s) /\ s.todo \in Seq(Calls)
    /\ s.st = "asking" => s.call.c \in Calls \ {"take"}

NetInv ==
    /\ Core(red) /\ Seen(red) /\ red.sent = {}
    /\ QueuesOK(q) /\ PortTrue(q, red.dns, red.dnsid) /\ AirTrue(air, red.dns, red.dnsid)
    /\ prog = [p \in Progs |-> prog[p]] /\ \A p \in Progs : ProgOK(prog[p])
    /\ up \subseteq Servers /\ told \in BOOLEAN

\* The places of a list.
LEMMA ListDomain ==
    ASSUME NEW s, IsList(s)
    PROVE  DOMAIN s = 1..Len(s) /\ Len(s) \in Nat
BY DEF IsList

\* The empty list is one.
LEMMA EmptyList == IsList(<<>>) /\ Len(<<>>) = 0
<1>1. <<>> \in Seq({})
  OBVIOUS
<1> QED BY <1>1 DEF IsList

\* The frames that there are, from what is known of where they are.
LEMMA ServerNow ==
    ASSUME Core(red), QueuesOK(q), PortTrue(q, red.dns, red.dnsid), AirTrue(air, red.dns, red.dnsid)
    PROVE  Server(red)
<1>1. DOMAIN q["red"] = 1..Len(q["red"])
  BY ListDomain DEF QueuesOK, Owners
<1>2. ASSUME NEW f \in Frames PROVE TrueTo(f, red.dns, red.dnsid)
  <2>1. CASE f \in air
    BY <2>1 DEF AirTrue
  <2>2. CASE \E w \in red.pend : f = w.f
    BY <2>2 DEF Core, ToCard
  <2>3. CASE \E i \in DOMAIN q["red"] : q["red"][i].t = "frame" /\ f = q["red"][i].f
    BY <2>3, <1>1 DEF PortTrue
  <2> QED BY <2>1, <2>2, <2>3 DEF Frames
<1> QED BY <1>2 DEF Server

Added(Q, p, m) == [Q EXCEPT ![p] = Append(@, m)]
Taken(Q, p) == [Q EXCEPT ![p] = Tail(@)]

\* A true message goes into a port with room.
LEMMA AppendKeeps ==
    ASSUME NEW Q, QueuesOK(Q), NEW p \in Owners, ~(Len(Q[p]) >= Room[p]), NEW m,
           p = "red" => RedMail(m), p # "red" => ProgMail(m), NEW W, W = Added(Q, p, m)
    PROVE  /\ QueuesOK(W)
           /\ \A dns, n : PortTrue(Q, dns, n) /\ (p = "red" /\ m.t = "frame" => TrueTo(m.f, dns, n)) => PortTrue(W, dns, n)
<1>1. Q = [o \in Owners |-> Q[o]]
  BY DEF QueuesOK
<1>0. W = [o \in Owners |-> W[o]] /\ \A o \in Owners : W[o] = IF o = p THEN Append(Q[p], m) ELSE Q[o]
  <2>1. PICK a : a = Append(Q[p], m)
    OBVIOUS
  <2>2. W = [Q EXCEPT ![p] = a]
    BY <2>1 DEF Added, Taken
  <2> QED BY <1>1, <2>1, <2>2, ExceptIs
<1>2. \A o \in Owners : W[o] = IF o = p THEN Append(Q[p], m) ELSE Q[o]
  BY <1>0
<1>3. IsList(Q[p]) /\ Len(Q[p]) <= Room[p]
  BY DEF QueuesOK
<1>4. /\ IsList(W[p]) /\ Len(W[p]) = Len(Q[p]) + 1 /\ Len(Q[p]) \in Nat
      /\ \A i \in 1..Len(Q[p]) : W[p][i] = Q[p][i]
      /\ W[p][Len(Q[p]) + 1] = m
  <2>1. W[p] = Append(Q[p], m)
    BY <1>2
  <2> QED BY <1>3, <2>1, ListAppend
<1>5. Room[p] \in Nat
  BY NetAssumption DEF Owners
<1>6. ASSUME NEW o \in Owners PROVE IsList(W[o]) /\ Len(W[o]) <= Room[o]
  <2>1. CASE o = p
    BY <2>1, <1>4, <1>5
  <2>2. CASE o # p
    BY <2>2, <1>2 DEF QueuesOK
  <2> QED BY <2>1, <2>2
<1>7. ASSUME NEW i \in 1..Len(W["red"]) PROVE RedMail(W["red"][i])
  <2>1. CASE p = "red"
    BY <2>1, <1>4 DEF QueuesOK
  <2>2. CASE p # "red"
    <3>1. W["red"] = Q["red"]
      BY <2>2, <1>2 DEF Owners
    <3> QED BY <3>1 DEF QueuesOK
  <2> QED BY <2>1, <2>2
<1>8. ASSUME NEW o \in Progs, NEW i \in 1..Len(W[o]) PROVE ProgMail(W[o][i])
  <2>1. o \in Owners /\ o # "red" /\ \A j \in 1..Len(Q[o]) : ProgMail(Q[o][j])
    BY ConstantsAre DEF QueuesOK, Owners
  <2>2. CASE o = p
    BY <2>1, <2>2, <1>4
  <2>3. CASE o # p
    BY <2>1, <2>3, <1>2
  <2> QED BY <2>2, <2>3
<1>9. ASSUME NEW dns, NEW n, PortTrue(Q, dns, n), p = "red" /\ m.t = "frame" => TrueTo(m.f, dns, n)
      PROVE  PortTrue(W, dns, n)
  <2>1. CASE p = "red"
    <3>1. ASSUME NEW i \in 1..Len(W["red"]), W["red"][i].t = "frame" PROVE TrueTo(W["red"][i].f, dns, n)
      <4>1. CASE i <= Len(Q["red"])
        BY <1>4, <1>9, <2>1, <3>1, <4>1 DEF PortTrue
      <4>2. CASE i = Len(Q["red"]) + 1
        BY <1>4, <1>9, <2>1, <3>1, <4>2
      <4> QED BY <1>4, <2>1, <3>1, <4>1, <4>2
    <3> QED BY <3>1 DEF PortTrue
  <2>2. CASE p # "red"
    BY <1>2, <1>9, <2>2 DEF PortTrue, Owners
  <2> QED BY <2>1, <2>2
<1> QED BY <1>0, <1>6, <1>7, <1>8, <1>9 DEF QueuesOK

\* The first message leaves a port.
LEMMA TailKeeps ==
    ASSUME NEW Q, QueuesOK(Q), NEW p \in Owners, Q[p] # <<>>, NEW W, W = Taken(Q, p)
    PROVE  /\ QueuesOK(W) /\ (\A dns, n : PortTrue(Q, dns, n) => PortTrue(W, dns, n))
           /\ Head(Q[p]) = Q[p][1] /\ 1 \in 1..Len(Q[p])
<1>1. Q = [o \in Owners |-> Q[o]]
  BY DEF QueuesOK
<1>0. W = [o \in Owners |-> W[o]] /\ \A o \in Owners : W[o] = IF o = p THEN Tail(Q[p]) ELSE Q[o]
  <2>1. PICK a : a = Tail(Q[p])
    OBVIOUS
  <2>2. W = [Q EXCEPT ![p] = a]
    BY <2>1 DEF Added, Taken
  <2> QED BY <1>1, <2>1, <2>2, ExceptIs
<1>2. \A o \in Owners : W[o] = IF o = p THEN Tail(Q[p]) ELSE Q[o]
  BY <1>0
<1>3. IsList(Q[p]) /\ Len(Q[p]) <= Room[p]
  BY DEF QueuesOK
<1>4. /\ IsList(W[p]) /\ Len(W[p]) = Len(Q[p]) - 1 /\ Len(Q[p]) \in Nat \ {0}
      /\ \A i \in 1..Len(Q[p]) - 1 : W[p][i] = Q[p][i + 1]
      /\ Head(Q[p]) = Q[p][1]
  BY <1>2, <1>3, ListTail
<1>5. Room[p] \in Nat
  BY NetAssumption DEF Owners
<1>6. \A o \in Owners : IsList(W[o]) /\ Len(W[o]) <= Room[o]
  BY <1>2, <1>3, <1>4, <1>5 DEF QueuesOK
<1>7. ASSUME NEW i \in 1..Len(W["red"]) PROVE RedMail(W["red"][i])
  <2>1. CASE p = "red"
    BY <2>1, <1>4 DEF QueuesOK
  <2>2. CASE p # "red"
    <3>1. W["red"] = Q["red"]
      BY <2>2, <1>2 DEF Owners
    <3> QED BY <3>1 DEF QueuesOK
  <2> QED BY <2>1, <2>2
<1>8. ASSUME NEW o \in Progs, NEW i \in 1..Len(W[o]) PROVE ProgMail(W[o][i])
  <2>1. o \in Owners /\ \A j \in 1..Len(Q[o]) : ProgMail(Q[o][j])
    BY DEF QueuesOK, Owners
  <2>2. CASE o = p
    <3>1. i \in 1..Len(Q[p]) - 1 /\ i + 1 \in 1..Len(Q[p]) /\ W[p][i] = Q[p][i + 1]
      BY <1>4, <2>2
    <3> QED BY <2>1, <2>2, <3>1
  <2>3. CASE o # p
    BY <1>2, <2>1, <2>3
  <2> QED BY <2>2, <2>3
<1>9. ASSUME NEW dns, NEW n, PortTrue(Q, dns, n) PROVE PortTrue(W, dns, n)
  BY <1>2, <1>4, <1>9 DEF PortTrue, Owners
<1>10. QueuesOK(W)
  BY <1>0, <1>6, <1>7, <1>8 DEF QueuesOK
<1>11. 1 \in 1..Len(Q[p])
  BY <1>4
<1> QED BY <1>4, <1>9, <1>10, <1>11

\* A port is emptied.
LEMMA EmptyKeeps ==
    ASSUME NEW Q, QueuesOK(Q), NEW p \in Owners, NEW W, W = [Q EXCEPT ![p] = <<>>]
    PROVE  /\ QueuesOK(W) /\ (\A dns, n : PortTrue(Q, dns, n) => PortTrue(W, dns, n))
           /\ p = "red" => \A dns, n : PortTrue(W, dns, n)
<1>1. Q = [o \in Owners |-> Q[o]]
  BY DEF QueuesOK
<1>0. W = [o \in Owners |-> W[o]] /\ \A o \in Owners : W[o] = IF o = p THEN <<>> ELSE Q[o]
  <2>1. PICK a : a = <<>>
    OBVIOUS
  <2>2. W = [Q EXCEPT ![p] = a]
    BY <2>1 DEF Added, Taken
  <2> QED BY <1>1, <2>1, <2>2, ExceptIs
<1>2. \A o \in Owners : W[o] = IF o = p THEN <<>> ELSE Q[o]
  BY <1>0
<1>3. Room[p] \in Nat
  BY NetAssumption DEF Owners
<1>4. \A o \in Owners : IsList(W[o]) /\ Len(W[o]) <= Room[o]
  BY <1>2, <1>3, EmptyList DEF QueuesOK
<1>5. \A i \in 1..Len(W["red"]) : RedMail(W["red"][i])
  BY <1>2, EmptyList DEF QueuesOK, Owners
<1>6. \A o \in Progs : \A i \in 1..Len(W[o]) : ProgMail(W[o][i])
  BY <1>2, EmptyList, ConstantsAre DEF QueuesOK, Owners
<1>7. \A dns, n : (PortTrue(Q, dns, n) \/ p = "red") => PortTrue(W, dns, n)
  BY <1>2, EmptyList DEF PortTrue, Owners
<1> QED BY <1>0, <1>4, <1>5, <1>6, <1>7 DEF QueuesOK

\* The other machines answer what they are asked.
LEMMA RepliesTrue ==
    ASSUME NEW dns, NEW n, NEW f, CardFrame(f), TrueTo(f, dns, n), NEW g \in Replies(f) \cup Refusals(f)
    PROVE  AirFrame(g) /\ TrueTo(g, dns, n)
<1>1. CASE f.t = "query" /\ g \in Replies(f)
  <2>1. Replies(f) = {[t |-> "answer", id |-> f.id, addr |-> a] : a \in {Address(f.name), Nothing}}
    BY <1>1 DEF Replies
  <2>0. /\ Address(f.name).of = f.name /\ Address(f.name) = [of |-> Address(f.name).of, old |-> Address(f.name).old]
        /\ Nothing.of = "none" /\ Nothing = [of |-> Nothing.of, old |-> Nothing.old]
    BY DEF Nothing, Address
  <2>2. PICK a \in {Address(f.name), Nothing} : g = [t |-> "answer", id |-> f.id, addr |-> a]
    BY <1>1, <2>1
  <2>3. TrueTo(g, dns, n)
    BY <1>1, <2>0, <2>2 DEF TrueTo, Counted, Fits
  <2> QED BY <2>0, <2>2, <2>3 DEF AirFrame
<1>2. CASE ~(f.t = "query" /\ g \in Replies(f))
  <2>1. AirFrame(g) /\ g.t # "answer" /\ g.t # "query"
    <3>1. CASE g \in Refusals(f)
      BY <3>1 DEF Refusals, AirFrame
    <3>2. CASE g \in Replies(f)
      <4>1. CASE f.t = "discover"
        BY <3>2, <4>1 DEF Replies, AirFrame
      <4>2. CASE f.t = "request"
        BY <3>2, <4>2 DEF Replies, AirFrame
      <4>3. CASE f.t = "arp"
        BY <3>2, <4>3 DEF Replies, AirFrame
      <4>4. CASE f.t = "ntp"
        BY <3>2, <4>4 DEF Replies, AirFrame
      <4>5. CASE f.t = "echo"
        BY <3>2, <4>5 DEF Replies, AirFrame
      <4>6. CASE f.t = "dgram"
        BY <3>2, <4>6 DEF Replies, AirFrame
      <4>7. CASE f.t = "itisme"
        BY <3>2, <4>7 DEF Replies
      <4>8. CASE f.t = "nowhere"
        BY <3>2, <4>8 DEF Replies
      <4> QED BY <1>2, <3>2, <4>1, <4>2, <4>3, <4>4, <4>5, <4>6, <4>7, <4>8 DEF CardFrame
    <3> QED BY <3>1, <3>2
  <2> QED BY <2>1 DEF TrueTo, Counted, Fits
<1> QED BY <1>1, <1>2

\* A frame has finitely many answers.
LEMMA RepliesFinite ==
    ASSUME NEW f, CardFrame(f)
    PROVE  IsFiniteSet(Replies(f)) /\ IsFiniteSet(Refusals(f))
<1>1. \A a, b : IsFiniteSet({a, b})
  <2>1. ASSUME NEW a, NEW b PROVE IsFiniteSet({a, b})
    <3>1. PICK S : S = {a}
      OBVIOUS
    <3>2. IsFiniteSet(S)
      BY <3>1, FS_Singleton
    <3>3. IsFiniteSet(S \cup {b})
      BY <3>2, FS_AddElement
    <3>4. {a, b} = S \cup {b}
      BY <3>1
    <3> QED BY <3>3, <3>4
  <2> QED BY <2>1
<1>2. \A a : IsFiniteSet({a})
  BY FS_Singleton
<1>3. IsFiniteSet({})
  BY FS_EmptySet
<1>7. \A a, b, c, d : IsFiniteSet({a, b, c, d})
  <2>1. ASSUME NEW a, NEW b, NEW c, NEW d PROVE IsFiniteSet({a, b, c, d})
    <3>1. IsFiniteSet({a, b} \cup {c, d})
      BY <1>1, FS_Union
    <3>2. {a, b, c, d} = {a, b} \cup {c, d}
      OBVIOUS
    <3> QED BY <3>1, <3>2
  <2> QED BY <2>1
<1>4. \/ Replies(f) = {} \/ (\E a : Replies(f) = {a}) \/ (\E a, b : Replies(f) = {a, b})
      \/ \E a, b, c, d : Replies(f) \subseteq {a, b, c, d}
  <2>1. CASE f.t = "discover"
    <3>1. Replies(f) = {[t |-> "offer", x |-> f.x]}
      BY <2>1 DEF Replies
    <3> QED BY <3>1
  <2>2. CASE f.t = "request"
    <3> DEFINE ack(a, b) == [t |-> "ack", x |-> f.x, ntp |-> a, ns |-> b]
    <3>1. Replies(f) = {ack(a, b) : a, b \in BOOLEAN}
      BY <2>2 DEF Replies
    <3>2. BOOLEAN = {TRUE, FALSE}
      OBVIOUS
    <3>3. ASSUME NEW g \in Replies(f)
          PROVE  g \in {ack(TRUE, TRUE), ack(TRUE, FALSE), ack(FALSE, TRUE), ack(FALSE, FALSE)}
      <4>1. PICK a \in BOOLEAN : \E b \in BOOLEAN : g = ack(a, b)
        BY <3>1
      <4>2. PICK b \in BOOLEAN : g = ack(a, b)
        BY <4>1
      <4> HIDE DEF ack
      <4>3. (a = TRUE \/ a = FALSE) /\ (b = TRUE \/ b = FALSE)
        BY <3>2
      <4> QED BY <4>2, <4>3, Zenon
    <3> HIDE DEF ack
    <3> QED BY <3>3
  <2>3. CASE f.t = "arp"
    <3>1. Replies(f) = {[t |-> "isat", hop |-> f.hop]}
      BY <2>3 DEF Replies
    <3> QED BY <3>1
  <2>4. CASE f.t = "query"
    <3>1. Replies(f) = {[t |-> "answer", id |-> f.id, addr |-> a] : a \in {Address(f.name), Nothing}}
      BY <2>4 DEF Replies
    <3>2. Replies(f) = {[t |-> "answer", id |-> f.id, addr |-> Address(f.name)], [t |-> "answer", id |-> f.id, addr |-> Nothing]}
      BY <3>1
    <3> QED BY <3>2
  <2>5. CASE f.t = "ntp"
    <3>1. Replies(f) = {[t |-> "time", good |-> b] : b \in BOOLEAN}
      BY <2>5 DEF Replies
    <3>2. BOOLEAN = {TRUE, FALSE}
      OBVIOUS
    <3>3. Replies(f) = {[t |-> "time", good |-> TRUE], [t |-> "time", good |-> FALSE]}
      BY <3>1, <3>2
    <3> QED BY <3>3
  <2>6. CASE f.t = "echo"
    <3>1. Replies(f) = {[t |-> "echoed", s |-> f.s]}
      BY <2>6 DEF Replies
    <3> QED BY <3>1
  <2>7. CASE f.t = "dgram"
    <3>1. Replies(f) = {f}
      BY <2>7 DEF Replies
    <3> QED BY <3>1
  <2>8. CASE f.t \in {"itisme", "nowhere"}
    BY <2>8 DEF Replies
  <2> QED BY <2>1, <2>2, <2>3, <2>4, <2>5, <2>6, <2>7, <2>8 DEF CardFrame
<1>5. IsFiniteSet(Replies(f))
  <2>1. CASE \E a, b, c, d : Replies(f) \subseteq {a, b, c, d}
    BY <2>1, <1>7, FS_Subset
  <2> QED BY <1>1, <1>2, <1>3, <1>4, <2>1
<1>6. IsFiniteSet(Refusals(f))
  BY <1>2, <1>3 DEF Refusals
<1> QED BY <1>5, <1>6

\* True frames go out, and what they bring back is true.
LEMMA GoesKeeps ==
    ASSUME NEW dns, NEW n, NEW F, IsFiniteSet(F), \A f \in F : CardFrame(f) /\ TrueTo(f, dns, n),
           AirTrue(air, dns, n), Goes(F)
    PROVE  AirTrue(air', dns, n)
<1>1. CASE \E A \in SUBSET UNION {Replies(f) : f \in F} : air' = air \cup A
  <2> DEFINE C == {Replies(f) : f \in F}
             g == [f \in F |-> Replies(f)]
  <2>1. PICK A \in SUBSET UNION C : air' = air \cup A
    BY <1>1
  <2>2. IsFiniteSet(C)
    <3>1. g \in Surjection(F, C)
      BY DEF Surjection
    <3> HIDE DEF g, C
    <3> QED BY <3>1, FS_Surjection
  <2>3. \A T \in C : IsFiniteSet(T)
    BY RepliesFinite
  <2>4. \A h \in UNION C : AirFrame(h) /\ TrueTo(h, dns, n)
    BY RepliesTrue
  <2> HIDE DEF C
  <2>5. IsFiniteSet(UNION C)
    BY <2>2, <2>3, FS_UNION
  <2>6. IsFiniteSet(A)
    BY <2>1, <2>5, FS_Subset
  <2>7. IsFiniteSet(air')
    BY <2>1, <2>6, FS_Union DEF AirTrue
  <2>8. Cardinality(air') <= MaxAir
    BY DEF Goes
  <2> QED BY <2>1, <2>4, <2>7, <2>8 DEF AirTrue
<1>2. CASE \E r \in UNION {Refusals(f) : f \in F} : air' = air \cup {r}
  <2>0. PICK f \in F : \E r \in Refusals(f) : air' = air \cup {r}
    BY <1>2
  <2>1. PICK r \in Refusals(f) : air' = air \cup {r}
    BY <2>0
  <2>2. AirFrame(r) /\ TrueTo(r, dns, n)
    BY <2>1, RepliesTrue
  <2>3. IsFiniteSet(air')
    BY <2>1, FS_AddElement DEF AirTrue
  <2>4. Cardinality(air') <= MaxAir
    BY DEF Goes
  <2> QED BY <2>1, <2>2, <2>3, <2>4 DEF AirTrue
<1> QED BY <1>1, <1>2 DEF Goes
-----------------------------------------------------------------------------
(***************************************************************************)
(* The steps of the servers.                                               *)
(***************************************************************************)

\* What is in the port and in the air is true to what a handler leaves.
LEMMA ServerTrue ==
    ASSUME QueuesOK(q), AirTrue(air, red.dns, red.dnsid), NEW X, Server(X)
    PROVE  PortTrue(q, X.dns, X.dnsid) /\ AirTrue(air, X.dns, X.dnsid)
<1>1. DOMAIN q["red"] = 1..Len(q["red"])
  BY ListDomain DEF QueuesOK, Owners
<1>2. \A f \in Frames : TrueTo(f, X.dns, X.dnsid)
  BY DEF Server
<1>3. PortTrue(q, X.dns, X.dnsid)
  BY <1>1, <1>2 DEF PortTrue, Frames
<1>4. AirTrue(air, X.dns, X.dnsid)
  BY <1>2 DEF AirTrue, Frames
<1> QED BY <1>3, <1>4

\* What has been taken from the list of messages, or given to the card, is gone.
LEMMA LessKeeps ==
    ASSUME NEW R, Core(R), Seen(R), NEW X,
           \/ X = [R EXCEPT !.sent = {}]
           \/ R.out # <<>> /\ X = [R EXCEPT !.out = Tail(@)]
    PROVE  /\ Core(X) /\ Seen(X) /\ X.dns = R.dns /\ X.dnsid = R.dnsid /\ (R.sent = {} => X.sent = {})
           /\ X = [R EXCEPT !.sent = {}] => X.sent = {}
<1>1. Fields(R) /\ Lease(R) /\ Users(R) /\ ToProgs(R.out) /\ ToCard(R)
  BY DEF Core
<1>2. CASE X = [R EXCEPT !.sent = {}]
  <2>1. /\ Fields(X) /\ X.dns = R.dns /\ X.dnsid = R.dnsid /\ X.out = R.out /\ X.pend = R.pend /\ X.sent = {}
        /\ (Lease(R) => Lease(X)) /\ (Users(R) => Users(X)) /\ (Seen(R) => Seen(X))
    BY <1>1, <1>2 DEF Fields, Lease, Users, Seen
  <2>2. ToCard(X)
    BY <1>1, <2>1, FS_EmptySet DEF ToCard
  <2> QED BY <1>1, <2>1, <2>2 DEF Core
<1>3. CASE R.out # <<>> /\ X = [R EXCEPT !.out = Tail(@)]
  <2>1. PICK o : o = Tail(R.out)
    OBVIOUS
  <2>2. X = [R EXCEPT !.out = o]
    BY <1>3, <2>1
  <2>3. /\ Fields(X) /\ X.dns = R.dns /\ X.dnsid = R.dnsid /\ X.out = o /\ X.pend = R.pend /\ X.sent = R.sent
        /\ (Lease(R) => Lease(X)) /\ (Users(R) => Users(X)) /\ (Seen(R) => Seen(X))
    BY <1>1, <2>2 DEF Fields, Lease, Users, Seen
  <2>4. ToProgs(o)
    <3>1. IsList(R.out)
      BY <1>1 DEF ToProgs
    <3>2. /\ IsList(o) /\ Len(o) = Len(R.out) - 1 /\ Len(R.out) \in Nat \ {0}
          /\ \A i \in 1..Len(R.out) - 1 : o[i] = R.out[i + 1]
      BY <1>3, <2>1, <3>1, ListTail
    <3> QED BY <1>1, <3>2 DEF ToProgs
  <2>5. ToCard(X)
    BY <1>1, <2>3 DEF ToCard
  <2>6. Core(X)
    BY <1>1, <2>3, <2>4, <2>5 DEF Core
  <2>7. X = [R EXCEPT !.sent = {}] => X.sent = {}
    BY <1>1 DEF Fields
  <2> QED BY <2>3, <2>6, <2>7
<1> QED BY <1>2, <1>3

\* A handler of the server, and the frames that it sends.
LEMMA RedReceivesKeeps == NetInv /\ RedReceives => NetInv'
<1> SUFFICES ASSUME NetInv, RedReceives PROVE NetInv'
  OBVIOUS
<1>1. /\ Core(red) /\ Seen(red) /\ red.sent = {} /\ QueuesOK(q) /\ PortTrue(q, red.dns, red.dnsid)
      /\ AirTrue(air, red.dns, red.dnsid)
  BY DEF NetInv
<1>2. /\ red.out = <<>> /\ q["red"] # <<>> /\ q' = [q EXCEPT !["red"] = Tail(@)]
      /\ UNCHANGED <<up, told, prog>>
  BY DEF RedReceives
<1>3. PICK X \in Handled(red, Head(q["red"])) : red' = [X EXCEPT !.sent = {}] /\ Goes(X.sent)
  BY DEF RedReceives
<1>4. "red" \in Owners
  BY DEF Owners
<1>5. /\ QueuesOK(q') /\ (\A dns, n : PortTrue(q, dns, n) => PortTrue(q', dns, n))
      /\ Head(q["red"]) = q["red"][1] /\ 1 \in 1..Len(q["red"])
  <2>1. q' = Taken(q, "red")
    BY <1>2 DEF Taken
  <2> QED BY <1>1, <1>2, <1>4, <2>1, TailKeeps
<1>6. /\ RedMail(Head(q["red"]))
      /\ Head(q["red"]).t = "frame" => TrueTo(Head(q["red"]).f, red.dns, red.dnsid)
  BY <1>1, <1>5 DEF QueuesOK, PortTrue
<1>7. Server(red)
  BY <1>1, ServerNow
<1>9. Server(X) /\ Seen(X)
  BY <1>1, <1>3, <1>6, <1>7, HandledKeeps
<1>10. PortTrue(q, X.dns, X.dnsid) /\ AirTrue(air, X.dns, X.dnsid)
  BY <1>1, <1>9, ServerTrue
<1>11. Core(red') /\ Seen(red') /\ red'.dns = X.dns /\ red'.dnsid = X.dnsid /\ red'.sent = {}
  <2>1. Core(X)
    BY <1>9 DEF Server
  <2> QED BY <2>1, <1>3, <1>9, LessKeeps
<1>12. AirTrue(air', X.dns, X.dnsid)
  <2>1. IsFiniteSet(X.sent) /\ \A f \in X.sent : CardFrame(f) /\ TrueTo(f, X.dns, X.dnsid)
    BY <1>9 DEF Server, Core, ToCard
  <2> QED BY <2>1, <1>3, <1>10, GoesKeeps
<1> QED BY <1>2, <1>5, <1>10, <1>11, <1>12 DEF NetInv

\* The server sends one message of those it has to send.
LEMMA RedSendsKeeps == NetInv /\ RedSends => NetInv'
<1> SUFFICES ASSUME NetInv, RedSends PROVE NetInv'
  OBVIOUS
<1> DEFINE h == Head(red.out)
           X == [red EXCEPT !.out = Tail(@)]
<1>1. /\ Core(red) /\ Seen(red) /\ red.sent = {} /\ QueuesOK(q) /\ PortTrue(q, red.dns, red.dnsid)
      /\ AirTrue(air, red.dns, red.dnsid)
  BY DEF NetInv
<1>2. red.out # <<>> /\ UNCHANGED <<up, told, air, prog, troubles>>
  BY DEF RedSends
<1>3. h.to \in Progs /\ ProgMail(h.m)
  <2>1. IsList(red.out) /\ \A i \in 1..Len(red.out) : red.out[i].to \in Progs /\ ProgMail(red.out[i].m)
    BY <1>1 DEF Core, ToProgs
  <2>2. h = red.out[1] /\ 1 \in 1..Len(red.out)
    BY <1>2, <2>1, ListTail
  <2> QED BY <2>1, <2>2
<1>4. Core(X) /\ Seen(X) /\ X.dns = red.dns /\ X.dnsid = red.dnsid /\ X.sent = {}
  BY <1>1, <1>2, LessKeeps
<1>5. CASE ~Full(h.to) /\ q' = [q EXCEPT ![h.to] = Append(@, h.m)] /\ red' = X
  <2>1. h.to \in Owners /\ h.to # "red" /\ ~(Len(q[h.to]) >= Room[h.to])
    BY <1>3, <1>5, ConstantsAre DEF Owners, Full
  <2> HIDE DEF h, X
  <2>2. QueuesOK(q') /\ PortTrue(q', red.dns, red.dnsid)
    <3>1. q' = Added(q, h.to, h.m)
      BY <1>5 DEF Added
    <3> QED BY <1>1, <1>3, <2>1, <3>1, AppendKeeps
  <2> QED BY <1>1, <1>2, <1>4, <1>5, <2>2 DEF NetInv
<1>6. CASE UNCHANGED q /\ red' = IF h.m.t = "dgram" THEN Cerrar(X, At(X, h.m.n)) ELSE X
  <2>1. CASE red' = X
    <3> HIDE DEF X
    <3> QED BY <1>1, <1>2, <1>4, <1>6, <2>1 DEF NetInv
  <2>2. CASE red' = Cerrar(X, At(X, h.m.n))
    <3> HIDE DEF X, h
    <3>1. PortTrue(q, X.dns, X.dnsid) /\ AirTrue(air, X.dns, X.dnsid)
      BY <1>1, <1>4
    <3>2. PICK S : S = X.socks \ At(X, h.m.n)
      OBVIOUS
    <3>3. red' = [X EXCEPT !.socks = S] /\ Fields(X)
      BY <2>2, <3>2, <1>4 DEF Cerrar, Core
    <3>4. /\ Fields(red') /\ red'.dns = X.dns /\ red'.dnsid = X.dnsid /\ red'.out = X.out /\ red'.pend = X.pend /\ red'.sent = X.sent
          /\ (Lease(X) => Lease(red')) /\ (Seen(X) => Seen(red'))
          /\ red'.clients = X.clients /\ red'.ping = X.ping /\ red'.socks = S
      BY <3>3 DEF Fields, Lease, Seen
    <3>5. Users(red')
      <4>1. Users(X)
        BY <1>4 DEF Core
      <4>2. IsFiniteSet(S) /\ Cardinality(S) <= Cardinality(X.socks)
        BY <3>2, <4>1, FS_Subset DEF Users
      <4>3. Cardinality(S) \in Nat /\ Cardinality(X.socks) \in Nat
        BY <4>1, <4>2, FS_CardinalityType DEF Users
      <4> QED BY <3>2, <3>4, <4>1, <4>2, <4>3, ConstantsAre DEF Users
    <3>6. Core(red')
      BY <1>4, <3>4, <3>5 DEF Core, ToCard
    <3> QED BY <1>1, <1>2, <1>4, <1>6, <3>1, <3>4, <3>6 DEF NetInv
  <2> QED BY <1>6, <2>1, <2>2
<1> QED BY <1>5, <1>6 DEF RedSends

\* A server that starts knows nothing, and no answer of before is for what it
\* has not asked yet.
LEMMA StartKeeps ==
    /\ Core(RedStart) /\ Seen(RedStart) /\ RedStart.sent = {}
    /\ \A f : f.t # "query" /\ (f.t = "answer" => f.addr.old) => TrueTo(f, RedStart.dns, RedStart.dnsid)
<1> DEFINE X == RedStart
<1>1. /\ Fields(X) /\ X.card = FALSE /\ X.st = 0 /\ X.tries = 0 /\ X.ip = FALSE /\ X.pend = {}
      /\ X.dns = [i \in 1..Slots |-> Free] /\ X.dnsid = 0 /\ X.hst = 0 /\ X.htries = 0 /\ X.clients = <<>>
      /\ X.ping = {} /\ X.socks = {} /\ X.sent = {} /\ X.out = <<>>
  BY DEF RedStart, Fields
<1> HIDE DEF X
<1>2. Lease(X)
  <2>1. X.card \in BOOLEAN /\ X.ip \in BOOLEAN /\ ~X.ip
    BY <1>1
  <2>2. X.st \in 0..3 /\ X.hst \in 0..2 /\ X.tries \in 0..Tries /\ X.htries \in 0..Tries
    BY <1>1, ConstantsAre
  <2> QED BY <2>1, <2>2 DEF Lease
<1>3. Questions(X.dns, X.dnsid)
  BY <1>1 DEF Questions
<1>4. Users(X)
  <2>1. IsFiniteSet(X.socks) /\ Cardinality(X.socks) = 0
    BY <1>1, FS_EmptySet
  <2>2. X.clients \in Seq(Progs) /\ Len(X.clients) = 0
    BY <1>1
  <2> QED BY <1>1, <2>1, <2>2, ConstantsAre DEF Users
<1>5. ToProgs(X.out)
  BY <1>1, EmptyList DEF ToProgs
<1>6. ToCard(X)
  BY <1>1, FS_EmptySet DEF ToCard
<1>7. \A f : f.t # "query" /\ (f.t = "answer" => f.addr.old) => TrueTo(f, X.dns, X.dnsid)
  BY <1>1 DEF TrueTo, Counted, Fits
<1>8. Seen(X)
  BY <1>1 DEF Seen
<1> QED BY <1>1, <1>2, <1>3, <1>4, <1>5, <1>6, <1>7, <1>8 DEF Core, X

\* An answer that has lost its server.
LEMMA OlderIs ==
    ASSUME NEW f, AirFrame(f), f.t = "answer"
    PROVE  AirFrame(Older(f)) /\ Older(f).t = "answer" /\ Older(f).addr.old
<1>1. PICK a, n, y : f = [t |-> "answer", id |-> n, addr |-> [of |-> a, old |-> y]]
  BY DEF AirFrame
<1>2. PICK yes : yes = TRUE
  OBVIOUS
<1>3. PICK x : x = [of |-> a, old |-> yes]
  OBVIOUS
<1>4. Older(f) = [t |-> "answer", id |-> n, addr |-> x]
  BY <1>1, <1>2, <1>3 DEF Older
<1>5. PICK g : g = Older(f)
  OBVIOUS
<1>6. g.t = "answer" /\ g.id = n /\ g.addr = x /\ x.of = a /\ x.old = yes
  BY <1>3, <1>4, <1>5
<1>7. AirFrame(g)
  BY <1>3, <1>4, <1>5, <1>6 DEF AirFrame
<1> QED BY <1>2, <1>5, <1>6, <1>7

\* The server dies, and what was sent to it with it.
LEMMA RedDiesKeeps == NetInv /\ RedDies => NetInv'
<1> SUFFICES ASSUME NetInv, RedDies PROVE NetInv'
  OBVIOUS
<1>1. /\ red' = RedStart /\ q' = [q EXCEPT !["red"] = <<>>] /\ up' = up \ {"red"} /\ UNCHANGED <<told, prog>>
      /\ air' = {Older(f) : f \in air}
  BY DEF RedDies
<1>2. QueuesOK(q') /\ PortTrue(q', RedStart.dns, RedStart.dnsid)
  <2>1. "red" \in Owners /\ QueuesOK(q)
    BY DEF Owners, NetInv
  <2> QED BY <1>1, <2>1, EmptyKeeps
<1>3. AirTrue(air', RedStart.dns, RedStart.dnsid)
  <2>0. IsFiniteSet(air) /\ Cardinality(air) <= MaxAir /\ \A f \in air : AirFrame(f)
    BY DEF NetInv, AirTrue
  <2>1. IsFiniteSet(air') /\ Cardinality(air') <= Cardinality(air)
    <3> DEFINE g == [f \in air |-> Older(f)]
    <3>1. g \in Surjection(air, air')
      BY <1>1 DEF Surjection
    <3> HIDE DEF g
    <3> QED BY <2>0, <3>1, FS_Surjection
  <2>2. Cardinality(air') <= MaxAir
    <3>1. Cardinality(air') \in Nat /\ Cardinality(air) \in Nat
      BY <2>0, <2>1, FS_CardinalityType
    <3> QED BY <2>0, <2>1, <3>1, ConstantsAre
  <2>3. ASSUME NEW h \in air' PROVE AirFrame(h) /\ TrueTo(h, RedStart.dns, RedStart.dnsid)
    <3>1. PICK f \in air : h = Older(f)
      BY <1>1
    <3>2. AirFrame(f)
      BY <2>0
    <3>3. AirFrame(h) /\ h.t # "query" /\ (h.t = "answer" => h.addr.old)
      <4>1. CASE f.t = "answer"
        BY <3>1, <3>2, <4>1, OlderIs
      <4>2. CASE f.t # "answer"
        BY <3>1, <3>2, <4>2 DEF Older, AirFrame
      <4> QED BY <4>1, <4>2
    <3> QED BY <3>3, StartKeeps
  <2> QED BY <2>1, <2>2, <2>3 DEF AirTrue
<1> QED BY <1>1, <1>2, <1>3, StartKeeps DEF NetInv

\* A message that comes to the port of the server.
LEMMA ToRedKeeps ==
    ASSUME NetInv, ~Full("red"), NEW m, RedMail(m), m.t = "frame" => TrueTo(m.f, red.dns, red.dnsid),
           q' = [q EXCEPT !["red"] = Append(@, m)]
    PROVE  QueuesOK(q') /\ PortTrue(q', red.dns, red.dnsid)
<1>1. "red" \in Owners /\ QueuesOK(q) /\ PortTrue(q, red.dns, red.dnsid) /\ ~(Len(q["red"]) >= Room["red"])
  BY DEF Owners, NetInv, Full
<1>2. q' = Added(q, "red", m)
  BY DEF Added
<1>3. /\ QueuesOK(q')
      /\ \A dns, n : PortTrue(q, dns, n) /\ ("red" = "red" /\ m.t = "frame" => TrueTo(m.f, dns, n)) => PortTrue(q', dns, n)
  BY <1>1, <1>2, AppendKeeps
<1> QED BY <1>1, <1>3

\* The driver says that there is a card.
LEMMA AnnounceKeeps == NetInv /\ Announce => NetInv'
<1> SUFFICES ASSUME NetInv, Announce PROVE NetInv'
  OBVIOUS
<1>1. PICK m : m = [t |-> "card"]
  OBVIOUS
<1>2. ~Full("red") /\ q' = [q EXCEPT !["red"] = Append(@, m)] /\ told' = TRUE /\ UNCHANGED <<up, red, air, prog>>
  BY <1>1 DEF Announce
<1>3. RedMail(m) /\ m.t # "frame"
  BY <1>1 DEF RedMail
<1>4. QueuesOK(q') /\ PortTrue(q', red.dns, red.dnsid)
  BY <1>2, <1>3, ToRedKeeps
<1> QED BY <1>2, <1>4 DEF NetInv

\* The alarm of each second.
LEMMA SecondKeeps == NetInv /\ Second => NetInv'
<1> SUFFICES ASSUME NetInv, Second PROVE NetInv'
  OBVIOUS
<1>1. PICK m : m = [t |-> "alarm"]
  OBVIOUS
<1>2. ~Full("red") /\ q' = [q EXCEPT !["red"] = Append(@, m)] /\ UNCHANGED <<up, red, told, air, prog>>
  BY <1>1 DEF Second
<1>3. RedMail(m) /\ m.t # "frame"
  BY <1>1 DEF RedMail
<1>4. QueuesOK(q') /\ PortTrue(q', red.dns, red.dnsid)
  BY <1>2, <1>3, ToRedKeeps
<1> QED BY <1>2, <1>4 DEF NetInv

\* What comes from outside: what was on its way, or what nobody has asked for.
LEMMA ArrivesKeeps == NetInv /\ Arrives => NetInv'
<1> SUFFICES ASSUME NetInv, Arrives PROVE NetInv'
  OBVIOUS
<1>1. PICK f \in air \cup {[t |-> "whois"], [t |-> "pinged"]} :
          /\ air' = air \ {f} \/ air' = air
          /\ IF Alive("red") THEN q' = [q EXCEPT !["red"] = Append(@, [t |-> "frame", f |-> f])]
                                  /\ UNCHANGED told
             ELSE told' = FALSE /\ UNCHANGED q
  BY DEF Arrives
<1>2. UNCHANGED <<up, red, prog>> /\ (Alive("red") => ~Full("red"))
  BY DEF Arrives
<1>3. AirFrame(f) /\ TrueTo(f, red.dns, red.dnsid)
  <2>1. CASE f \in air
    BY <2>1 DEF NetInv, AirTrue
  <2>2. CASE f \in {[t |-> "whois"], [t |-> "pinged"]}
    BY <2>2 DEF AirFrame, TrueTo, Counted, Fits
  <2> QED BY <2>1, <2>2
<1>4. AirTrue(air', red.dns, red.dnsid)
  <2>1. AirTrue(air, red.dns, red.dnsid)
    BY DEF NetInv
  <2>2. IsFiniteSet(air') /\ Cardinality(air') <= Cardinality(air)
    BY <1>1, <2>1, FS_Subset DEF AirTrue
  <2>3. Cardinality(air') \in Nat /\ Cardinality(air) \in Nat /\ MaxAir \in Nat
    BY <2>1, <2>2, FS_CardinalityType, ConstantsAre DEF AirTrue
  <2>4. Cardinality(air') <= MaxAir
    BY <2>1, <2>2, <2>3 DEF AirTrue
  <2> QED BY <1>1, <2>1, <2>2, <2>4 DEF AirTrue
<1>5. QueuesOK(q') /\ PortTrue(q', red.dns, red.dnsid) /\ told' \in BOOLEAN
  <2>1. CASE Alive("red")
    <3>1. PICK m : m = [t |-> "frame", f |-> f]
      OBVIOUS
    <3>2. RedMail(m) /\ TrueTo(m.f, red.dns, red.dnsid)
      BY <1>3, <3>1 DEF RedMail
    <3>3. ~Full("red") /\ q' = [q EXCEPT !["red"] = Append(@, m)] /\ told' = told
      BY <1>1, <1>2, <2>1, <3>1
    <3> QED BY <3>2, <3>3, ToRedKeeps DEF NetInv
  <2>2. CASE ~Alive("red")
    BY <1>1, <2>2 DEF NetInv
  <2> QED BY <2>1, <2>2
<1> QED BY <1>2, <1>4, <1>5 DEF NetInv
-----------------------------------------------------------------------------
(***************************************************************************)
(* The steps of the programs.                                              *)
(***************************************************************************)
LEMMA BecomesKeeps ==
    ASSUME NetInv, NEW p \in Progs, NEW s, ProgOK(s), Becomes(p, s)
    PROVE  prog' = [o \in Progs |-> prog'[o]] /\ \A o \in Progs : ProgOK(prog'[o])
BY DEF NetInv, Becomes

Waits(s, st, a, c) == [s EXCEPT !.st = st, !.alarm = a, !.call = c]

\* A program that waits.
LEMMA WaitsIs ==
    ASSUME NEW s, Shape(s), NEW st, NEW a, NEW c, NEW x, x = Waits(s, st, a, c)
    PROVE  Shape(x) /\ x.st = st /\ x.todo = s.todo /\ x.call = c
BY DEF Shape, Waits

\* A program whose call has ended.
LEMMA DoneIs ==
    ASSUME NEW s, ProgOK(s), NEW D, D = Done(s)
    PROVE  ProgOK(D)
<1>1. /\ Shape(D) /\ D.st = "free" /\ D.todo = s.todo
  BY DEF ProgOK, Shape, Done
<1> QED BY <1>1 DEF ProgOK

\* A program makes its next call.
LEMMA CallKeeps == ASSUME NetInv, NEW p \in Progs, Call(p) PROVE NetInv'
<1> DEFINE s == prog[p]
           k == Head(s.todo)
           next == [s EXCEPT !.todo = Tail(@)]
           b == [next EXCEPT !.st = "waiting", !.alarm = TRUE, !.call = [c |-> "take"]]
           asks(c) == [next EXCEPT !.st = "asking", !.call = c]
<1>1. s.st = "free" /\ s.todo # <<>> /\ UNCHANGED <<q, up, red, told, air, troubles>>
  BY DEF Call
<1>2. \/ Becomes(p, next) \/ Becomes(p, [next EXCEPT !.kept = FALSE]) \/ Becomes(p, b)
      \/ \E c : k # "take" /\ c.c = k /\ Becomes(p, asks(c))
  BY DEF Call, Take
<1>3. ProgOK(s)
  BY DEF NetInv
<1>4. PICK t : t = Tail(s.todo)
  OBVIOUS
<1>5. k \in Calls /\ t \in Seq(Calls)
  <2>1. s.todo \in Seq(Calls)
    BY <1>3 DEF ProgOK
  <2> QED BY <1>1, <1>4, <2>1
<1>6. next = [s EXCEPT !.todo = t]
  BY <1>4
<1> HIDE DEF k, next
<1>7. Shape(next) /\ next.st = "free" /\ next.todo = t
  BY <1>1, <1>3, <1>6 DEF ProgOK, Shape
<1>8. ASSUME NEW x, x = [next EXCEPT !.kept = FALSE] PROVE ProgOK(x)
  <2>1. PICK n : n = next /\ Shape(n)
    BY <1>7
  <2>2. PICK no : no = FALSE
    OBVIOUS
  <2>3. x = [n EXCEPT !.kept = no]
    BY <1>8, <2>1, <2>2
  <2>4. Shape(x) /\ x.st = n.st /\ x.todo = n.todo
    BY <2>1, <2>3 DEF Shape
  <2> QED BY <1>5, <1>7, <2>1, <2>4 DEF ProgOK
<1>9. ProgOK(b)
  <2>1. Shape(b) /\ b.st = "waiting" /\ b.todo = t
    <3>1. PICK a, c : a = TRUE /\ c = [c |-> "take"]
      OBVIOUS
    <3>2. b = Waits(next, "waiting", a, c)
      BY <3>1 DEF Waits
    <3> HIDE DEF b
    <3> QED BY <1>7, <3>2, WaitsIs
  <2> HIDE DEF b
  <2> QED BY <1>5, <2>1 DEF ProgOK
<1>10. \A c : k # "take" /\ c.c = k => ProgOK(asks(c))
  <2> SUFFICES ASSUME NEW c, k # "take", c.c = k PROVE ProgOK(asks(c))
    OBVIOUS
  <2>1. Shape(asks(c)) /\ asks(c).call = c /\ asks(c).todo = t
    <3>1. asks(c) = Waits(next, "asking", next.alarm, c)
      BY <1>7 DEF Waits, Shape
    <3> HIDE DEF asks
    <3> QED BY <1>7, <3>1, WaitsIs
  <2> HIDE DEF asks
  <2> QED BY <1>5, <2>1 DEF ProgOK
<1>11. ProgOK(next)
  BY <1>5, <1>7 DEF ProgOK
<1>12. \E x : ProgOK(x) /\ Becomes(p, x)
  <2> HIDE DEF b, asks
  <2> QED BY <1>2, <1>8, <1>9, <1>10, <1>11
<1> QED BY <1>1, <1>12, BecomesKeeps DEF NetInv

\* The request is one that the server knows.
LEMMA RequestIs ==
    ASSUME NEW p \in Progs, NEW c, c.c \in Calls \ {"take"}
    PROVE  RedMail(Request(p, c)) /\ Request(p, c).t # "frame"
BY DEF RedMail, Request, Calls

\* Its request goes into the port, or finds nobody.
LEMMA SendsKeeps == ASSUME NetInv, NEW p \in Progs, Sends(p) PROVE NetInv'
<1> DEFINE s == prog[p]
           c == [Done(s) EXCEPT !.sock = 0, !.kept = FALSE]
           w == [s EXCEPT !.st = "waiting", !.alarm = TRUE]
           m == Request(p, s.call)
<1>1. s.st = "asking" /\ UNCHANGED <<up, red, told, air, troubles>>
  BY DEF Sends
<1>2. /\ \/ ~Full("red") /\ q' = [q EXCEPT !["red"] = Append(@, m)]
         \/ UNCHANGED q
      /\ Becomes(p, Done(s)) \/ Becomes(p, c) \/ Becomes(p, w)
  <2>1. CASE /\ Alive("red") /\ ~Full("red")
             /\ q' = [q EXCEPT !["red"] = Append(@, m)]
             /\ Becomes(p, CASE s.call.c = "put" -> Done(s) [] s.call.c = "close" -> c [] OTHER -> w)
    BY <2>1
  <2>2. CASE /\ ~Alive("red") /\ UNCHANGED q
             /\ Becomes(p, IF s.call.c = "close" THEN c ELSE Done(s))
    BY <2>2
  <2> QED BY <2>1, <2>2 DEF Sends
<1>3. ProgOK(s)
  BY DEF NetInv
<1>4. ProgOK(Done(s)) /\ ProgOK(c) /\ ProgOK(w)
  <2>1. PICK D : D = Done(s)
    OBVIOUS
  <2>2. ProgOK(D) /\ D.st = "free"
    BY <1>3, <2>1, DoneIs DEF Done, ProgOK, Shape
  <2>3. ProgOK(c)
    <3>1. c = [D EXCEPT !.sock = 0, !.kept = FALSE]
      BY <2>1
    <3> HIDE DEF c
    <3>2. Shape(c) /\ c.st = "free" /\ c.todo = D.todo
      BY <2>2, <3>1 DEF ProgOK, Shape
    <3> QED BY <2>2, <3>2 DEF ProgOK
  <2>4. ProgOK(w)
    <3>1. Shape(w) /\ w.st = "waiting" /\ w.todo = s.todo
      <4>1. PICK a : a = TRUE
        OBVIOUS
      <4>2. w = Waits(s, "waiting", a, s.call) /\ Shape(s)
        BY <1>3, <4>1 DEF Waits, ProgOK, Shape
      <4> HIDE DEF w
      <4> QED BY <4>2, WaitsIs
    <3> HIDE DEF w
    <3> QED BY <1>3, <3>1 DEF ProgOK
  <2> QED BY <2>1, <2>2, <2>3, <2>4
<1>5. RedMail(m) /\ m.t # "frame"
  BY <1>1, <1>3, RequestIs DEF ProgOK
<1> HIDE DEF c, w, m
<1>6. QueuesOK(q') /\ PortTrue(q', red.dns, red.dnsid)
  BY <1>2, <1>5, ToRedKeeps DEF NetInv
<1>7. prog' = [o \in Progs |-> prog'[o]] /\ \A o \in Progs : ProgOK(prog'[o])
  BY <1>2, <1>4, BecomesKeeps
<1> QED BY <1>1, <1>6, <1>7 DEF NetInv

\* It takes a message and believes it or throws it away.
LEMMA ProgReceivesKeeps == ASSUME NetInv, NEW p \in Progs, ProgReceives(p) PROVE NetInv'
<1> DEFINE s == prog[p]
           m == Head(q[p])
           k == s.call.c
           r == [Done(s) EXCEPT !.sock = IF k \in {"open", "bind"} THEN m.n ELSE @]
           d == [s EXCEPT !.kept = @ \/ m.n = s.sock]
<1>1. /\ s.st = "waiting" /\ q[p] # <<>> /\ q' = [q EXCEPT ![p] = Tail(@)]
      /\ UNCHANGED <<up, red, told, air, troubles>>
      /\ Becomes(p, r) \/ Becomes(p, Done(s)) \/ Becomes(p, s) \/ Becomes(p, d)
  BY DEF ProgReceives
<1>2. ProgOK(s) /\ QueuesOK(q) /\ PortTrue(q, red.dns, red.dnsid)
  BY DEF NetInv
<1>3. QueuesOK(q') /\ PortTrue(q', red.dns, red.dnsid)
  <2>1. p \in Owners
    BY DEF Owners
  <2>2. q' = Taken(q, p)
    BY <1>1 DEF Taken
  <2> QED BY <1>1, <1>2, <2>1, <2>2, TailKeeps
<1>4. ProgOK(r)
  <2>1. PICK D : D = Done(s)
    OBVIOUS
  <2>2. PICK n : n = IF k \in {"open", "bind"} THEN m.n ELSE D.sock
    OBVIOUS
  <2>3. r = [D EXCEPT !.sock = n]
    BY <2>1, <2>2
  <2>4. ProgOK(D) /\ D.st = "free"
    BY <1>2, <2>1, DoneIs DEF Done, ProgOK, Shape
  <2> HIDE DEF r
  <2>5. Shape(r) /\ r.st = "free" /\ r.todo = D.todo
    BY <2>3, <2>4 DEF ProgOK, Shape
  <2> QED BY <2>4, <2>5 DEF ProgOK
<1>5. ProgOK(Done(s)) /\ ProgOK(d)
  <2>1. ProgOK(Done(s))
    BY <1>2, DoneIs
  <2>2. PICK b : b = (s.kept \/ m.n = s.sock)
    OBVIOUS
  <2>3. d = [s EXCEPT !.kept = b]
    BY <2>2
  <2> HIDE DEF d
  <2>4. Shape(d) /\ d.st = s.st /\ d.todo = s.todo
    BY <1>2, <2>3 DEF ProgOK, Shape
  <2>5. ProgOK(d)
    BY <1>1, <1>2, <2>4 DEF ProgOK
  <2> QED BY <2>1, <2>5
<1> HIDE DEF r, d
<1>6. prog' = [o \in Progs |-> prog'[o]] /\ \A o \in Progs : ProgOK(prog'[o])
  BY <1>1, <1>2, <1>4, <1>5, BecomesKeeps
<1> QED BY <1>1, <1>3, <1>6 DEF NetInv

\* A program dies.
LEMMA ProgDiesKeeps == ASSUME NetInv, NEW p \in Progs, ProgDies(p) PROVE NetInv'
<1> DEFINE s == prog[p]
           d == [Done(s) EXCEPT !.st = "dead", !.todo = <<>>, !.sock = 0, !.kept = FALSE]
<1>1. Becomes(p, d) /\ q' = [q EXCEPT ![p] = <<>>] /\ UNCHANGED <<up, red, told, air>>
  BY DEF ProgDies
<1>2. ProgOK(s) /\ QueuesOK(q) /\ PortTrue(q, red.dns, red.dnsid)
  BY DEF NetInv
<1>3. ProgOK(d)
  <2>1. PICK D : D = Done(s)
    OBVIOUS
  <2>2. ProgOK(D)
    BY <1>2, <2>1, DoneIs
  <2>3. d = [D EXCEPT !.st = "dead", !.todo = <<>>, !.sock = 0, !.kept = FALSE]
    BY <2>1
  <2> HIDE DEF d
  <2>4. Shape(d) /\ d.st = "dead" /\ d.todo = <<>>
    BY <2>2, <2>3 DEF ProgOK, Shape
  <2> QED BY <2>2, <2>4 DEF ProgOK
<1>4. QueuesOK(q') /\ PortTrue(q', red.dns, red.dnsid)
  <2>1. p \in Owners
    BY DEF Owners
  <2> QED BY <1>1, <1>2, <2>1, EmptyKeeps
<1> HIDE DEF d
<1> QED BY <1>1, <1>3, <1>4, BecomesKeeps DEF NetInv

\* A program starts with a script.
LEMMA ProgStartIs ==
    ASSUME NEW script \in Scripts, NEW k
    PROVE  ProgOK(ProgStart(script, k))
<1>1. script \in Seq(Calls)
  BY NetAssumption DEF Calls
<1>2. PICK no, x : no = FALSE /\ x = ProgStart(script, k)
  OBVIOUS
<1>3. x = [st |-> "free", todo |-> script, call |-> NoCall, alarm |-> no, kept |-> no, sock |-> 0, k |-> k]
  BY <1>2 DEF ProgStart
<1>4. Shape(x) /\ x.st = "free" /\ x.todo = script
  BY <1>3 DEF Shape
<1> QED BY <1>1, <1>2, <1>4 DEF ProgOK

\* Another program has the port of one that has died.
LEMMA ProgStartsKeeps == ASSUME NetInv, NEW p \in Progs, ProgStarts(p) PROVE NetInv'
<1>1. PICK script \in Scripts : Becomes(p, ProgStart(script, prog[p].k + 1))
  BY DEF ProgStarts
<1>2. UNCHANGED <<q, up, red, told, air>>
  BY DEF ProgStarts
<1>3. PICK x : x = ProgStart(script, prog[p].k + 1) /\ ProgOK(x)
  BY ProgStartIs
<1> QED BY <1>1, <1>2, <1>3, BecomesKeeps DEF NetInv

\* The alarm of a program.
LEMMA RingKeeps == ASSUME NetInv, NEW p \in Progs, Ring(p) PROVE NetInv'
<1>1. PICK m : m = [t |-> "alarm"]
  OBVIOUS
<1>2. ~Full(p) /\ q' = [q EXCEPT ![p] = Append(@, m)] /\ UNCHANGED <<up, red, told, air, prog>>
  BY <1>1 DEF Ring
<1>3. ProgMail(m)
  BY <1>1 DEF ProgMail
<1>4. /\ p \in Owners /\ p # "red" /\ ~(Len(q[p]) >= Room[p]) /\ QueuesOK(q) /\ PortTrue(q, red.dns, red.dnsid)
      /\ q' = Added(q, p, m)
  BY <1>2, ConstantsAre DEF Owners, NetInv, Full, Added
<1>5. QueuesOK(q') /\ PortTrue(q', red.dns, red.dnsid)
  BY <1>3, <1>4, AppendKeeps
<1> QED BY <1>2, <1>5 DEF NetInv
-----------------------------------------------------------------------------
\* The invariant holds at the start,
LEMMA InitNet == Init => NetInv
<1> SUFFICES ASSUME Init PROVE NetInv
  OBVIOUS
<1>1. red = RedStart /\ up = Servers /\ told = FALSE /\ air = {} /\ q = [p \in Owners |-> <<>>]
  BY DEF Init, Owners
<1>2. QueuesOK(q) /\ PortTrue(q, RedStart.dns, RedStart.dnsid)
  <2>1. \A p \in Owners : q[p] = <<>> /\ Room[p] \in Nat
    BY <1>1, NetAssumption DEF Owners
  <2>2. q = [p \in Owners |-> q[p]]
    BY <1>1
  <2>3. "red" \in Owners /\ \A p \in Progs : p \in Owners
    BY DEF Owners
  <2> QED BY <2>1, <2>2, <2>3, EmptyList DEF QueuesOK, PortTrue
<1>3. AirTrue(air, RedStart.dns, RedStart.dnsid)
  BY <1>1, FS_EmptySet, ConstantsAre DEF AirTrue
<1>4. prog = [p \in Progs |-> prog[p]] /\ \A p \in Progs : ProgOK(prog[p])
  <2>1. PICK s \in [Progs -> Scripts] : prog = [p \in Progs |-> ProgStart(s[p], 1)]
    BY DEF Init
  <2> QED BY <2>1, ProgStartIs
<1> QED BY <1>1, <1>2, <1>3, <1>4, StartKeeps DEF NetInv

\* every step keeps it,
LEMMA NextNet == NetInv /\ [Next]_vars => NetInv'
<1> SUFFICES ASSUME NetInv, [Next]_vars PROVE NetInv'
  OBVIOUS
<1>1. CASE RedReceives
  BY <1>1, RedReceivesKeeps
<1>2. CASE RedSends
  BY <1>2, RedSendsKeeps
<1>3. CASE RedDies
  BY <1>3, RedDiesKeeps
<1>4. CASE RedStarts
  BY <1>4 DEF RedStarts, NetInv, Servers
<1>5. CASE Announce
  BY <1>5, AnnounceKeeps
<1>6. CASE Arrives
  BY <1>6, ArrivesKeeps
<1>7. CASE UsbDies
  BY <1>7 DEF UsbDies, NetInv
<1>8. CASE UsbStarts
  BY <1>8 DEF UsbStarts, NetInv, Servers
<1>9. CASE Second
  BY <1>9, SecondKeeps
<1>10. CASE \E p \in Progs : Program(p)
  BY <1>10, CallKeeps, SendsKeeps, ProgReceivesKeeps, ProgDiesKeeps, ProgStartsKeeps, RingKeeps DEF Program
<1>11. CASE UNCHANGED vars
  BY <1>11 DEF vars, NetInv
<1> QED BY <1>1, <1>2, <1>3, <1>4, <1>5, <1>6, <1>7, <1>8, <1>9, <1>10, <1>11 DEF Next

\* and so it always holds.
LEMMA NetAlways == Spec => []NetInv
BY InitNet, NextNet, PTL DEF Spec

\* A set with one element at most.
LEMMA OneAtMost ==
    ASSUME NEW S, S = {} \/ \E x : S = {x}
    PROVE  Cardinality(S) <= 1
<1>1. CASE S = {}
  BY <1>1, FS_EmptySet
<1>2. CASE \E x : S = {x}
  BY <1>2, FS_Singleton
<1> QED BY <1>1, <1>2

\* The state of the network server has its shape whatever comes from outside:
\* an address is only held with a lease, and no two questions to the name server
\* have the same number (user/red.c, dhcp_llego(), dns_consultar()).
THEOREM NetTypeOK == Spec => []TypeOK
<1>1. NetInv => TypeOK
  <2> SUFFICES ASSUME NetInv PROVE TypeOK
    OBVIOUS
  <2>1. /\ Lease(red) /\ Questions(red.dns, red.dnsid) /\ Users(red) /\ ToCard(red) /\ QueuesOK(q)
        /\ AirTrue(air, red.dns, red.dnsid) /\ up \subseteq Servers /\ told \in BOOLEAN
    BY DEF NetInv, Core
  <2>2. \A p \in DOMAIN q : Len(q[p]) <= Room[p]
    BY <2>1 DEF QueuesOK
  <2>3. Cardinality(red.pend) <= 1
    BY <2>1, OneAtMost DEF ToCard
  <2>4. Cardinality(red.ping) <= 1
    BY <2>1, OneAtMost DEF Users
  <2>5. ASSUME NEW i \in 1..Slots, red.dns[i] # Free
        PROVE  red.dns[i].tries \in 1..Tries /\ \A j \in 1..Slots \ {i} : red.dns[j].id # red.dns[i].id
    <3>1. Question(red.dns[i])
      BY <2>1, <2>5 DEF Questions
    <3>2. ASSUME NEW j \in 1..Slots \ {i} PROVE red.dns[j].id # red.dns[i].id
      <4>1. CASE red.dns[j] = Free
        BY <3>1, <4>1 DEF Question, Free
      <4>2. CASE red.dns[j] # Free
        BY <2>1, <2>5, <4>2 DEF Questions
      <4> QED BY <4>1, <4>2
    <3> QED BY <3>1, <3>2 DEF Question
  <2> QED BY <2>1, <2>2, <2>3, <2>4, <2>5 DEF TypeOK, Lease, Users, AirTrue
<1> QED BY <1>1, NetAlways, PTL

\* Somebody sees to those who wait for the time, after any failure and any death
\* (user/red.c, hora_fallo(), hora_resuelto(), ntp_llego(), dns_tick()).
THEOREM SomebodyForClients == Spec => []ClientsHaveSomebody
<1>1. NetInv => ClientsHaveSomebody
  BY DEF NetInv, Core, Lease, Seen, ClientsHaveSomebody
<1> QED BY <1>1, NetAlways, PTL

\* A program is told the address of the name that it comes with, whatever
\* answers are late, lost or repeated, and whatever questions have taken the
\* place of the one that they answer, but for those to a server that has died
\* (user/red.c, dns_llego()).
THEOREM MailIsAlwaysRight == Spec => []MailIsRight
<1>1. NetInv => MailIsRight
  <2> SUFFICES ASSUME NetInv, NEW p \in Progs, NEW i \in DOMAIN q[p]
               PROVE  q[p][i].t = "resolved" => q[p][i].addr.of = q[p][i].name \/ q[p][i].addr.old
    BY DEF MailIsRight
  <2>1. DOMAIN q[p] = 1..Len(q[p])
    BY ListDomain DEF NetInv, QueuesOK, Owners
  <2> QED BY <2>1 DEF NetInv, QueuesOK, ProgMail
<1> QED BY <1>1, NetAlways, PTL
=============================================================================
