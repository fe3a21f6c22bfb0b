----------------------------- MODULE UsbProofs -----------------------------
(***************************************************************************)
(* What the USB driver promises, proved for every set of boards, any       *)
(* number of sectors, of tries, of requests and of faults of the bus:      *)
(* devices that have been given an address are told apart, and what the    *)
(* file server is told of a sector is what the stick holds.                *)
(*                                                                         *)
(* Both follow from one inductive invariant, UsbInv.  Its part Names says  *)
(* what has which address while the ports are taken one by one; Dialogue   *)
(* says what a stick that has the tag of the order that is running has     *)
(* done of it; Doubt says of which sectors the stick may still have        *)
(* something to write.                                                     *)
(***************************************************************************)
EXTENDS Usb, FiniteSetTheorems, TLAPS

Cmds   == {Nothing, "inquiry", "ready", "sense", "capacity", "read", "write"}
Stages == {"over", "cbw", "data", "csw", "again", "ok", "refused", "error"}
Heard  == {"yes", "no", "stall"}

Orders == [cmd : Cmds, lba : Lba, val : Data, stage : Stages, got : Data, whole : BOOLEAN]
Drives == [st : {"idle", "in", "out", "status", "locked"}, cmd : Cmds, lba : Lba, tag : Nat,
           bad : BOOLEAN, in : 0..1, out : 0..1, halt : SUBSET {"in", "out"}]
Hosts  == [in : 0..1, out : 0..1, tag : Nat]
Files  == [st : {"unaware", "free", "waiting"}, op : {Nothing, "read", "write"}, lba : Lba,
           val : Data, mnt : BOOLEAN, asks : 0..MaxAsks]

BusTyped ==
    /\ board \in Boards
    /\ dev \in [Ports -> [on : BOOLEAN, addr : Nat]]
    /\ at \in Places /\ step \in Nat \ {0} /\ todo \in Seq(Ports)
    /\ next \in Nat /\ who \in Ports \cup {0} /\ taken \subseteq Ports
    /\ known \in [disk : Nat, keyboard : Nat, card : Nat, size : Nat]
    /\ faults \in 0..MaxFaults

DiskTyped ==
    /\ host \in Hosts /\ order \in Orders /\ drive \in Drives
    /\ sector \in [Lba -> Data] /\ told \in [Lba -> Data] /\ fs \in Files

\* While the ports are taken one by one, those to come are off; who has just
\* answered is at address 0; and the names given are below the next one.
OnePort == {"next", "who", "address", "look", "card", "disk"}
Named   == {"look", "card", "disk"}

Names ==
    /\ next > Hub
    /\ \/ at \in OnePort \cup {"serve", "gone"}
       \/ taken = {} /\ \A p \in Ports : ~dev[p].on
    /\ at \in OnePort \ {"next"} => todo # <<>>
    /\ at \in OnePort =>
          /\ \A i \in DOMAIN todo : at = "next" \/ i # 1 => ~dev[todo[i]].on
          /\ \A i, j \in DOMAIN todo : i # j => todo[i] # todo[j]
    /\ at = "address" => who \in Ports /\ dev[who].on /\ dev[who].addr = 0
    /\ \A p \in taken :
          /\ dev[p].on /\ dev[p].addr > Hub
          /\ \/ dev[p].addr < next
             \/ at \in Named /\ p = who /\ dev[p].addr = next
    /\ \A p, q \in taken : p # q => dev[p].addr # dev[q].addr

\* The stick has the tag of the order that is running once it has taken its
\* command, and with it which sector; then the two toggles go together, and
\* data that went well are those of the sector.
Its == order.stage \notin {"over", "cbw"} /\ drive.tag = host.tag

Dialogue ==
    /\ drive.tag <= host.tag
    /\ order.stage = "cbw" => drive.tag < host.tag
    /\ Its => drive.cmd = order.cmd /\ drive.lba = order.lba
    /\ Its /\ order.stage = "data" => host.out = drive.out
    /\ Its /\ order.cmd \in {"read", "write"} /\ order.stage \in {"csw", "again", "ok"} /\ order.whole
         => sector[order.lba] = IF order.cmd = "read" THEN order.got ELSE order.val
    /\ order.stage = "ok" => Its /\ drive.st # "out" /\ (order.whole \/ order.cmd = "ready")

\* Whose the order is that is running.
Asked ==
    /\ at \notin {"serve", "gone"} =>
          /\ \A l \in Lba : told[l] = Nothing
          /\ fs.st = "unaware" /\ order.cmd # "write"
    /\ at \notin {"serve", "disk"} => order.stage = "over"
    /\ at = "serve" /\ order.stage # "over" =>
           /\ fs.st = "waiting"
           /\ order.cmd = fs.op /\ order.lba = fs.lba /\ order.val = fs.val
    /\ fs.st = "waiting" => fs.op \in {"read", "write"}

\* Of a sector that the stick may still write, whatever it was told before,
\* nobody believes anything.
Doubt == drive.st = "out" => told[drive.lba] = Nothing \/ InHand(drive.lba)

UsbInv == BusTyped /\ DiskTyped /\ Names /\ Dialogue /\ Asked /\ Doubt /\ AnswersAreTrue
-----------------------------------------------------------------------------
\* The ports of a board.
LEMMA BoardPorts ==
    ASSUME board \in Boards
    PROVE  /\ DOMAIN board \subseteq Ports /\ DOMAIN board \subseteq Nat \ {0}
           /\ IsFiniteSet(DOMAIN board)
BY UsbAssumption DEF Ports

\* Faults that are spent are still within the bound.
LEMMA Spent ==
    ASSUME faults \in 0..MaxFaults, NEW n \in Nat, Spend(n)
    PROVE  faults' \in 0..MaxFaults
BY UsbAssumption DEF Spend

\* A control transfer keeps the faults within their bound, however it ends.
LEMMA Controlled ==
    ASSUME faults \in 0..MaxFaults, NEW a,
           Control(a, "done") \/ Control(a, "failed") \/ Control(a, "unheard")
    PROVE  faults' \in 0..MaxFaults
BY UsbAssumption DEF Control, Spend

\* Who hears is on, at that address, and on the board.
LEMMA WhoHears ==
    ASSUME board \in Boards, NEW a, NEW p \in Hearing(a)
    PROVE  p \in DOMAIN board /\ p \in Ports /\ dev[p].on /\ dev[p].addr = a
BY BoardPorts DEF Hearing

\* The ports but the first.
LEMMA TheRest ==
    ASSUME NEW s \in Seq(Ports), s # <<>>
    PROVE  /\ Head(s) = s[1] /\ Head(s) \in Ports /\ 1 \in DOMAIN s
           /\ Tail(s) \in Seq(Ports)
           /\ \A i \in DOMAIN Tail(s) : i + 1 \in DOMAIN s /\ Tail(s)[i] = s[i + 1] /\ i \in Nat \ {0}
OBVIOUS

\* The values of sectors.
LEMMA DataAre == Nothing \in Data /\ "old" \in Data /\ "torn" \in Data /\ \A v \in Val : v \in Data
BY DEF Data

\* Before the driver starts nothing is on and nobody has been asked anything.
LEMMA InitUsb == Init => UsbInv
<1> SUFFICES ASSUME Init PROVE UsbInv
  OBVIOUS
<1>1. BusTyped
  BY UsbAssumption DEF Init, BusTyped, Places, Hub
<1>2. DiskTyped
  BY UsbAssumption, DataAre DEF Init, DiskTyped, Hosts, Orders, Drives, Files, Cmds, Stages, Idle
<1>3. Names
  BY DEF Init, Names, Hub, OnePort, Named
<1>4. Dialogue /\ Asked /\ Doubt /\ AnswersAreTrue
  BY DEF Init, Dialogue, Its, Asked, Doubt, AnswersAreTrue, Idle, Nothing
<1>5. QED
  BY <1>1, <1>2, <1>3, <1>4 DEF UsbInv
-----------------------------------------------------------------------------
\* A transfer that is not heard ends otherwise in the same way.
LEMMA UnheardIs ==
    ASSUME NEW d, NEW s, NEW h, NEW g, NEW n \in Nat
    PROVE  LET e == End(d, s, h, g, n)
           IN  End(e.drive, e.sector, "no", e.got, e.cost + 1) = End(d, s, "no", g, n + 1)
BY DEF End

\* After a stall the stick is where it was, with or without its halt.
LEMMA ClearedIs ==
    ASSUME DiskTyped, NEW end \in {"in", "out"}, NEW x \in Cleared(end)
    PROVE  \E d \in Drives : \E n \in {0, 1} :
              /\ x = End(d, sector, "stall", Silence, n)
              /\ d.tag = drive.tag /\ d.cmd = drive.cmd /\ d.lba = drive.lba /\ d.st = drive.st
<1>1. PICK a : a = [drive EXCEPT ![end] = 0]
  OBVIOUS
<1>2. /\ a \in Drives /\ a.halt = drive.halt
      /\ a.tag = drive.tag /\ a.cmd = drive.cmd /\ a.lba = drive.lba /\ a.st = drive.st
  <2>1. CASE end = "in"
    BY <1>1, <2>1 DEF DiskTyped, Drives
  <2>2. CASE end = "out"
    BY <1>1, <2>2 DEF DiskTyped, Drives
  <2>3. QED
    BY <2>1, <2>2
<1>3. PICK d : d = [a EXCEPT !.halt = @ \ {end}]
  OBVIOUS
<1>4. d = [drive EXCEPT ![end] = 0, !.halt = @ \ {end}]
  BY <1>1, <1>2, <1>3
<1>5. d \in Drives /\ d.tag = a.tag /\ d.cmd = a.cmd /\ d.lba = a.lba /\ d.st = a.st
  BY <1>2, <1>3 DEF Drives
<1>6. x = End(d, sector, "stall", Silence, 0) \/ x = End(drive, sector, "stall", Silence, 1)
  BY <1>4 DEF Cleared
<1>7. QED
  BY <1>2, <1>5, <1>6 DEF DiskTyped

\* A transfer towards the stick: what it may leave behind.
Towards(p, d, s, h) ==
    /\ d \in Drives /\ s \in [Lba -> Data]
    /\ \/ s = sector
       \/ /\ drive.st = "out" /\ d.st = "status"
          /\ s = [sector EXCEPT ![drive.lba] = IF p.what = "data" THEN p.val ELSE "torn"]
    /\ \/ /\ d.tag = drive.tag /\ d.cmd = drive.cmd /\ d.lba = drive.lba
          /\ d.st = "out" => drive.st = "out"
       \/ /\ p.what = "cbw" /\ host.out = drive.out /\ d.out = 1 - drive.out
          /\ d.tag = p.tag /\ d.cmd = p.cmd /\ d.lba = p.lba
          /\ d.st = "out" => p.cmd = "write"
    /\ h = "yes" /\ p.what = "data" /\ host.out = drive.out =>
          s = [sector EXCEPT ![drive.lba] = p.val] /\ d.st = "status"

\* Every end of a transfer towards the stick is one of those.
LEMMA OutEndsAre ==
    ASSUME DiskTyped, NEW p,
           p.what \in {"cbw", "data"},
           p.what = "cbw" => p.cmd \in Cmds /\ p.lba \in Lba /\ p.tag \in Nat,
           p.what = "data" => p.val \in Data,
           NEW e \in OutEnds(p)
    PROVE  /\ e.heard \in Heard /\ e.cost \in Nat
           /\ Towards(p, e.drive, e.sector, e.heard)
<1> DEFINE Good(x) == \E d, s, h, g : \E n \in Nat :
                        x = End(d, s, h, g, n) /\ h \in Heard /\ Towards(p, d, s, h)
<1>1. Towards(p, drive, sector, "no") /\ Towards(p, drive, sector, "stall")
  BY DEF DiskTyped, Towards
<1>1a. Good(NoEnd(0)) /\ Good(NoEnd(1)) /\ Good(End(drive, sector, "stall", Silence, 0))
       /\ Good(End(drive, sector, "stall", Silence, 1))
  BY <1>1 DEF NoEnd, Heard
<1>2. ASSUME NEW x \in Cleared("out") PROVE Good(x)
  <2>1. PICK d \in Drives, n \in {0, 1} :
          /\ x = End(d, sector, "stall", Silence, n)
          /\ d.tag = drive.tag /\ d.cmd = drive.cmd /\ d.lba = drive.lba /\ d.st = drive.st
    BY <1>2, ClearedIs
  <2>2. Towards(p, d, sector, "stall")
    BY <2>1 DEF DiskTyped, Towards
  <2>3. n \in Nat
    OBVIOUS
  <2>4. QED
    BY <2>1, <2>2, <2>3 DEF Heard
<1>3. ASSUME host.out # drive.out PROVE Good(End(drive, sector, "yes", Silence, 0))
  <2>1. Towards(p, drive, sector, "yes")
    BY <1>3 DEF DiskTyped, Towards
  <2>2. QED
    BY <2>1 DEF Heard
<1>4. ASSUME host.out = drive.out, NEW x \in Takes(p) PROVE Good(x)
  <2>1. CASE drive.st = "idle" /\ p.what = "cbw"
    <3>1. PICK b \in BOOLEAN : \E n \in {0, 1} :
            LET y == End(TakesCommand(p, b), sector, "yes", Silence, n)
            IN  x = y \/ x = End(y.drive, y.sector, "no", y.got, y.cost + 1)
      <4> DEFINE ends == {End(TakesCommand(p, bad), sector, "yes", Silence, IF bad THEN 1 ELSE 0) :
                            bad \in BOOLEAN}
      <4>1. x \in ends \cup Unheard(ends)
        BY <1>4, <2>1 DEF Takes
      <4>2. PICK y \in ends : x = y \/ x = End(y.drive, y.sector, "no", y.got, y.cost + 1)
        BY <4>1 DEF Unheard
      <4>3. PICK b \in BOOLEAN :
              y = End(TakesCommand(p, b), sector, "yes", Silence, IF b THEN 1 ELSE 0)
        OBVIOUS
      <4>4. CASE b
        BY <4>2, <4>3, <4>4
      <4>5. CASE ~b
        BY <4>2, <4>3, <4>5
      <4>6. QED
        BY <4>4, <4>5
    <3>2. PICK d : d = TakesCommand(p, b)
      OBVIOUS
    <3>3. /\ d \in Drives /\ d.tag = p.tag /\ d.cmd = p.cmd /\ d.lba = p.lba
          /\ d.out = 1 - drive.out
          /\ d.st = "out" => p.cmd = "write"
      <4>1. PICK i, st, h :
              /\ i = 1 - drive.out /\ st = IF b THEN "status" ELSE Phase(p.cmd)
              /\ h = IF b /\ p.cmd # "ready" THEN drive.halt \cup {Phase(p.cmd)} ELSE drive.halt
        OBVIOUS
      <4>2. /\ i \in 0..1 /\ st \in {"in", "out", "status"} /\ h \in SUBSET {"in", "out"}
            /\ st = "out" => p.cmd = "write"
        BY <4>1 DEF Phase, DiskTyped, Drives
      <4>3. d = [drive EXCEPT !.cmd = p.cmd, !.lba = p.lba, !.tag = p.tag, !.bad = b,
                              !.out = i, !.st = st, !.halt = h]
        BY <3>2, <4>1 DEF TakesCommand
      <4>4. /\ d \in Drives /\ d.tag = p.tag /\ d.cmd = p.cmd /\ d.lba = p.lba
            /\ d.out = i /\ d.st = st
        BY <2>1, <4>2, <4>3 DEF DiskTyped, Drives
      <4>5. QED
        BY <4>1, <4>2, <4>4
    <3>4. PICK n \in {0, 1} : \/ x = End(d, sector, "yes", Silence, n)
                              \/ x = End(d, sector, "no", Silence, n + 1)
      BY <3>1, <3>2, UnheardIs
    <3>5. Towards(p, d, sector, "yes") /\ Towards(p, d, sector, "no")
      BY <1>4, <2>1, <3>3 DEF DiskTyped, Towards
    <3>6. n \in Nat /\ n + 1 \in Nat
      OBVIOUS
    <3>7. QED
      BY <3>4, <3>5, <3>6 DEF Heard
  <2>2. CASE drive.st = "idle" /\ p.what = "data"
    <3>1. PICK d : d = [drive EXCEPT !.st = "locked"]
      OBVIOUS
    <3>2. d \in Drives /\ d.tag = drive.tag /\ d.cmd = drive.cmd /\ d.lba = drive.lba /\ d.st = "locked"
      BY <3>1 DEF DiskTyped, Drives
    <3>3. x = End(d, sector, "stall", Silence, 0)
      BY <1>4, <2>2, <3>1 DEF Takes
    <3>4. Towards(p, d, sector, "stall")
      BY <3>2 DEF DiskTyped, Towards
    <3>5. QED
      BY <3>3, <3>4 DEF Heard
  <2>3. CASE drive.st = "out"
    <3>1. PICK d, s : /\ d = [drive EXCEPT !.out = 1 - @, !.st = "status"]
                      /\ s = [sector EXCEPT ![drive.lba] = IF p.what = "data" THEN p.val ELSE "torn"]
      OBVIOUS
    <3>2. \/ x = End(d, s, "yes", Silence, 0)
          \/ LET y == End(d, s, "yes", Silence, 0)
             IN  x = End(y.drive, y.sector, "no", y.got, y.cost + 1)
      BY <1>4, <2>3, <3>1 DEF Takes, Unheard
    <3>3. x = End(d, s, "yes", Silence, 0) \/ x = End(d, s, "no", Silence, 0 + 1)
      BY <3>2, UnheardIs
    <3>4. d \in Drives /\ d.tag = drive.tag /\ d.cmd = drive.cmd /\ d.lba = drive.lba /\ d.st = "status"
      <4>1. PICK i : i = 1 - drive.out
        OBVIOUS
      <4>2. i \in 0..1
        BY <4>1 DEF DiskTyped, Drives
      <4>3. d = [drive EXCEPT !.out = i, !.st = "status"]
        BY <3>1, <4>1
      <4>4. QED
        BY <4>2, <4>3 DEF DiskTyped, Drives
    <3>5. s \in [Lba -> Data]
      BY <3>1, DataAre DEF DiskTyped
    <3>6. Towards(p, d, s, "yes") /\ Towards(p, d, s, "no")
      BY <2>3, <3>1, <3>4, <3>5 DEF Towards
    <3>7. QED
      BY <3>3, <3>6 DEF Heard
  <2>4. CASE drive.st \notin {"idle", "out"}
    <3>1. x = NoEnd(0)
      BY <1>4, <2>4 DEF Takes
    <3>2. QED
      BY <3>1, <1>1a
  <2>5. QED
    BY <2>1, <2>2, <2>3, <2>4
<1>5. Good(e)
  <2>1. CASE ~Reached
    BY <2>1, <1>1a DEF OutEnds
  <2>2. CASE Reached
    <3>1. \/ e = NoEnd(1)
          \/ e = End(drive, sector, "stall", Silence, 0)
          \/ e \in Cleared("out")
          \/ host.out # drive.out /\ e = End(drive, sector, "yes", Silence, 0)
          \/ host.out = drive.out /\ e \in Takes(p)
      BY <2>2 DEF OutEnds
    <3>2. QED
      BY <3>1, <1>1a, <1>2, <1>3, <1>4
  <2>3. QED
    BY <2>1, <2>2
<1>6. QED
  BY <1>5 DEF End

\* A transfer from the stick: it writes nothing, and says what it has to say.
From(d, h, g) ==
    /\ d \in Drives
    /\ d.tag = drive.tag /\ d.cmd = drive.cmd /\ d.lba = drive.lba
    /\ d.st = "out" => drive.st = "out"
    /\ h = "yes" => drive.st \in {"in", "status"} /\ g = Packet /\ d.st # "out"

\* Every end of a transfer from the stick is one of those.
LEMMA InEndsAre ==
    ASSUME DiskTyped, NEW e \in InEnds
    PROVE  /\ e.heard \in Heard /\ e.cost \in Nat /\ e.sector = sector
           /\ From(e.drive, e.heard, e.got)
<1> DEFINE Good(x) == \E d, h, g : \E n \in Nat :
                        x = End(d, sector, h, g, n) /\ h \in Heard /\ From(d, h, g)
<1>1. Good(NoEnd(0)) /\ Good(NoEnd(1)) /\ Good(End(drive, sector, "stall", Silence, 0))
      /\ Good(End(drive, sector, "stall", Silence, 1))
  <2>1. From(drive, "no", Silence) /\ From(drive, "stall", Silence)
    BY DEF DiskTyped, From
  <2>2. QED
    BY <2>1 DEF NoEnd, Heard
<1>2. ASSUME NEW x \in Cleared("in") PROVE Good(x)
  <2>1. PICK d \in Drives, n \in {0, 1} :
          /\ x = End(d, sector, "stall", Silence, n)
          /\ d.tag = drive.tag /\ d.cmd = drive.cmd /\ d.lba = drive.lba /\ d.st = drive.st
    BY <1>2, ClearedIs
  <2>2. From(d, "stall", Silence)
    BY <2>1 DEF From
  <2>3. n \in Nat
    OBVIOUS
  <2>4. QED
    BY <2>1, <2>2, <2>3 DEF Heard
<1>3. ASSUME drive.st \in {"in", "status"}
      PROVE  /\ Good(End(Said, sector, "yes", Packet, 0)) /\ Good(End(drive, sector, "yes", Packet, 1))
             /\ Good(End(Said, sector, "no", Silence, 0))
  <2>1. PICK d : d = Said
    OBVIOUS
  <2>2. d \in Drives /\ d.tag = drive.tag /\ d.cmd = drive.cmd /\ d.lba = drive.lba /\ d.st # "out"
    <3>1. PICK i, st : i = 1 - drive.in /\ st = IF drive.st = "in" THEN "status" ELSE "idle"
      OBVIOUS
    <3>2. i \in 0..1 /\ st \in {"status", "idle"}
      BY <3>1 DEF DiskTyped, Drives
    <3>3. d = [drive EXCEPT !.in = i, !.st = st]
      BY <2>1, <3>1 DEF Said
    <3>4. QED
      BY <3>2, <3>3 DEF DiskTyped, Drives
  <2>3. From(d, "yes", Packet) /\ From(drive, "yes", Packet) /\ From(d, "no", Silence)
    BY <1>3, <2>2 DEF DiskTyped, From
  <2>4. QED
    BY <2>1, <2>3 DEF Heard
<1>4. Good(e)
  <2>1. CASE ~Reached \/ drive.st = "locked" \/ "in" \in drive.halt \/ drive.st \in {"idle", "out"}
    BY <2>1, <1>1, <1>2 DEF InEnds
  <2>2. CASE Reached /\ "in" \notin drive.halt /\ drive.st \in {"in", "status"}
    <3>1. \/ e = NoEnd(1)
          \/ e = End(Said, sector, "yes", Packet, 0)
          \/ e = End(drive, sector, "yes", Packet, 1)
          \/ e = End(Said, sector, "no", Silence, 0)
      BY <2>2 DEF InEnds
    <3>2. QED
      BY <2>2, <3>1, <1>3, <1>1
  <2>3. drive.st \in {"idle", "in", "out", "status", "locked"}
    BY DEF DiskTyped, Drives
  <2>4. QED
    BY <2>1, <2>2, <2>3
<1>5. QED
  BY <1>4 DEF End
-----------------------------------------------------------------------------
\* A port is done with, and the next one is taken: what has changed is neither
\* a device with a name nor a port to come.
LEMMA NextPort ==
    ASSUME BusTyped, Names, at \in OnePort, at' = "next", todo' = Tail(todo),
           taken' = taken, next' \in {next, next + 1}, at \in Named => next' = next + 1,
           todo # <<>>,
           \A p \in Ports : \/ dev'[p] = dev[p]
                            \/ p \notin taken /\ \A i \in DOMAIN todo : i # 1 => todo[i] # p
    PROVE  Names'
<1>1. /\ Tail(todo) \in Seq(Ports)
      /\ \A i \in DOMAIN Tail(todo) :
            /\ i + 1 \in DOMAIN todo /\ Tail(todo)[i] = todo[i + 1] /\ i \in Nat \ {0}
            /\ todo[i + 1] \in Ports
  BY TheRest DEF BusTyped
<1>2. next' > Hub /\ next' \in Nat
  BY DEF BusTyped, Names, Hub
<1>3. \A i \in DOMAIN Tail(todo) : ~dev'[Tail(todo)[i]].on
  <2> SUFFICES ASSUME NEW i \in DOMAIN Tail(todo) PROVE ~dev'[todo[i + 1]].on
    BY <1>1
  <2>1. i + 1 \in DOMAIN todo /\ i + 1 # 1 /\ todo[i + 1] \in Ports
    BY <1>1
  <2>2. ~dev[todo[i + 1]].on
    BY <2>1 DEF Names
  <2>3. dev'[todo[i + 1]] = dev[todo[i + 1]]
    BY <2>1
  <2>4. QED
    BY <2>2, <2>3
<1>4. \A i, j \in DOMAIN Tail(todo) : i # j => Tail(todo)[i] # Tail(todo)[j]
  <2> SUFFICES ASSUME NEW i \in DOMAIN Tail(todo), NEW j \in DOMAIN Tail(todo), i # j
               PROVE  todo[i + 1] # todo[j + 1]
    BY <1>1
  <2>1. i + 1 \in DOMAIN todo /\ j + 1 \in DOMAIN todo /\ i + 1 # j + 1
    BY <1>1
  <2>2. QED
    BY <2>1 DEF Names
<1>5. \A p \in taken : dev'[p] = dev[p] /\ dev[p].on /\ dev[p].addr > Hub /\ dev[p].addr \in Nat
  BY DEF Names, BusTyped
<1>6. \A p \in taken : dev'[p].addr < next'
  BY <1>5, <1>2 DEF Names, BusTyped
<1>7. \A p, q \in taken : p # q => dev[p].addr # dev[q].addr
  BY DEF Names
<1>8. \A p \in taken' :
        dev'[p].on /\ dev'[p].addr > Hub /\ dev'[p].addr < next'
  BY <1>5, <1>6
<1>9. \A p, q \in taken' : p # q => dev'[p].addr # dev'[q].addr
  BY <1>5, <1>7
<1>10. /\ \A i \in DOMAIN todo' : ~dev'[todo'[i]].on
       /\ \A i, j \in DOMAIN todo' : i # j => todo'[i] # todo'[j]
  BY <1>3, <1>4
<1>11. at' \in OnePort /\ at' \notin OnePort \ {"next"} /\ at' # "address"
  BY DEF OnePort
<1>12. QED
  BY <1>2, <1>8, <1>9, <1>10, <1>11 DEF Names

\* The controller, the root port and the hub.
LEMMA FirstSteps ==
    ASSUME UsbInv, Claim \/ Wake \/ RootPort \/ SetUpHub
    PROVE  BusTyped' /\ Names'
<1>1. /\ BusTyped /\ Names
      /\ UNCHANGED <<board, dev, todo, next, who, known, taken>>
      /\ at \in {"claim", "wake", "root", "hub"}
  BY DEF UsbInv, Claim, Wake, RootPort, SetUpHub, bus
<1>2. at' \in {"claim", "wake", "root", "hub", "ports", "gone", "asleep"} /\ step' \in Nat \ {0}
  BY DEF UsbInv, BusTyped, Claim, Wake, RootPort, SetUpHub, Goto
<1>3. faults' \in 0..MaxFaults
  <2>1. UNCHANGED faults \/ Spend(1) \/ Spend(Attempts)
    BY DEF Claim, Wake, RootPort, SetUpHub
  <2>2. 1 \in Nat /\ Attempts \in Nat
    BY DEF Attempts
  <2>3. QED
    BY <1>1, <2>1, <2>2, Spent DEF BusTyped
<1>4. BusTyped'
  BY <1>1, <1>2, <1>3 DEF BusTyped, Places
<1>5. Names'
  BY <1>1, <1>2 DEF Names, OnePort, Named
<1>6. QED
  BY <1>4, <1>5

\* The ports with something, from the first to the last.
LEMMA PowerPortsKeeps == ASSUME UsbInv, PowerPorts PROVE BusTyped' /\ Names'
<1>1. /\ BusTyped /\ Names /\ at = "ports"
      /\ UNCHANGED <<board, dev, next, who, known, taken>>
  BY DEF UsbInv, PowerPorts, bus
<1>2. PICK silent \in SUBSET DOMAIN board :
        /\ Spend(Cardinality(silent)) /\ todo' \in InOrder(DOMAIN board \ silent)
        /\ Goto(IF todo' = <<>> THEN "asleep" ELSE "next")
  BY DEF PowerPorts
<1> DEFINE S == DOMAIN board \ silent
           n == Cardinality(S)
<1>3. /\ S \subseteq Ports /\ S \subseteq Nat /\ n \in Nat /\ Cardinality(silent) \in Nat
  <2>1. DOMAIN board \subseteq Ports /\ DOMAIN board \subseteq Nat \ {0} /\ IsFiniteSet(DOMAIN board)
    BY <1>1, BoardPorts DEF BusTyped
  <2>2. IsFiniteSet(silent) /\ IsFiniteSet(S)
    BY <2>1, FS_Subset
  <2>3. QED
    BY <2>1, <2>2, FS_CardinalityType
<1>4. faults' \in 0..MaxFaults
  BY <1>1, <1>2, <1>3, Spent DEF BusTyped
<1>5. todo' \in [1..n -> S] /\ \A i, j \in DOMAIN todo' : i < j => todo'[i] < todo'[j]
  BY <1>2 DEF InOrder
<1> HIDE DEF S, n
<1>6. todo' \in Seq(Ports) /\ DOMAIN todo' = 1..n /\ \A i \in 1..n : todo'[i] \in Ports /\ todo'[i] \in Nat
  <2>1. PICK s : s = todo'
    OBVIOUS
  <2>2. s \in [1..n -> Ports] /\ \A i \in 1..n : s[i] \in Ports /\ s[i] \in Nat
    BY <1>3, <1>5, <2>1
  <2>3. s \in Seq(Ports) /\ DOMAIN s = 1..n
    BY <1>3, <2>2
  <2>4. QED
    BY <2>1, <2>2, <2>3
<1>7. \A i, j \in DOMAIN todo' : i # j => todo'[i] # todo'[j]
  <2> SUFFICES ASSUME NEW i \in 1..n, NEW j \in 1..n, i # j PROVE todo'[i] # todo'[j]
    BY <1>6
  <2>1. i < j \/ j < i
    BY <1>3
  <2>2. QED
    BY <2>1, <1>5, <1>6
<1>8. at' \in {"asleep", "next"} /\ step' = 1
  BY <1>2 DEF Goto
<1>9. BusTyped'
  BY <1>1, <1>4, <1>6, <1>8 DEF BusTyped, Places
<1>10. taken = {} /\ \A p \in Ports : ~dev[p].on
  BY <1>1 DEF Names, OnePort
<1>11. Names'
  BY <1>1, <1>6, <1>7, <1>8, <1>10 DEF Names, OnePort, Named
<1>12. QED
  BY <1>9, <1>11

\* A port is reset, or is left, with what hangs from it on or off.
LEMMA ResetPortKeeps == ASSUME UsbInv, ResetPort PROVE BusTyped' /\ Names'
<1>1. /\ BusTyped /\ Names /\ at = "next" /\ todo # <<>> /\ UNCHANGED <<board, who>>
      /\ UNCHANGED <<next, known, taken>>
  BY DEF UsbInv, ResetPort, Skip
<1>2. /\ Head(todo) = todo[1] /\ Head(todo) \in Ports /\ 1 \in DOMAIN todo
      /\ Tail(todo) \in Seq(Ports)
  BY <1>1, TheRest DEF BusTyped
<1>3. faults' \in 0..MaxFaults
  BY <1>1, Spent DEF BusTyped, ResetPort
<1>4. /\ dev' \in [Ports -> [on : BOOLEAN, addr : Nat]]
      /\ \A p \in Ports : p # todo[1] => dev'[p] = dev[p]
  <2>1. UNCHANGED dev \/ Addresses(Head(todo), 0)
    BY DEF ResetPort, Port
  <2>2. CASE UNCHANGED dev
    BY <1>1, <2>2 DEF BusTyped
  <2>3. CASE Addresses(Head(todo), 0)
    BY <1>1, <1>2, <2>3 DEF BusTyped, Addresses
  <2>4. QED
    BY <2>1, <2>2, <2>3
<1>5. ~dev[todo[1]].on /\ \A i \in DOMAIN todo : i # 1 => ~dev[todo[i]].on /\ todo[i] # todo[1] /\ todo[i] \in Ports
  BY <1>1, <1>2 DEF Names, OnePort, BusTyped
<1>6. todo[1] \notin taken
  BY <1>1, <1>5 DEF Names
<1>7. CASE at' = "who" /\ step' = 1 /\ todo' = todo
  <2>1. BusTyped'
    BY <1>1, <1>2, <1>3, <1>4, <1>7 DEF BusTyped, Places
  <2>2. \A p \in taken : dev'[p] = dev[p]
    BY <1>1, <1>4, <1>6 DEF BusTyped
  <2>3. \A i \in DOMAIN todo : i # 1 => ~dev'[todo[i]].on
    BY <1>4, <1>5
  <2>4. Names'
    <3>1. \A p \in taken' : dev'[p].on /\ dev'[p].addr > Hub /\ dev'[p].addr < next'
      BY <1>1, <2>2 DEF Names, Named
    <3>2. \A p, q \in taken' : p # q => dev'[p].addr # dev'[q].addr
      BY <1>1, <2>2 DEF Names
    <3>3. at' \in OnePort /\ at' # "address" /\ todo' # <<>> /\ next' > Hub
      BY <1>1, <1>7 DEF OnePort, Names
    <3>4. \A i, j \in DOMAIN todo' : i # j => todo'[i] # todo'[j]
      BY <1>1, <1>7 DEF Names, OnePort
    <3>5. QED
      BY <1>7, <2>3, <3>1, <3>2, <3>3, <3>4 DEF Names
  <2>5. QED
    BY <2>1, <2>4
<1>8. CASE Skip
  <2>1. BusTyped'
    BY <1>1, <1>2, <1>3, <1>4, <1>8 DEF BusTyped, Places, Skip, Goto
  <2>2. Names'
    BY <1>1, <1>4, <1>5, <1>6, <1>8, NextPort DEF Skip, Goto, OnePort, Named
  <2>3. QED
    BY <2>1, <2>2
<1>9. QED
  BY <1>7, <1>8 DEF ResetPort, Goto

\* Who is at address 0 is asked for, four times at most.
LEMMA AskWhoKeeps == ASSUME UsbInv, AskWho PROVE BusTyped' /\ Names'
<1>1. BusTyped /\ Names /\ at = "who" /\ UNCHANGED <<board, dev>> /\ todo # <<>>
  BY DEF UsbInv, AskWho, bus, Names, OnePort
<1>2. faults' \in 0..MaxFaults
  BY <1>1, Controlled DEF BusTyped, AskWho
<1>3. CASE Control(0, "done") /\ Goto("address") /\ who' \in Hearing(0) /\ UNCHANGED <<todo, next, known, taken>>
  <2>1. who' \in Ports /\ dev[who'].on /\ dev[who'].addr = 0
    BY <1>1, <1>3, WhoHears DEF BusTyped
  <2>2. QED
    BY <1>1, <1>2, <1>3, <2>1 DEF BusTyped, Places, Names, OnePort, Named, Goto
<1>4. CASE step < Attempts /\ step' = step + 1 /\ UNCHANGED <<at, todo, next, known, taken, who>>
  BY <1>1, <1>2, <1>4 DEF BusTyped, Names, OnePort, Named
<1>5. CASE Skip /\ UNCHANGED who
  <2>1. BusTyped'
    BY <1>1, <1>2, <1>5, TheRest DEF BusTyped, Places, Skip, Goto
  <2>2. Names'
    BY <1>1, <1>5, NextPort DEF Skip, Goto, OnePort, Named
  <2>3. QED
    BY <2>1, <2>2
<1>6. QED
  BY <1>3, <1>4, <1>5 DEF AskWho

\* Who has answered is given the next name, and may not be heard to take it.
LEMMA SetAddressKeeps == ASSUME UsbInv, SetAddress PROVE BusTyped' /\ Names'
<1>1. /\ BusTyped /\ Names /\ at = "address" /\ todo # <<>> /\ UNCHANGED <<board, who>>
      /\ who \in Ports /\ dev[who].on /\ dev[who].addr = 0
  BY DEF UsbInv, SetAddress, Names, OnePort
<1>2. faults' \in 0..MaxFaults
  BY <1>1, Controlled DEF BusTyped, SetAddress
<1>3. who \notin taken /\ \A i \in DOMAIN todo : i # 1 => todo[i] # who
  <2>1. \A p \in taken : dev[p].addr > Hub
    BY <1>1 DEF Names
  <2>2. \A i \in DOMAIN todo : i # 1 => ~dev[todo[i]].on
    BY <1>1 DEF Names, OnePort
  <2>3. QED
    BY <1>1, <2>1, <2>2 DEF Hub
<1>4. /\ Tail(todo) \in Seq(Ports) /\ next \in Nat /\ next > Hub
  BY <1>1, TheRest DEF BusTyped, Names
<1>5. ASSUME Addresses(who, next)
      PROVE  /\ dev' \in [Ports -> [on : BOOLEAN, addr : Nat]]
             /\ dev'[who].on /\ dev'[who].addr = next
             /\ \A p \in Ports : p # who => dev'[p] = dev[p]
  BY <1>1, <1>4, <1>5 DEF BusTyped, Addresses
<1>6. CASE /\ Control(0, "done") /\ Addresses(who, next)
           /\ taken' = taken \cup {who} /\ Goto("look") /\ UNCHANGED <<todo, next, known>>
  <2>1. BusTyped'
    BY <1>1, <1>2, <1>5, <1>6 DEF BusTyped, Places, Goto
  <2>3. \A p \in taken : /\ p \in Ports /\ p # who /\ dev'[p] = dev[p] /\ dev[p].on
                         /\ dev[p].addr > Hub /\ dev[p].addr < next /\ dev[p].addr \in Nat
    BY <1>1, <1>3, <1>5, <1>6 DEF Names, Named, BusTyped
  <2>4. \A p \in taken' : /\ dev'[p].on /\ dev'[p].addr > Hub
                          /\ \/ dev'[p].addr < next
                             \/ p = who /\ dev'[p].addr = next
    BY <1>4, <1>5, <1>6, <2>3
  <2>5. \A p, q \in taken' : p # q => dev'[p].addr # dev'[q].addr
    <3>1. \A p, q \in taken : p # q => dev[p].addr # dev[q].addr
      BY <1>1 DEF Names
    <3>2. QED
      BY <1>4, <1>5, <1>6, <2>3, <3>1
  <2>6. \A i \in DOMAIN todo : i # 1 => ~dev'[todo[i]].on
    <3> SUFFICES ASSUME NEW i \in DOMAIN todo, i # 1 PROVE ~dev'[todo[i]].on
      OBVIOUS
    <3>1. todo[i] \in Ports /\ todo[i] # who /\ ~dev[todo[i]].on
      BY <1>1, <1>3 DEF BusTyped, Names, OnePort
    <3>2. QED
      BY <3>1, <1>5, <1>6
  <2>7. Names'
    BY <1>1, <1>4, <1>6, <2>4, <2>5, <2>6 DEF Names, OnePort, Named, Goto
  <2>8. QED
    BY <2>1, <2>7
<1>7. CASE UNCHANGED dev /\ Skip
  <2>1. BusTyped'
    BY <1>1, <1>2, <1>4, <1>7 DEF BusTyped, Places, Skip, Goto
  <2>2. Names'
    BY <1>1, <1>7, NextPort DEF Skip, Goto, OnePort, Named
  <2>3. QED
    BY <2>1, <2>2
<1>8. CASE Control(0, "unheard") /\ Addresses(who, next) /\ Skip
  <2>1. BusTyped'
    BY <1>1, <1>2, <1>4, <1>5, <1>8 DEF BusTyped, Places, Skip, Goto
  <2>2. \A p \in Ports : \/ dev'[p] = dev[p]
                         \/ p \notin taken /\ \A i \in DOMAIN todo : i # 1 => todo[i] # p
    BY <1>3, <1>5, <1>8
  <2>3. Names'
    BY <1>1, <1>8, <2>2, NextPort DEF Skip, Goto, OnePort, Named
  <2>4. QED
    BY <2>1, <2>3
<1>9. QED
  BY <1>6, <1>7, <1>8 DEF SetAddress

\* A device is looked at: its structure may be filled in, and the next name is
\* another, now or once it has been started.
LEMMA DiscoverKeeps == ASSUME UsbInv, Discover PROVE BusTyped' /\ Names'
<1>1. BusTyped /\ Names /\ at = "look" /\ todo # <<>> /\ UNCHANGED <<board, dev, who>>
  BY DEF UsbInv, Discover, bus, Names, OnePort
<1>2. faults' \in 0..MaxFaults
  BY <1>1, Controlled DEF BusTyped, Discover
<1>3. known' = known \/ \E k \in {"disk", "keyboard", "card"} : known' = [known EXCEPT ![k] = next]
  BY DEF Discover, Turn, Understood
<1>4. known' \in [disk : Nat, keyboard : Nat, card : Nat, size : Nat]
  BY <1>1, <1>3 DEF BusTyped
<1>5. Tail(todo) \in Seq(Ports) /\ next + 1 \in Nat
  BY <1>1, TheRest DEF BusTyped
<1>6. Turn \/ \E k \in {"disk", "card"} : Goto(k) /\ UNCHANGED <<todo, next, taken>>
  BY DEF Discover
<1>7. CASE Turn
  <2>1. BusTyped'
    BY <1>1, <1>2, <1>4, <1>5, <1>7 DEF BusTyped, Places, Turn, Goto
  <2>2. Names'
    BY <1>1, <1>7, NextPort DEF Turn, Goto, OnePort, Named
  <2>3. QED
    BY <2>1, <2>2
<1>8. CASE \E k \in {"disk", "card"} : Goto(k) /\ UNCHANGED <<todo, next, taken>>
  <2>1. BusTyped'
    BY <1>1, <1>2, <1>4, <1>8 DEF BusTyped, Places, Goto
  <2>2. Names'
    BY <1>1, <1>8 DEF Names, OnePort, Named, Goto
  <2>3. QED
    BY <2>1, <2>2
<1>9. QED
  BY <1>6, <1>7, <1>8

\* The card is started, or is not there.
LEMMA StartCardKeeps == ASSUME UsbInv, StartCard PROVE BusTyped' /\ Names'
<1>1. BusTyped /\ Names /\ at = "card" /\ todo # <<>> /\ UNCHANGED <<board, dev, who>>
  BY DEF UsbInv, StartCard, bus, Names, OnePort
<1>2. faults' \in 0..MaxFaults
  BY <1>1, Controlled DEF BusTyped, StartCard
<1>3. known' \in [disk : Nat, keyboard : Nat, card : Nat, size : Nat]
  BY <1>1 DEF BusTyped, StartCard
<1>4. Tail(todo) \in Seq(Ports) /\ next + 1 \in Nat
  BY <1>1, TheRest DEF BusTyped
<1>5. BusTyped'
  BY <1>1, <1>2, <1>3, <1>4, SMTT(40) DEF BusTyped, Places, StartCard, Turn, Goto
<1>6. Names'
  BY <1>1, NextPort DEF StartCard, Turn, Goto, OnePort, Named
<1>7. QED
  BY <1>5, <1>6

\* The start of the controller and the loop over the ports.
Enumeration ==
    \/ Claim \/ Wake \/ RootPort \/ SetUpHub \/ PowerPorts \/ ResetPort \/ AskWho \/ SetAddress
    \/ Discover \/ StartCard

\* While the ports are taken no order runs and nobody has been told anything.
LEMMA EnumerationKeeps == ASSUME UsbInv, Enumeration PROVE UsbInv'
<1>1. BusTyped' /\ Names'
  BY FirstSteps, PowerPortsKeeps, ResetPortKeeps, AskWhoKeeps, SetAddressKeeps, DiscoverKeeps,
     StartCardKeeps DEF Enumeration
<1>2. UNCHANGED <<order, drive, sector, files>>
  BY DEF Enumeration, Claim, Wake, RootPort, SetUpHub, PowerPorts, ResetPort, AskWho, SetAddress,
         Discover, StartCard, disk
<1>3. host' = host \/ host' = [host EXCEPT !.in = 0, !.out = 0]
  BY DEF Enumeration, Claim, Wake, RootPort, SetUpHub, PowerPorts, ResetPort, AskWho, SetAddress,
         Discover, StartCard, disk
<1>4. DiskTyped' /\ host'.tag = host.tag
  <2>1. host \in Hosts
    BY DEF UsbInv, DiskTyped
  <2>2. host' \in Hosts /\ host'.tag = host.tag
    <3>1. PICK h : h = [host EXCEPT !.in = 0]
      OBVIOUS
    <3>2. h \in Hosts /\ h.tag = host.tag
      BY <2>1, <3>1 DEF Hosts
    <3>3. host' = host \/ host' = [h EXCEPT !.out = 0]
      BY <1>3, <3>1
    <3>4. QED
      BY <2>1, <3>2, <3>3 DEF Hosts
  <2>3. QED
    BY <1>2, <2>2 DEF UsbInv, DiskTyped, files
<1>5. at \notin {"disk", "serve", "gone"} /\ at' # "serve"
  BY DEF Enumeration, Claim, Wake, RootPort, SetUpHub, PowerPorts, ResetPort, AskWho, SetAddress,
         Discover, StartCard, Goto, Skip, Turn
<1>6. order.stage = "over"
  BY <1>5 DEF UsbInv, Asked
<1>7. Dialogue'
  BY <1>2, <1>4, <1>6 DEF UsbInv, Dialogue, Its
<1>8. Asked'
  BY <1>2, <1>5, <1>6 DEF UsbInv, Asked, files
<1>9. Doubt' /\ AnswersAreTrue'
  BY <1>2 DEF UsbInv, Doubt, AnswersAreTrue, InHand, files
<1>10. QED
  BY <1>1, <1>4, <1>7, <1>8, <1>9 DEF UsbInv
-----------------------------------------------------------------------------
\* What a new order is.
LEMMA Begins ==
    ASSUME UsbInv, NEW c \in Cmds, NEW l \in Lba, NEW v \in Data, Begin(c, l, v),
           UNCHANGED <<told, fs>>
    PROVE  /\ DiskTyped' /\ Dialogue' /\ order'.stage = "cbw"
           /\ order'.cmd = c /\ order'.lba = l /\ order'.val = v
<1>1. order' = [cmd |-> c, lba |-> l, val |-> v, stage |-> "cbw", got |-> Nothing, whole |-> FALSE]
  BY DEF Begin
<1>2. PICK t : t = host.tag + 1
  OBVIOUS
<1>3. host' = [host EXCEPT !.tag = t] /\ t \in Nat
  BY <1>2 DEF Begin, UsbInv, DiskTyped, Hosts
<1>4. host' \in Hosts /\ host'.tag = t
  BY <1>3 DEF UsbInv, DiskTyped, Hosts
<1>5. DiskTyped'
  BY <1>1, <1>4, DataAre DEF Begin, UsbInv, DiskTyped, Orders, Stages
<1>6. drive.tag < t /\ drive' = drive
  BY <1>2 DEF Begin, UsbInv, DiskTyped, Hosts, Drives, Dialogue
<1>7. Dialogue'
  <2>1. order'.stage = "cbw" /\ drive'.tag < host'.tag /\ drive'.tag \in Nat /\ host'.tag \in Nat
    BY <1>1, <1>3, <1>4, <1>6 DEF UsbInv, DiskTyped, Drives
  <2>2. drive'.tag <= host'.tag
    BY <2>1
  <2>3. QED
    BY <2>1, <2>2 DEF Dialogue, Its
<1>8. QED
  BY <1>1, <1>5, <1>7

\* No order runs any more.
LEMMA NoOrder ==
    ASSUME UsbInv, order' = Idle, UNCHANGED <<host, drive, sector>>
    PROVE  Dialogue' /\ order' \in Orders
BY UsbAssumption, DataAre DEF UsbInv, Dialogue, Its, Idle, Orders, Cmds, Stages

\* The orders that start the stick.
LEMMA StartDiskKeeps == ASSUME UsbInv, StartDisk PROVE UsbInv'
<1> DEFINE c == After(order.cmd, order.stage)
<1>1. /\ BusTyped /\ Names /\ Asked /\ Doubt /\ AnswersAreTrue /\ at = "disk" /\ todo # <<>>
      /\ UNCHANGED <<board, dev, who, fs, told, faults>>
  BY DEF UsbInv, StartDisk, bus, files, Names, OnePort
<1>2. CASE /\ c \notin {"started", "failed"} /\ Begin(c, 0, Nothing)
           /\ step' = (IF order.cmd = "sense" THEN step + 1 ELSE step)
           /\ UNCHANGED <<at, todo, next, known, taken>>
  <2>1. c \in {"inquiry", "ready", "capacity", "sense", "read"}
    BY <1>2 DEF After
  <2>2. c \in Cmds /\ c # "write"
    BY <2>1 DEF Cmds
  <2> HIDE DEF c
  <2>3. /\ DiskTyped' /\ Dialogue' /\ order'.cmd = c
    BY <1>1, <1>2, <2>2, Begins, UsbAssumption, DataAre
  <2>4. BusTyped'
    BY <1>1, <1>2 DEF BusTyped
  <2>5. Names'
    BY <1>1, <1>2 DEF Names, OnePort, Named
  <2>6. Asked'
    BY <1>1, <1>2, <2>2, <2>3 DEF Asked
  <2>7. Doubt' /\ AnswersAreTrue'
    BY <1>1, <1>2 DEF Doubt, AnswersAreTrue, InHand, Begin
  <2>8. QED
    BY <2>3, <2>4, <2>5, <2>6, <2>7 DEF UsbInv
<1>3. CASE /\ known' = (IF c = "started" THEN [known EXCEPT !.size = Cardinality(Lba)]
                        ELSE [known EXCEPT !.disk = 0])
           /\ order' = Idle /\ Turn /\ UNCHANGED <<host, drive, sector>>
  <2>1. Dialogue' /\ order' \in Orders
    BY <1>3, NoOrder
  <2>2. DiskTyped'
    BY <1>1, <1>3, <2>1 DEF UsbInv, DiskTyped
  <2>3. Cardinality(Lba) \in Nat
    BY UsbAssumption, FS_CardinalityType
  <2>4. known' \in [disk : Nat, keyboard : Nat, card : Nat, size : Nat]
    BY <1>1, <1>3, <2>3 DEF BusTyped
  <2>5. Tail(todo) \in Seq(Ports) /\ next + 1 \in Nat
    BY <1>1, TheRest DEF BusTyped
  <2>6. BusTyped'
    BY <1>1, <1>3, <2>4, <2>5, SMTT(40) DEF BusTyped, Places, Turn, Goto
  <2>7. Names'
    BY <1>1, <1>3, NextPort DEF Turn, Goto, OnePort, Named
  <2>8. Asked'
    BY <1>1, <1>3 DEF Asked, Idle, Turn, Goto, Nothing
  <2>9. Doubt' /\ AnswersAreTrue'
    BY <1>1, <1>3 DEF Doubt, AnswersAreTrue, InHand
  <2>10. QED
    BY <2>1, <2>2, <2>6, <2>7, <2>8, <2>9 DEF UsbInv
<1>4. QED
  BY <1>2, <1>3 DEF StartDisk
-----------------------------------------------------------------------------
\* The controller, the ports and the names do not see what an order does.
LEMMA OrderBus ==
    ASSUME UsbInv, NEW n \in Nat, Spend(n), UNCHANGED <<bus, main>>
    PROVE  BusTyped' /\ Names'
<1>1. BusTyped /\ Names /\ UNCHANGED <<board, dev, at, step, todo, next, who, known, taken>>
  BY DEF UsbInv, bus, main
<1>2. faults' \in 0..MaxFaults
  BY <1>1, Spent DEF BusTyped
<1>3. QED
  BY <1>1, <1>2 DEF BusTyped, Names

\* The toggle of the driver after a transfer.
LEMMA Toggles ==
    ASSUME DiskTyped, NEW end \in {"in", "out"}, NEW heard \in Heard, host' = Toggle(end, heard)
    PROVE  /\ host' \in Hosts /\ host'.tag = host.tag
           /\ end = "out" /\ heard = "yes" => host'.out = 1 - host.out
<1>1. host \in Hosts
  BY DEF DiskTyped
<1>2. host' \in {host, [host EXCEPT ![end] = 0]} \/ heard = "yes"
  BY DEF Toggle, Heard
<1>3. heard = "yes" => host' = [host EXCEPT ![end] = 1 - @]
  BY DEF Toggle
<1>4. CASE heard # "yes"
  BY <1>1, <1>2, <1>4 DEF Hosts
<1>5. CASE heard = "yes"
  BY <1>1, <1>3, <1>5 DEF Hosts
<1>6. QED
  BY <1>4, <1>5

\* The order that runs stays whose it was, and the stick may write in no sector
\* but that of a write that is in hand.
LEMMA OrderFiles ==
    ASSUME UsbInv, at \in {"disk", "serve"}, UNCHANGED <<main, files>>,
           order.stage # "over", DiskTyped',
           order'.cmd = order.cmd /\ order'.lba = order.lba /\ order'.val = order.val,
           \/ sector' = sector
           \/ drive.st = "out" /\ \E v : sector' = [sector EXCEPT ![drive.lba] = v],
           \/ drive'.st # "out"
           \/ drive.st = "out" /\ drive'.lba = drive.lba
           \/ order.cmd = "write" /\ drive'.lba = order.lba
    PROVE  Asked' /\ Doubt' /\ AnswersAreTrue'
<1>1. UNCHANGED <<at, fs, told>> /\ Asked /\ Doubt /\ AnswersAreTrue
  BY DEF UsbInv, main, files
<1>2. Asked'
  BY <1>1 DEF Asked
<1>3. Doubt'
  BY <1>1 DEF Doubt, Asked, InHand
<1>4. \A l \in Lba : sector'[l] = sector[l] \/ (drive.st = "out" /\ l = drive.lba)
  BY DEF UsbInv, DiskTyped
<1>5. AnswersAreTrue'
  BY <1>1, <1>4 DEF Doubt, AnswersAreTrue, InHand
<1>6. QED
  BY <1>2, <1>3, <1>5

\* The command: the stick takes it, or drops it as a repeated one, or nothing.
LEMMA SendCommandKeeps ==
    ASSUME UsbInv, at \in {"disk", "serve"}, SendCommand, UNCHANGED <<bus, main, files>>
    PROVE  UsbInv'
<1> DEFINE p == [what |-> "cbw", cmd |-> order.cmd, lba |-> order.lba, tag |-> host.tag]
<1>1. DiskTyped /\ order \in Orders /\ host \in Hosts /\ drive \in Drives /\ Dialogue /\ order.stage = "cbw"
  BY DEF UsbInv, DiskTyped, SendCommand
<1>2. PICK e \in OutEnds(p) : /\ Bulk("out", e) /\ host' = Toggle("out", e.heard)
                              /\ order' = [order EXCEPT !.stage =
                                   IF e.heard # "yes" THEN "error"
                                   ELSE IF order.cmd = "ready" THEN "csw" ELSE "data"]
  BY DEF SendCommand, Ends
<1>3. e.heard \in Heard /\ e.cost \in Nat /\ Towards(p, e.drive, e.sector, e.heard)
  BY <1>1, OutEndsAre DEF Orders, Hosts
<1>4. /\ host' \in Hosts /\ host'.tag = host.tag
      /\ e.heard = "yes" => host'.out = 1 - host.out
  BY <1>1, <1>2, <1>3, Toggles
<1>5. drive' = e.drive /\ sector' = e.sector /\ Spend(e.cost)
  BY <1>2 DEF Bulk
<1>6. BusTyped' /\ Names'
  BY <1>3, <1>5, OrderBus
<1>7. PICK st : st = IF e.heard # "yes" THEN "error" ELSE IF order.cmd = "ready" THEN "csw" ELSE "data"
  OBVIOUS
<1>8. order' = [order EXCEPT !.stage = st]
  BY <1>2, <1>7
<1>9. /\ order' \in Orders /\ order'.stage = st
      /\ order'.cmd = order.cmd /\ order'.lba = order.lba /\ order'.val = order.val
      /\ order'.whole = order.whole /\ order'.got = order.got
  BY <1>1, <1>7, <1>8 DEF Orders, Stages
<1>10. drive' \in Drives /\ sector' \in [Lba -> Data]
  BY <1>3, <1>5 DEF Towards
<1>11. DiskTyped'
  BY <1>1, <1>4, <1>9, <1>10 DEF DiskTyped, files
<1>12. \/ drive'.tag = drive.tag
       \/ /\ drive'.tag = host.tag /\ drive'.cmd = order.cmd /\ drive'.lba = order.lba
          /\ host.out = drive.out /\ drive'.out = 1 - drive.out
  BY <1>3, <1>5 DEF Towards
<1>13. drive.tag < host.tag /\ drive.tag \in Nat /\ host.tag \in Nat
  BY <1>1 DEF Dialogue, Drives, Hosts
<1>14. Dialogue'
  BY <1>4, <1>7, <1>9, <1>12, <1>13 DEF Dialogue, Its
<1>15. Asked' /\ Doubt' /\ AnswersAreTrue'
  <2>1. \/ sector' = sector
        \/ drive.st = "out" /\ \E v : sector' = [sector EXCEPT ![drive.lba] = v]
    BY <1>3, <1>5 DEF Towards
  <2>2. \/ drive'.st # "out"
        \/ drive.st = "out" /\ drive'.lba = drive.lba
        \/ order.cmd = "write" /\ drive'.lba = order.lba
    BY <1>3, <1>5 DEF Towards
  <2>3. QED
    BY <1>1, <1>9, <1>11, <2>1, <2>2, OrderFiles
<1>16. QED
  BY <1>6, <1>11, <1>14, <1>15 DEF UsbInv

\* The data of a write: those that are heard are in the sector, if the stick has
\* the tag of the order.
LEMMA WriteDataKeeps ==
    ASSUME UsbInv, at \in {"disk", "serve"}, MoveData, order.cmd = "write",
           UNCHANGED <<bus, main, files>>
    PROVE  UsbInv'
<1> DEFINE p == [what |-> "data", val |-> order.val]
<1>1. /\ DiskTyped /\ order \in Orders /\ host \in Hosts /\ drive \in Drives /\ Dialogue
      /\ order.stage = "data"
  BY DEF UsbInv, DiskTyped, MoveData
<1>2. PICK e \in OutEnds(p) : /\ Bulk("out", e) /\ host' = Toggle("out", e.heard)
                              /\ order' = [order EXCEPT !.stage = "csw", !.whole = e.heard = "yes"]
  BY DEF MoveData
<1>3. e.heard \in Heard /\ e.cost \in Nat /\ Towards(p, e.drive, e.sector, e.heard)
  BY <1>1, OutEndsAre DEF Orders
<1>4. host' \in Hosts /\ host'.tag = host.tag
  BY <1>1, <1>2, <1>3, Toggles
<1>5. drive' = e.drive /\ sector' = e.sector /\ Spend(e.cost)
  BY <1>2 DEF Bulk
<1>6. BusTyped' /\ Names'
  BY <1>3, <1>5, OrderBus
<1>7. PICK w \in BOOLEAN : w = (e.heard = "yes")
  OBVIOUS
<1>8. order' = [order EXCEPT !.stage = "csw", !.whole = w]
  BY <1>2, <1>7
<1>9. /\ order' \in Orders /\ order'.stage = "csw" /\ order'.whole = w
      /\ order'.cmd = order.cmd /\ order'.lba = order.lba /\ order'.val = order.val
  BY <1>1, <1>8 DEF Orders, Stages
<1>10. drive' \in Drives /\ sector' \in [Lba -> Data]
  BY <1>3, <1>5 DEF Towards
<1>11. DiskTyped'
  BY <1>1, <1>4, <1>9, <1>10 DEF DiskTyped, files
<1>12. drive'.tag = drive.tag /\ drive'.cmd = drive.cmd /\ drive'.lba = drive.lba
  BY <1>3, <1>5 DEF Towards
<1>13. ASSUME w, drive.tag = host.tag PROVE sector'[order.lba] = order.val
  <2>1. drive.lba = order.lba /\ host.out = drive.out
    BY <1>1, <1>13 DEF Dialogue, Its
  <2>2. sector' = [sector EXCEPT ![drive.lba] = order.val]
    BY <1>3, <1>5, <1>7, <1>13, <2>1 DEF Towards
  <2>3. sector \in [Lba -> Data] /\ drive.lba \in Lba
    BY <1>1 DEF DiskTyped, Drives
  <2>4. QED
    BY <2>1, <2>2, <2>3
<1>14. Dialogue'
  <2>1. drive'.tag <= host'.tag
    BY <1>1, <1>4, <1>12 DEF Dialogue
  <2>2. Its' => drive'.cmd = order'.cmd /\ drive'.lba = order'.lba
    BY <1>1, <1>4, <1>9, <1>12 DEF Dialogue, Its
  <2>3. Its' /\ order'.whole => sector'[order'.lba] = order'.val
    BY <1>4, <1>9, <1>12, <1>13 DEF Its
  <2>4. order'.cmd = "write" /\ order'.stage = "csw"
    BY <1>9
  <2>5. QED
    BY <2>1, <2>2, <2>3, <2>4 DEF Dialogue
<1>15. Asked' /\ Doubt' /\ AnswersAreTrue'
  <2>1. \/ sector' = sector
        \/ drive.st = "out" /\ \E v : sector' = [sector EXCEPT ![drive.lba] = v]
    BY <1>3, <1>5 DEF Towards
  <2>2. \/ drive'.st # "out"
        \/ drive.st = "out" /\ drive'.lba = drive.lba
    BY <1>3, <1>5 DEF Towards
  <2>3. QED
    BY <1>1, <1>9, <1>11, <2>1, <2>2, OrderFiles
<1>16. QED
  BY <1>6, <1>11, <1>14, <1>15 DEF UsbInv

\* What comes from the stick leaves the sectors and the tag as they are.
LEMMA Comes ==
    ASSUME UsbInv, at \in {"disk", "serve"}, order.stage # "over", UNCHANGED <<bus, main, files>>,
           NEW e \in InEnds, Bulk("in", e), host' = Toggle("in", e.heard),
           order' \in Orders,
           order'.cmd = order.cmd /\ order'.lba = order.lba /\ order'.val = order.val
    PROVE  /\ BusTyped' /\ Names' /\ DiskTyped' /\ Asked' /\ Doubt' /\ AnswersAreTrue'
           /\ host'.tag = host.tag /\ sector' = sector
           /\ drive'.tag = drive.tag /\ drive'.cmd = drive.cmd /\ drive'.lba = drive.lba
           /\ e.heard = "yes" => /\ drive.st \in {"in", "status"} /\ e.got = Packet
                                 /\ drive'.st # "out"
<1>1. DiskTyped /\ drive \in Drives
  BY DEF UsbInv, DiskTyped
<1>2. e.heard \in Heard /\ e.cost \in Nat /\ e.sector = sector /\ From(e.drive, e.heard, e.got)
  BY <1>1, InEndsAre
<1>3. host' \in Hosts /\ host'.tag = host.tag
  BY <1>1, <1>2, Toggles
<1>4. drive' = e.drive /\ sector' = sector /\ Spend(e.cost)
  BY <1>2 DEF Bulk
<1>5. /\ drive' \in Drives /\ drive'.tag = drive.tag /\ drive'.cmd = drive.cmd
      /\ drive'.lba = drive.lba /\ (drive'.st = "out" => drive.st = "out")
  BY <1>2, <1>4 DEF From
<1>6. DiskTyped'
  BY <1>1, <1>3, <1>4, <1>5 DEF DiskTyped, files
<1>7. Asked' /\ Doubt' /\ AnswersAreTrue'
  BY <1>4, <1>5, <1>6, OrderFiles
<1>8. BusTyped' /\ Names'
  BY <1>2, <1>4, OrderBus
<1>9. e.heard = "yes" => drive.st \in {"in", "status"} /\ e.got = Packet /\ drive'.st # "out"
  BY <1>2, <1>4 DEF From
<1>10. QED
  BY <1>3, <1>4, <1>5, <1>6, <1>7, <1>8, <1>9

\* What a packet of the stick carries.
LEMMA Carries ==
    ASSUME DiskTyped, drive.st \in {"in", "status"}
    PROVE  /\ Packet.what = "data" => Packet.val \in Data
           /\ Packet.what = "data" /\ drive.cmd = "read" => Packet.val = sector[drive.lba]
           /\ Packet.what = "csw" => Packet.tag = drive.tag
           /\ Packet.what \in {"data", "csw"}
<1>1. CASE drive.st = "in"
  BY <1>1, DataAre DEF Packet, DiskTyped, Drives
<1>2. CASE drive.st = "status"
  BY <1>2 DEF Packet
<1>3. QED
  BY <1>1, <1>2

\* The data of a read, or of another command that brings some.
LEMMA ReadDataKeeps ==
    ASSUME UsbInv, at \in {"disk", "serve"}, MoveData, order.cmd # "write",
           UNCHANGED <<bus, main, files>>
    PROVE  UsbInv'
<1>1. DiskTyped /\ order \in Orders /\ Dialogue /\ order.stage = "data"
  BY DEF UsbInv, DiskTyped, MoveData
<1>2. PICK e \in InEnds, w \in BOOLEAN :
        /\ Bulk("in", e) /\ host' = Toggle("in", e.heard)
        /\ w <=> e.heard = "yes" /\ e.got.what = "data"
        /\ order' = [order EXCEPT !.stage = "csw", !.whole = w,
                                  !.got = IF w THEN e.got.val ELSE Nothing]
  <2>1. PICK e \in InEnds :
          /\ Bulk("in", e) /\ host' = Toggle("in", e.heard)
          /\ LET whole == e.heard = "yes" /\ e.got.what = "data"
             IN  order' = [order EXCEPT !.stage = "csw", !.whole = whole,
                                        !.got = IF whole THEN e.got.val ELSE Nothing]
    BY DEF MoveData
  <2>2. PICK w \in BOOLEAN : w = (e.heard = "yes" /\ e.got.what = "data")
    OBVIOUS
  <2>3. order' = [order EXCEPT !.stage = "csw", !.whole = w,
                               !.got = IF w THEN e.got.val ELSE Nothing]
    BY <2>1, <2>2
  <2>4. QED
    BY <2>1, <2>2, <2>3
<1>2a. PICK v : v = IF w THEN e.got.val ELSE Nothing
  OBVIOUS
<1>2b. order' = [order EXCEPT !.stage = "csw", !.whole = w, !.got = v]
  BY <1>2, <1>2a
<1>3. w => /\ drive.st \in {"in", "status"} /\ v = Packet.val /\ Packet.what = "data"
  <2>1. e.heard = "yes" => drive.st \in {"in", "status"} /\ e.got = Packet
    BY <1>1, InEndsAre DEF From
  <2>2. QED
    BY <1>2, <1>2a, <2>1
<1>4. v \in Data /\ (w /\ drive.cmd = "read" => v = sector[drive.lba])
  BY <1>1, <1>2a, <1>3, Carries, DataAre
<1>5. /\ order' \in Orders /\ order'.stage = "csw" /\ order'.whole = w /\ order'.got = v
      /\ order'.cmd = order.cmd /\ order'.lba = order.lba /\ order'.val = order.val
  BY <1>1, <1>2b, <1>4 DEF Orders, Stages
<1>6. /\ BusTyped' /\ Names' /\ DiskTyped' /\ Asked' /\ Doubt' /\ AnswersAreTrue'
      /\ host'.tag = host.tag /\ sector' = sector
      /\ drive'.tag = drive.tag /\ drive'.cmd = drive.cmd /\ drive'.lba = drive.lba
  BY <1>1, <1>2, <1>5, Comes
<1>7. Its' => Its /\ drive'.cmd = order'.cmd /\ drive'.lba = order'.lba
  BY <1>1, <1>5, <1>6 DEF Dialogue, Its
<1>8. Its' /\ order'.cmd = "read" /\ order'.whole => sector'[order'.lba] = order'.got
  BY <1>4, <1>5, <1>6, <1>7
<1>9. drive'.tag <= host'.tag
  BY <1>1, <1>6 DEF Dialogue
<1>10. Dialogue'
  BY <1>5, <1>7, <1>8, <1>9 DEF Dialogue
<1>11. QED
  BY <1>6, <1>10 DEF UsbInv

\* The status is good only with the tag of this order, which the stick has then
\* taken, and after data that were whole.
LEMMA ReadStatusKeeps ==
    ASSUME UsbInv, at \in {"disk", "serve"}, ReadStatus, UNCHANGED <<bus, main, files>>
    PROVE  UsbInv'
<1>1. DiskTyped /\ order \in Orders /\ Dialogue /\ order.stage \in {"csw", "again"}
  BY DEF UsbInv, DiskTyped, ReadStatus
<1>2. PICK e \in InEnds :
        /\ Bulk("in", e) /\ host' = Toggle("in", e.heard)
        /\ order' = [order EXCEPT !.stage =
                        IF e.heard = "yes" THEN Verdict(e.got)
                        ELSE IF order.stage = "csw" THEN "again" ELSE "error"]
  BY DEF ReadStatus, Ends
<1>2a. PICK st : st = IF e.heard = "yes" THEN Verdict(e.got)
                      ELSE IF order.stage = "csw" THEN "again" ELSE "error"
  OBVIOUS
<1>2b. order' = [order EXCEPT !.stage = st]
  BY <1>2, <1>2a
<1>3. st \in {"again", "ok", "refused", "error"}
  BY <1>2a DEF Verdict
<1>4. /\ order' \in Orders /\ order'.stage = st /\ order'.whole = order.whole
      /\ order'.got = order.got
      /\ order'.cmd = order.cmd /\ order'.lba = order.lba /\ order'.val = order.val
  BY <1>1, <1>2b, <1>3 DEF Orders, Stages
<1>5. /\ BusTyped' /\ Names' /\ DiskTyped' /\ Asked' /\ Doubt' /\ AnswersAreTrue'
      /\ host'.tag = host.tag /\ sector' = sector
      /\ drive'.tag = drive.tag /\ drive'.cmd = drive.cmd /\ drive'.lba = drive.lba
      /\ e.heard = "yes" => /\ drive.st \in {"in", "status"} /\ e.got = Packet
                            /\ drive'.st # "out"
  BY <1>1, <1>2, <1>4, Comes
<1>6. ASSUME st = "ok"
      PROVE  /\ drive.tag = host.tag /\ drive'.st # "out"
             /\ order.whole \/ order.cmd = "ready"
  <2>1. e.heard = "yes" /\ Verdict(Packet) = "ok"
    BY <1>2a, <1>5, <1>6
  <2>2. Packet.what = "csw" /\ Packet.tag = host.tag /\ (order.whole \/ order.cmd = "ready")
    BY <2>1 DEF Verdict
  <2>3. Packet.tag = drive.tag
    BY <1>1, <1>5, <2>1, <2>2, Carries
  <2>4. QED
    BY <1>5, <2>1, <2>2, <2>3
<1>7. Its' <=> Its
  BY <1>1, <1>3, <1>4, <1>5 DEF Its
<1>8. Dialogue'
  BY <1>1, <1>3, <1>4, <1>5, <1>6, <1>7 DEF Dialogue, Its
<1>9. QED
  BY <1>5, <1>8 DEF UsbInv
-----------------------------------------------------------------------------
\* A stick is offered to the file server, which reads its first sector.
LEMMA OfferKeeps == ASSUME UsbInv, Offer PROVE UsbInv'
<1>1. /\ at = "next" /\ todo = <<>> /\ at' = "serve" /\ step' = 1
      /\ UNCHANGED <<board, dev, todo, next, who, known, taken, host, order, drive, sector, told, faults>>
  BY DEF Offer, Goto, bus, disk
<1>2. fs' = fs \/ fs' = [fs EXCEPT !.st = "waiting", !.op = "read", !.lba = 0]
  BY DEF Offer
<1>3. fs \in Files /\ order.stage = "over" /\ fs.st = "unaware" /\ \A l \in Lba : told[l] = Nothing
  BY <1>1 DEF UsbInv, DiskTyped, Asked
<1>4. fs' \in Files /\ (fs'.st = "waiting" => fs'.op = "read")
  BY <1>2, <1>3, UsbAssumption DEF Files
<1>5. BusTyped' /\ Names'
  BY <1>1 DEF UsbInv, BusTyped, Names, Places, OnePort, Named
<1>6. DiskTyped' /\ Dialogue'
  BY <1>1, <1>4 DEF UsbInv, DiskTyped, Dialogue, Its
<1>7. Asked'
  BY <1>1, <1>3, <1>4 DEF Asked
<1>8. drive.lba \in Lba
  BY DEF UsbInv, DiskTyped, Drives
<1>9. Doubt' /\ AnswersAreTrue'
  BY <1>1, <1>3, <1>8 DEF Doubt, AnswersAreTrue
<1>10. QED
  BY <1>5, <1>6, <1>7, <1>9 DEF UsbInv

\* The server asks for a sector, or has its volume taken down.
LEMMA ServerKeeps ==
    ASSUME UsbInv, Unmount \/ \E l \in Lba : Ask("read", l, Nothing) \/ \E v \in Val : Ask("write", l, v)
    PROVE  UsbInv'
<1>1. UNCHANGED <<bus, main, disk, told, faults>> /\ fs.st = "free"
  BY DEF Unmount, Ask
<1>2. BusTyped' /\ Names' /\ Dialogue'
  BY <1>1 DEF UsbInv, BusTyped, Names, Dialogue, Its, bus, main, disk
<1>3. fs \in Files /\ order.stage = "over" /\ at \in {"serve", "gone"}
  BY <1>1 DEF UsbInv, DiskTyped, Asked
<1>4. /\ fs' \in Files /\ (fs'.st = "waiting" => fs'.op \in {"read", "write"})
      /\ fs'.st = "free" \/ fs'.st = "waiting"
  <2>1. CASE Unmount
    BY <1>1, <1>3, <2>1 DEF Unmount, Files
  <2>2. ASSUME NEW o \in {"read", "write"}, NEW l \in Lba, NEW v \in Data, Ask(o, l, v)
        PROVE  /\ fs' \in Files /\ (fs'.st = "waiting" => fs'.op \in {"read", "write"})
               /\ fs'.st = "free" \/ fs'.st = "waiting"
    <3>1. PICK n : n = fs.asks + 1
      OBVIOUS
    <3>2. n \in 0..MaxAsks
      <4>1. fs.asks \in 0..MaxAsks
        BY <1>3 DEF Files
      <4>2. fs.asks < MaxAsks
        BY <2>2 DEF Ask
      <4>3. QED
        BY <3>1, <4>1, <4>2, UsbAssumption
    <3>3. fs' = [fs EXCEPT !.st = "waiting", !.op = o, !.lba = l, !.val = v, !.asks = n]
      BY <2>2, <3>1 DEF Ask
    <3>4. QED
      BY <1>3, <3>2, <3>3 DEF Files
  <2>3. QED
    BY <2>1, <2>2, DataAre
<1>5. DiskTyped'
  BY <1>1, <1>4 DEF UsbInv, DiskTyped, disk
<1>6. Asked'
  BY <1>1, <1>3, <1>4 DEF UsbInv, Asked, main, disk
<1>7. ~InHand(drive.lba) /\ \A l \in Lba : ~InHand(l)
  BY <1>1 DEF InHand
<1>8. Doubt' /\ AnswersAreTrue'
  BY <1>1, <1>7 DEF UsbInv, Doubt, AnswersAreTrue, disk
<1>9. QED
  BY <1>2, <1>5, <1>6, <1>8 DEF UsbInv

\* The request becomes an order.
LEMMA AttendKeeps == ASSUME UsbInv, Attend PROVE UsbInv'
<1>1. /\ at = "serve" /\ fs.st = "waiting" /\ Begin(fs.op, fs.lba, fs.val)
      /\ UNCHANGED <<bus, main, files, faults>>
  BY DEF Attend
<1>2. fs.op \in Cmds /\ fs.lba \in Lba /\ fs.val \in Data
  BY <1>1 DEF UsbInv, DiskTyped, Files, Cmds
<1>3. /\ DiskTyped' /\ Dialogue' /\ order'.stage = "cbw"
      /\ order'.cmd = fs.op /\ order'.lba = fs.lba /\ order'.val = fs.val
  BY <1>1, <1>2, Begins DEF files
<1>4. BusTyped' /\ Names'
  BY <1>1 DEF UsbInv, BusTyped, Names, bus, main
<1>5. Asked'
  BY <1>1, <1>3 DEF UsbInv, Asked, main, files
<1>6. Doubt' /\ AnswersAreTrue'
  BY <1>1 DEF UsbInv, Doubt, AnswersAreTrue, InHand, Begin, files
<1>7. QED
  BY <1>3, <1>4, <1>5, <1>6 DEF UsbInv

\* The answer: what the server then believes of that sector is so, because a good
\* one is that of a dialogue that was gone through, and after a bad write it
\* believes nothing.
LEMMA AnswerKeeps == ASSUME UsbInv, Answer PROVE UsbInv'
<1>1. /\ at = "serve" /\ fs.st = "waiting" /\ order' = Idle
      /\ UNCHANGED <<bus, main, host, drive, sector, faults>>
  BY DEF Answer
<1>2. PICK ok \in BOOLEAN : Answered(ok) /\ (ok => order.stage = "ok")
  <2>1. CASE order.stage \in {"ok", "refused", "error"} /\ Answered(order.stage = "ok")
    <3>1. PICK ok \in BOOLEAN : ok = (order.stage = "ok")
      OBVIOUS
    <3>2. QED
      BY <2>1, <3>1
  <2>2. CASE Answered(FALSE)
    BY <2>2
  <2>3. QED
    BY <2>1, <2>2 DEF Answer
<1>3. /\ fs \in Files /\ order \in Orders /\ drive \in Drives /\ sector \in [Lba -> Data]
      /\ told \in [Lba -> Data] /\ fs.op \in {"read", "write"}
  BY <1>1 DEF UsbInv, DiskTyped, Asked
<1>4. PICK t : t = IF ok THEN (IF fs.op = "read" THEN order.got ELSE fs.val)
                   ELSE IF fs.op = "write" THEN Nothing ELSE told[fs.lba]
  OBVIOUS
<1>5. told' = [told EXCEPT ![fs.lba] = t] /\ fs.lba \in Lba /\ t \in Data
  BY <1>2, <1>3, <1>4, DataAre DEF Answered, Files, Orders
<1>6. fs' \in Files /\ fs'.st # "waiting"
  <2>1. PICK m \in BOOLEAN, s \in {"free", "unaware"} :
          fs' = [fs EXCEPT !.st = s, !.mnt = m, !.val = Nothing]
    <3>1. PICK m \in BOOLEAN : m = (fs.mnt \/ ok)
      OBVIOUS
    <3>2. PICK s \in {"free", "unaware"} : s = IF fs.mnt \/ ok THEN "free" ELSE "unaware"
      OBVIOUS
    <3>3. fs' = [fs EXCEPT !.st = s, !.mnt = m, !.val = Nothing]
      BY <1>2, <3>1, <3>2 DEF Answered
    <3>4. QED
      BY <3>3
  <2>2. QED
    BY <1>3, <2>1, DataAre DEF Files
<1>7. Dialogue' /\ order' \in Orders
  BY <1>1, NoOrder
<1>8. DiskTyped'
  BY <1>1, <1>5, <1>6, <1>7 DEF UsbInv, DiskTyped
<1>9. BusTyped' /\ Names'
  BY <1>1 DEF UsbInv, BusTyped, Names, bus, main
<1>10. Asked'
  BY <1>1, <1>6 DEF UsbInv, Asked, main, Idle
<1>11. ok => /\ drive.st # "out" /\ t = sector[fs.lba]
  <2> SUFFICES ASSUME ok PROVE drive.st # "out" /\ t = sector[fs.lba]
    OBVIOUS
  <2>1. order.stage = "ok" /\ order.cmd = fs.op /\ order.lba = fs.lba /\ order.val = fs.val
    BY <1>1, <1>2 DEF UsbInv, Asked
  <2>2. Its /\ drive.st # "out" /\ order.whole
    BY <1>3, <2>1 DEF UsbInv, Dialogue
  <2>3. sector[order.lba] = IF order.cmd = "read" THEN order.got ELSE order.val
    BY <1>3, <2>1, <2>2 DEF UsbInv, Dialogue
  <2>4. QED
    BY <1>4, <2>1, <2>2, <2>3
<1>12. \A l \in Lba : l # fs.lba => told'[l] = told[l] /\ ~InHand(l)
  BY <1>3, <1>5 DEF InHand
<1>13. told'[fs.lba] = t /\ (fs.op = "read" => ~InHand(fs.lba))
  BY <1>3, <1>5 DEF InHand
<1>14. Doubt'
  <2> SUFFICES ASSUME drive.st = "out" PROVE told'[drive.lba] = Nothing
    BY <1>1 DEF Doubt
  <2>1. ~ok /\ drive.lba \in Lba
    BY <1>3, <1>11 DEF Drives
  <2>2. told[drive.lba] = Nothing \/ InHand(drive.lba)
    BY DEF UsbInv, Doubt
  <2>3. CASE drive.lba = fs.lba
    BY <1>3, <1>4, <1>13, <2>1, <2>2, <2>3
  <2>4. CASE drive.lba # fs.lba
    BY <1>12, <2>1, <2>2, <2>4
  <2>5. QED
    BY <2>3, <2>4
<1>15. AnswersAreTrue'
  <2> SUFFICES ASSUME NEW l \in Lba, told'[l] # Nothing PROVE sector[l] = told'[l]
    BY <1>1 DEF AnswersAreTrue
  <2>1. CASE l # fs.lba
    BY <1>12, <2>1 DEF UsbInv, AnswersAreTrue
  <2>2. CASE l = fs.lba /\ ok
    BY <1>11, <1>13, <2>2
  <2>3. CASE l = fs.lba /\ ~ok
    BY <1>3, <1>4, <1>13, <2>3 DEF UsbInv, AnswersAreTrue
  <2>4. QED
    BY <2>1, <2>2, <2>3
<1>16. QED
  BY <1>7, <1>8, <1>9, <1>10, <1>14, <1>15 DEF UsbInv

\* The driver dies, and with it the order, but not what the stick had begun.
LEMMA DieKeeps == ASSUME UsbInv, Die PROVE UsbInv'
<1>1. /\ at = "serve" /\ at' = "gone" /\ step' = 1 /\ order' = Idle /\ Spend(1)
      /\ UNCHANGED <<board, dev, todo, next, who, known, taken, host, drive, sector, fs, told>>
  BY DEF Die, Goto, bus, files
<1>2. faults' \in 0..MaxFaults
  BY <1>1, Spent DEF UsbInv, BusTyped
<1>3. BusTyped' /\ Names'
  BY <1>1, <1>2 DEF UsbInv, BusTyped, Names, Places, OnePort, Named
<1>4. Dialogue' /\ order' \in Orders
  BY <1>1, NoOrder
<1>5. DiskTyped' /\ Asked'
  BY <1>1, <1>4 DEF UsbInv, DiskTyped, Asked, Idle
<1>6. Doubt' /\ AnswersAreTrue'
  BY <1>1 DEF UsbInv, Doubt, AnswersAreTrue, InHand
<1>7. QED
  BY <1>3, <1>4, <1>5, <1>6 DEF UsbInv
-----------------------------------------------------------------------------
\* No step of the driver, of the server or of the bus leaves the invariant.
LEMMA UsbSteps == UsbInv /\ [Next]_vars => UsbInv'
<1> SUFFICES ASSUME UsbInv, [Next]_vars PROVE UsbInv'
  OBVIOUS
<1>1. CASE UNCHANGED vars
  BY <1>1 DEF vars, bus, main, disk, files, UsbInv, BusTyped, DiskTyped, Names, Dialogue, Its, Asked,
              Doubt, InHand, AnswersAreTrue
<1>2. CASE Order
  <2>1. at \in {"disk", "serve"} /\ UNCHANGED <<bus, main, files>>
    BY <1>2 DEF Order
  <2>2. QED
    BY <1>2, <2>1, SendCommandKeeps, WriteDataKeeps, ReadDataKeeps, ReadStatusKeeps DEF Order
<1>3. CASE Driver /\ ~Order
  BY <1>3, EnumerationKeeps, StartDiskKeeps, OfferKeeps, AttendKeeps, AnswerKeeps
     DEF Driver, Enumeration
<1>4. CASE Server
  BY <1>4, ServerKeeps DEF Server
<1>5. CASE Die
  BY <1>5, DieKeeps
<1>6. QED
  BY <1>1, <1>2, <1>3, <1>4, <1>5 DEF Next

\* What all the steps keep is always so.
LEMMA UsbInvariant == Spec => []UsbInv
BY InitUsb, UsbSteps, PTL DEF Spec

\* The driver, the stick and the file server keep their types.
THEOREM UsbTyped == Spec => []TypeOK
<1>1. UsbInv => TypeOK
  BY DEF UsbInv, BusTyped, DiskTyped, Hosts, Orders, Drives, Files, Stages, TypeOK
<1>2. QED
  BY <1>1, UsbInvariant, PTL

\* The loop of main() over the ports gives no address twice, though a device
\* that was not heard keeps the name that the next one is given, and one that
\* did not take its name is still at address 0 when the next is asked.
THEOREM DevicesAreApart == Spec => []TakenApart
<1>1. UsbInv => TakenApart
  BY DEF UsbInv, Names, BusTyped, TakenApart, Hub
<1>2. QED
  BY <1>1, UsbInvariant, PTL

\* disco_leer() and disco_escribir() say BMSG_OK of a sector only when it is so,
\* whichever packets were lost, repeated or refused before.
THEOREM SectorsAreTrue == Spec => []AnswersAreTrue
<1>1. UsbInv => AnswersAreTrue
  BY DEF UsbInv
<1>2. QED
  BY <1>1, UsbInvariant, PTL
=============================================================================
