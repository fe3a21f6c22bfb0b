-------------------------------- MODULE Usb --------------------------------
(***************************************************************************)
(* The USB driver of EL0 (user/usb.c) from the reset of the controller to  *)
(* the sectors it serves, and the side of the file server that asks for    *)
(* them (user/fs.c).                                                       *)
(*                                                                         *)
(* The driver wakes the controller, presents itself to the hub at address  *)
(* 0, gives it an address, and then takes the ports one by one: reset, ask *)
(* at address 0, SET_ADDRESS, look inside, start what it understands.      *)
(* After that it waits for messages and turns each request for a sector    *)
(* into a dialogue of the bulk-only transport: a command (CBW), the data,  *)
(* a status (CSW).  Every transfer has the outcomes the bus can give it:   *)
(* it is made; it is lost; the device takes it and its handshake is lost;  *)
(* the device stalls.  MaxFaults bounds the last three together.           *)
(*                                                                         *)
(* Left to the module Net: what the driver does with the network card      *)
(* once it has been started.  The keyboard is enumerated and not polled.   *)
(***************************************************************************)
EXTENDS Naturals, Sequences, FiniteSets, SequencesExt

CONSTANTS
    Boards,       \* what may be plugged: a set of functions from ports to kinds
    Lba,          \* the sectors of the stick
    Val,          \* what the file server may write in one
    Tries,        \* how often a stick is asked whether it is ready
    MaxFaults,    \* bound: transfers that do not end as they should
    MaxAsks       \* bound: requests of the file server once it has mounted

ASSUME UsbAssumption ==
    /\ Boards # {} /\ \A b \in Boards : DOMAIN b \subseteq Nat \ {0} /\ IsFiniteSet(DOMAIN b)
    /\ 0 \in Lba /\ Lba \subseteq Nat /\ IsFiniteSet(Lba) /\ Val # {}
    /\ Tries \in Nat \ {0} /\ MaxFaults \in Nat /\ MaxAsks \in Nat

Ports    == UNION {DOMAIN b : b \in Boards}
Hub      == 1                       \* DIR_HUB
Attempts == 4                       \* of a GET_DESCRIPTOR at address 0
HubSteps == 5                       \* descriptor, address, configuration (2), hub descriptor
Nothing  == "nothing"

VARIABLES
    board,      \* the board there is, a member of Boards
    dev,        \* dev[p]: is what hangs from p enabled, and at what address
    at,         \* where the main of the driver is
    step,       \* which of the steps, or attempts, of that place
    todo,       \* con_algo: the ports with something, still to be taken
    next,       \* siguiente_dir
    who,        \* the port of the device that has answered at address 0
    known,      \* the structures disco, teclado and nic: address or 0
    taken,      \* ports whose SET_ADDRESS was answered (what the driver prints)
    host,       \* disco.tog_in, disco.tog_out, etiqueta_cbw
    order,      \* the call of disco_orden that is running
    drive,      \* the stick: where its dialogue is, its toggles, its halts
    sector,     \* what the stick holds
    fs,         \* the file server: does it wait, for what, is /mnt mounted
    told,       \* what the last answer about a sector lets the server believe
    faults

bus   == <<board, dev>>
main  == <<at, step, todo, next, who, known, taken>>
disk  == <<host, order, drive, sector>>
files == <<fs, told>>
vars  == <<bus, main, disk, files, faults>>

Idle  == [cmd |-> Nothing, lba |-> 0, val |-> Nothing, stage |-> "over",
          got |-> Nothing, whole |-> FALSE]

Init ==
    /\ board \in Boards
    /\ dev = [p \in Ports |-> [on |-> FALSE, addr |-> 0]]
    /\ at = "claim" /\ step = 1 /\ todo = <<>> /\ next = Hub + 1 /\ who = 0
    /\ known = [disk |-> 0, keyboard |-> 0, card |-> 0, size |-> 0]
    /\ taken = {}
    /\ host = [in |-> 0, out |-> 0, tag |-> 0]
    /\ order = Idle
    /\ drive = [st |-> "idle", cmd |-> Nothing, lba |-> 0, tag |-> 0, bad |-> FALSE,
                in |-> 0, out |-> 0, halt |-> {}]
    /\ sector = [l \in Lba |-> "old"]
    /\ fs = [st |-> "unaware", op |-> Nothing, lba |-> 0, val |-> Nothing, mnt |-> FALSE,
             asks |-> 0]
    /\ told = [l \in Lba |-> Nothing]
    /\ faults = 0

(***************************************************************************)
(* The bus.                                                                *)
(***************************************************************************)

\* A fault of the bus, as many as the bound allows.
Spend(n) == faults + n <= MaxFaults /\ faults' = faults + n

\* Who would hear a packet for address a.
Hearing(a) == {p \in DOMAIN board : dev[p].on /\ dev[p].addr = a /\ board[p] # "mute"}

\* Two at one address, and nobody is heard; none, and nobody answers.
Alone(a) == Cardinality(Hearing(a)) = 1

\* control_leer() and control_escribir() to address a: SETUP, data, status.
\* "done", or "failed" without the device having taken it, or "unheard": the
\* device has taken it, and the stage of status is lost.
Control(a, outcome) ==
    CASE outcome = "done"    -> Alone(a) /\ UNCHANGED faults
      [] outcome = "failed"  -> IF Alone(a) THEN Spend(1) ELSE UNCHANGED faults
      [] outcome = "unheard" -> Alone(a) /\ Spend(1)

Goto(place) == at' = place /\ step' = 1

(***************************************************************************)
(* From the reset of the controller to the hub.                            *)
(***************************************************************************)

\* The window on the registers, the run of memory for DMA, the port, the
\* interrupt: main returns if one of them is refused.
Claim ==
    /\ at = "claim"
    /\ \/ Goto("wake") /\ UNCHANGED faults
       \/ Goto("gone") /\ Spend(1)
    /\ UNCHANGED <<bus, todo, next, who, known, taken, disk, files>>

\* nucleo_despertar(): or the core does not come out of its reset.
Wake ==
    /\ at = "wake"
    /\ \/ Goto("root") /\ UNCHANGED faults
       \/ Goto("gone") /\ Spend(1)
    /\ UNCHANGED <<bus, todo, next, who, known, taken, disk, files>>

\* puerto_encender() and puerto_esperar_conexion(), then puerto_reset(): with
\* nothing there, or with a port that does not come up, it sleeps for ever.
RootPort ==
    /\ at = "root"
    /\ \/ step = 1 /\ step' = 2 /\ UNCHANGED <<at, faults>>
       \/ step = 2 /\ Goto("hub") /\ UNCHANGED faults
       \/ Goto("asleep") /\ Spend(1)
    /\ UNCHANGED <<bus, todo, next, who, known, taken, disk, files>>

\* The hub: presentarse(0) up to four times, SET_ADDRESS, its configuration
\* and its descriptor.  What fails after the first leaves the driver asleep.
SetUpHub ==
    /\ at = "hub"
    /\ \/ /\ UNCHANGED faults
          /\ IF step = HubSteps THEN Goto("ports") ELSE step' = step + 1 /\ UNCHANGED at
       \/ /\ step = 1 /\ MaxFaults >= Attempts /\ Spend(Attempts) /\ Goto("asleep")
       \/ /\ step > 1 /\ Spend(1) /\ Goto("asleep")
    /\ UNCHANGED <<bus, todo, next, who, known, taken, disk, files>>

\* The ports of a set from the first to the last: one sequence.
InOrder(S) ==
    {s \in [1..Cardinality(S) -> S] : \A i, j \in DOMAIN s : i < j => s[i] < s[j]}

\* PORT_POWER and the state of each port.  One that does not answer is left out.
PowerPorts ==
    /\ at = "ports"
    /\ \E silent \in SUBSET DOMAIN board :
          /\ Spend(Cardinality(silent))
          /\ todo' \in InOrder(DOMAIN board \ silent)
          /\ Goto(IF todo' = <<>> THEN "asleep" ELSE "next")
    /\ UNCHANGED <<bus, next, who, known, taken, disk, files>>

(***************************************************************************)
(* One port after another.                                                 *)
(***************************************************************************)
Port == Head(todo)
Addresses(p, a) == dev' = [dev EXCEPT ![p] = [on |-> TRUE, addr |-> a]]

\* continue: the port is left as it is, and the next one is taken.
Skip == Goto("next") /\ todo' = Tail(todo) /\ UNCHANGED <<next, known, taken>>

\* hub_resetear_puerto(): what comes out of it is at address 0.  The status
\* may not be read, or say no, and the port be enabled all the same.
ResetPort ==
    /\ at = "next" /\ todo # <<>>
    /\ \/ /\ Addresses(Port, 0) /\ Goto("who")
          /\ UNCHANGED <<todo, next, known, taken, faults>>
       \/ /\ Spend(1) /\ Skip
          /\ \/ Addresses(Port, 0)
             \/ UNCHANGED dev
    /\ UNCHANGED <<board, who, disk, files>>

\* presentarse(0), up to four times.
AskWho ==
    /\ at = "who"
    /\ \/ /\ Control(0, "done") /\ Goto("address")
          /\ who' \in Hearing(0) /\ UNCHANGED <<todo, next, known, taken>>
       \/ /\ Control(0, "failed") /\ UNCHANGED who
          /\ IF step < Attempts
             THEN step' = step + 1 /\ UNCHANGED <<at, todo, next, known, taken>>
             ELSE Skip
    /\ UNCHANGED <<bus, disk, files>>

\* SET_ADDRESS(siguiente_dir).  A device that has taken its new name and whose
\* answer is lost keeps the name, and the next one is offered the same.
SetAddress ==
    /\ at = "address"
    /\ \/ /\ Control(0, "done")
          /\ Addresses(who, next)
          /\ taken' = taken \cup {who} /\ Goto("look") /\ UNCHANGED <<todo, next, known>>
       \/ Control(0, "failed") /\ UNCHANGED dev /\ Skip
       \/ Control(0, "unheard") /\ Addresses(who, next) /\ Skip
    /\ UNCHANGED <<board, who, disk, files>>

\* Mutant: the name is given again to the next one.
TurnSameName == Goto("next") /\ todo' = Tail(todo) /\ UNCHANGED <<next, taken>>

\* The end of a turn of the loop: siguiente_dir++, whatever has been found.
Turn == Goto("next") /\ todo' = Tail(todo) /\ next' = next + 1 /\ UNCHANGED taken

\* descubrir(): the descriptors, SET_CONFIGURATION, and what has to be started.
\* Only the first of a kind is taken.  A configuration that is refused leaves
\* the structure filled in: what was found is believed, and not started.
Understood(k) == k \in {"disk", "keyboard", "card"} /\ known[k] = 0

Discover ==
    /\ at = "look"
    /\ LET k == board[who]  found == [known EXCEPT ![k] = next]
       IN  \/ k = "hub" /\ Turn /\ UNCHANGED <<known, host, faults>>
           \/ /\ k # "hub" /\ Control(next, "failed")
              /\ known' \in IF Understood(k) THEN {known, found} ELSE {known}
              /\ Turn /\ UNCHANGED host
           \/ /\ k # "hub" /\ Control(next, "done")
              /\ known' = IF Understood(k) THEN found ELSE known
              /\ IF Understood(k) /\ k \in {"disk", "card"}
                 THEN Goto(k) /\ UNCHANGED <<todo, next, taken>>
                 ELSE Turn
              /\ host' = IF Understood(k) /\ k = "disk" THEN [host EXCEPT !.in = 0, !.out = 0]
                         ELSE host
    /\ UNCHANGED <<bus, who, order, drive, sector, files>>

\* nic_arrancar(): lan_arrancar() or ecm_arrancar(), and nic.hay = 0 if not.
StartCard ==
    /\ at = "card"
    /\ \/ Control(next, "done") /\ UNCHANGED known
       \/ Control(next, "failed") /\ known' = [known EXCEPT !.card = 0]
    /\ Turn
    /\ UNCHANGED <<bus, who, disk, files>>

(***************************************************************************)
(* The stick (outside the repository: what the transport asks of one).     *)
(***************************************************************************)
Reached == \E p \in Hearing(known.disk) :
              Hearing(known.disk) = {p} /\ board[p] = "disk"

Phase(cmd) == IF cmd = "ready" THEN "status" ELSE IF cmd = "write" THEN "out" ELSE "in"

\* A transfer ends with the stick and its sectors as they are left, with what
\* canal_transferir() tells the driver ("yes", "no" or "stall"), with what has
\* come in, and with the faults of the bus that it took.
End(d, s, heard, got, cost) ==
    [drive |-> d, sector |-> s, heard |-> heard, got |-> got, cost |-> cost]
Silence == [what |-> Nothing]
NoEnd(cost) == End(drive, sector, "no", Silence, cost)
Unheard(ends) == {End(e.drive, e.sector, "no", e.got, e.cost + 1) : e \in ends}

\* A command it cannot carry out is refused with a stall of its phase of data,
\* and a status that says so.
TakesCommand(p, bad) ==
    [drive EXCEPT !.cmd = p.cmd, !.lba = p.lba, !.tag = p.tag, !.bad = bad, !.out = 1 - @,
                  !.st = IF bad THEN "status" ELSE Phase(p.cmd),
                  !.halt = IF bad /\ p.cmd # "ready" THEN @ \cup {Phase(p.cmd)} ELSE @]

\* What it does with a packet that comes in its turn: a command when it waits
\* for one, whatever comes when it waits for data.  Out of turn it says not yet
\* until the driver gives up, and data for a command lock it.
Takes(p) ==
    CASE drive.st = "idle" /\ p.what = "cbw" ->
            LET ends == {End(TakesCommand(p, bad), sector, "yes", Silence, IF bad THEN 1 ELSE 0) :
                            bad \in BOOLEAN}
            IN  ends \cup Unheard(ends)
      [] drive.st = "idle" /\ p.what = "data" ->
            {End([drive EXCEPT !.st = "locked"], sector, "stall", Silence, 0)}
      [] drive.st = "out" ->
            LET v    == IF p.what = "data" THEN p.val ELSE "torn"
                ends == {End([drive EXCEPT !.out = 1 - @, !.st = "status"],
                             [sector EXCEPT ![drive.lba] = v], "yes", Silence, 0)}
            IN  ends \cup Unheard(ends)
      [] OTHER -> {NoEnd(0)}

\* What it has to say, and what it does when it knows it has been heard.
Packet == IF drive.st = "in"
          THEN [what |-> "data", val |-> IF drive.cmd = "read" THEN sector[drive.lba] ELSE Nothing]
          ELSE [what |-> "csw", tag |-> drive.tag, bad |-> drive.bad]
Said == [drive EXCEPT !.in = 1 - @, !.st = IF @ = "in" THEN "status" ELSE "idle"]

\* CLEAR_FEATURE(ENDPOINT_HALT) after a stall: its answer is not looked at.
Cleared(end) ==
    {End([drive EXCEPT ![end] = 0, !.halt = @ \ {end}], sector, "stall", Silence, 0),
     End(drive, sector, "stall", Silence, 1)}

\* A packet towards the stick.  With the other toggle it is a repeated one,
\* acknowledged and dropped.
OutEnds(p) ==
    IF ~Reached THEN {NoEnd(0)}
    ELSE {NoEnd(1)} \cup
         (IF drive.st = "locked" THEN {End(drive, sector, "stall", Silence, 0)}
          ELSE IF "out" \in drive.halt THEN Cleared("out")
          ELSE IF host.out # drive.out THEN {End(drive, sector, "yes", Silence, 0)}
          ELSE Takes(p))

\* A packet from the stick.  With the other toggle the controller acknowledges
\* it and does not give it to the driver.
InEnds ==
    IF ~Reached THEN {NoEnd(0)}
    ELSE IF drive.st = "locked" THEN {End(drive, sector, "stall", Silence, 0)}
    ELSE IF "in" \in drive.halt THEN Cleared("in")
    ELSE IF drive.st \in {"idle", "out"} THEN {NoEnd(0)}
    ELSE {NoEnd(1)} \cup
         (IF host.in = drive.in
          THEN {End(Said, sector, "yes", Packet, 0), End(drive, sector, "yes", Packet, 1)}
          ELSE {End(Said, sector, "no", Silence, 0)})

(***************************************************************************)
(* disco_orden(): the command, the data, the status.                       *)
(***************************************************************************)

\* disco_bulk(): the toggle goes on with what was moved, and goes back to
\* DATA0 with a stall.
Toggle(end, heard) ==
    CASE heard = "yes"   -> [host EXCEPT ![end] = 1 - @]
      [] heard = "stall" -> [host EXCEPT ![end] = 0]
      [] heard = "no"    -> host

Bulk(end, e) ==
    /\ Spend(e.cost)
    /\ drive' = e.drive /\ sector' = e.sector

\* A new order takes the next tag.
Begin(cmd, l, v) ==
    /\ order' = [cmd |-> cmd, lba |-> l, val |-> v, stage |-> "cbw", got |-> Nothing, whole |-> FALSE]
    /\ host' = [host EXCEPT !.tag = @ + 1]
    /\ UNCHANGED <<drive, sector>>

Ends(result) == order' = [order EXCEPT !.stage = result]
Running == order.stage \in {"cbw", "data", "csw", "again"}

SendCommand ==
    /\ order.stage = "cbw"
    /\ \E e \in OutEnds([what |-> "cbw", cmd |-> order.cmd, lba |-> order.lba, tag |-> host.tag]) :
          /\ Bulk("out", e) /\ host' = Toggle("out", e.heard)
          /\ IF e.heard # "yes" THEN Ends("error")
             ELSE Ends(IF order.cmd = "ready" THEN "csw" ELSE "data")

\* Data that do not come, or that are not the length asked for, do not end the
\* order: it is its status that does.
MoveData ==
    /\ order.stage = "data"
    /\ IF order.cmd = "write"
       THEN \E e \in OutEnds([what |-> "data", val |-> order.val]) :
               /\ Bulk("out", e) /\ host' = Toggle("out", e.heard)
               /\ order' = [order EXCEPT !.stage = "csw", !.whole = e.heard = "yes"]
       ELSE \E e \in InEnds :
               /\ Bulk("in", e) /\ host' = Toggle("in", e.heard)
               /\ LET whole == e.heard = "yes" /\ e.got.what = "data"
                  IN  order' = [order EXCEPT !.stage = "csw", !.whole = whole,
                                             !.got = IF whole THEN e.got.val ELSE Nothing]

\* Mutant: any status is good.
VerdictAnyTag(csw) ==
    CASE csw.what # "csw" -> "error"
      [] csw.what = "csw" /\ csw.bad -> "refused"
      [] OTHER -> IF order.whole \/ order.cmd = "ready" THEN "ok" ELSE "error"

\* The status must be one, of this very order, and say that it went well.
Verdict(csw) ==
    CASE csw.what # "csw" \/ csw.tag # host.tag -> "error"
      [] csw.what = "csw" /\ csw.tag = host.tag /\ csw.bad -> "refused"
      [] OTHER -> IF order.whole \/ order.cmd = "ready" THEN "ok" ELSE "error"

\* The status is asked for twice at most.
ReadStatus ==
    /\ order.stage \in {"csw", "again"}
    /\ \E e \in InEnds :
          /\ Bulk("in", e) /\ host' = Toggle("in", e.heard)
          /\ IF e.heard = "yes" THEN Ends(Verdict(e.got))
             ELSE Ends(IF order.stage = "csw" THEN "again" ELSE "error")

Order ==
    /\ at \in {"disk", "serve"}
    /\ SendCommand \/ MoveData \/ ReadStatus
    /\ UNCHANGED <<bus, main, files>>

(***************************************************************************)
(* disco_arrancar(): INQUIRY, TEST UNIT READY until it is, with a REQUEST  *)
(* SENSE after each no, READ CAPACITY; and the first sector, to say it.    *)
(***************************************************************************)
After(cmd, result) ==
    CASE cmd = Nothing                      -> "inquiry"
      [] cmd = "inquiry"  /\ result = "ok"  -> "ready"
      [] cmd = "ready"    /\ result = "ok"  -> "capacity"
      [] cmd = "ready"    /\ result # "ok"  -> "sense"
      [] cmd = "sense"    /\ step < Tries   -> "ready"
      [] cmd = "capacity" /\ result = "ok"  -> "read"
      [] cmd = "read"                       -> "started"
      [] OTHER                              -> "failed"

StartDisk ==
    /\ at = "disk" /\ ~Running
    /\ LET what == After(order.cmd, order.stage)
       IN  \/ /\ what \notin {"started", "failed"}
              /\ Begin(what, 0, Nothing)
              /\ step' = IF order.cmd = "sense" THEN step + 1 ELSE step
              /\ UNCHANGED <<at, todo, next, known, taken>>
           \/ /\ what \in {"started", "failed"}
              /\ known' = IF what = "started" THEN [known EXCEPT !.size = Cardinality(Lba)]
                          ELSE [known EXCEPT !.disk = 0]
              /\ order' = Idle /\ Turn /\ UNCHANGED <<host, drive, sector>>
    /\ UNCHANGED <<bus, who, files, faults>>

(***************************************************************************)
(* The loop of messages, and the file server at the other end.             *)
(***************************************************************************)

\* FS_DISCO: a stick is offered, and the server mounts it, which is to read
\* its first sector.
Offer ==
    /\ at = "next" /\ todo = <<>>
    /\ Goto("serve")
    /\ fs' = IF known.disk = 0 THEN fs
             ELSE [fs EXCEPT !.st = "waiting", !.op = "read", !.lba = 0]
    /\ UNCHANGED <<bus, todo, next, who, known, taken, disk, told, faults>>

\* bloque_usb(): one request, and then to wait for its answer.
Ask(op, l, v) ==
    /\ fs.st = "free" /\ fs.mnt /\ fs.asks < MaxAsks
    /\ fs' = [fs EXCEPT !.st = "waiting", !.op = op, !.lba = l, !.val = v, !.asks = @ + 1]
    /\ UNCHANGED <<bus, main, disk, told, faults>>

\* disco_atender(): the request becomes an order, if there is such a sector.
Attend ==
    /\ at = "serve" /\ fs.st = "waiting" /\ order.stage = "over"
    /\ known.disk # 0 /\ known.size > 0
    /\ Begin(fs.op, fs.lba, fs.val)
    /\ UNCHANGED <<bus, main, files, faults>>

\* The answer: BMSG_OK with the sector, or BMSG_ERROR.  The first one decides
\* whether there is an /mnt.
Answered(ok) ==
    /\ fs' = [fs EXCEPT !.st = IF fs.mnt \/ ok THEN "free" ELSE "unaware", !.mnt = fs.mnt \/ ok,
                        !.val = Nothing]
    /\ told' = [told EXCEPT ![fs.lba] =
                   IF ok THEN (IF fs.op = "read" THEN order.got ELSE fs.val)
                   ELSE IF fs.op = "write" THEN Nothing ELSE @]

\* Mutant: what did not go well is not answered.
AnswerTheGood ==
    /\ at = "serve" /\ fs.st = "waiting" /\ order.stage = "ok" /\ Answered(TRUE)
    /\ order' = Idle
    /\ UNCHANGED <<bus, main, host, drive, sector, faults>>

Answer ==
    /\ at = "serve" /\ fs.st = "waiting"
    /\ \/ /\ order.stage \in {"ok", "refused", "error"}
          /\ Answered(order.stage = "ok")
       \/ /\ order.stage = "over" /\ (known.disk = 0 \/ known.size = 0)
          /\ Answered(FALSE)
    /\ order' = Idle
    /\ UNCHANGED <<bus, main, host, drive, sector, faults>>

\* The driver is killed.  Who waits for its answer goes on waiting; who asks
\* later is told that the port is not there, and /mnt is taken down.
Die ==
    /\ at = "serve" /\ Spend(1) /\ Goto("gone")
    /\ order' = Idle
    /\ UNCHANGED <<bus, todo, next, who, known, taken, host, drive, sector, files>>

Unmount ==
    /\ at = "gone" /\ fs.st = "free" /\ fs.mnt
    /\ fs' = [fs EXCEPT !.mnt = FALSE]
    /\ UNCHANGED <<bus, main, disk, told, faults>>

Driver ==
    \/ Claim \/ Wake \/ RootPort \/ SetUpHub \/ PowerPorts \/ ResetPort \/ AskWho \/ SetAddress
    \/ Discover \/ StartCard \/ StartDisk \/ Offer \/ Order \/ Attend \/ Answer

Server == \/ \E l \in Lba : Ask("read", l, Nothing) \/ \E v \in Val : Ask("write", l, v)
          \/ Unmount

Next == Driver \/ Server \/ Die
Spec == Init /\ [][Next]_vars

\* The driver is a process that the scheduler does not forget, and a bus that
\* fails no more than MaxFaults times.
FairSpec == Spec /\ WF_vars(Driver)

(***************************************************************************)
(* Properties.                                                             *)
(***************************************************************************)
Places == {"claim", "wake", "root", "hub", "ports", "next", "who", "address", "look", "card", "disk",
           "serve", "asleep", "gone"}
Data   == Val \cup {"old", "torn", Nothing}

TypeOK ==
    /\ board \in Boards
    /\ dev \in [Ports -> [on : BOOLEAN, addr : Nat]]
    /\ at \in Places /\ step \in Nat \ {0} /\ todo \in Seq(Ports)
    /\ next \in Nat /\ who \in Ports \cup {0} /\ taken \subseteq Ports
    /\ known \in [disk : Nat, keyboard : Nat, card : Nat, size : Nat]
    /\ host \in [in : 0..1, out : 0..1, tag : Nat]
    /\ order.stage \in {"over", "cbw", "data", "csw", "again", "ok", "refused", "error"}
    /\ drive.st \in {"idle", "in", "out", "status", "locked"}
    /\ drive.in \in 0..1 /\ drive.out \in 0..1 /\ drive.halt \subseteq {"in", "out"}
    /\ sector \in [Lba -> Data] /\ told \in [Lba -> Data]
    /\ fs.st \in {"unaware", "free", "waiting"} /\ fs.mnt \in BOOLEAN /\ fs.asks \in 0..MaxAsks
    /\ faults \in 0..MaxFaults

\* The devices that have answered to a SET_ADDRESS have addresses of their own,
\* and none has that of the hub, whatever was left behind at the address 0 or
\* with a name the driver believes free (usb.c:2459-2515).
TakenApart ==
    /\ \A p, q \in taken : p # q => dev[p].addr # dev[q].addr
    /\ \A p \in taken : dev[p].addr \notin {0, Hub}

\* "To give an address to each one as it appears" (usb.c:2449-2451): no two
\* devices have one.  It does not hold: if the answer to a SET_ADDRESS is lost the
\* device has its name, and the next one is given the same.
OneToAnAddress ==
    \A p, q \in Ports : p # q /\ dev[p].on /\ dev[q].on /\ dev[p].addr = dev[q].addr
                           => dev[p].addr = 0

\* What the last answer about a sector said is what the stick holds: a BMSG_OK
\* to a read carries the sector that was asked for, and one to a write means
\* that those data are in that sector.  Only a write that was answered with
\* BMSG_ERROR leaves a sector in doubt, whichever transfer was lost and
\* whatever the stick still had in hand (usb.c:1061-1094, 1200-1220).
InHand(l) == fs.st = "waiting" /\ fs.op = "write" /\ fs.lba = l
AnswersAreTrue == \A l \in Lba : told[l] # Nothing /\ ~InHand(l) => sector[l] = told[l]

\* What the stick writes in a sector is what the order that is running has asked
\* to have written there: "cada orden es un dialogo entero y el siguiente
\* empieza de cero" (usb.c:996-997).  It does not hold: after one lost status
\* the stick may carry out an order that the driver has given up.
EachOrderItsSector ==
    [][\A l \in Lba : sector'[l] # sector[l] => order.cmd = "write" /\ order.lba = l]_vars

\* A request of the file server is answered, however the stick behaves, unless
\* the driver dies with it in hand (usb.c:2565-2587, fs.c:98-122).
AskedIsAnswered == fs.st = "waiting" ~> (fs.st # "waiting" \/ at = "gone")

=============================================================================
