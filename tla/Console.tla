------------------------------ MODULE Console ------------------------------
(***************************************************************************)
(* The console of src/uart.c before and after its driver,                  *)
(* user/conserver.c, takes the UART: the log of text that processes and    *)
(* kernel fill and the driver empties (klog, with the notices of           *)
(* src/irq.c), and the way of a key from the serial line or from the USB   *)
(* keyboard through the line discipline to the process that reads.  The    *)
(* log is written under uart_lock, the queues under sched_lock, the        *)
(* discipline and klog_avisado under neither: a step here is what one lock *)
(* covers, or one access without a lock.                                   *)
(*                                                                         *)
(* A key is its number in what is typed; its kind is the script's.  ^C and *)
(* ^Z are both "sig".  A behaviour types on one keyboard.                  *)
(***************************************************************************)
EXTENDS Naturals, FiniteSets, Sequences

CONSTANTS Writers, Cores,  \* processes that write; cores whose clock ticks
          Scenes,          \* what is typed, on which keyboard, and what each writes:
                           \* whose character each place of the log is, since a
                           \* '\n' takes two; and the bounds on texts of the kernel,
                           \* CMSG_PRINTs, uart_modo() calls; whether the UART is
                           \* still the kernel's
          KlogMax,         \* KLOG_SIZE - 1
          Reserva,         \* KLOG_RESERVA
          Chunk,           \* what one klog() takes
          LineMax, RxMax,  \* LINEA_MAX, RXBUF_SIZE - 1
          FifoMax, BufMax, \* the FIFO of the PL011, buf[] of drenar()
          Room,            \* PORT_QUEUE
          ReadSizes        \* how much a read asks for

Kinds  == {"c", "nl", "bs", "kill", "eof", "sig"}
Bounds == [kernel : Nat, prints : Nat, modes : Nat]

ASSUME ConsoleAssumption ==
  /\ {KlogMax, Reserva, Chunk, LineMax, RxMax, FifoMax, BufMax, Room} \cup ReadSizes \subseteq Nat
  /\ KlogMax > Reserva + 2 /\ LineMax > 1 /\ Room > 0 /\ Chunk > 0 /\ BufMax > 0 /\ 0 \notin ReadSizes
  /\ Scenes \subseteq [script : Seq(Kinds), on : {"serial", "usb"}, texts : [Writers -> Seq(Nat)],
                      left : Bounds, boot : BOOLEAN]
  /\ "push" \notin Cores /\ "nobody" \notin Writers

VARIABLES board,   \* the scene, and how many keys have been typed
          uart,    \* the PL011: its FIFO, its interrupt, whether the core lets it in, and
           \* whether irqs_el0 and klog_desviar say that it is of the driver
          mail,    \* the queue of PORT_CONSOLE
          con,     \* the driver
          usb,     \* the driver of USB: the keys of its report
          push,    \* the uart_push() in course
          tty,     \* linea, linea_n, rxbuf, eof_pendiente, term_modo
          reader,  \* the process that reads, and the last key it got
          klog, avisado, perdidos,
          avisar,  \* where each klog_avisar() in course is
          lock,    \* consola_lock
          writer, shown,  \* what each writer has put, and whether it wrote to an UART that
                          \* was no longer the kernel's; what the line has shown
          ghost, left

vars == <<board, uart, mail, con, usb, push, tty, reader, klog, avisado, perdidos,
          avisar, lock, writer, shown, ghost, left>>

keyVars  == <<tty, reader>>
textVars == <<klog, avisado, perdidos, avisar, lock, writer, shown>>

Kind(k)  == board.script[k]
Texts    == board.texts
Nobody   == "nobody"
Callers  == Cores \cup {"push"}

(* How many interruptions were typed before a key: no line mixes two.      *)
Epoch(k) == Cardinality({j \in 1 .. k - 1 : Kind(j) = "sig"})

Init ==
  /\ \E s \in Scenes :
       /\ board = [script |-> s.script, on |-> s.on, texts |-> s.texts, typed |-> 0]
       /\ left = s.left
       /\ uart = [fifo |-> <<>>, ris |-> FALSE, open |-> TRUE, owned |-> ~s.boot, desviar |-> ~s.boot]
       /\ con = [pc |-> IF s.boot THEN "boot" ELSE "icr", buf |-> <<>>, sig |-> 0, any |-> FALSE,
                 irq |-> FALSE, text |-> <<>>, n |-> 0, empty |-> FALSE]
  /\ mail = <<>>
  /\ usb = [pc |-> "rest", keys |-> <<>>]
  /\ push = [pc |-> "no", irq |-> FALSE, buf |-> <<>>, n |-> 0, thrown |-> FALSE,
             sig |-> 0, any |-> FALSE]
  /\ tty = [cells |-> [i \in 1 .. LineMax |-> 0], n |-> 0, rx |-> <<>>, eof |-> FALSE, canon |-> TRUE]
  /\ reader = [pc |-> "out", n |-> 0, last |-> 0]
  /\ klog = <<>> /\ avisado = FALSE /\ perdidos = FALSE
  /\ avisar = [c \in Callers |-> "no"]
  /\ lock = Nobody
  /\ writer = [w \in Writers |-> [pc |-> IF Texts[w] = <<>> THEN "done" ELSE "call", i |-> 0,
                                torn |-> FALSE]]
  /\ shown = <<>>
  /\ ghost = [late |-> {}, crossed |-> FALSE, done |-> 0, blurred |-> FALSE, mixed |-> FALSE]

-----------------------------------------------------------------------------
(* The log.                                                                 *)
Said(es) ==     \* putc_raw of each: to the line, or klog_meter
  LET fits == IF uart.desviar THEN KlogMax - Len(klog) ELSE Len(es)
  IN  /\ klog' = IF ~uart.desviar THEN klog ELSE
                klog \o SubSeq(es, 1, IF Len(es) < fits THEN Len(es) ELSE fits)
      /\ perdidos' = (perdidos \/ Len(es) > fits)

KernelText(n)  == Said([j \in 1 .. n |-> [by |-> Nobody, i |-> 0]])
HuecoUnaVez(n) == KlogMax - Len(klog) >= 1 + Reserva
Hueco(n)       == KlogMax - Len(klog) >= n + Reserva
Pieces(w, i, j) == [x \in 1 .. j - i |-> [by |-> w, i |-> i + x]]
Whole(w)        ==   \* the places with whole characters before
  {m \in 0 .. Len(Texts[w]) : m \in 1 .. Len(Texts[w]) - 1 => Texts[w][m] # Texts[w][m + 1]}

(* A process that writes waits for consola_lock, puts what finds room, and  *)
(* sleeps for more under sched_lock if there is not a place to be had. With *)
(* one place and a '\n' to come it neither puts nor sleeps.                 *)
Escribe(w) ==
  /\ writer[w].pc = "call" /\ lock = Nobody
  /\ lock' = w
  /\ writer' = [writer EXCEPT ![w].pc = "begin"]
  /\ UNCHANGED <<board, uart, mail, con, usb, push, keyVars, klog, avisado, perdidos, avisar,
                 shown, ghost, left>>

Elige(w) ==
  /\ writer[w].pc = "begin"
  /\ writer' = [writer EXCEPT ![w].pc = IF uart.desviar THEN "put" ELSE "hw"]
  /\ UNCHANGED <<board, uart, mail, con, usb, push, keyVars, klog, avisado, perdidos, avisar,
                 lock, shown, ghost, left>>

(* Straight to the line, under uart_lock, which uart_ceder() takes too.     *)
Directo(w) ==
  /\ writer[w].pc = "hw" /\ ~uart.desviar
  /\ shown' = shown \o Pieces(w, 0, Len(Texts[w]))
  /\ writer' = [writer EXCEPT ![w].pc = "ret", ![w].i = Len(Texts[w])]
  /\ UNCHANGED <<board, uart, mail, con, usb, push, keyVars, klog, avisado, perdidos, avisar,
                 lock, ghost, left>>

(* The UART is the driver's by then: putc_hw() against hw_putc(), which has *)
(* no lock.  The two may see the same free place of the FIFO, and then what *)
(* is written second is lost.  The driver writes its greeting (from         *)
(* uart_ceder() to its first drenar()) and what it took from the log.  What *)
(* it loses itself is text of the kernel, of which no property speaks.      *)
DriverWrites == (con.pc = "icr" /\ ~con.irq) \/ (con.pc = "show" /\ con.text # <<>>)

DirectoTarde(w) ==
  LET i == writer[w].i
  IN  /\ writer[w].pc = "hw" /\ uart.desviar /\ i < Len(Texts[w])
      /\ \/ shown' = shown \o Pieces(w, i, i + 1)
         \/ DriverWrites /\ UNCHANGED shown
      /\ writer' = [writer EXCEPT ![w].pc = IF i + 1 = Len(Texts[w]) THEN "ret" ELSE "hw",
                                  ![w].i = i + 1, ![w].torn = TRUE]
      /\ UNCHANGED <<board, uart, mail, con, usb, push, keyVars, klog, avisado, perdidos, avisar,
                     lock, ghost, left>>

Mete(w) ==
  LET i == writer[w].i
  IN  /\ writer[w].pc = "put"
      /\ \E j \in Whole(w) :
           /\ j = i \/ (j > i /\ Hueco(j - i))
           /\ \A x \in Whole(w) : x > j => ~Hueco(x - i)
           /\ Said(Pieces(w, i, j))
           /\ writer' = [writer EXCEPT ![w].pc = IF j = Len(Texts[w]) THEN "ret" ELSE "full",
                                       ![w].i = j]
      /\ UNCHANGED <<board, uart, mail, con, usb, push, keyVars, avisado, avisar, lock, shown,
                     ghost, left>>

Espera(w) ==
  /\ writer[w].pc = "full"
  /\ writer' = [writer EXCEPT ![w].pc = IF Hueco(1) THEN "put" ELSE "asleep"]
  /\ UNCHANGED <<board, uart, mail, con, usb, push, keyVars, klog, avisado, perdidos, avisar,
                 lock, shown, ghost, left>>

Vuelve(w) ==
  /\ writer[w].pc = "ret"
  /\ lock' = Nobody
  /\ writer' = [writer EXCEPT ![w].pc = "done"]
  /\ UNCHANGED <<board, uart, mail, con, usb, push, keyVars, klog, avisado, perdidos, avisar,
                 shown, ghost, left>>

(* A text of the kernel is put from anywhere and waits for nothing.         *)
KernelWrites ==
  /\ left.kernel > 0
  /\ KernelText(1)
  /\ left' = [left EXCEPT !.kernel = @ - 1]
  /\ UNCHANGED <<board, uart, mail, con, usb, push, keyVars, avisado, avisar, lock, writer,
                 shown, ghost>>

(* klog_avisar(): the clock of each core runs it, and so does uart_push().  *)
(* It takes no lock: the flag goes up after the notice.                     *)
Mira(c) ==
  avisar' = [avisar EXCEPT ![c] = IF ~uart.owned THEN "no"
                                  ELSE IF klog = <<>> THEN "lower"
                                  ELSE IF avisado THEN "no" ELSE "notify"]

Posted(what) ==
  /\ Len(mail) < Room
  /\ mail' = Append(mail, what)

Avisa(c) ==
  \/ /\ avisar[c] = "lower"
     /\ avisado' = FALSE
     /\ avisar' = [avisar EXCEPT ![c] = "no"]
     /\ ghost' = [ghost EXCEPT !.crossed = FALSE]
     /\ UNCHANGED mail
  \/ /\ avisar[c] = "notify"
     /\ Posted("klog")
     /\ avisar' = [avisar EXCEPT ![c] = "raise"]
     /\ ghost' = [ghost EXCEPT !.late = @ \ {c}]
     /\ UNCHANGED avisado
  \/ /\ avisar[c] = "notify"
     /\ Len(mail) = Room
     /\ avisar' = [avisar EXCEPT ![c] = "no"]
     /\ UNCHANGED <<avisado, mail, ghost>>
  \/ /\ avisar[c] = "raise"
     /\ avisado' = TRUE
     /\ avisar' = [avisar EXCEPT ![c] = "no"]
     /\ ghost' = [ghost EXCEPT !.crossed = @ \/ c \in ghost.late]
     /\ UNCHANGED mail

Tick(c) ==
  /\ \/ avisar[c] = "no" /\ Mira(c) /\ UNCHANGED <<avisado, mail, ghost>>
     \/ Avisa(c)
  /\ UNCHANGED <<board, uart, con, usb, push, keyVars, klog, perdidos, lock, writer, shown, left>>

(* klog_entregado().  Those that have yet to raise their flag will be late. *)
NotEntregado == UNCHANGED <<avisado, ghost>>
Entregado ==
  /\ avisado' = FALSE
  /\ ghost' = [ghost EXCEPT !.crossed = FALSE,
                            !.late = {c \in Callers : avisar[c] = "raise"}]

-----------------------------------------------------------------------------
(* The keys.                                                                *)
Meter(rx, ks) ==    \* rx_meter() of each, until one finds no place
  rx \o SubSeq(ks, 1, IF Len(ks) < RxMax - Len(rx) THEN Len(ks) ELSE RxMax - Len(rx))

Linea(t)    == [i \in 1 .. t.n |-> t.cells[i]]
Entregar(t) == [t EXCEPT !.rx = Meter(@, Linea(t)), !.n = 0]
Linea1(t, k) ==
  IF t.n < LineMax THEN [t EXCEPT !.cells[t.n + 1] = k, !.n = @ + 1] ELSE t

(* disciplina() of a key that is not plain text, or of any key in raw mode. *)
Disciplina(k) ==
  LET kind == Kind(k)
  IN  \/ /\ ~tty.canon
         /\ tty' = [tty EXCEPT !.rx = Meter(@, <<k>>)]
         /\ UNCHANGED <<klog, perdidos>>
      \/ /\ tty.canon /\ kind = "nl"
         /\ tty' = Entregar(Linea1(tty, k))
         /\ KernelText(2)
      \/ /\ tty.canon /\ kind = "bs"
         /\ IF tty.n = 0 THEN UNCHANGED <<tty, klog, perdidos>>
            ELSE tty' = [tty EXCEPT !.n = @ - 1] /\ KernelText(3)
      \/ /\ tty.canon /\ kind = "kill"
         /\ tty' = [tty EXCEPT !.n = 0]
         /\ KernelText(3 * tty.n)
      \/ /\ tty.canon /\ kind = "eof"
         /\ tty' = IF tty.n > 0 THEN Entregar(tty) ELSE [tty EXCEPT !.eof = TRUE]
         /\ UNCHANGED <<klog, perdidos>>

Plain(k) == tty.canon /\ Kind(k) = "c"

(* uart_push(): key by key, the plain ones in two steps, since linea_n is   *)
(* read and written without a lock; then who reads is woken, who shows the  *)
(* echo is told, and the keys that were thrown away are.                    *)
Woken(r) == IF r.pc = "asleep" THEN [r EXCEPT !.pc = "look"] ELSE r

PushKey ==
  /\ push.pc = "key" /\ push.buf # <<>>
  /\ IF ~push.irq /\ Len(tty.rx) = RxMax /\ tty.n >= LineMax - 1
     THEN /\ push' = [push EXCEPT !.pc = "wake", !.buf = <<>>, !.thrown = TRUE]
          /\ UNCHANGED <<tty, klog, perdidos>>
     ELSE LET k == Head(push.buf) IN
          \/ /\ Plain(k) /\ tty.n < LineMax - 1
             /\ push' = [push EXCEPT !.pc = "store", !.n = tty.n]
             /\ UNCHANGED <<tty, klog, perdidos>>
          \/ /\ Plain(k) /\ tty.n >= LineMax - 1
             /\ push' = [push EXCEPT !.buf = Tail(@)]
             /\ UNCHANGED <<tty, klog, perdidos>>
          \/ /\ ~Plain(k)
             /\ Disciplina(k)
             /\ push' = [push EXCEPT !.buf = Tail(@)]
  /\ UNCHANGED <<reader, mail, avisado, avisar, ghost>>

PushStore ==
  /\ push.pc = "store"
  /\ tty' = [tty EXCEPT !.cells[push.n + 1] = Head(push.buf), !.n = push.n + 1]
  /\ IF tty.canon THEN KernelText(1) ELSE UNCHANGED <<klog, perdidos>>
  /\ push' = [push EXCEPT !.pc = "key", !.buf = Tail(@)]
  /\ UNCHANGED <<reader, mail, avisado, avisar, ghost>>

PushWake ==
  /\ push.pc \in {"key", "wake"} /\ push.buf = <<>> /\ ~push.irq
  /\ reader' = Woken(reader)
  /\ push' = [push EXCEPT !.pc = "tell"]
  /\ UNCHANGED <<tty, klog, perdidos, mail, avisado, avisar, ghost>>

PushTell ==
  \/ /\ push.pc = "tell"
     /\ Mira("push")
     /\ push' = [push EXCEPT !.pc = "telling"]
     /\ UNCHANGED <<keyVars, klog, perdidos, mail, avisado, ghost>>
  \/ /\ push.pc = "telling" /\ Avisa("push")
     /\ UNCHANGED <<keyVars, klog, perdidos, push>>
  \/ /\ push.pc = "telling" /\ avisar["push"] = "no"
     /\ IF push.thrown THEN KernelText(1) ELSE UNCHANGED <<klog, perdidos>>
     /\ push' = [push EXCEPT !.pc = "no", !.thrown = FALSE]
     /\ UNCHANGED <<keyVars, mail, avisado, avisar, ghost>>

Push ==
  /\ PushKey \/ PushStore \/ PushWake \/ PushTell
  /\ UNCHANGED <<board, uart, con, usb, lock, writer, shown, left>>

Pushes(ks) == push' = [push EXCEPT !.pc = "key", !.buf = ks]

(* task_console_interrupt() and task_console_stop(): what was typed is      *)
(* thrown away, and the signal cuts the waits of the foreground.            *)
DescartarLeido(t) == [t EXCEPT !.rx = <<>>, !.eof = FALSE]
Descartar(t)      == [t EXCEPT !.n = 0, !.rx = <<>>, !.eof = FALSE]

Interrupt(n) ==
  /\ tty' = Descartar(tty)
  /\ reader' = [reader EXCEPT !.pc = IF @ = "asleep" THEN "out" ELSE @]
  /\ writer' = [w \in Writers |-> [writer[w] EXCEPT !.pc = IF @ = "asleep" THEN "ret" ELSE @]]
  /\ ghost' = [ghost EXCEPT !.done = @ + n]

(* The process that reads: uart_leer() under sched_lock, and uart_modo().   *)
Takes(n, m) ==   \* so many: all there are, or until the end of a line
  /\ m <= n
  /\ \A i \in 1 .. m - 1 : ~(tty.canon /\ Kind(tty.rx[i]) = "nl")
  /\ m \notin {n, Len(tty.rx)} => tty.canon /\ Kind(tty.rx[m]) = "nl"

Call(n) ==
  /\ reader.pc = "out"
  /\ reader' = [reader EXCEPT !.pc = "look", !.n = n]
  /\ UNCHANGED <<tty, ghost, left>>

Leer ==
  /\ reader.pc = "look"
  /\ \/ \E m \in 1 .. Len(tty.rx) :
           /\ Takes(reader.n, m)
           /\ tty' = [tty EXCEPT !.rx = SubSeq(@, m + 1, Len(@))]
           /\ reader' = [reader EXCEPT !.pc = "out", !.last = tty.rx[m]]
           /\ ghost' = [ghost EXCEPT !.mixed = @ \/ Epoch(tty.rx[1]) # Epoch(tty.rx[m])]
     \/ /\ tty.rx = <<>> /\ tty.eof
        /\ tty' = [tty EXCEPT !.eof = FALSE]
        /\ reader' = [reader EXCEPT !.pc = "out"]
        /\ UNCHANGED ghost
     \/ /\ tty.rx = <<>> /\ ~tty.eof
        /\ reader' = [reader EXCEPT !.pc = "asleep"]
        /\ UNCHANGED <<tty, ghost>>
  /\ UNCHANGED left

Modo ==
  /\ reader.pc = "out" /\ left.modes > 0
  /\ tty' = [tty EXCEPT !.canon = ~@, !.n = IF tty.canon THEN @ ELSE 0]
  /\ left' = [left EXCEPT !.modes = @ - 1]
  /\ UNCHANGED <<reader, ghost>>

Reader ==
  /\ (\E n \in ReadSizes : Call(n)) \/ Leer \/ Modo
  /\ UNCHANGED <<board, uart, mail, con, usb, push, textVars>>

-----------------------------------------------------------------------------
(* The serial line: a key enters the FIFO, or is lost if it is full, and    *)
(* raises the interrupt, which writing ICR lowers.  The core that takes it  *)
(* masks it and tells the driver, or opens it again if it could not.        *)
Typed ==
  /\ board.on = "serial" /\ board.typed < Len(board.script)
  /\ board' = [board EXCEPT !.typed = @ + 1]
  /\ uart' = [uart EXCEPT !.fifo = IF Len(@) < FifoMax THEN Append(@, board.typed + 1) ELSE @,
                          !.ris = TRUE]
  /\ ghost' = [ghost EXCEPT !.blurred = \/ @
                                        \/ Len(uart.fifo) >= FifoMax /\ Kind(board.typed + 1) = "sig"]
  /\ UNCHANGED <<mail, con, usb, push, keyVars, textVars, left>>

IrqHandle ==
  /\ uart.owned /\ uart.ris /\ uart.open
  /\ \/ Posted("irq") /\ uart' = [uart EXCEPT !.open = FALSE]
     \/ Len(mail) = Room /\ UNCHANGED <<uart, mail>>
  /\ UNCHANGED <<board, con, usb, push, keyVars, textVars, ghost, left>>

(* uart_irq(), while nobody has asked for the interrupt: each key to the    *)
(* discipline, then the acknowledgement, and then who waits is woken.       *)
UartIrqReads ==
  /\ push.pc = "key" /\ push.irq /\ push.buf = <<>> /\ uart.fifo # <<>>
  /\ LET k == Head(uart.fifo) IN
     IF Kind(k) = "sig"
     THEN /\ push' = [push EXCEPT !.sig = @ + 1]
          /\ ghost' = [ghost EXCEPT !.blurred = @ \/ push.any]
     ELSE /\ push' = [push EXCEPT !.buf = <<k>>, !.any = TRUE]
          /\ ghost' = [ghost EXCEPT !.blurred = @ \/ push.sig > 0]
  /\ uart' = [uart EXCEPT !.fifo = Tail(@)]
  /\ UNCHANGED <<keyVars, writer>>

UartIrqAcks ==
  \/ /\ push.pc = "key" /\ push.irq /\ push.buf = <<>> /\ uart.fifo = <<>>
     /\ push' = [push EXCEPT !.pc = "icr"]
     /\ UNCHANGED <<uart, keyVars, writer, ghost>>
  \/ /\ push.pc = "icr"
     /\ uart' = [uart EXCEPT !.ris = FALSE]
     /\ push' = [push EXCEPT !.pc = "woken"]
     /\ UNCHANGED <<keyVars, writer, ghost>>
  \/ /\ push.pc = "woken"
     /\ reader' = Woken(reader)
     /\ push' = [push EXCEPT !.pc = "sig"]
     /\ UNCHANGED <<uart, tty, writer, ghost>>
  \/ /\ push.pc = "sig"
     /\ IF push.sig > 0 THEN Interrupt(push.sig) ELSE UNCHANGED <<keyVars, writer, ghost>>
     /\ push' = [push EXCEPT !.pc = "no", !.irq = FALSE, !.sig = 0, !.any = FALSE]
     /\ UNCHANGED uart

UartIrq ==
  /\ \/ /\ push.pc = "no" /\ ~uart.owned /\ uart.ris /\ uart.open
        /\ push' = [push EXCEPT !.pc = "key", !.irq = TRUE]
        /\ UNCHANGED <<uart, keyVars, writer, ghost>>
     \/ UartIrqReads \/ UartIrqAcks
  /\ UNCHANGED <<board, mail, con, usb, klog, avisado, perdidos, avisar, lock, shown, left>>

Imprime ==
  /\ left.prints > 0
  /\ Posted("print")
  /\ left' = [left EXCEPT !.prints = @ - 1]
  /\ UNCHANGED <<board, uart, con, usb, push, keyVars, textVars, ghost>>

(* The driver: main().  It takes the UART with irq_register() - not, here,  *)
(* in the middle of a uart_irq() - and drains what had come before.         *)
Registra ==
  /\ \/ /\ con.pc = "boot" /\ ~push.irq
        /\ uart' = [uart EXCEPT !.owned = TRUE, !.open = TRUE]
        /\ con' = [con EXCEPT !.pc = "cede"]
     \/ /\ con.pc = "cede"
        /\ uart' = [uart EXCEPT !.desviar = TRUE]
        /\ con' = [con EXCEPT !.pc = "icr"]
  /\ UNCHANGED <<board, mail, usb, push, keyVars, textVars, ghost, left>>

Recv ==
  /\ con.pc = "recv" /\ mail # <<>>
  /\ mail' = Tail(mail)
  /\ con' = [con EXCEPT !.irq = Head(mail) = "irq",
                        !.pc = CASE Head(mail) = "irq" -> "icr"
                                 [] Head(mail) = "klog" -> "saca"
                                 [] OTHER -> "recv"]
  /\ UNCHANGED <<board, uart, usb, push, keyVars, textVars, ghost, left>>

(* drenar(): acknowledge first, empty the FIFO after.                       *)
Reconoce ==
  /\ con.pc = "icr"
  /\ uart' = [uart EXCEPT !.ris = FALSE]
  /\ con' = [con EXCEPT !.pc = "read"]

Lee ==
  /\ con.pc = "read" /\ uart.fifo # <<>>
  /\ LET k == Head(uart.fifo) IN
     IF Kind(k) = "sig"
     THEN /\ con' = [con EXCEPT !.sig = @ + 1]
          /\ ghost' = [ghost EXCEPT !.blurred = @ \/ con.any]
     ELSE /\ con' = [con EXCEPT !.buf = Append(@, k), !.any = TRUE,
                                !.pc = IF Len(con.buf) + 1 = BufMax THEN "push" ELSE "read"]
          /\ ghost' = [ghost EXCEPT !.blurred = @ \/ con.sig > 0]
  /\ uart' = [uart EXCEPT !.fifo = Tail(@)]

VaciaYReconoce ==
  \/ /\ con.pc = "read" /\ uart.fifo = <<>>
     /\ con' = [con EXCEPT !.pc = "again"]
     /\ UNCHANGED <<uart, ghost>>
  \/ /\ con.pc = "again"
     /\ con' = [con EXCEPT !.pc = IF con.buf = <<>> THEN "sig" ELSE "last"]
     /\ uart' = [uart EXCEPT !.ris = FALSE]
     /\ UNCHANGED ghost

Vacia ==
  /\ uart.fifo = <<>>
  /\ \/ con.pc = "read"  /\ con' = [con EXCEPT !.pc = "again"]
     \/ con.pc = "again" /\ con' = [con EXCEPT !.pc = IF con.buf = <<>> THEN "sig" ELSE "last"]
  /\ UNCHANGED <<uart, ghost>>

OtraVez ==
  /\ con.pc = "again" /\ uart.fifo # <<>>
  /\ con' = [con EXCEPT !.pc = "icr"]
  /\ UNCHANGED <<uart, ghost>>

Drenar ==
  /\ (Reconoce /\ UNCHANGED ghost) \/ Lee \/ Vacia \/ OtraVez
  /\ UNCHANGED <<board, mail, usb, push, keyVars, textVars, left>>

Empuja ==
  /\ \/ /\ con.pc \in {"push", "last"} /\ con.buf # <<>>
        /\ Pushes(con.buf)
        /\ con' = [con EXCEPT !.buf = <<>>]
     \/ /\ con.pc \in {"push", "last"} /\ con.buf = <<>> /\ push.pc = "no"
        /\ con' = [con EXCEPT !.pc = IF @ = "push" THEN "read" ELSE "sig"]
        /\ UNCHANGED push
  /\ UNCHANGED <<board, uart, mail, usb, keyVars, textVars, ghost, left>>

Senyala ==
  /\ con.pc = "sig"
  /\ IF con.sig > 0 THEN Interrupt(con.sig) ELSE UNCHANGED <<tty, reader, writer, ghost>>
  /\ con' = [con EXCEPT !.pc = "saca", !.sig = 0, !.any = FALSE]
  /\ UNCHANGED <<board, uart, mail, usb, push, klog, avisado, perdidos, avisar, lock, shown, left>>

(* vaciar_klog(): klog() until it gives nothing, and each piece to the line.*)
Saca ==
  /\ con.pc = "saca"
  /\ LET n == IF Len(klog) < Chunk THEN Len(klog) ELSE Chunk IN
     /\ con' = [con EXCEPT !.pc = "told", !.text = SubSeq(klog, 1, n), !.n = n, !.empty = n = Len(klog)]
     /\ klog' = SubSeq(klog, n + 1, Len(klog))
  /\ UNCHANGED <<avisado, perdidos, writer, shown, ghost, uart>>

Entrega ==
  /\ con.pc = "told"
  /\ IF con.empty THEN Entregado ELSE UNCHANGED <<avisado, ghost>>
  /\ con' = [con EXCEPT !.pc = "wake"]
  /\ UNCHANGED <<klog, perdidos, writer, shown, uart>>

Despierta ==
  /\ con.pc = "wake"
  /\ writer' = [w \in Writers |->
       [writer[w] EXCEPT !.pc = IF @ = "asleep" /\ con.n > 0 THEN "put" ELSE @]]
  /\ con' = [con EXCEPT !.pc = "show"]
  /\ UNCHANGED <<klog, avisado, perdidos, shown, ghost, uart>>

Muestra ==
  /\ con.pc = "show"
  /\ IF klog = <<>> /\ perdidos
     THEN klog' = <<[by |-> Nobody, i |-> 0]>> /\ perdidos' = FALSE
     ELSE UNCHANGED <<klog, perdidos>>
  /\ shown' = shown \o con.text
  /\ con' = [con EXCEPT !.text = <<>>, !.n = 0,
                        !.pc = IF con.n > 0 THEN "saca" ELSE IF con.irq THEN "ack" ELSE "recv"]
  /\ UNCHANGED <<avisado, writer, ghost, uart>>

Ack ==
  /\ con.pc = "ack"
  /\ uart' = [uart EXCEPT !.open = TRUE]
  /\ con' = [con EXCEPT !.pc = "recv"]
  /\ UNCHANGED <<klog, avisado, perdidos, writer, shown, ghost>>

VaciarKlog ==
  /\ Saca \/ Entrega \/ Despierta \/ Muestra \/ Ack
  /\ UNCHANGED <<board, mail, usb, push, keyVars, avisar, lock, left>>

(* The driver of USB: a report brings some keys, and a ^C goes in its place *)
(* among the others.                                                        *)
Informe(n) ==
  /\ board.on = "usb" /\ usb.pc = "rest" /\ board.typed + n <= Len(board.script)
  /\ board' = [board EXCEPT !.typed = @ + n]
  /\ usb' = [pc |-> "give", keys |-> [i \in 1 .. n |-> board.typed + i]]
  /\ UNCHANGED <<uart, mail, con, push, keyVars, textVars, ghost, left>>

Before(n) ==     \* the keys until the first ^C
  /\ \A i \in 1 .. n : Kind(usb.keys[i]) # "sig"
  /\ n < Len(usb.keys) => Kind(usb.keys[n + 1]) = "sig"

TecladoEntregar ==
  /\ usb.pc = "give" /\ push.pc = "no"
  /\ \/ \E n \in 1 .. Len(usb.keys) :
           /\ Before(n)
           /\ Pushes(SubSeq(usb.keys, 1, n))
           /\ usb' = [usb EXCEPT !.keys = SubSeq(@, n + 1, Len(@))]
           /\ UNCHANGED <<keyVars, writer, ghost>>
     \/ /\ usb.keys # <<>> /\ Kind(usb.keys[1]) = "sig"
        /\ Interrupt(1)
        /\ usb' = [usb EXCEPT !.keys = Tail(@)]
        /\ UNCHANGED push
     \/ /\ usb.keys = <<>>
        /\ usb' = [usb EXCEPT !.pc = "rest"]
        /\ UNCHANGED <<push, keyVars, writer, ghost>>
  /\ UNCHANGED <<board, uart, mail, con, klog, avisado, perdidos, avisar, lock, shown, left>>

Next ==
  \/ \E w \in Writers : \/ Escribe(w) \/ Elige(w) \/ Directo(w) \/ DirectoTarde(w)
                          \/ Mete(w) \/ Espera(w) \/ Vuelve(w)
  \/ KernelWrites \/ \E c \in Cores : Tick(c)
  \/ Push \/ Reader \/ Typed \/ IrqHandle \/ Imprime
  \/ UartIrq \/ Registra \/ Recv \/ Drenar \/ Empuja \/ Senyala \/ VaciarKlog
  \/ \E n \in 1 .. BufMax : Informe(n)
  \/ TecladoEntregar

Spec == Init /\ [][Next]_vars

-----------------------------------------------------------------------------
TypeOK ==
  /\ Len(uart.fifo) <= FifoMax /\ Len(mail) <= Room /\ Len(con.buf) <= BufMax
  /\ tty.n \in 0 .. LineMax /\ Len(tty.rx) <= RxMax
  /\ Len(klog) <= KlogMax /\ lock \in Writers \cup {Nobody}
  /\ avisado \in BOOLEAN /\ perdidos \in BOOLEAN
  /\ \A w \in Writers : writer[w].i \in 0 .. Len(Texts[w])

(* What the processes write reaches the line whole and in order, and no     *)
(* call has the text of another inside, however full the log is and         *)
(* whatever the kernel says in between (uart_escribir_texto() waits, and    *)
(* consola_write() holds consola_lock).  Whole, but for a call that chose   *)
(* to write to the line before the kernel gave it up and did so after.      *)
All       == shown \o con.text \o klog
Of(s, w)  == {p \in DOMAIN s : s[p].by = w}
Put(s, w) == {s[p].i : p \in Of(s, w)}

TextIsKept ==
  \A w \in Writers :
    /\ writer[w].torn \/ Put(All, w) = 1 .. writer[w].i
    /\ \A p, q \in Of(All, w) : p < q =>
          /\ All[p].i < All[q].i
          /\ \A r \in p .. q : All[r].by \in {w, Nobody}

(* Nothing that a process has put is lost ("Texto de un PROCESO, que no se  *)
(* puede perder", and from uart_ceder() on "el kernel no la toca").         *)
NoTextIsLost == \A w \in Writers : Put(All, w) = 1 .. writer[w].i

(* Text that waits is announced: the driver does not wait for a notice with *)
(* text in the log and the flag up that keeps every clock from sending one, *)
(* unless klog_entregado() came between a notice and its flag.              *)
TextIsAnnounced ==
  con.pc = "recv" /\ mail = <<>> /\ klog # <<>> /\ avisado => ghost.crossed

(* "The next text that comes in needs a new notice" (irq.c:279-290), whoever *)
(* answered in between.  It does not hold: the flag goes up after its notice *)
(* has been posted, and the driver may have emptied the log and lowered it.  *)
NextTextIsAnnounced == con.pc = "recv" /\ mail = <<>> /\ klog # <<>> => ~avisado

(* A key that has come in is heard: one in the FIFO has its interrupt up    *)
(* and let in when the driver waits, and nobody sleeps for a key with keys  *)
(* to read, or the end of the input, unless the one who brought them is     *)
(* about to wake it.                                                        *)
KeysAreHeard ==
  /\ con.pc = "recv" /\ mail = <<>> /\ uart.fifo # <<>> => uart.ris /\ uart.open
  /\ reader.pc = "asleep" /\ (tty.rx # <<>> \/ tty.eof) =>
       push.pc \in {"key", "store", "wake", "icr", "woken"}

(* What is read is what was typed, in its order and once; nothing typed     *)
(* before a ^C is left once it has been dealt with, and no read joins what  *)
(* was typed before a ^C with what was typed after it, unless the serial    *)
(* driver found the two in the FIFO together, or the ^C was lost there.     *)
InterruptForgets ==
  LET all == tty.rx \o (IF tty.canon THEN Linea(tty) ELSE <<>>)
  IN  /\ \A i \in 1 .. Len(all) : all[i] > IF i = 1 THEN reader.last ELSE all[i - 1]
      /\ \A i \in 1 .. Len(all) : Epoch(all[i]) >= ghost.done
      /\ ghost.mixed => ghost.blurred
=============================================================================
