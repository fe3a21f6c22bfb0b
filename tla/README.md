# TinyOS in TLA+

TinyOS is a small operating system for a four-core AArch64 board: a kernel in C
(`src/src/`), with its drivers and its file and network servers outside it as
ordinary programs (`src/user/`), a C library (`src/lib/`) and message ports to
talk to the servers.  The comments of the code argue at length why each lock is
where it is and why each wait ends; this directory states those arguments as
TLA+ properties, model-checks them with TLC on small instances and proves the
most important ones with TLAPS for every number of cores, tasks, processes and
ports.

`PROJECT.json` lists the parts of the system, the runs, the lines of the source
each definition translates, the hazards the properties are aimed at, and the
theorems.

## 1. Inventory

### The kernel

| Part | State it keeps | Operations | Talks to | Modules |
|---|---|---|---|---|
| Scheduler (`sched.c`, `switch.S`, `irq.c`, `timer.c`) | `tasks[]`: state, quantum, wake tick, kernel stack; `current` of each core; `sched_lock`; `need_resched`, `kick_next`, `smp_sched_ready` | tick, preempt, yield, sleep, block, wake, create, exit, reap, idle loop, kick | the wait queues, the timer and the interrupts between cores | `Sched` |
| Wait queues (`sync.c`) | a list of tasks under `sched_lock`; `interrumpido` | `wq_wait`, `wq_wait_sin_cortes`, `wq_wake_one/all`, `wq_remove` | everything that waits | inside each |
| Mutexes, semaphores, channels (`sync.c`) | owner and queue; count and queue; ring and two queues | lock, trylock, unlock; wait, post; send, try_send, recv | wait queues | the mutex in `FsClient` |
| Processes (`sched.c`) | pid, parent, process group, exit code, `parada_avisada`, children | `fork`, `spawn`, `exec`, `waitpid`, exit, stop, continue, the reaper | memory, ports, descriptors, signals | `Procs` |
| Signals (`sched.c`, `exception.c`, `syscall.c`) | `sig_pending`, handlers, `sig_frame`, `interrumpido`, `reanudable`, the trap frame | kill, keyboard, delivery on the way to EL0, handler, sigreturn, restart of a call, stop and continue | wait queues, `exit_wq`, console | `Signals` |
| Message ports (`ipc.c`) | `ports[]`: owner, ring of eight, senders, receivers | create, send, recv, notify, release | processes, interrupts, alarms | `Mailbox`, `Ports` |
| Alarms (`ipc.c`) | `alarmas[]`: pid, port, period, next tick | set, tick (on all the cores) | timer, ports | as seen by programs, `Net`, `Tcp` |
| Kernel file client (`file.c`) | `fs_mtx`, one request buffer, the port for answers | a transaction: send, wait, receive | ports, the file server | `FsClient` |
| Descriptors and pipes (`file.c`) | reference counts; ring of a pipe, readers, writers, two queues | open, dup, close, pipe, read, write | processes (fork, exec, reap), wait queues | `Pipes` |
| Console (`uart.c`, `file.c`) | kernel log, its reserve and its notice; input ring, line being edited, mode | write, `klog`, `uart_push`, line discipline, read, `uart_modo` | its driver in EL0, signals | `Console` |
| Interrupts for EL0 (`irq.c`) | which port each interrupt belongs to, masked or not; `klog_avisado` | register, arrive, acknowledge, release | ports, GIC | that of the UART, `Console` |
| Physical memory (`pmm.c`), kernel heap (`kheap.c`) | bitmap with counts; free list | alloc, share, free, contiguous runs | everything | `Memory` (frames) |
| Virtual memory (`vmm.c`, `sched.c`) | page tables, ASIDs, mapped files, heap and stack of each process | map, fork (copy on write), page fault, mmap, munmap, sbrk, DMA | physical memory, the file client | `AddressSpaces`, `Memory` |
| Floating point (`fpu.c`, `fpu.S`) | registers per task | save and restore with the switch | scheduler | – |
| Paths and executables (`path.c`, `sched.c`) | none | `path_resolve`, `load_elf` | the file client | – |
| Boot (`boot.S`, `smp.c`, `kernel.c`) | which cores have started | start the cores, open the scheduler, create init | scheduler | in `Sched` |

### Outside the kernel

| Part | State it keeps | Operations | Modules |
|---|---|---|---|
| File server (`user/fs.c`, `user/sd.c`) and its client in `file.c` | the FAT in its copies, directories, clusters, on the card and on a stick | create, write, delete, mkdir, rmdir, rename, mount; `file_open` over them | `FileTree`, `Fat`; the mounting in `Usb` |
| Console driver (`user/conserver.c`) | what it has read and not pushed yet | empties the kernel log, drains the UART, pushes keys, acknowledges | `Console` |
| Network server (`user/red.c`) and `lib/red.c`, `user/hora.c` | ARP, DHCP, names, sockets, TCP connections, who asked for the time | frames in and out, the second, requests | `Tcp`, `Net` |
| USB (`user/usb.c`) | hub and ports, addresses, the dialogue with a stick, keyboard, card | enumeration, transfers, sectors, keys, frames | `Usb`; keys in `Console`, frames in `Net` |
| init, shell, programs (`user/init.c`, `user/sh.c`, …) | children; jobs | restart of the servers; foreground, background | the restarts, in `FsClient` and `Net` |
| C library (`lib/`) | user heap, stdio buffers | pure algorithms and calls | the calls of the network and `file_open` |

### What is hard here

* **Four cores, one lock that changes hands.**  `sched_lock` is taken by the
  task that leaves a core and opened by the one that comes in.  What the code
  does outside it (the reaper, the tick's own accounting, the delivery of
  signals, the flag of the log) interleaves with everything.
* **Waiting.**  Every wait is a check followed by a sleep, woken by somebody who
  may be on another core, by a signal or by the death of the other side.
* **Signals against everything.**  They are noted by one core and delivered by
  another, with a lock on one side and none on the other.
* **Servers that die.**  Requests, answers, interrupts and port numbers outlive
  the process that was behind them, and a number may come back with a new owner.
* **Order of births and deaths.**  A slot is reserved long before the process
  exists, and is given back long after the process has died.
* **The power.**  A request of the file server is several sectors, and the order
  in which they are written is all that protects the volume.
* **A bus and a network that lose, repeat and delay.**  The stick may have taken a
  packet whose handshake was lost; the other machine may have had a segment whose
  acknowledgement was; an answer may come when its wait has been given up.

What makes each part correct, in one line: a task on one core and one stack at a
time (scheduler); no sleeper with its condition true (waits, ports, pipes,
waitpid); a signal is delivered once, never to the wrong call (signals); a death
is told once and then buried (processes); a message is received once, in order,
by the owner of the port (ports); the answer a process gets is its own (file
client); memory is freed when and only when nobody uses it (memory); text and
keys are neither lost nor mixed (console); a request is done whole or spoils only
what it names (files); a stream is the stream (TCP); a sector is what the last
answer said (USB); an answer is for whoever asked (network).

## 2. How the project is laid out

The order was the order of importance: first what everything else runs on, then
what it offers, then what is built outside the kernel.

| # | Module | Composes / refines | Checked by | Proofs |
|---|---|---|---|---|
| 1 | `Sched` | – | `sched` | the first half of `TasksProofs` |
| 2 | `Signals` | – | `signals` | the second half of `TasksProofs` |
| 3 | `Procs` | – | `procs` | the first half of `TerminalProofs` |
| 4 | `Ports` | refines `Mailbox` | `ports` | `PortsProofs`, the refinement included |
| 5 | `FsClient` | extends `Ports` | `fs_client` | the second half of `PortsProofs` |
| 6 | `Pipes` | – | `pipes` | `PipesProofs` |
| 7 | `Memory` | refines `AddressSpaces` | `memory` | `MemoryProofs`, the refinement included |
| 8 | `Console` | UART, driver, log, line and readers together | `console` | the second half of `TerminalProofs` |
| 9 | `Fat` | refines `FileTree` | `fat` | – |
| 10 | `Tcp` | server, library and the other machine together | `tcp` | `TcpProofs` |
| 11 | `Net` | server, library, driver and the other machines together | `net` | `NetProofs` |
| 12 | `Usb` | driver, hub, stick and the side of the file server together | `usb` | `UsbProofs` |

What could still be added is in section 7.  Two proof modules hold two
components each that share nothing but the kernel; that is why `Signals` and `Procs`
call what every module has by names of their own (`SignalsSpec`, `SignalsInit`,
`SignalsTypeOK`; `ProcsSpec`, ...).  `MCSched`, `MCSignals`, `MCPipes`,
`MCMemory`, `MCFat`, `MCUsb`, `MCNet` and `MCConsole` give TLC the constants that
are not plain values; the other modules are run as they are.

## 3. The modules

Kernel code that runs with `sched_lock` held is one action, because nobody else
can read or write what it protects; a wait ends the action.  Code that runs
without it is cut wherever another core can see the difference.

### `Sched`: the scheduler

*State.*  `state`, `counter`, `wake`, `kstack` are fields of `tasks[]`
(`wake` counts down instead of being compared with a growing tick);
`current[c]` is TPIDR_EL1 and `stack[c]` the stack the core really stands on,
which are different for a while in every switch; `lock` is `sched_lock`; `pc[c]`
says whether the core runs its task, is in an interrupt, has decided to switch,
or has switched and must open the lock; `dead` is the reaper's variable.

*Actions.*  `TimerTick` (timer_irq + scheduler_tick), `KickArrives`, `Preempt`
and `ReturnFromIrq` (the end of irq_handle), `IdleLoop`, `TaskYield`,
`TaskSleep`, `WqWait`, `WakeTask`, `TaskCreate`, `TaskExit`, the four steps of
the reaper (`ReaperFinds`, `ReaperWaits`, `ReapStack`, `ReapSlot`: the first two
with the lock, the others without) and the three of the boot.  Each one that
calls `schedule()` ends in `Reschedule`, which takes the decision and leaves the
lock closed; `CpuSwitchTo` changes the stack and `Unlock` opens.

*Properties.*  `OneCorePerTask`, `StacksDisjoint`, `StackUnderFeet` (and
`CoreInv`, the inductive invariant they follow from); `NoStarvation` and
`SleepersWake` under fairness.

*Not in it.*  Which queue one waits in and whose zombie it is: any blocked task
may be woken and any zombie be up for collection, which is more than the code
does.  Address spaces and FPU registers.

### `Signals`

*State.*  `tasks[p]` is what other cores see of the task (state, pending set,
handlers, whether a handler runs, `interrumpido`, the queue it waits in); `at`,
`cursor`, `loaded` and `again` are where the task itself is inside
`signal_deliver`, which reads `sig_pending` and writes it back without the lock;
`ctx` and `saved` are the trap frame and its copy on the user stack, reduced to
what matters: the result -EINTR, and a PC that has been moved back to the `svc`.
`cut` is a history variable: the call really was cut.

*Actions.*  `SysKill`, `Keyboard`, `SysSignal`, the waits (`SysWait`, `SysSleep`,
`ReadInBackground`, `Block`, `Wake`, `Woken`, `WokenUninterruptible`, `Slept`),
`SysExec`, `SysExit`, `SysSigreturn`, `Interrupted` (a tick in EL0), and the way
back to EL0: `Leave`, `LeaveNesting`, `Scan`, `Take`, `Park`, `Resume`,
`ResumeRead`.

*Properties.*  `StopAndContinueExclude`, `CutForAReason`, `FrameIsKept`; and two
statements of the comments which the code does not keep (section 5).

### `Procs`

*State.*  A slot is `tasks[]` with its state, pid, parent, whether it has an
address space, and whether its stop has been told; `kid` is the slot a process
is filling in the middle of `fork`; `req` what it waits for; `told` counts how
often the death of a pid has been told.

*Actions.*  `Reserve`, `NameParent`, `Publish`, `Fail` (fork and spawn, in the
pieces between which the lock is open), `Stop`, `Continue`, `Exit`, `Signalled`,
`Wait` and `WaitEnds` (one turn of the loop of task_wait each), `ReaperFinds`,
`ReaperSleeps`, `Reap`.

*Properties.*  `NoMissedNews`, `SomebodyToWaitFor`, `DeathToldOnce`,
`OnlyOrphansUntold`; `CollectedAreReaped` under fairness.

### `Mailbox` and `Ports`

`Mailbox` says what a port is: a sequence of at most `PORT_QUEUE` messages with
an owner, calls that are asked and answered.  `Ports` is ipc.c: rings with head,
tail and count, two wait queues, calls that take several turns, signals that cut
them, owners that die, numbers that come back.  `IsAMailbox` is the refinement:
`Box` reads the ring from head on, and each turn of a call that does not end it
is a stutter.  `NobodySleepsOnMail`, `RoomIsOffered` and `NobodyWaitsForTheDead`
are about the queues, which the mailbox does not have.

### `FsClient`

Extends `Ports` with the mutex, the sequence of `fs_transaccion` in each client
and the loop of the server (`user/fs.c`), with servers that die and are replaced
and signals to anybody.  Data is left out: a request is the client and which of
its transactions it is, and the answer carries the same.  `vain` is a history
variable: some transaction has been cut after its request was sent.

### `Pipes`

*State.*  `files` and `pipes` are the two structures of file.h, without the bytes;
`fd` the table of each process; `call` where a process is inside a read, a write,
a fork that is copying the table or a dup2 that has closed and not yet duplicated;
`dead` the reaper's variable.  A process that is being born is `BLOCKED`, as in the
code.

*Actions.*  `SysPipe`, `SysClose`, `SysDup2` and `Dup2`, `SysFork`, `Inherit` (one
descriptor) and `Born`, `SysExit`, `SysWait`, the reaper (`ReaperFinds`, `ReapFd`,
`ReapSlot`); a turn of `pipe_read` (`PipeReadEnds`, `PipeReadWaits`, `PipeReads`)
and of `pipe_write` in the same way; `Cut` and `Signalled`.

*Properties.*  `RefsAreDescriptors`, `PipesOutliveTheirUsers`,
`NobodySleepsInVain`; and `EndOfFileArrives`, which the code does not keep.

*Not in it.*  The console and the descriptors of files, which are not counted in
pipes.  Memory that runs out is a `pipe` that fails and changes nothing.

### `AddressSpaces` and `Memory`

`AddressSpaces` says what a process is promised: a memory of its own, which a fork
copies and an exec replaces at once.  `Memory` is vmm.c and pmm.c with the calls of
sched.c that use them.

*State.*  `refs` is the bitmap and the counts of pmm.c; `mem` what is in a frame, one
value; `pgd` the table of each process and `other` the one it is building (fork, exec,
a new process) or destroying (exec, a failure, the reaper); `stale` what the TLB may
still believe against the table; `at` where each one is; `lost` the frames a program
that could not be loaded leaves in no table.

*Actions.*  `Write`; `Grow`, `Unmap` (sbrk, stack, anonymous mmap, munmap); the fault
on a mapped file (`MmapFault`, `MmapFilled`, `MmapFails`: the server is waited for in
between) and on a shared page (`CowAlone`, `CowFault`, `CowCopy`, `CowDone`); `Fork`,
`ForkPage`, `ForkFails`, `Born`; `Load`, `LoadPage`, `LoadFails`, `LoadLosesPage`,
`ExecSwitch`, `Spawned`; `Exit`, `Reap`, `DestroyPage`, `Destroyed`.  Only pmm.c has a
lock, and each of its calls is one action or part of one.

*Properties.*  `RefsAreUsers` (a frame is free when and only when nobody has it),
`StaleIsHarmless`, and the refinement `IsAddressSpaces`.

*Not in it.*  The levels of the tables, whose frames only appear as mappings that
fail; pages of registers and of DMA; the identifiers of the spaces (section 5).

### `Console`

*State.*  `uart` is the PL011: its FIFO, its interrupt, whether the core lets it in
and whose it is; `klog` the log of text, `lock` consola_lock, `avisado` klog_avisado,
`perdidos` the text that was dropped; `tty` the line discipline with its line, its
ring of keys, its end of file; `con`, `push`, `reader`, `writer` where the driver, the
one who pushes a key, the reader and the writers are; `mail` the port of the driver.

*Actions.*  A writer takes turns of uart_escribir_texto (`Escribe`, `Mete`,
`Espera`, `Vuelve`), or writes to the registers while the UART is the kernel's
(`Directo`); `KernelWrites` never waits; `Tick` sends the notice; `UartIrq`,
`IrqHandle`, `Registra`, `Recv`, `Drenar`, `Empuja`, `Senyala`, `VaciarKlog`,
`Imprime` are the driver and its interrupt; `Push` and `Typed` the keys, `Informe` and
`TecladoEntregar` those of the USB keyboard; `Reader` read() and `uart_modo`.  What
one lock covers is one step, and so is each access to the flag, which has none.

*Properties.*  `TextIsKept` speaks of what the line has shown, what the driver has in its
hands and what the log holds, one after the other (`shown` has the texts of the kernel
too, which may come between two characters of a process); `TextIsAnnounced`,
`KeysAreHeard`; `InterruptForgets`, whose history variable `blurred` says that the serial
FIFO has given a ^C together with other keys or has had no room for one.

*Not in it.*  The death of the driver (section 5), reads of background processes
(they are in `Signals`), the tables of keys.  The driver takes the UART with no key in
the hands of the kernel, echo goes with canonical mode, and one keyboard is typed on
in a behaviour: two at once is a data race (section 5).

### `FileTree` and `Fat`

`FileTree` says what a client is promised: a tree of paths on which a request that is
answered `FS_OK` has been done whole, a refused one has done nothing, and one that a
cut of the power leaves in the middle spoils only what it names.  `Fat` is the writing
half of fs.c: each request is the list of the sectors it writes, in the order of the
code, and a cut may come between any two.

*State.*  `fat` in its copies, `dirs` (the slots of every directory: short and long
entries), `block` (the contents), `up` (the `..` of each directory); `req` and `todo`,
the request being served and the sectors it has still to write; `hurt`, what a cut left;
`spilled`, the clusters that the code itself loses; `asked`, who is in the middle of an
open to add.

*Actions.*  `Asks` (create, mkdir, rmdir, delete), `Writes`, `Renames`, `AsksSize` and
`OpenCreates` (file_open of file.c, which is two requests), `Escribir` (the next
sector), `Responder`, `Cut`.

*Properties.*  `EveryClusterHasOneOwner`, `NothingIsLost`, `SizeIsThere`, and the
refinement `KeepsItsPromise`.

*Not in it.*  Sectors that fail, dates, FSInfo, the FAT of 2^16 clusters or more,
requests that create or write on the name of a directory, requests after a cut that did
harm, the SD controller.

### `Tcp`

*State.*  `conex[]` of red.c field by field; `inbox` and `mail`, the two ports between
program and server; `prog`, where the program is inside lib/red.c; `toUs` and `toPeer`,
the segments on their way (a set: they come in any order, twice or never); `peer`, the
other machine, a correct TCP; `card` and `ip`.  Histories, by connection: `given`, the
bytes the server has handed out; `told`, how many it has said that were in; `sent`, what
it has put in flight; and `prog.late`, a wait that was given up and whose answer may
still come.  The numbers of the sequence are counted modulo
`SeqSpace`, and `TcpAssumption` asks what TCP itself does of a connection: that what
each side may send in a behaviour is less than half of them.

*Actions.*  `Attend` (one request: open, send, receive, close), `Llega` (one segment,
the whole of tcp_llego), `CadaSegundo`, the card that goes and comes back; the calls
`Conectar`, `TcpEnviar`, `TcpRecibir`, `TcpCerrar`, `RedEsperar`, `Alarma`, `Dies`; and
what the other machine does (`PeerGets`, `PeerSends`, `PeerGivesUp`).

*Properties.*  `StreamsAreWhole` (what each side has is the stream of the other, in
order and once, and what was acknowledged is there), `NobodyWaitsInVain`, and
`StreamUntilCut`, the same from end to end through lib/red.c: as long as no wait has been
given up, what the program read is the stream, and what it was told is in the other
machine.

### `Net`

*State.*  `red`, the whole state of the server: card, address, lease, the frame that
waits for ARP, the names and the echo being asked, the sockets, who waits for the time;
`q`, the ports; `air`, the frames; `prog`, the programs with where they are in their
script; who is up.

*Actions.*  `RedReceives` (one message and its handler: request, frame, second, card)
and `RedSends` (one message of what that handler has to send, when it fits; `sent` in the
result of a handler are its frames for the card);
`Arrives`, `Announce`, `Second`; the calls of the library for each program; and the
deaths and restarts of the server and of the driver.

*Properties.*  `ClientsHaveSomebody`, `MailIsRight`, `PingIsItsOwn`.

### `Usb`

*State.*  `board`, what is plugged; `dev`, the address each device believes it has;
`at`, `step`, `todo`, `next`, `who`, `taken`, where the driver is in the enumeration and
whom it has named; `host`, the toggles and the tag of the driver, and `drive`, those of
the stick with what it has in hand; `order`, the dialogue that is running; `sector`, what
the stick holds, and `told`, what the last answer said of each; `fs`, the file server.

*Actions.*  `Driver` is the disjunction of its steps: claim and wake the controller,
start the hub, take the ports, reset, ask, name, look inside, start the stick (with its
tries) or the card, serve an order through its command, data and status, with the
clears of halts and the reset of the transport.  `Server` is fs.c mounting, reading and
writing.  Every transfer is made, is lost, is taken with its handshake lost, or stalls.

*Properties.*  `TakenApart`, `AnswersAreTrue`; `AskedIsAnswered` under fairness.

*Not in it.*  Split transactions, registers, plugging while it runs; one packet for each
phase.  A driver that polls a keyboard is in `Console`, one that passes frames in `Net`.

## 4. The runs

| Run | Instance | What it shows |
|---|---|---|
| `sched` | 2 cores, the reaper and 2 tasks, quantum 1, sleeps until the next tick, fair | no two cores on a stack, with creation, death and sleep, from the boot on; nobody starves and nobody oversleeps |
| `signals` | a shell and its job; KILL, CONT, TSTP; the shell catches SIGCHLD | stop and continue exclude each other; waits are cut for a reason; handlers do not nest |
| `procs` | 3 slots, 4 births, fair | waitpid, collection and the reaper; what has been collected is buried |
| `ports` | 3 processes, 1 port, ring of 2 | the queues, and the refinement |
| `fs_client` | 2 clients, 2 servers (one after the other), rings of 1, signals to all | the hand-over of the mutex, answers; while the server lives every transaction ends although the abandoned ones fill the ports |
| `pipes` | 3 processes, 1 pipe of one byte, 2 descriptors each | counts through every fork, dup2, close, death and burial; nobody sleeps in vain |
| `memory` | 3 processes, a page of the program and one that comes and goes, 3 frames | counts, late TLBs, and the refinement, with memory that runs out at any point |
| `console` | 2 writers, a log of 4 with a reserve of 1, lines, rings, FIFO and port of 2, up to 4 keys from one keyboard, in each of the scenes of `MCConsole` | text whole and announced, keys heard, a ^C that forgets |
| `fat` | 3 clusters of 2 units, 2 copies of the table, a root of 3 entries, directories of 2, one short and one long name, 3 requests and a cut | chains, sizes, and the refinement |
| `tcp` | 1 connection, windows and segments of 2, 3 bytes each way, sequence numbers that wrap, 4 calls of the program, 1 thing that goes wrong | streams and waits |
| `net` | 1 program with 4 scripts, a port of 1 for the server, 1 of everything, 1 frame in the air, 1 trouble | nobody is forgotten, mail and echoes are right |
| `usb` | 4 boards of two ports, 2 sectors, 2 orders, 4 faults, fair | addresses, answers, and an answer to each order |

*Why the bounds are enough.* Two cores are needed for anything to happen at once,
and nothing in the scheduler counts cores except the round of the kicks, which wraps
with two as it does with four. Two tasks besides the reaper let one core be idle
while the other wakes, creates or dies. A quantum of one makes every tick a possible
preemption; how long a sleep is only delays the tick that ends it, and the ticks are
already as late as they like. Three slots let a process have a child while another
one is reserved, four births let a slot be used twice. A ring of two is the smallest
with a middle; three processes are two senders and an owner. Rings of one in
`FsClient` fill after one abandoned transaction. In `Pipes` a ring of one is full or
empty at every turn, with two descriptors both ends fit in one table and a dup2 has
something to replace, and three processes are a parent with two children, or two
readers (the slots of the children, and the addresses of the structures, are
symmetric). In `Memory` three processes are a page shared by three, or a fork of a
fork; three frames are fewer than they can use, so that every allocation also fails;
and two pages let a fork be half done. In `Console` a log of four is full after two
texts, the reserve of one is used by one echo, and lines and rings of two fill with
the keys of a scene; texts longer than the free space make a writer wait in the middle.
In `Fat` three clusters are fewer than two files can use, a long name takes the whole of
a small directory, so that full volumes and full directories happen, and three requests
make something, change it and cut the change. In `Tcp` a window of one segment is filled
and emptied, three bytes are a segment and a half, and one repetition allowed is used
and exhausted. In `Net` the smallest port makes every send wait and every notice be
lost at times, and the scripts put together the calls that share state: a socket with
its datagrams, an echo with another, the time with a name. In `Usb` each board puts the
stick after or before something that may be left behind, and four faults are two orders
spoilt twice. The proofs do not have these bounds.

*Deadlock* is switched off only where the system may stop: everybody dead, or
the bound on births, requests, keys, orders or troubles reached.  `sched` and
`console` keep it on.

*Fairness.*  In `Sched`: a core that holds the lock goes on (weak); its timer
goes on ticking, and a core that spins for the lock gets it if it finds it open
again and again (strong: LDAXR/STLXR is retried for ever with the interrupts
masked; the code has no ticket and promises no more than that).  In `Procs`: the
reaper, and whoever is in the middle of a fork, get their turns.  In `FsClient`:
every process that can go on gets its turn, which is `NoStarvation` of `Sched`.
In `Usb`: so does the driver.  `Tcp`, `Net`, `Console`, `Fat` and `Memory` have no
liveness: what they promise in the end depends on a network, on a keyboard or on
clients that owe nothing; what would keep somebody waiting for ever is stated as an
invariant instead (`NobodyWaitsInVain`, `ClientsHaveSomebody`, `TextIsAnnounced`,
`KeysAreHeard`).

*Types.*  Each module states its type invariant, and all of them are proved but that of
`Fat`, which holds on the instance above, as does `Fat!CopiesAgree`.
`FsClient!OneTransaction` and `Procs!SomebodyToWaitFor` are proved and in no run.

## 5. Where the code and its comments disagree

Some of what the comments promise is stated in the modules and does not hold.  Those
definitions are there, with the line they quote, but in no run: put one in the `.cfg` of
its module (as INVARIANT or PROPERTY) and TLC shows the behaviour.

| Definition | What happens |
|---|---|
| `Signals!OneAtATime` | the delivery writes back a `sig_pending` it read before another core noted one more, which is lost (`sched.c:1540`) |
| `Signals!OnlyTheCutCallIsRewound` | the result of sigreturn is the x0 of whatever was interrupted; if that was -EINTR and the handler was interrupted again, another call is made again (`syscall.c:799`, against `sched.c:1526`) |
| `Pipes!EndOfFileArrives` | what the dead had open is closed by the reaper, which only comes after the parent has collected them; a parent that reads from its child until the end, and then waits for it, never gets there (`MCPipes` under `FairSpec`) |
| `FsClient!AnswersMatch` | after a transaction is cut by a signal its answer goes to the next one |
| `FsClient!TransactionsEnd` | the port for the answers belongs to the kernel and does not die with the server, so a client whose request was in its hands waits for ever |
| `Fat!AppendersOnlyAdd` | file_open with O_ANYADIR asks for the size and then writes there: two programs that add to one file write over each other (`file.c:586`, against 573) |
| `Tcp!EndIsTheEnd` | a connection that the other machine has cut is told to the program as an end of the stream (`red.c:1142`, against `lib/red.c:271`) |
| `Usb!EachOrderItsSector` | after one lost status the stick may carry out an order the driver has given up (`usb.c:996`) |

Others are reachable states of the same models, or were read in the same code.

*Scheduler, processes, signals, memory.*  The secondary cores run tasks before
`sched_start_smp()`, because `idle_loop()` calls `schedule()` without asking
(`sched.c:122`; against `sched.c:389`); a SIGCONT or SIGKILL noted between taking a
stop and stopping, or a SIGKILL between the entry of a call and its wait, leaves the
process stopped or blocked with it pending until something else wakes it
(`sched.c:1391`, against `sched.c:1060`; `sync.c:44`); a reserved slot still has the pid
of its last user, so that an orphan zombie whose parent had that number is taken for one
with a living father and left, with nothing to wake the reaper for it until another
process dies (`sched.c:487`, against `sched.c:480`); a write to a pipe that nobody reads
is accepted while there is room for it (`file.c:105`); exec forgets a SIGKILL that was
already accepted (`sched.c:2247`) and the run of DMA of the program that was there
(`sched.c:2255`); nothing is delivered inside a handler, SIGKILL included, so that a
program that does not come back from one cannot be killed (`sched.c:1536`); a program
whose file ends too soon loses the frame it was being read into, as do the mappings that
fail while it is loaded (`sched.c:1951`, `1965`, `2231`; `lost` in `Memory`).  Not
modelled: `asid_alloc` and `asid_free` change their bitmap without a lock, so that two
spaces born at once may have one identifier (`vmm.c:163`); the four cores walk the alarms
without one (`ipc.c:229`); and `user_fault_fix` does not bring a page of anonymous memory
that is to be written, so that a `read` into one that has not been touched fails
(`sched.c:1474`, against `exception.c:315`).

*Console.*  `klog_avisado` is raised after the notice has been posted: if the driver has
answered in between, no clock sends another while nobody writes
(`irq.c:275`, against 279; the exception of `TextIsAnnounced`).  A ^C that the serial
driver finds in the FIFO with other keys is dealt with after them all, so that a line may
join both sides of it (`conserver.c:160`, against `uart.c:172`; the exception of
`InterruptForgets`), and one that does not fit in a full FIFO is lost, so that the line
before it goes on after it (the other exception); the USB keyboard does it in order.  A line that does not fit in the
ring is delivered by half (`uart.c:118`).  A `\n` needs two places but only one is waited
for: with the reserve and one place free the writer spins with the interrupts masked
(`uart.c:475`, 460).  Erasing a line of 127 echoes more than the reserve (against
`uart.c:419`).  Going raw with half a line leaves it behind, and the keys that follow
overtake it.  The line discipline has no lock, so that two keyboards at once are a data
race.  The death of the driver with sched_lock held asks for it again (`irq.c:237`).  And
a notice that is lost reopens an interrupt that is still up (`irq.c:360`).

*Files.*  Creating or writing on the name of a directory makes a second entry of that
name (`fs.c:1199`, 1277); a full directory loses the cluster that dir_nuevo had taken
(`spilled`); deleting and truncating free the chain before the entry, the opposite of
what is said for directories (`fs.c:1390`); an entry keeps 16 bits of its first cluster
(`fs.c:1166`); a cut leaves orphan pieces of long names; a request to the USB driver
waits for ever if the driver dies with it in its hands (`fs.c:116`); a failed mount
leaves the old `/mnt` without a device.

*Network.*  The acknowledgement that ends a handshake, or that of a pure FIN, is never
repeated (`red.c:1244`, 1302); data that come after their wait was given up are thrown
away by the next call (`lib/red.c:62`); UMSG_ERROR and UMSG_TCP_HUECO do not say which
call they answer, so that the error of a connection that was given up ends the next
`tcp_enviar` early, its own answer is thrown away, and the program that tries again sends
the same bytes twice (`lib/red.c:64`, against 214); a `leer` that comes late to a slot with
another connection leaves a reader in one that is not open yet; a close before the
connection is open leaves the SYN in flight, and the second hand repeats it while the slot
dies (`red.c:1386`, 1412); an alarm that rings late cuts the next wait; a
connect that was given up keeps its slot; requests on a slot that was freed have no
answer; a late answer of DHCP gives an address without a card; the fifth client of the
time is dropped without a word; a second echo takes the place of the first; the frame
that waits for ARP is one, and the next one takes its place; `resolver` does not look
at the name of the answer (`lib/red.c:170`).  The USB driver and the server may each wait
for room in the other's port (`usb.c:1613`, `red.c:6`), the server waits for a program
that does not read, and a server restarted between two frames is not told of the card
(`usb.c:1597`, against 1579).

*USB.*  A SET_ADDRESS that fails leaves the device at the address 0, in the way of the
next one (against `usb.c:2366`); a SET_CONFIGURATION that fails leaves the device for
present; a second stick takes the endpoints of the first (`usb.c:1767`).

## 6. What is proved

Eight modules are proved, for all values of their constants.  In each the argument is
the same: an inductive invariant, stronger than what is wanted; a lemma for each thing
the actions have in common; a step for each action.

The first half of `TasksProofs` proves, for every number of cores, tasks, quantum and longest
sleep (`SchedAssumption`), that `Spec` keeps `CoreInv` (`SchedSafe`), and from it
`SchedTyped`, `NoTaskOnTwoCores`, `NoSharedStack` and `NoStackPulledAway`.
`StacksDisjoint` is not inductive: that two cores never meet on a stack in the
middle of a switch depends on the lock being closed exactly then
(`LockIsHandedOver`), on the one that leaves being out of RUNNING and not yet
UNUSED (`StackFollowsCurrent`), on idle tasks staying on their core
(`IdleStaysHome`) and, for the reaper, on whom it has in its hands being a zombie
with nobody on its stack (`DeadIsDead`, `StacksMapped`).

The second half proves, for every set of processes, family tree, senders and
handlers (`SignalsAssumption`), that `SignalsSpec` keeps its typing together with the
exclusion of stop and continue and `CutForAReason` (`SignalsSafe`), and from it
`SignalsTyped`, `OneOfTheTwo`, `NoVainInterruption` and the action property
`FrameSurvives`.  The exclusion needs to be strengthened with what the delivery
has in its register (`loaded`) against what has been noted since.

The first half of `TerminalProofs` proves, for every number of slots and pids (`ProcsAssumption`),
`ProcsTyped`, `NobodyMissesNews`, `NobodyWaitsForNobody`, `ToldOnce` and the action
property `OrphansOnly`.  The invariant `ProcsInv` adds what the code relies on without
saying it: that the slot being filled by a fork belongs to one process and is nobody
else's child (`Kids`), that no two processes that exist have one pid although slots keep
old ones (`Numbers`), that a zombie whose death has been told has no parent any more
(`ToldHasNoParent`), and that what the reaper has in its hands is in its grave
(`Grave`).

`PortsProofs` proves, for every number of processes and ports and every length of the
ring (`PortsAssumption`), `PortsTyped`, `OwnersWakeUp`, `TheDeadLeaveNobody`,
`RoomForThoseWhoWait`, and that a ring with its two queues implements the mailbox
(`PortsAreMailboxes`).  It rests on lemmas about indices that go round (`Places`,
`OtherPlaces`, `NextPlace`) and about queues that somebody joins or leaves anywhere
(`RestOfQueue`, `JoinQueue`, `LeaveQueue`).  `PortsInv` adds that there is mail wherever
head and count say so (`Full`), that who waits is exactly who is in a queue (`Queues`),
and that at most one process at a time asks for the mail of an owner (`OneAsks`): that is
why waking one is enough.  In `Ports` it follows from everybody asking for their own
(`ForItself`); the kernel's port, which has many clients, is in `FsClient`.  For the room, the
invariant `RoomInv` counts who has been woken and not been cut: a signal only takes away
those who still slept.  For the refinement each action is mapped to one of the mailbox or
to a stutter (`MapsSend`, `MapsRecv`, `MapsTheRest`), with `Put` shown to be `Append` and
`Drop` to be `Tail` on what the ring holds (`DeliverAppends`, `ReceiveTakes`).

The second half of `PortsProofs` proves of `FsClient`, for any number of clients and of servers that die and are
replaced, any length of the ring and any number of transactions (`FsClientAssumption`),
`FsClientTyped`, `TheLockGoesOn`, `OneAtATime` and `AnswersAreForWhoAsked`, and that they
hold with the fairness of the run too (`FairAnswers`).  It takes the ports from
the first half: what was proved there of a call that begins, waits, fails or delivers is
cited, and the mutex is what makes `OneAsks` true of the kernel's port (`Mutex`,
`Inside`).  That an answer is for who receives it cannot be seen in the answer, so that
`FsInv` says where everything is: where each client and each server may be in its loop
(`Whereabouts`), and that until a transaction is cut there is one message at most in the
two ports and in the hands of all the servers, which is that of the client that expects
it (`OneMessage`): a server that dies takes it with it, a request that finds no server
is an error, and in both cases nothing is left behind.  The lock and the unlock cannot
lose who waits, because a signal that takes somebody out of the mutex's queue makes it
run, so that it too is on its way to the lock (`LockIsHandedOn`, inductive once `Mutex`
is known).

`PipesProofs` proves, for any number of processes, descriptors, structures and pipes and
any size of the ring (`PipesAssumption`), `PipesTyped`, `EveryDescriptorIsCounted`,
`PipesOutlive` and `NobodyInVain`.  The counts are of a set, what points at a structure,
that each step makes one larger or one smaller (`OneMore`, `OneLess`); in the middle of
a dup2 the descriptor that has been closed and not yet replaced is not counted.  That
the counts are right is not enough to say that a pipe outlives who is in it.
`PipesInv` adds that each end of a pipe is one structure, there while it is counted
(`Ends`); that who is inside a read, a write or a dup2 has open what it is for, and no
step of anybody else closes that (`Inside`); that the slot a fork is filling belongs to
one parent and is empty from the next descriptor on (`Kids`); and that a slot that is
given has nothing open (`Slots`, `Grave`).

`MemoryProofs` proves, for any number of processes, frames and pages
(`MemoryAssumption`), `MemoryTyped`, `FramesAreCounted`, `LateTLBIsHarmless`, and that
each process has a memory of its own (`MemoriesAreApart`, the refinement of
`AddressSpaces`, step by step).  The assumption that matters is that a count never
reaches the 255 of `pmm.c`: no table has a frame twice (`OncePerTable`, proved), and each
process has at most two tables, so that twice the processes have to be fewer; `sched.h`
has 24.  None of the four is inductive.  `MemInv` adds that a frame that may be written,
or that a page fault has in its hands, has one user (`Exclusive`), and that one that is
lost has none (`LostAlone`); that the place a fork or an exec is filling belongs to one
process (`Kids`); that the child has what has been gone through of its parent, and
nothing else (`Copied`), and the new program only pages of its file (`Loaded`); that what
a page fault found in the table is still there when it maps, although it gave the lock
back (`Faults`); and what the TLB may believe while a fork or a copy is half done
(`Believed`): that a page may be written is believed only where the table does not say
read only, and then the frame has no user but that page, and its copy in the child that
is being made.  The proof found the model wrong in one place: the arms of a `CASE` in
`Load` overlapped when a process loads in its own place, and said two different things
of it, of which TLC took the first.

`UsbProofs` proves, for any hub, any number of sectors, of requests, of tries and of
transfers that go wrong, `UsbTyped`, `DevicesAreApart` and `SectorsAreTrue`.  It assumes
(`UsbAssumption`) that the ports of a hub are numbered from 1 and the sectors from 0, and
that they are finite.  `UsbInv` adds, for the loop of `main()`, that the ports it has not
come to are off, that at most the one in hand is at address 0 among those that will be
named, and that the names that are out are below the next one (`Names`).  For the
sectors it says what the stick may still have in hand: if it has the tag of the order
that is running it has taken the command of that order, the toggles of each direction
then go together, and data that came whole are those of the sector (`Dialogue`); and of a
sector that the stick may still write, nobody believes anything until the write that is
being served is answered (`Doubt`).  That is why a stick that carries out an order the
driver has given up (section 5) deceives nobody.  The ends of a transfer are given one
lemma for each direction (`OutEndsAre`, `InEndsAre`, `Comes`), and one for each end of an
order.  The model was changed in two places only so that it could be reasoned about: the
ports in order are a sequence that increases (`InOrder`) and not the result of a sort, and
the first sector, which is the one `usb.c` reads to try the stick, has its name, 0.

The second half of `TerminalProofs` proves, for any number of writers and of cores, any scenes (what is
typed, what is written, how much the kernel says) and any sizes of the log, the line and
the rings, `ConsoleTyped`, `TextComesOut`, `KeysComeIn`, `ReadsInOrder` and
`TextComesOutWhole`.  `ConsoleAssumption` asks of the sizes what `uart.c` gives them: a
log with more than two places besides its reserve (a `\n` takes two), a line with room for a key
and its end, a read that asks for something.  `ConsoleInv` has a part for each thing that
can go wrong with a key: who may have keys in hand while somebody else does (`Hands`: one
uart_push() at a time is what makes a line without a lock work); where the interrupt is
when it is not up, or not let in (`Heard`); that what is in USB's hands, the FIFO, the
driver's `buf[]`, the push in course, the line, the ring and the reader is in the order it
was typed in, each before the next (`Order`); and how many ^C have been typed before each
key that waits against how many have been dealt with (`Interrupts`, `FromSerial`,
`FromUsb`).  `Announced` says where the answer is that will lower the flag.  For the text
there is a second invariant over the first, `TextInv`: shown, in hand and in the log are
one sequence, in which each process has the first places of its text in order (`Kept`),
and nobody has put text after the holder of consola_lock began (`Ends`); each step that
touches it appends pieces to the end, or moves the boundary between the three.  The proof
found that `InterruptForgets` was false as it stood: a ^C that finds the FIFO full is
lost, which no scene had reached; there is one now.  `shown` kept only the text of the
processes, picked out with a filter; it keeps everything now, and `TextIsKept` speaks of
places.

`NetProofs` proves, for any programs and scripts, any names and machines, any sizes of the
ports and of the tables of `red.c` and any number of troubles (`NetAssumption`),
`NetTypeOK`, `SomebodyForClients`, `MailIsAlwaysRight` and `PingIsAlwaysItsOwn`.  Each
handler of `red.c` is an operator from a state of the server to another with what it
sends, so that there is a lemma for each one (`Server`: what a handler gives back when it
is given a good state), and the actions of the server are cited from them.  `NetInv` says
where the truth of an answer comes from.  A question of DNS has a number that no other
open one has, and no older frame of an answer with that number is about another name
(`Fresh`, `Seen`): that is why `red.c` may look at the number alone.  A frame, a message in
a port and a message that waits to be sent carry what they say of somebody, and each is
true of whom it names (`TrueTo`).  For the clients of the time, each state in which
`red.c` keeps them is one with a question, or with a second hand that will ask it again.
The second hand goes through the names with a recursive function; that it does to each
one what the loop of the code does is proved by induction on the place of the name
(`DnsTickIs`, `SecondIs`).

`TcpProofs` proves, for any number of connections, sizes of the windows and segments,
first numbers of both ends, bytes to be sent, repetitions and troubles (`TcpAssumption`),
`TcpTypeOK`, `EveryStreamIsWhole`, `NoWaitIsInVain` and `StreamUntilItIsCut`. The
segments in the air are never taken back, so that `TcpInv` has to say of each of them,
however old, what it may still do. It keeps four streams for each connection: what the
other machine has sent that the server has taken (`given` and the buffer), what the
program was told of, and what has been put in flight (`sent`). `Sound` places the fields
of a connection in them, with one part for each state (`Opening`, `Sending`, `Closing`,
`Over`); `FromUs` and `FromPeer` say of a segment in the air that its number is that of
the piece of the stream that it carries, and its acknowledgement that of a place already
reached; `PeerOK` says it of the other machine. What makes that enough is that the
numbers go round but a difference of two of them, as `red.c` takes it, is that of the
places while the streams are shorter than half the numbers (`Plus`, `Minus`, `Grounded`);
and that there are that few is itself in the invariant, as a budget: what has been sent
and what the requests in the port may still send is covered by the requests that have
been made. Each handler of `red.c` has a lemma (`Fits`, `Ticked`), and a step of the
server is that handler with its answers put in the port. For the waits `Patient` says of
a connection, and `Awaited` of the program, that whoever waits has been noted or
answered. The proof found two things. `StreamsAreWhole` said that what the other machine
has are the bytes of the program each once; that is false after an error that answers
another call (section 5), which no run of the former size had reached, and it is now
about what was put in flight, while `StreamUntilCut` says it of the program as long as no
wait has been given up. And two arms of the `CASE` of `PeerGets` were not exclusive: a
RST and a SYN in the third are now shut out by its guard, as TLC read it.

`StreamUntilItIsCut` is about both ends of the conversation, so `TcpInv` is not enough: a
message in the port of the program carries no number of the question it answers, and
`red_esperar()` believes the first of the kind that it expects.  `Dialogue` is what makes
that right until a wait is given up.  The program is in one of five places: it asks
nothing (`AtRest`; a request to close may be in the port, that nobody answers), its
request is the last in the port (`Asking`), one connection has it (`Working`: that one and
no other waits, and for that kind), its answer is in the mail (`Replied`), or none will
come and only the alarm ends the wait (`Lost`, a connection that was let go meanwhile).
But for the alarm there is at most that one answer in the mail.  What the program has
read and believes sent is what the history of its connection says (`Have`), and an answer
on its way is one after which it would be so again (`Tells`).  For each handler `Speaks`
says what it may answer to who waits for what (nobody, a connection, room or data): either
it keeps waiting and nothing is said, or it is told once and waits no more, an error
changes nothing, and an answer that the connection is open comes before any byte.
`ServerTurn` carries that from a handler to the dialogue, for the three steps of the
server; the slots where nobody waits say nothing (`TurnsNone`).

*Inductions.*  The theorems of the library on induction take an operator as a parameter,
which the provers cannot instantiate.  Where a loop of the code is a recursive function
(`Net`), the induction is made with a set instead: the set of the places where it would
fail has no least element (`SetInduction`, from the well-foundedness of the order of the
naturals).

Only model-checked: liveness (`NoStarvation`, `SleepersWake`, `CollectedAreReaped`,
`EndsIfTheServerLives`, `AskedIsAnswered`), which is out of the prover's reach under
fairness; and the three invariants of `Fat` with its refinement: what it promises is about
chains of clusters while a list of sectors made by folding over a request is being
written, and each of those lists would need its own induction.

## 7. What is not modelled

* Assembly and device registers: the boot of the cores, the GIC, the SD card, the
  registers of the USB controller, except for what the models above see of them.
* The kernel heap, the bitmap of frames as a search, the heap and the buffers of the C
  library, paths, ELF headers, strings and formats: sequential functions of one caller
  under one lock, without states that interleave.  A unit test reaches them better.
* The walk of the page tables, the identifiers of the spaces, and the runs of DMA.
* The table of alarms as the four cores walk it without a lock (section 5); the
  programs' side of it is in `Net` and `Tcp`.
* The offset of a file's descriptor shared through fork: each read or write is one
  transaction of `FsClient` and moves it when the answer comes.
* Semaphores and channels (`sync.c`), which nothing uses.
* The loop of the USB driver once a keyboard and a card run together; split
  transactions; plugging while it runs.
* Floating point registers, saved with the switch that `Sched` models.
* The editor, the shell and the small programs.
