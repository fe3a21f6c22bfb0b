------------------------------ MODULE FsClient ------------------------------
(***************************************************************************)
(* How the kernel reads and writes files, fs_transaccion() of src/file.c:  *)
(* a process that is inside read() or write() sends a request to the file  *)
(* server and receives the answer at PORT_KERNEL, a port of the kernel's   *)
(* that is the same for everybody.  The answers do not say whose they are: *)
(* a mutex lets only one transaction go on at a time.                      *)
(*                                                                         *)
(* The ports are those of Ports; the mutex is that of src/sync.c; the      *)
(* server is the loop of user/fs.c, which answers every request once.      *)
(***************************************************************************)
EXTENDS Ports

CONSTANTS Clients, Servers,
          PORT_FILES, PORT_KERNEL,
          MaxRequests,    \* bound: transactions of each client
          Cuttable,       \* bound: processes that signals are sent to
          Mortal          \* bound: servers that may die

ASSUME FsClientAssumption ==
    /\ Procs = Clients \cup Servers /\ Clients \cap Servers = {}
    /\ PortIds = {PORT_FILES, PORT_KERNEL} /\ PORT_FILES # PORT_KERNEL
    /\ MaxRequests \in Nat
    /\ Msgs = Clients \X (1 .. MaxRequests)
    /\ Cuttable \subseteq Procs /\ Mortal \subseteq Servers

VARIABLES
    fs_mtx,      \* the mutex
    pc,          \* where each process is
    asked,       \* how many transactions each client has started
    vain         \* a transaction was cut after its request had been sent

fsVars == <<fs_mtx, pc, asked, vain>>

\* Of the data of a request and of its answer only whose they are is left.
Request(c) == <<c, asked[c]>>

InUse(p) == pc[p] \in {"locked", "sending", "receiving", "unlock"}

\* The process that holds the mutex is the one that is inside; whoever waits
\* for it is blocked, and in no queue of a port.
FsTypeOK ==
    /\ TypeOK
    /\ fs_mtx \in [locked : BOOLEAN, owner : Owners, waiters : Seq(Procs)]
    /\ pc \in [Procs -> {"user", "lock", "locked", "sending", "receiving", "unlock",
                         "serve"}]
    /\ asked \in [Clients -> 0 .. MaxRequests]
    /\ vain \in BOOLEAN
    /\ \A p \in Procs : InUse(p) <=> fs_mtx.locked /\ fs_mtx.owner = p
    /\ \A p \in Procs : p \in Queued(fs_mtx.waiters)
                           <=> pc[p] = "lock" /\ state[p] = "BLOCKED"

FsInit ==
    /\ Init
    /\ fs_mtx = [locked |-> FALSE, owner |-> Kernel, waiters |-> <<>>]
    /\ pc = [p \in Procs |-> "user"]
    /\ asked = [c \in Clients |-> 0]
    /\ vain = FALSE
-----------------------------------------------------------------------------
Go(p, where) == pc' = [pc EXCEPT ![p] = where]

Runs(p, where) == pc[p] = where /\ state[p] = "RUNNING"

\* read(), write(), open() of a file, or a page of a mapped one.
Transaction(c) ==
    /\ Runs(c, "user")
    /\ asked[c] < MaxRequests
    /\ asked' = [asked EXCEPT ![c] = @ + 1]
    /\ Go(c, "lock")
    /\ UNCHANGED <<fs_mtx, vain, vars>>

\* Mutant: a signal gets whoever waits past the lock.
MutexLockCut(c) ==
    /\ Runs(c, "lock")
    /\ \/ /\ fs_mtx.locked /\ ~interrumpido[c]
          /\ fs_mtx' = [fs_mtx EXCEPT !.waiters = Append(@, c)]
          /\ state' = [state EXCEPT ![c] = "BLOCKED"]
          /\ UNCHANGED <<ports, interrumpido, call, answer, pc>>
       \/ /\ ~fs_mtx.locked \/ interrumpido[c]
          /\ fs_mtx' = [fs_mtx EXCEPT !.locked = TRUE, !.owner = c]
          /\ Go(c, "locked")
          /\ UNCHANGED vars
    /\ UNCHANGED <<asked, vain>>

\* One turn of mutex_lock(), whose wait no signal cuts: the mark is left.
MutexLock(c) ==
    /\ Runs(c, "lock")
    /\ \/ /\ fs_mtx.locked
          /\ fs_mtx' = [fs_mtx EXCEPT !.waiters = Append(@, c)]
          /\ state' = [state EXCEPT ![c] = "BLOCKED"]
          /\ interrumpido' = [interrumpido EXCEPT ![c] = FALSE]
          /\ UNCHANGED <<ports, call, answer, pc>>
       \/ /\ ~fs_mtx.locked
          /\ fs_mtx' = [fs_mtx EXCEPT !.locked = TRUE, !.owner = c]
          /\ Go(c, "locked")
          /\ UNCHANGED vars
    /\ UNCHANGED <<asked, vain>>

\* The first transaction of all creates the port for the answers (fs_listo),
\* or comes to nothing if there is no memory for the queue of the port.
CreateReplyPort(c) ==
    /\ Runs(c, "locked") /\ ~ports[PORT_KERNEL].in_use
    /\ \/ PortCreate(Kernel, PORT_KERNEL) /\ UNCHANGED pc
       \/ /\ Go(c, "unlock")
          /\ answer' = [answer EXCEPT ![c] = Error]
          /\ UNCHANGED <<ports, state, interrumpido, call>>
    /\ UNCHANGED <<fs_mtx, asked, vain>>

SendRequest(c) ==
    /\ Runs(c, "locked")
    /\ ports[PORT_KERNEL].in_use
    /\ Ask(c, [op |-> "send", port |-> PORT_FILES, msg |-> Request(c)])
    /\ Go(c, "sending")
    /\ UNCHANGED <<fs_mtx, asked, vain>>

\* Mutant: the answer is waited for even if the request was not sent.
ReceiveAnswerAnyway(c) ==
    /\ Runs(c, "sending") /\ call[c] = NoCall
    /\ Ask(c, [op |-> "recv", port |-> PORT_KERNEL, as |-> Kernel])
    /\ Go(c, "receiving")
    /\ UNCHANGED <<fs_mtx, asked, vain>>

\* The answer is only waited for if the request was sent.
ReceiveAnswer(c) ==
    /\ Runs(c, "sending") /\ call[c] = NoCall
    /\ IF answer[c] = Ok
       THEN /\ Ask(c, [op |-> "recv", port |-> PORT_KERNEL, as |-> Kernel])
            /\ Go(c, "receiving")
       ELSE Go(c, "unlock") /\ UNCHANGED vars
    /\ UNCHANGED <<fs_mtx, asked, vain>>

Answered(c) ==
    /\ Runs(c, "receiving") /\ call[c] = NoCall
    /\ Go(c, "unlock")
    /\ vain' = (vain \/ answer[c] = Error)
    /\ UNCHANGED <<fs_mtx, asked, vars>>

\* Mutant: nobody is told that the lock is free.
MutexUnlockQuietly(c) ==
    /\ Runs(c, "unlock")
    /\ fs_mtx' = [fs_mtx EXCEPT !.locked = FALSE, !.owner = Kernel]
    /\ Go(c, "user")
    /\ UNCHANGED <<asked, vain, vars>>

MutexUnlock(c) ==
    /\ Runs(c, "unlock")
    /\ fs_mtx' = [locked |-> FALSE, owner |-> Kernel, waiters |-> Rest(fs_mtx.waiters)]
    /\ Awake(First(fs_mtx.waiters))
    /\ Go(c, "user")
    /\ UNCHANGED <<asked, vain, ports, interrumpido, call, answer>>

Client(c) == MutexLock(c) \/ CreateReplyPort(c) \/ SendRequest(c) \/ ReceiveAnswer(c)
                \/ Answered(c) \/ MutexUnlock(c)
-----------------------------------------------------------------------------
\* user/fs.c: the first that gets the port is the server.
StartServer(s) ==
    /\ Runs(s, "user")
    /\ PortCreate(s, PORT_FILES)
    /\ Go(s, "serve")
    /\ UNCHANGED <<fs_mtx, asked, vain>>

WaitForRequest(s) ==
    /\ Runs(s, "serve") /\ call[s] = NoCall
    /\ answer[s].res # "got"
    /\ Ask(s, [op |-> "recv", port |-> PORT_FILES, as |-> s])
    /\ UNCHANGED fsVars

\* responder(): the answer goes to the port the request asked for.
Reply(s) ==
    /\ Runs(s, "serve") /\ call[s] = NoCall
    /\ answer[s].res = "got"
    /\ Ask(s, [op |-> "send", port |-> PORT_KERNEL, msg |-> answer[s].msg])
    /\ UNCHANGED fsVars

Server(s) == StartServer(s) \/ WaitForRequest(s) \/ Reply(s)

\* The calls of all of them, inside Ports.
InPorts(p) == (PortSend(p) \/ PortRecv(p)) /\ UNCHANGED fsVars

\* A signal takes a process out of whatever queue it is in.
Signalled(p) ==
    /\ p \in Cuttable
    /\ Signal(p)
    /\ fs_mtx' = [fs_mtx EXCEPT !.waiters = Without(@, p)]
    /\ UNCHANGED <<pc, asked, vain>>

\* init starts another server when there is none.
Dies(s) == s \in Mortal /\ pc[s] = "serve" /\ TaskExit(s) /\ UNCHANGED fsVars

FsNext == \/ \E c \in Clients : Transaction(c) \/ Client(c)
          \/ \E s \in Servers : Server(s) \/ Dies(s)
          \/ \E p \in Procs : InPorts(p) \/ Signalled(p)

FsSpec == FsInit /\ [][FsNext]_<<vars, fsVars>>

\* Every process that can go on gets its turn.
FairSpec == /\ FsSpec
            /\ \A c \in Clients : WF_<<vars, fsVars>>(Client(c))
            /\ \A s \in Servers : WF_<<vars, fsVars>>(Server(s))
            /\ \A p \in Procs : WF_<<vars, fsVars>>(InPorts(p))
-----------------------------------------------------------------------------
\* Nobody waits for the mutex while it is free and nobody is on the way to take
\* it, also when the one who was woken for it is a signal's victim as well.
LockIsHandedOn ==
    fs_mtx.waiters # <<>> => fs_mtx.locked \/ \E c \in Clients : Runs(c, "lock")

\* There is one buffer for the request and one port for the answers, and one
\* process at a time uses them.
OneTransaction == \A c, d \in Clients : InUse(c) /\ InUse(d) => c = d

\* Each transaction gets the answer to its own request, as long as none has
\* been cut after it had been sent.
AnswersMatchUntilCut ==
    \A c \in Clients :
        pc[c] = "unlock" /\ answer[c].res = "got" /\ ~vain => answer[c].msg = Request(c)

\* "Two reads at a time could take each other's answer.  A mutex prevents it"
\* (src/file.c:272-276).  It does not hold: a transaction that a signal cuts
\* after its request leaves an answer, and the next one takes it.
AnswersMatch ==
    \A c \in Clients :
        pc[c] = "unlock" /\ answer[c].res = "got" => answer[c].msg = Request(c)

\* Every transaction ends while the server lives, with as many signals as you
\* like: not even the requests and the answers that nobody waits for any more,
\* which pile up in the two ports, leave the server and a client waiting for
\* each other.
EndsIfTheServerLives ==
    \A c \in Clients :
        pc[c] = "lock" ~> pc[c] = "user" \/ \E s \in Servers : state[s] = "ZOMBIE"

\* "Nobody hangs waiting for code that does not exist": every transaction ends,
\* also when there is no server any more (src/file.c:264-270).  It does not
\* hold: the port for the answers belongs to the kernel and does not die with
\* the server that had taken the request.
TransactionsEnd == \A c \in Clients : pc[c] = "lock" ~> pc[c] = "user"
=============================================================================
