------------------------------- MODULE Pipes -------------------------------
(***************************************************************************)
(* Descriptors and pipes, src/file.c and the tables of src/sched.c: who    *)
(* has which end of a pipe open, through fork, dup2, close and death, and  *)
(* the reads and writes that wait for what the other end does.             *)
(*                                                                         *)
(* The dead do not close anything: the reaper does it for them, one        *)
(* descriptor at a time, when their parent has collected them.  Of the     *)
(* bytes only how many there are is left.  READY and RUNNING are one state *)
(* here, and a slot is its process: whoever had a parent whose slot has    *)
(* been given back has none.  Which slot and which addresses are given     *)
(* does not matter: any that is free.                                      *)
(***************************************************************************)
EXTENDS Naturals, FiniteSets

CONSTANTS Procs,       \* places of tasks[]
          First,       \* the process that is there at the start
          Nobody,      \* no process
          Files,       \* what kmalloc can give: struct fichero...
          Pipes,       \* ... and struct pipe
          NoFile,      \* an empty descriptor
          MAX_FD, PIPE_BUF, BOUNCE

ASSUME PipesAssumption ==
    /\ First \in Procs /\ Nobody \notin Procs /\ NoFile \notin Files
    /\ IsFiniteSet(Procs)
    /\ {MAX_FD, PIPE_BUF, BOUNCE} \subseteq Nat \ {0}

VARIABLES
    files,       \* struct fichero
    pipes,       \* struct pipe
    fd,          \* tasks[].fd
    state, parent, interrumpido,
    call,        \* where each process is inside the kernel
    dead         \* thread_reaper's local variable

vars == <<files, pipes, fd, state, parent, interrumpido, call, dead>>

Fds == 0 .. MAX_FD - 1

File == [tipo : {"F_LIBRE", "F_PIPE_R", "F_PIPE_W"}, refs : Nat, p : Pipes]

Pipe == [vive : BOOLEAN,                      \* kmalloc has given it
         count : 0 .. PIPE_BUF,
         lectores : 0 .. 1, escritores : 0 .. 1,
         hay_datos : SUBSET Procs, hay_hueco : SUBSET Procs]

NoCall == [op |-> "none"]
Call   == {NoCall} \cup [op : {"read", "write"}, p : Pipes]
                   \cup [op : {"fork"}, kid : Procs, next : 0 .. MAX_FD]
                   \cup [op : {"dup2"}, f : Files, nuevo : Fds]

Reads(t, q)  == call[t].op = "read" /\ call[t].p = q
Writes(t, q) == call[t].op = "write" /\ call[t].p = q

\* Whoever is blocked is in the queue of its call, or is not born yet.
TypeOK ==
    /\ files \in [Files -> File]
    /\ pipes \in [Pipes -> Pipe]
    /\ fd \in [Procs -> [Fds -> Files \cup {NoFile}]]
    /\ state \in [Procs -> {"UNUSED", "READY", "BLOCKED", "ZOMBIE"}]
    /\ parent \in [Procs -> Procs \cup {Nobody}]
    /\ interrumpido \in [Procs -> BOOLEAN]
    /\ call \in [Procs -> Call]
    /\ dead \in Procs \cup {Nobody}
    /\ \A t \in Procs, q \in Pipes :
          /\ t \in pipes[q].hay_datos <=> Reads(t, q) /\ state[t] = "BLOCKED"
          /\ t \in pipes[q].hay_hueco <=> Writes(t, q) /\ state[t] = "BLOCKED"

Free(q) == [vive |-> FALSE, count |-> 0, lectores |-> 0, escritores |-> 0,
            hay_datos |-> {}, hay_hueco |-> {}]

Init ==
    /\ \E q \in Pipes : files = [f \in Files |-> [tipo |-> "F_LIBRE", refs |-> 0, p |-> q]]
    /\ pipes = [q \in Pipes |-> Free(q)]
    /\ fd = [t \in Procs |-> [n \in Fds |-> NoFile]]
    /\ state = [t \in Procs |-> IF t = First THEN "READY" ELSE "UNUSED"]
    /\ parent = [t \in Procs |-> Nobody]
    /\ interrumpido = [t \in Procs |-> FALSE]
    /\ call = [t \in Procs |-> NoCall]
    /\ dead = Nobody
-----------------------------------------------------------------------------
InCall(t, op) == call[t].op = op /\ state[t] = "READY"

IsLeast(n, S) == n \in S /\ \A m \in S : n <= m
Lesser(m, n) == IF m <= n THEN m ELSE n

\* wq_wake_all()
Awake(S) == state' = [t \in Procs |-> IF t \in S THEN "READY" ELSE state[t]]

Return(t) == /\ call' = [call EXCEPT ![t] = NoCall]
             /\ interrumpido' = [interrumpido EXCEPT ![t] = FALSE]

\* Mutant: the end is closed with the first of its descriptors.
EndClosedAtOnce(f, P) ==
    IF files[f].tipo = "F_PIPE_R"
    THEN [P EXCEPT !.lectores = 0, !.hay_hueco = {}]
    ELSE [P EXCEPT !.escritores = 0, !.hay_datos = {}]

\* Mutant: those who wait at the other end are not told.
EndClosedQuietly(f, P) ==
    IF files[f].refs > 1 THEN P
    ELSE IF files[f].tipo = "F_PIPE_R" THEN [P EXCEPT !.lectores = @ - 1]
                                       ELSE [P EXCEPT !.escritores = @ - 1]

\* What the last descriptor of an end does to the pipe P when it is closed.
EndClosed(f, P) ==
    IF files[f].refs > 1 THEN P
    ELSE IF files[f].tipo = "F_PIPE_R"
         THEN [P EXCEPT !.lectores = @ - 1, !.hay_hueco = {}]
         ELSE [P EXCEPT !.escritores = @ - 1, !.hay_datos = {}]

\* file_close(): the pipe goes with the second of its ends.
FileClose(f) ==
    LET q == files[f].p
        P == EndClosed(f, pipes[q])
    IN  /\ files' = [files EXCEPT ![f] =
                        [tipo |-> IF @.refs > 1 THEN @.tipo ELSE "F_LIBRE",
                         refs |-> @.refs - 1, p |-> @.p]]
        /\ pipes' = [pipes EXCEPT ![q] = IF P.lectores + P.escritores = 0 THEN Free(q) ELSE P]
        /\ Awake((pipes[q].hay_datos \ P.hay_datos) \cup (pipes[q].hay_hueco \ P.hay_hueco))

Unused(t) == {n \in Fds : fd[t][n] = NoFile}

\* file_pipe(): the pipe q, with one structure for each of its ends.
Opens(t, q, r, w, fr, fw) ==
    /\ ~pipes[q].vive
    /\ r # w /\ files[r].tipo = "F_LIBRE" /\ files[w].tipo = "F_LIBRE"
    /\ pipes' = [pipes EXCEPT ![q].vive = TRUE, ![q].lectores = 1, ![q].escritores = 1]
    /\ files' = [files EXCEPT ![r] = [tipo |-> "F_PIPE_R", refs |-> 1, p |-> q],
                              ![w] = [tipo |-> "F_PIPE_W", refs |-> 1, p |-> q]]
    /\ fd' = [fd EXCEPT ![t][fr] = r, ![t][fw] = w]

\* SYS_pipe: two descriptors, the lowest that are free.  With less than two of
\* them, or without memory, everything is given back and nothing changes.
SysPipe(t) ==
    /\ InCall(t, "none")
    /\ \E q \in Pipes, r, w \in Files, fr, fw \in Fds :
          /\ IsLeast(fr, Unused(t)) /\ IsLeast(fw, Unused(t) \ {fr})
          /\ Opens(t, q, r, w, fr, fw)
    /\ UNCHANGED <<state, parent, interrumpido, call, dead>>

\* SYS_close: task_fd_close().
SysClose(t, n) ==
    /\ InCall(t, "none")
    /\ fd[t][n] # NoFile
    /\ FileClose(fd[t][n])
    /\ fd' = [fd EXCEPT ![t][n] = NoFile]
    /\ UNCHANGED <<parent, interrumpido, call, dead>>

\* SYS_dup2: task_fd_dup2() closes what was there, and between that and the
\* duplication the lock is open.
SysDup2(t, viejo, nuevo) ==
    /\ InCall(t, "none")
    /\ viejo # nuevo
    /\ fd[t][viejo] # NoFile /\ fd[t][nuevo] # NoFile
    /\ FileClose(fd[t][nuevo])
    /\ call' = [call EXCEPT ![t] = [op |-> "dup2", f |-> fd[t][viejo], nuevo |-> nuevo]]
    /\ UNCHANGED <<fd, parent, interrumpido, dead>>

\* The duplication, after that or when there was nothing to close.
Dup2(t, f, nuevo) ==
    /\ \/ InCall(t, "dup2") /\ call[t].f = f /\ call[t].nuevo = nuevo
       \/ InCall(t, "none") /\ fd[t][nuevo] = NoFile /\ \E n \in Fds : fd[t][n] = f
    /\ files' = [files EXCEPT ![f].refs = @ + 1]
    /\ fd' = [fd EXCEPT ![t][nuevo] = f]
    /\ Return(t)
    /\ UNCHANGED <<pipes, state, parent, dead>>
-----------------------------------------------------------------------------
\* SYS_fork: a slot is reserved, fd_heredar() copies the table one descriptor
\* at a time, and then the child exists.
SysFork(t) ==
    /\ InCall(t, "none")
    /\ \E u \in Procs :
          /\ state[u] = "UNUSED"
          /\ state' = [state EXCEPT ![u] = "BLOCKED"]
          /\ call' = [call EXCEPT ![t] = [op |-> "fork", kid |-> u, next |-> 0]]
    /\ UNCHANGED <<files, pipes, fd, parent, interrumpido, dead>>

\* Mutant: the child has the descriptor and nobody has counted it.
InheritUncounted(t) ==
    /\ InCall(t, "fork") /\ call[t].next < MAX_FD
    /\ fd' = [fd EXCEPT ![call[t].kid][call[t].next] = fd[t][call[t].next]]
    /\ call' = [call EXCEPT ![t].next = @ + 1]
    /\ UNCHANGED <<files, pipes, state, parent, interrumpido, dead>>

Inherit(t) ==
    /\ InCall(t, "fork") /\ call[t].next < MAX_FD
    /\ LET f == fd[t][call[t].next]
       IN  /\ fd' = [fd EXCEPT ![call[t].kid][call[t].next] = f]
           /\ files' = IF f = NoFile THEN files ELSE [files EXCEPT ![f].refs = @ + 1]
    /\ call' = [call EXCEPT ![t].next = @ + 1]
    /\ UNCHANGED <<pipes, state, parent, interrumpido, dead>>

Born(t) ==
    /\ InCall(t, "fork") /\ call[t].next = MAX_FD
    /\ state' = [state EXCEPT ![call[t].kid] = "READY"]
    /\ parent' = [parent EXCEPT ![call[t].kid] = t]
    /\ Return(t)
    /\ UNCHANGED <<files, pipes, fd, dead>>

\* SYS_exit: a zombie, with all it had open.
SysExit(t) ==
    /\ InCall(t, "none")
    /\ state' = [state EXCEPT ![t] = "ZOMBIE"]
    /\ UNCHANGED <<files, pipes, fd, parent, interrumpido, call, dead>>

\* SYS_wait, with a child that is dead.
SysWait(t) ==
    /\ InCall(t, "none")
    /\ \E u \in Procs : /\ state[u] = "ZOMBIE" /\ parent[u] = t
                        /\ parent' = [parent EXCEPT ![u] = Nobody]
    /\ UNCHANGED <<files, pipes, fd, state, interrumpido, call, dead>>

\* thread_reaper() takes a zombie nobody will collect, and reap() closes what it had
\* (fd_cerrar_todos) before it gives the slot back.
ReaperFinds ==
    /\ dead = Nobody
    /\ \E u \in Procs : state[u] = "ZOMBIE" /\ parent[u] = Nobody /\ dead' = u
    /\ UNCHANGED <<files, pipes, fd, state, parent, interrumpido, call>>

ReapFd(n) ==
    /\ dead # Nobody
    /\ fd[dead][n] # NoFile
    /\ \A m \in Fds : m < n => fd[dead][m] = NoFile
    /\ FileClose(fd[dead][n])
    /\ fd' = [fd EXCEPT ![dead][n] = NoFile]
    /\ UNCHANGED <<parent, interrumpido, call, dead>>

ReapSlot ==
    /\ dead # Nobody
    /\ \A n \in Fds : fd[dead][n] = NoFile
    /\ state' = [state EXCEPT ![dead] = "UNUSED"]
    /\ parent' = [t \in Procs |-> IF parent[t] = dead THEN Nobody ELSE parent[t]]
    /\ dead' = Nobody
    /\ UNCHANGED <<files, pipes, fd, interrumpido, call>>

Reaper == ReaperFinds \/ ReapSlot \/ \E n \in Fds : ReapFd(n)
-----------------------------------------------------------------------------
\* A turn of pipe_read() or of pipe_write() on q: the first one of SYS_read and
\* SYS_write, or the one that follows a wait.  The bytes are copied to or from
\* the process without the lock, and how many it asked for only matters when
\* they are moved.
HasOpen(t, tipo, q) == \E n \in Fds : /\ fd[t][n] # NoFile
                                      /\ files[fd[t][n]].tipo = tipo
                                      /\ files[fd[t][n]].p = q

AtRead(t, q)  == \/ InCall(t, "none") /\ HasOpen(t, "F_PIPE_R", q)
                 \/ InCall(t, "read") /\ call[t].p = q /\ ~interrumpido[t]
AtWrite(t, q) == \/ InCall(t, "none") /\ HasOpen(t, "F_PIPE_W", q)
                 \/ InCall(t, "write") /\ call[t].p = q /\ ~interrumpido[t]

\* The wait was cut...
Cut(t) ==
    /\ InCall(t, "read") \/ InCall(t, "write")
    /\ interrumpido[t]
    /\ Return(t)
    /\ UNCHANGED <<files, pipes, fd, state, parent, dead>>

\* ... or there is nothing and nobody is going to write: this is the end...
PipeReadEnds(t, q) ==
    /\ AtRead(t, q)
    /\ pipes[q].count = 0 /\ pipes[q].escritores = 0
    /\ Return(t)
    /\ UNCHANGED <<files, pipes, fd, state, parent, dead>>

\* ... or there is nothing yet...
PipeReadWaits(t, q) ==
    /\ AtRead(t, q)
    /\ pipes[q].count = 0 /\ pipes[q].escritores > 0
    /\ pipes' = [pipes EXCEPT ![q].hay_datos = @ \cup {t}]
    /\ state' = [state EXCEPT ![t] = "BLOCKED"]
    /\ call' = [call EXCEPT ![t] = [op |-> "read", p |-> q]]
    /\ UNCHANGED <<files, fd, parent, interrumpido, dead>>

\* ... or there is.
PipeReads(t, q) ==
    /\ AtRead(t, q)
    /\ pipes[q].count > 0
    /\ \E n \in 1 .. BOUNCE :
          pipes' = [pipes EXCEPT ![q].count = @ - Lesser(n, @), ![q].hay_hueco = {}]
    /\ Awake(pipes[q].hay_hueco)
    /\ Return(t)
    /\ UNCHANGED <<files, fd, parent, dead>>

\* To write, in the same way.  That there is nobody to read is only looked at
\* when there is no room.
PipeWriteEnds(t, q) ==
    /\ AtWrite(t, q)
    /\ pipes[q].count = PIPE_BUF /\ pipes[q].lectores = 0
    /\ Return(t)
    /\ UNCHANGED <<files, pipes, fd, state, parent, dead>>

PipeWriteWaits(t, q) ==
    /\ AtWrite(t, q)
    /\ pipes[q].count = PIPE_BUF /\ pipes[q].lectores > 0
    /\ pipes' = [pipes EXCEPT ![q].hay_hueco = @ \cup {t}]
    /\ state' = [state EXCEPT ![t] = "BLOCKED"]
    /\ call' = [call EXCEPT ![t] = [op |-> "write", p |-> q]]
    /\ UNCHANGED <<files, fd, parent, interrumpido, dead>>

\* The bytes of a write that fit.
Fits(count, n) == Lesser(n, PIPE_BUF - count)

PipeWrites(t, q) ==
    /\ AtWrite(t, q)
    /\ pipes[q].count < PIPE_BUF
    /\ \E n \in 1 .. BOUNCE :
          pipes' = [pipes EXCEPT ![q].count = @ + Fits(@, n), ![q].hay_datos = {}]
    /\ Awake(pipes[q].hay_datos)
    /\ Return(t)
    /\ UNCHANGED <<files, fd, parent, dead>>

\* signal_locked(): the wait is cut.
Signalled(t) ==
    /\ state[t] = "BLOCKED" /\ call[t].op \in {"read", "write"}
    /\ state' = [state EXCEPT ![t] = "READY"]
    /\ interrumpido' = [interrumpido EXCEPT ![t] = TRUE]
    /\ pipes' = [pipes EXCEPT ![call[t].p].hay_datos = @ \ {t}, ![call[t].p].hay_hueco = @ \ {t}]
    /\ UNCHANGED <<files, fd, parent, call, dead>>
-----------------------------------------------------------------------------
PipeTurn(t, q) == \/ PipeReadEnds(t, q) \/ PipeReadWaits(t, q) \/ PipeReads(t, q)
                  \/ PipeWriteEnds(t, q) \/ PipeWriteWaits(t, q) \/ PipeWrites(t, q)

Goes(t) == \/ Inherit(t) \/ Born(t) \/ Cut(t)
           \/ \E f \in Files, n \in Fds : Dup2(t, f, n)
           \/ \E q \in Pipes : PipeTurn(t, q)

\* What the kernel does by itself, and not because the process asks for it.
Kernel(t) == call[t] # NoCall /\ Goes(t)

Next == \/ \E t \in Procs : \/ SysPipe(t) \/ SysFork(t) \/ SysExit(t) \/ SysWait(t)
                            \/ Goes(t) \/ Signalled(t)
                            \/ \E n, m \in Fds : SysClose(t, n) \/ SysDup2(t, n, m)
        \/ Reaper

Spec == Init /\ [][Next]_vars

\* The kernel and its reaper go on, and parents that can collect do it.
FairSpec == /\ Spec
            /\ WF_vars(Reaper)
            /\ \A t \in Procs : WF_vars(Kernel(t)) /\ SF_vars(SysWait(t))
-----------------------------------------------------------------------------
\* What a descriptor points at.  In the middle of a dup2 the one that is being
\* replaced still has what has been closed: nobody can look at it.
Named(t, n) == IF call[t].op = "dup2" /\ call[t].nuevo = n THEN NoFile ELSE fd[t][n]

PointAt(f) == {x \in Procs \X Fds : Named(x[1], x[2]) = f}

\* Every descriptor is counted, through forks half done, dup2, closes and
\* burials in any order: what is open is never freed, nor kept for ever.
RefsAreDescriptors == \A f \in Files : files[f].refs = Cardinality(PointAt(f))

\* A pipe is there while one of its ends is, and whoever is inside a read or a
\* write of it, asleep or awake, does not find it freed.
PipesOutliveTheirUsers ==
    /\ \A f \in Files : files[f].refs > 0 => pipes[files[f].p].vive
    /\ \A t \in Procs : call[t].op = "read"  => pipes[call[t].p].lectores = 1
    /\ \A t \in Procs : call[t].op = "write" => pipes[call[t].p].escritores = 1

\* Nobody sleeps with bytes to read or room to write, nor, once the other end
\* has been closed, for what will not come.
NobodySleepsInVain ==
    \A q \in Pipes :
        /\ pipes[q].hay_datos # {} => pipes[q].count = 0 /\ pipes[q].escritores > 0
        /\ pipes[q].hay_hueco # {} => pipes[q].count = PIPE_BUF /\ pipes[q].lectores > 0

\* "Nobody is ever going to write: this is the end of the file": whoever reads
\* a pipe that nobody alive can write stops waiting.  It does not hold: the
\* descriptors of a zombie are closed by the reaper, once it has been collected.
MayWrite(t, q) == state[t] \in {"READY", "BLOCKED"} /\ HasOpen(t, "F_PIPE_W", q)

EndOfFileArrives ==
    \A t \in Procs, q \in Pipes :
        (t \in pipes[q].hay_datos /\ \A u \in Procs : ~MayWrite(u, q))
            ~> t \notin pipes[q].hay_datos
=============================================================================
