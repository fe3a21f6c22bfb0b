------------------------------- MODULE Procs -------------------------------
(***************************************************************************)
(* The life of a process in src/sched.c: it is born in two halves, the     *)
(* slot reserved first and published much later (task_fork and             *)
(* task_create_user); it stops, goes on and dies; its parent collects it   *)
(* (task_wait) and the reaper takes what is left.                          *)
(*                                                                         *)
(* READY and RUNNING are one state here, and of the signals only what they *)
(* do to a parent that waits is left: cutting its call.                    *)
(***************************************************************************)
EXTENDS Integers, FiniteSets

CONSTANTS Slots,     \* places of tasks[] for processes, those after the idles
          MaxPid     \* bound: processes that are born

ASSUME ProcsAssumption == Slots \subseteq Nat /\ 1 \in Slots /\ MaxPid \in Nat \ {0}

PID_CUALQUIERA == -1
None == 0            \* no process, no slot

ASSUME NoneAssumption == None \notin Slots

VARIABLES
    tasks,       \* tasks[]: what everybody sees of each slot
    at,          \* where the process in the slot is
    kid,         \* task_fork, task_create_user: the slot it is filling
    req,         \* task_wait: whom for, and with WUNTRACED
    cut,         \* t->interrumpido
    next_pid,
    reaper,      \* the reaper: looking, asleep in reaper_wq, or reaping
    dead,        \* reap(): the slot in its hands
    told         \* how many times the death of a pid has been told

procsVars == <<tasks, at, kid, req, cut, next_pid, reaper, dead, told>>

Pids == 1 .. MaxPid

\* A slot.  pgd is whether it has an address space: a reserved slot has none,
\* and still has the pid and the parent of whoever had it before.
Slot == [state : {"UNUSED", "READY", "BLOCKED", "STOPPED", "ZOMBIE"},
         pid : Pids \cup {None},
         parent : Pids \cup {None},
         pgd : BOOLEAN,
         parada_avisada : BOOLEAN]

Request == [pid : Pids \cup {PID_CUALQUIERA}, untraced : BOOLEAN]

\* Of whoever is not waiting, so that states that differ in nothing else are one.
NoRequest == [pid |-> PID_CUALQUIERA, untraced |-> FALSE]

Live(s) == tasks[s].pgd /\ tasks[s].state # "UNUSED"

ProcsTypeOK ==
    /\ tasks \in [Slots -> Slot]
    /\ at \in [Slots -> {"user", "fork", "spawn", "spawned", "wait"}]
    /\ kid \in [Slots -> Slots \cup {None}]
    /\ req \in [Slots -> Request]
    /\ cut \in [Slots -> BOOLEAN]
    /\ next_pid \in 1 .. MaxPid + 1
    /\ reaper \in {"looks", "asleep", "reaps"}
    /\ dead \in Slots \cup {None}
    /\ told \in [Pids -> Nat]

\* init, created by the kernel; the reaper has not looked yet.
ProcsInit ==
    /\ tasks = [s \in Slots |->
          [state |-> IF s = 1 THEN "READY" ELSE "UNUSED",
           pid |-> IF s = 1 THEN 1 ELSE None,
           parent |-> None, pgd |-> s = 1, parada_avisada |-> FALSE]]
    /\ at = [s \in Slots |-> "user"]
    /\ kid = [s \in Slots |-> None]
    /\ req = [s \in Slots |-> NoRequest]
    /\ cut = [s \in Slots |-> FALSE]
    /\ next_pid = 2
    /\ reaper = "looks"
    /\ dead = None
    /\ told = [p \in Pids |-> 0]
-----------------------------------------------------------------------------
InUser(s) == at[s] = "user" /\ tasks[s].state = "READY" /\ tasks[s].pgd

Go(s, where) == at' = [at EXCEPT ![s] = where]

\* by_pid(): any slot in use with that pid, one that is being filled too.
ByPid(p) == {s \in Slots : tasks[s].state # "UNUSED" /\ tasks[s].pid = p}

InExitQueue(s) == at[s] = "wait" /\ tasks[s].state = "BLOCKED"

\* wq_wake_all(&exit_wq).
ExitWoken(tk) ==
    [s \in Slots |-> IF InExitQueue(s) THEN [tk[s] EXCEPT !.state = "READY"] ELSE tk[s]]

\* avisar_al_padre(): a parent that catches SIGCHLD is taken out of its wait.
TellParent(s) ==
    \/ UNCHANGED cut
    \/ cut' = [q \in Slots |-> cut[q] \/ /\ tasks[s].parent # None
                                         /\ q \in ByPid(tasks[s].parent)
                                         /\ InExitQueue(q)]

\* wq_wake_one(&reaper_wq).
WakeReaper == reaper' = IF reaper = "asleep" THEN "looks" ELSE reaper

\* First half of task_fork() and task_create_user(): the first free slot is
\* reserved.  The pid and the parent in it are those of the last one.
Reserve(s, how) ==
    /\ InUser(s)
    /\ how \in {"fork", "spawn"}
    /\ \E t \in Slots :
          /\ tasks[t].state = "UNUSED"
          /\ \A u \in Slots : u < t => tasks[u].state # "UNUSED"
          /\ tasks' = [tasks EXCEPT ![t].state = "BLOCKED", ![t].pgd = FALSE]
          /\ kid' = [kid EXCEPT ![s] = t]
    /\ Go(s, how)
    /\ UNCHANGED <<req, cut, next_pid, reaper, dead, told>>

\* task_create_user() writes the parent, without the lock, while it loads.
NameParent(s) ==
    /\ at[s] = "spawn"
    /\ tasks' = [tasks EXCEPT ![kid[s]].parent = tasks[s].pid]
    /\ Go(s, "spawned")
    /\ UNCHANGED <<kid, req, cut, next_pid, reaper, dead, told>>

\* Second half: from here on the process exists.
Publish(s) ==
    /\ at[s] \in {"fork", "spawned"}
    /\ next_pid <= MaxPid
    /\ tasks' = [tasks EXCEPT ![kid[s]] =
                    [state |-> "READY", pid |-> next_pid, parent |-> tasks[s].pid,
                     pgd |-> TRUE, parada_avisada |-> FALSE]]
    /\ next_pid' = next_pid + 1
    /\ at' = [at EXCEPT ![s] = "user", ![kid[s]] = "user"]
    /\ kid' = [kid EXCEPT ![s] = None]
    /\ UNCHANGED <<req, cut, reaper, dead, told>>

\* No memory: the slot is given back.
Fail(s) ==
    /\ at[s] \in {"fork", "spawn", "spawned"}
    /\ tasks' = [tasks EXCEPT ![kid[s]].state = "UNUSED"]
    /\ Go(s, "user")
    /\ kid' = [kid EXCEPT ![s] = None]
    /\ UNCHANGED <<req, cut, next_pid, reaper, dead, told>>

\* task_parar() and what ends it, a SIGCONT or a SIGKILL.
Stop(s) ==
    /\ InUser(s)
    /\ tasks' = ExitWoken([tasks EXCEPT ![s].state = "STOPPED",
                                        ![s].parada_avisada = FALSE])
    /\ TellParent(s)
    /\ UNCHANGED <<at, kid, req, next_pid, reaper, dead, told>>

Continue(s) ==
    /\ tasks[s].state = "STOPPED"
    /\ tasks' = ExitWoken([tasks EXCEPT ![s].state = "READY"])
    /\ UNCHANGED <<at, kid, req, cut, next_pid, reaper, dead, told>>

\* Mutant: those who wait are not told of the death.
ExitSilent(s) ==
    /\ InUser(s)
    /\ tasks' = [tasks EXCEPT ![s].state = "ZOMBIE"]
    /\ TellParent(s)
    /\ WakeReaper
    /\ UNCHANGED <<at, kid, req, next_pid, dead, told>>

\* task_exit_con().
Exit(s) ==
    /\ InUser(s)
    /\ tasks' = ExitWoken([tasks EXCEPT ![s].state = "ZOMBIE"])
    /\ TellParent(s)
    /\ WakeReaper
    /\ UNCHANGED <<at, kid, req, next_pid, dead, told>>

\* A signal, whatever it is, cuts the wait.
Signalled(s) ==
    /\ InExitQueue(s)
    /\ tasks' = [tasks EXCEPT ![s].state = "READY"]
    /\ cut' = [cut EXCEPT ![s] = TRUE]
    /\ UNCHANGED <<at, kid, req, next_pid, reaper, dead, told>>
-----------------------------------------------------------------------------
\* hijo_con_noticias().
IsChild(s, r, t) == /\ Live(t)
                    /\ tasks[t].parent = tasks[s].pid
                    /\ r.pid \in {PID_CUALQUIERA, tasks[t].pid}

HasNews(s, r, t) == /\ IsChild(s, r, t)
                    /\ \/ tasks[t].state = "ZOMBIE"
                       \/ /\ tasks[t].state = "STOPPED"
                          /\ r.untraced
                          /\ ~tasks[t].parada_avisada

FirstNews(s, r, t) == HasNews(s, r, t) /\ \A u \in Slots : u < t => ~HasNews(s, r, u)

\* Mutant: the child is still a child after it has been collected.
CollectKeepsChild(t) ==
    /\ tasks[t].state = "ZOMBIE"
    /\ told' = [told EXCEPT ![tasks[t].pid] = @ + 1]
    /\ WakeReaper
    /\ UNCHANGED tasks

\* Mutant: nobody wakes the reaper.
CollectQuietly(t) ==
    /\ tasks[t].state = "ZOMBIE"
    /\ tasks' = [tasks EXCEPT ![t].parent = None]
    /\ told' = [told EXCEPT ![tasks[t].pid] = @ + 1]
    /\ UNCHANGED reaper

\* A death is told and collected: the dead has no parent any more.
Collect(t) ==
    /\ tasks[t].state = "ZOMBIE"
    /\ tasks' = [tasks EXCEPT ![t].parent = None]
    /\ told' = [told EXCEPT ![tasks[t].pid] = @ + 1]
    /\ WakeReaper

\* A stop is told, once.
TellStop(t) ==
    /\ tasks[t].state = "STOPPED"
    /\ tasks' = [tasks EXCEPT ![t].parada_avisada = TRUE]
    /\ UNCHANGED <<told, reaper>>

\* The call ends, or sleeps in exit_wq.
Back(s) == Go(s, "user") /\ req' = [req EXCEPT ![s] = NoRequest]

Blocks(s, r) == /\ tasks' = [tasks EXCEPT ![s].state = "BLOCKED"]
                /\ req' = [req EXCEPT ![s] = r]
                /\ Go(s, "wait")

\* One turn of the loop of task_wait(), with the lock.
Answer(s, r, nohang) ==
    /\ \/ /\ \A t \in Slots : ~IsChild(s, r, t)          \* -ECHILD
          /\ Back(s)
          /\ UNCHANGED <<tasks, told, reaper>>
       \/ /\ \E t \in Slots : FirstNews(s, r, t) /\ (Collect(t) \/ TellStop(t))
          /\ Back(s)
       \/ /\ \E t \in Slots : IsChild(s, r, t)
          /\ \A t \in Slots : ~HasNews(s, r, t)
          /\ IF nohang                                   \* -EAGAIN
             THEN Back(s) /\ UNCHANGED tasks
             ELSE Blocks(s, r)
          /\ UNCHANGED <<told, reaper>>
    /\ cut' = [cut EXCEPT ![s] = FALSE]
    /\ UNCHANGED <<kid, next_pid, dead>>

Wait(s, r, nohang) == InUser(s) /\ Answer(s, r, nohang)

\* It wakes up: -EINTR, or another turn.
WaitEnds(s) ==
    /\ at[s] = "wait"
    /\ tasks[s].state = "READY"
    /\ IF cut[s]
       THEN /\ Back(s)
            /\ cut' = [cut EXCEPT ![s] = FALSE]
            /\ UNCHANGED <<tasks, kid, next_pid, reaper, dead, told>>
       ELSE Answer(s, req[s], FALSE)
-----------------------------------------------------------------------------
\* Mutant: a zombie is taken whoever its parent is.
OursAnyZombie(t) == tasks[t].state = "ZOMBIE"

\* A zombie that nobody is going to collect.
Ours(t) == /\ tasks[t].state = "ZOMBIE"
           /\ tasks[t].parent = None \/ ByPid(tasks[t].parent) = {}

\* thread_reaper(): the first of them, or to sleep.
ReaperFinds ==
    /\ reaper = "looks"
    /\ \E t \in Slots : /\ Ours(t)
                        /\ \A u \in Slots : u < t => ~Ours(u)
                        /\ dead' = t
    /\ reaper' = "reaps"
    /\ UNCHANGED <<tasks, at, kid, req, cut, next_pid, told>>

ReaperSleeps ==
    /\ reaper = "looks"
    /\ \A t \in Slots : ~Ours(t)
    /\ reaper' = "asleep"
    /\ UNCHANGED <<tasks, at, kid, req, cut, next_pid, dead, told>>

\* reap(), outside the lock; the slot is free at the very end.
Reap ==
    /\ reaper = "reaps"
    /\ tasks' = [tasks EXCEPT ![dead].state = "UNUSED", ![dead].pgd = FALSE]
    /\ at' = [at EXCEPT ![dead] = "user"]
    /\ dead' = None
    /\ reaper' = "looks"
    /\ UNCHANGED <<kid, req, cut, next_pid, told>>

Reaper == ReaperFinds \/ ReaperSleeps \/ Reap

Born(s) == NameParent(s) \/ Publish(s) \/ Fail(s)

ProcsNext ==
    \/ \E s \in Slots, how \in {"fork", "spawn"} : Reserve(s, how)
    \/ \E s \in Slots : Born(s) \/ Stop(s) \/ Continue(s) \/ Exit(s)
                           \/ Signalled(s) \/ WaitEnds(s)
    \/ \E s \in Slots, r \in Request, nohang \in BOOLEAN : Wait(s, r, nohang)
    \/ Reaper

ProcsSpec == ProcsInit /\ [][ProcsNext]_procsVars

\* The reaper is a thread like the others and gets its turns, and whoever is
\* creating a process ends one way or the other.
FairSpec == ProcsSpec /\ WF_procsVars(Reaper) /\ \A s \in Slots : WF_procsVars(Born(s))
-----------------------------------------------------------------------------
\* Nobody sleeps in waitpid() with an answer waiting: every death and every
\* stop wakes those who wait, and they look again.
NoMissedNews ==
    \A s, t \in Slots : InExitQueue(s) => ~HasNews(s, req[s], t)

\* Nobody sleeps there for a child that will never be: -ECHILD and "wait, it
\* will come" are not confused, and nobody else takes a child away.
SomebodyToWaitFor ==
    \A s \in Slots : InExitQueue(s) => \E t \in Slots : IsChild(s, req[s], t)

\* Two collectors never count the same death twice.
DeathToldOnce == \A p \in Pids : told[p] <= 1

\* The reaper takes a zombie nobody has collected only if there is no parent
\* left to collect it.
OnlyOrphansUntold ==
    [][\A s, t \in Slots :
          /\ tasks[s].state = "ZOMBIE" /\ tasks'[s].state = "UNUSED"
          /\ told[tasks[s].pid] = 0
          /\ Live(t)
          => tasks[t].pid # tasks[s].parent]_procsVars

\* Whoever has been collected is buried.
CollectedAreReaped ==
    \A s \in Slots :
        (tasks[s].state = "ZOMBIE" /\ tasks[s].parent = None)
            ~> tasks[s].state = "UNUSED"
=============================================================================
