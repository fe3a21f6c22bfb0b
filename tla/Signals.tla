------------------------------ MODULE Signals ------------------------------
(***************************************************************************)
(* The signals of src/sched.c: how one is noted in the task it is for,     *)
(* with sched_lock held (signal_locked), and how the task itself, on the   *)
(* core it runs on and WITHOUT the lock, takes it from there on its way    *)
(* back to EL0 (signal_deliver): it ignores it, it dies of it, it stops    *)
(* (task_parar) or it wakes up inside a handler.                           *)
(*                                                                         *)
(* READY and RUNNING are one state here, "RUNNING": which core a task gets *)
(* and when is the scheduler's affair.  Interrupts stay masked in the      *)
(* kernel, so a task in it only meets what the other cores do.             *)
(***************************************************************************)
EXTENDS Naturals

CONSTANTS Procs,      \* the processes
          NoParent,   \* parent of whoever has none
          Parent,     \* who created each of them
          Targets,    \* bound: those to whom signals are sent
          Sent,       \* bound: signals sent with kill() or from the keyboard
          Caught      \* bound: signals for which each program may set a handler

SIGINT  == 2
SIGKILL == 9
SIGCHLD == 17
SIGCONT == 18
SIGSTOP == 19
SIGTSTP == 20
SIGTTIN == 21
SIGTTOU == 22
SIG_MAX == 32

Sigs  == 1 .. SIG_MAX - 1
Stops == {SIGSTOP, SIGTSTP, SIGTTIN, SIGTTOU}      \* ES_PARADA

ASSUME SignalsAssumption ==
    /\ Parent \in [Procs -> Procs \cup {NoParent}]
    /\ NoParent \notin Procs
    /\ Targets \subseteq Procs
    /\ Sent \subseteq Sigs
    /\ Caught \in [Procs -> SUBSET (Sigs \ {SIGKILL})]

VARIABLES
    tasks,        \* what the other cores see of a task
    at,           \* where the task is
    ctx,          \* its trap frame: x0 and the PC it goes back to
    saved,        \* the same, in the stack, while a handler runs
    cursor,       \* signal_deliver: the signal it is looking at
    loaded,       \* signal_deliver: sig_pending, in a register
    reanudable,   \* t->reanudable
    again,        \* signal_deliver: its copy of it
    cut           \* it is coming back from a call that was cut (nobody reads it)

signalsVars == <<tasks, at, ctx, saved, cursor, loaded, reanudable, again, cut>>

Task == [state        : {"RUNNING", "SLEEPING", "BLOCKED", "STOPPED", "ZOMBIE"},
         sig_pending  : SUBSET Sigs,
         sig_handler  : SUBSET (Sigs \ {SIGKILL}),    \* those with a handler
         sig_reanudar : SUBSET (Sigs \ {SIGKILL}),    \* those with SIG_REANUDAR
         sig_frame    : BOOLEAN,          \* inside a handler
         interrumpido : BOOLEAN,
         wq           : {"none", "exit_wq", "mutex", "other"}]

\* The PC in the middle of the code; after a call that has just returned
\* -EINTR; or on the svc of a call that is to be made again.
Context == {"code", "EINTR", "svc"}

SignalsTypeOK ==
    /\ tasks \in [Procs -> Task]
    /\ at \in [Procs -> {"user", "call", "wait", "lock", "recheck", "sleep", "leave", "scan",
                         "take", "park", "parked", "read park", "read parked", "gone"}]
    /\ ctx \in [Procs -> Context]
    /\ saved \in [Procs -> Context]
    /\ cursor \in [Procs -> 0 .. SIG_MAX]
    /\ loaded \in [Procs -> SUBSET Sigs]
    /\ reanudable \in [Procs -> BOOLEAN]
    /\ again \in [Procs -> BOOLEAN]
    /\ cut \in [Procs -> BOOLEAN]
    /\ \A p \in Procs : tasks[p].wq # "none" <=> tasks[p].state = "BLOCKED"

SignalsInit ==
    /\ tasks = [p \in Procs |->
          [state |-> "RUNNING", sig_pending |-> {}, sig_handler |-> {},
           sig_reanudar |-> {}, sig_frame |-> FALSE, interrumpido |-> FALSE,
           wq |-> "none"]]
    /\ at = [p \in Procs |-> "user"]
    /\ ctx = [p \in Procs |-> "code"]
    /\ saved = [p \in Procs |-> "code"]
    /\ cursor = [p \in Procs |-> 0]
    /\ loaded = [p \in Procs |-> {}]
    /\ reanudable = [p \in Procs |-> FALSE]
    /\ again = [p \in Procs |-> FALSE]
    /\ cut = [p \in Procs |-> FALSE]
-----------------------------------------------------------------------------
\* wq_wake_all(&exit_wq).
ExitWoken(tk) ==
    [p \in Procs |-> IF tk[p].state = "BLOCKED" /\ tk[p].wq = "exit_wq"
                     THEN [tk[p] EXCEPT !.state = "RUNNING", !.wq = "none"]
                     ELSE tk[p]]

\* A stop and a continue cancel each other when they are noted.
Cancels(s) == CASE s = SIGCONT -> Stops [] s \in Stops -> {SIGCONT} [] OTHER -> {}

\* Mutant: nobody ignores anything.
IgnoresNothing(t, s) == FALSE

\* What a task ignores must not even wake it.
Ignores(t, s) == s = SIGCHLD /\ s \notin t.sig_handler

\* signal_locked(p, s), with sched_lock held: the table that results.
Noted(tk, p, s) ==
    IF p = NoParent THEN tk
    ELSE IF Ignores(tk[p], s) \/ tk[p].state = "ZOMBIE" THEN tk
    ELSE LET t == [tk[p] EXCEPT !.sig_pending = (@ \ Cancels(s)) \cup {s}]
         IN  CASE t.state = "STOPPED" /\ s \in {SIGCONT, SIGKILL} ->
                    ExitWoken([tk EXCEPT ![p] = [t EXCEPT !.state = "RUNNING"]])
               [] t.state = "SLEEPING" ->
                    [tk EXCEPT ![p] = [t EXCEPT !.state = "RUNNING"]]
               [] t.state = "BLOCKED" ->
                    [tk EXCEPT ![p] = [t EXCEPT !.state = "RUNNING", !.wq = "none",
                                                !.interrumpido = TRUE]]
               [] OTHER -> [tk EXCEPT ![p] = t]

\* task_exit_con(): a zombie, its parent told, whoever waits for it woken.
Exited(tk, p) ==
    ExitWoken(Noted([tk EXCEPT ![p].state = "ZOMBIE"], Parent[p], SIGCHLD))

\* task_parar(): the same for a stop.
Parked(tk, p) ==
    ExitWoken(Noted([tk EXCEPT ![p].state = "STOPPED"], Parent[p], SIGCHLD))
-----------------------------------------------------------------------------
Go(p, where) == at' = [at EXCEPT ![p] = where]

\* The task is in EL0, in its own code, and calls the kernel.
InUser(p) == at[p] = "user" /\ tasks[p].state = "RUNNING" /\ ctx[p] # "svc"

deliverVars == <<saved, cursor, loaded, again>>

\* syscall_dispatch() is done: the result goes to the frame, and an -EINTR is
\* marked as a call that may be made again.  exception_dispatch() is next.
Returns(p, result) ==
    /\ Go(p, "leave")
    /\ cut' = [cut EXCEPT ![p] = result = "EINTR"]
    /\ ctx' = [ctx EXCEPT ![p] = IF result = "EINTR" THEN "EINTR" ELSE "code"]
    /\ reanudable' = [reanudable EXCEPT ![p] = @ \/ result = "EINTR"]

\* The timer, or any other interrupt, catches the task in EL0, perhaps some way
\* after a call that had returned -EINTR.
Interrupted(p) ==
    /\ at[p] = "user"
    /\ Go(p, "leave")
    /\ \/ UNCHANGED ctx
       \/ ctx[p] = "EINTR" /\ ctx' = [ctx EXCEPT ![p] = "code"]
    /\ UNCHANGED <<tasks, reanudable, cut, deliverVars>>

\* SYS_kill: task_signal().  It may be for oneself.
SysKill(p, q, s) ==
    /\ InUser(p)
    /\ tasks' = Noted(tasks, q, s)
    /\ Returns(p, "done")
    /\ UNCHANGED deliverVars

\* The keyboard: task_console_interrupt() and task_console_stop().
Keyboard(q, s) ==
    /\ s \in {SIGINT, SIGTSTP}
    /\ tasks' = Noted(tasks, q, s)
    /\ tasks' # tasks
    /\ UNCHANGED <<at, ctx, reanudable, cut, deliverVars>>

\* SYS_signal: task_set_handler().
SysSignal(p, s) ==
    /\ InUser(p)
    /\ \E h \in {tasks[p].sig_handler \cup {s}, tasks[p].sig_handler \ {s}},
          r \in {tasks[p].sig_reanudar \cup {s}, tasks[p].sig_reanudar \ {s}} :
             tasks' = [tasks EXCEPT ![p].sig_handler = h, ![p].sig_reanudar = r]
    /\ Returns(p, "done")
    /\ UNCHANGED deliverVars

\* A call that may have to wait in a queue (read, send, waitpid...).  It is in
\* the kernel and has not yet taken the lock.  A rewound PC leads here too.
SysWait(p) ==
    /\ at[p] = "user"
    /\ tasks[p].state = "RUNNING"
    /\ Go(p, "call")
    /\ ctx' = [ctx EXCEPT ![p] = "code"]
    /\ UNCHANGED <<tasks, reanudable, cut, deliverVars>>

\* With the lock: what it waits for is there, or else wq_wait_comun().
Block(p) ==
    /\ at[p] \in {"call", "recheck"}
    /\ \/ /\ \E q \in {"exit_wq", "mutex", "other"} :
                /\ tasks' = [tasks EXCEPT ![p].state = "BLOCKED", ![p].wq = q,
                                          ![p].interrumpido = FALSE]
                /\ Go(p, IF q = "mutex" THEN "lock" ELSE "wait")
          /\ UNCHANGED <<ctx, reanudable, cut>>
       \/ Returns(p, "done") /\ UNCHANGED tasks
    /\ UNCHANGED deliverVars

\* What it was waiting for happens, or its time is up.
Wake(p) ==
    /\ tasks[p].state \in {"BLOCKED", "SLEEPING"}
    /\ tasks' = [tasks EXCEPT ![p].state = "RUNNING", ![p].wq = "none"]
    /\ UNCHANGED <<at, ctx, reanudable, cut, deliverVars>>

\* wq_wait_comun() comes back: a signal, or the notice, and then the condition
\* has to be looked at again.
Woken(p) ==
    /\ at[p] = "wait"
    /\ tasks[p].state = "RUNNING"
    /\ tasks' = [tasks EXCEPT ![p].interrumpido = FALSE]
    /\ IF tasks[p].interrumpido
       THEN Returns(p, "EINTR")
       ELSE Go(p, "recheck") /\ UNCHANGED <<ctx, reanudable, cut>>
    /\ UNCHANGED deliverVars

\* The lock of a mutex is waited for whatever happens: the mark of the signal
\* stays there until the next wait.
WokenUninterruptible(p) ==
    /\ at[p] = "lock"
    /\ tasks[p].state = "RUNNING"
    /\ Go(p, "recheck")
    /\ UNCHANGED <<tasks, ctx, reanudable, cut, deliverVars>>

\* SYS_sleep: task_sleep() says it slept whatever woke it.
SysSleep(p) ==
    /\ InUser(p)
    /\ tasks' = [tasks EXCEPT ![p].state = "SLEEPING"]
    /\ Go(p, "sleep")
    /\ UNCHANGED <<ctx, reanudable, cut, deliverVars>>

Slept(p) ==
    /\ at[p] = "sleep"
    /\ tasks[p].state = "RUNNING"
    /\ Returns(p, "done")
    /\ UNCHANGED <<tasks, deliverVars>>

\* consola_read() from the background: whoever has a handler is told, and the
\* rest stop here.
ReadInBackground(p) ==
    /\ InUser(p)
    /\ IF SIGTTIN \in tasks[p].sig_handler
       THEN tasks' = Noted(tasks, p, SIGTTIN) /\ Returns(p, "EINTR")
       ELSE Go(p, "read park") /\ UNCHANGED <<tasks, ctx, reanudable, cut>>
    /\ UNCHANGED deliverVars

\* SYS_exec: another program, with no handlers and nothing pending.
SysExec(p) ==
    /\ InUser(p)
    /\ tasks' = [tasks EXCEPT ![p].sig_pending = {}, ![p].sig_handler = {},
                              ![p].sig_reanudar = {}, ![p].sig_frame = FALSE]
    /\ Go(p, "leave")
    /\ reanudable' = [reanudable EXCEPT ![p] = FALSE]
    /\ ctx' = [ctx EXCEPT ![p] = "code"]
    /\ UNCHANGED <<cut, deliverVars>>

SysExit(p) ==
    /\ InUser(p)
    /\ tasks' = Exited(tasks, p)
    /\ Go(p, "gone")
    /\ UNCHANGED <<ctx, reanudable, cut, deliverVars>>

\* SYS_sigreturn: signal_return() puts back the frame the handler interrupted
\* and returns the x0 it holds, which goes the way of every other result: if
\* it is the -EINTR of an older call, this call is marked too.
SysSigreturn(p) ==
    /\ InUser(p)
    /\ tasks[p].sig_frame
    /\ tasks' = [tasks EXCEPT ![p].sig_frame = FALSE]
    /\ Go(p, "leave")
    /\ ctx' = [ctx EXCEPT ![p] = saved[p]]
    /\ saved' = [saved EXCEPT ![p] = "code"]
    /\ reanudable' = [reanudable EXCEPT ![p] = @ \/ saved[p] = "EINTR"]
    /\ UNCHANGED <<cut, cursor, loaded, again>>
-----------------------------------------------------------------------------
\* The locals of signal_deliver() die with it: they are cleared here so that
\* states that differ in nothing else are one.
BackToUser(p) ==
    /\ Go(p, "user")
    /\ cursor' = [cursor EXCEPT ![p] = 0]
    /\ again' = [again EXCEPT ![p] = FALSE]
    /\ cut' = [cut EXCEPT ![p] = FALSE]

\* Mutant: handlers nest.
LeaveNesting(p) ==
    /\ at[p] = "leave"
    /\ reanudable' = [reanudable EXCEPT ![p] = FALSE]
    /\ IF tasks[p].sig_pending = {}
       THEN BackToUser(p)
       ELSE /\ Go(p, "scan")
            /\ cursor' = [cursor EXCEPT ![p] = 1]
            /\ again' = [again EXCEPT ![p] = reanudable[p]]
            /\ UNCHANGED cut
    /\ UNCHANGED <<tasks, ctx, saved, loaded>>

\* Mutant: the mark is only taken away by a delivery that goes through with it.
LeaveMarked(p) ==
    /\ at[p] = "leave"
    /\ IF tasks[p].sig_pending = {} \/ tasks[p].sig_frame
       THEN BackToUser(p) /\ UNCHANGED reanudable
       ELSE /\ Go(p, "scan")
            /\ cursor' = [cursor EXCEPT ![p] = 1]
            /\ again' = [again EXCEPT ![p] = reanudable[p]]
            /\ reanudable' = [reanudable EXCEPT ![p] = FALSE]
            /\ UNCHANGED cut
    /\ UNCHANGED <<tasks, ctx, saved, loaded>>

\* signal_deliver(): the mark is good for this way out only, and handlers do
\* not nest.
Leave(p) ==
    /\ at[p] = "leave"
    /\ reanudable' = [reanudable EXCEPT ![p] = FALSE]
    /\ IF tasks[p].sig_pending = {} \/ tasks[p].sig_frame
       THEN BackToUser(p)
       ELSE /\ Go(p, "scan")
            /\ cursor' = [cursor EXCEPT ![p] = 1]
            /\ again' = [again EXCEPT ![p] = reanudable[p]]
            /\ UNCHANGED cut
    /\ UNCHANGED <<tasks, ctx, saved, loaded>>

\* The lowest signal from the cursor on; sig_pending is read...
Scan(p) ==
    /\ at[p] = "scan"
    /\ LET left == {s \in tasks[p].sig_pending : s >= cursor[p]}
       IN  IF left = {}
           THEN BackToUser(p) /\ UNCHANGED loaded
           ELSE /\ \E s \in left : /\ \A r \in left : s <= r
                                    /\ cursor' = [cursor EXCEPT ![p] = s]
                /\ loaded' = [loaded EXCEPT ![p] = tasks[p].sig_pending]
                /\ Go(p, "take")
                /\ UNCHANGED <<again, cut>>
    /\ UNCHANGED <<tasks, ctx, saved, reanudable>>

\* ... and written back without it: no lock, and not one atomic operation.
\* Then the signal does what it does.
Handler(p, s) == s \in tasks[p].sig_handler \ {SIGKILL, SIGSTOP}

Dies(p, tk) == tasks' = Exited(tk, p) /\ Go(p, "gone")

Take(p) ==
    LET s == cursor[p]
        t == [tasks EXCEPT ![p].sig_pending = loaded[p] \ {s}]
    IN  /\ at[p] = "take"
        /\ loaded' = [loaded EXCEPT ![p] = {}]
        /\ UNCHANGED reanudable
        /\ \/ /\ ~Handler(p, s)
              /\ s \in {SIGCONT, SIGCHLD}
              /\ tasks' = t
              /\ Go(p, "scan")
              /\ cursor' = [cursor EXCEPT ![p] = s + 1]
              /\ UNCHANGED <<ctx, saved, again, cut>>
           \/ /\ ~Handler(p, s)
              /\ s \in Stops
              /\ tasks' = t
              /\ Go(p, "park")
              /\ UNCHANGED <<ctx, saved, cursor, again, cut>>
           \/ /\ ~Handler(p, s)
              /\ s \notin Stops \cup {SIGCONT, SIGCHLD}
              /\ Dies(p, t)
              /\ UNCHANGED <<ctx, saved, cursor, again, cut>>
           \/ /\ Handler(p, s)             \* no room in the stack for the frame
              /\ Dies(p, t)
              /\ UNCHANGED <<ctx, saved, cursor, again, cut>>
           \/ /\ Handler(p, s)
              /\ tasks' = [t EXCEPT ![p].sig_frame = TRUE]
              /\ saved' = [saved EXCEPT ![p] =
                              IF again[p] /\ s \in tasks[p].sig_reanudar
                              THEN "svc" ELSE ctx[p]]
              /\ ctx' = [ctx EXCEPT ![p] = "code"]
              /\ BackToUser(p)

\* task_parar(), and what comes after it.
Park(p) ==
    /\ at[p] \in {"park", "read park"}
    /\ tasks' = Parked(tasks, p)
    /\ Go(p, IF at[p] = "park" THEN "parked" ELSE "read parked")
    /\ UNCHANGED <<ctx, reanudable, cut, deliverVars>>

Resume(p) ==
    /\ at[p] = "parked"
    /\ tasks[p].state = "RUNNING"
    /\ Go(p, "scan")
    /\ cursor' = [cursor EXCEPT ![p] = @ + 1]
    /\ UNCHANGED <<tasks, ctx, saved, loaded, reanudable, again, cut>>

\* The reader looks again at who has the keyboard, unless it is being killed.
ResumeRead(p) ==
    /\ at[p] = "read parked"
    /\ tasks[p].state = "RUNNING"
    /\ IF SIGKILL \in tasks[p].sig_pending
       THEN Returns(p, "EINTR") /\ UNCHANGED tasks
       ELSE \/ Go(p, "call") /\ UNCHANGED <<tasks, ctx, reanudable, cut>>
            \/ Go(p, "read park") /\ UNCHANGED <<tasks, ctx, reanudable, cut>>
    /\ UNCHANGED deliverVars
-----------------------------------------------------------------------------
Kernel(p) == Leave(p) \/ Scan(p) \/ Take(p) \/ Park(p) \/ Resume(p) \/ ResumeRead(p)
                \/ Block(p) \/ Woken(p) \/ WokenUninterruptible(p) \/ Slept(p)

Calls(p) == \/ \E q \in Targets, s \in Sent : SysKill(p, q, s)
            \/ \E s \in Caught[p] : SysSignal(p, s)
            \/ SysWait(p) \/ SysSleep(p) \/ ReadInBackground(p)
            \/ SysExec(p) \/ SysExit(p) \/ SysSigreturn(p)

SignalsNext ==
    \/ \E p \in Procs : Kernel(p) \/ Interrupted(p) \/ Calls(p) \/ Wake(p)
    \/ \E q \in Targets, s \in Sent : Keyboard(q, s)

SignalsSpec == SignalsInit /\ [][SignalsNext]_signalsVars

-----------------------------------------------------------------------------
\* The PC is moved back only in the trap frame of a call that has just come back
\* with -EINTR.  The mark that asks for it is good for one way out to EL0: left
\* behind by one with nothing to deliver, or made inside a handler, it would move
\* the PC in the middle of the code when the next interrupt brings a signal
\* (sched.c:1525).
OnlyCallsAreMadeAgain == \A p \in Procs : again[p] => ctx[p] = "EINTR"

\* A child that dies or stops does not disturb a parent who does not catch
\* SIGCHLD: whoever a signal took out of its wait has another one noted, or a
\* handler for that.  It may be one that nobody will be told of: see
\* IgnoredDisturbsNobody.
ChildrenDisturbNobody ==
    \A p \in Procs :
        at[p] \in {"wait", "lock"} /\ tasks[p].interrumpido =>
            \E s \in tasks[p].sig_pending : s # SIGCHLD \/ s \in tasks[p].sig_handler

\* Handlers do not nest: while one runs its frame is not overwritten.
FrameIsKept ==
    [][\A p \in Procs : tasks[p].sig_frame /\ tasks'[p].sig_frame
                           => saved'[p] = saved[p]]_signalsVars

\* A stop and a continue are never pending together: each erases the other when
\* it is noted, and the delivery, which has no lock, puts back what it had read,
\* where they were not together either.  Which of the two is left is another
\* matter: see LastToSpeakWins.
StopAndContinueExclude ==
    \A p \in Procs : ~ (/\ SIGCONT \in tasks[p].sig_pending
                        /\ tasks[p].sig_pending \cap Stops # {})

\* Of a stop and a continue the last to speak is heard (sched.c:1062): the delivery
\* of another signal does not take it away.  It does not hold: sig_pending is read,
\* and written back without the lock, with any signal noted in between lost.
LastToSpeakWins ==
    [][\A p \in Procs : at[p] = "take" /\ at'[p] \notin {"take", "gone"} =>
           (tasks[p].sig_pending \ {cursor[p]}) \cap (Stops \cup {SIGCONT})
               \subseteq tasks'[p].sig_pending]_signalsVars

\* Whoever is stopped has no continue and no SIGKILL waiting to be read by
\* nobody (sched.c:1076).  It does not hold: they may be noted when the stop has been
\* taken and the task is not STOPPED yet.
StoppedIsReached ==
    \A p \in Procs : tasks[p].state = "STOPPED" =>
                        tasks[p].sig_pending \cap {SIGCONT, SIGKILL} = {}

\* A signal that is to be ignored does not even wake (sched.c:1049).  It does not
\* hold: of a SIGCONT without handler nobody is told, and it cuts the wait.
IgnoredDisturbsNobody ==
    \A p \in Procs :
        at[p] = "wait" /\ tasks[p].interrumpido =>
            \E s \in tasks[p].sig_pending : s \notin {SIGCHLD, SIGCONT} \/ s \in tasks[p].sig_handler

\* Only one call is ever rewound: the one the signal has cut.  It does not hold:
\* after sigreturn(), x0 is that of another call, and may be -EINTR by itself.
OnlyTheCutCallIsRewound ==
    [][\A p \in Procs : saved'[p] = "svc" /\ saved[p] # "svc" => cut[p]]_signalsVars
=============================================================================
