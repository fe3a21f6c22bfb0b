------------------------------- MODULE Sched -------------------------------
(***************************************************************************)
(* The round-robin scheduler of src/sched.c on CORES cores: the task       *)
(* table, the one big sched_lock and how it is handed over across a        *)
(* context switch, the timer tick, the "kick" interrupt between cores, and *)
(* the reaper thread that takes back the stacks of the dead.               *)
(*                                                                         *)
(* An operation that runs with sched_lock held is one action, because      *)
(* nobody else can read or write the table meanwhile.  A context switch is *)
(* three: the table changes (the lock is taken), cpu_switch_to changes the *)
(* stack the core stands on, and the task that comes in opens the lock     *)
(* that the task that went out had closed.  What the code does WITHOUT the *)
(* lock (reap, the tick's own accounting) interleaves with all of it.      *)
(*                                                                         *)
(* Which wait queue a task blocks in, and whether a zombie has a parent    *)
(* that still wants its exit code, are the business of other modules: here *)
(* any blocked task may be woken and any zombie may be up for collection.  *)
(***************************************************************************)
EXTENDS Naturals

CONSTANTS CORES,         \* number of cores; slots 0..CORES-1 are their idle tasks
          MAX_TASKS,     \* slots of the task table
          TASK_QUANTUM,  \* ticks in a turn
          MaxSleep       \* bound: the longest task_sleep of the model

ASSUME SchedAssumption ==
    /\ CORES \in Nat \ {0}
    /\ MAX_TASKS \in Nat
    /\ MAX_TASKS > CORES + 1
    /\ TASK_QUANTUM \in Nat \ {0}
    /\ MaxSleep \in Nat

Cores   == 0 .. CORES - 1
Slots   == 0 .. MAX_TASKS - 1
REAPER  == CORES                          \* the first slot task_create gives out
Workers == CORES + 1 .. MAX_TASKS - 1
NoCore  == CORES                          \* sched_lock open
NoSlot  == MAX_TASKS                      \* the reaper has nobody in its hands

TaskState == {"UNUSED", "READY", "RUNNING", "SLEEPING", "BLOCKED", "ZOMBIE"}

VARIABLES
    state,            \* tasks[i].state
    counter,          \* tasks[i].counter: ticks left of its turn
    wake,             \* ticks left until tasks[i].wake_tick; 0 if it does not sleep
    current,          \* TPIDR_EL1 of each core
    stack,            \* the task on whose kernel stack each core stands (SP)
    kstack,           \* is the slot's kernel stack mapped?
    lock,             \* who holds sched_lock
    pc,               \* where each core is
    need_resched, ipi, kick_next, smp_sched_ready,
    boot,             \* how far kernel_main has got on core 0
    dead              \* thread_reaper's local variable

vars == <<state, counter, wake, current, stack, kstack, lock, pc,
          need_resched, ipi, kick_next, smp_sched_ready, boot, dead>>

irqVars  == <<need_resched, ipi, kick_next>>
bootVars == <<smp_sched_ready, boot>>

TypeOK ==
    /\ state \in [Slots -> TaskState]
    /\ counter \in [Slots -> 0 .. TASK_QUANTUM]
    /\ wake \in [Slots -> 0 .. MaxSleep]
    /\ current \in [Cores -> Slots]
    /\ stack \in [Cores -> Slots]
    /\ kstack \in [Slots -> BOOLEAN]
    /\ lock \in Cores \cup {NoCore}
    /\ pc \in [Cores -> {"task", "irq", "switch", "unlock"}]
    /\ need_resched \in [Cores -> BOOLEAN]
    /\ ipi \in [Cores -> BOOLEAN]
    /\ kick_next \in Cores
    /\ smp_sched_ready \in BOOLEAN
    /\ boot \in {"sched_init", "sched_start_smp", "done"}
    /\ dead \in Slots \cup {NoSlot}

\* kernel_main when it reaches sched_init: the secondary cores have already
\* answered, so every core has adopted its idle task.  Idle tasks stand on the
\* stacks boot.S gave them, which are always there.
Init ==
    /\ state = [t \in Slots |-> IF t \in Cores THEN "RUNNING" ELSE "UNUSED"]
    /\ counter = [t \in Slots |-> IF t \in Cores THEN TASK_QUANTUM ELSE 0]
    /\ wake = [t \in Slots |-> 0]
    /\ current = [c \in Cores |-> c]
    /\ stack = [c \in Cores |-> c]
    /\ kstack = [t \in Slots |-> t \in Cores]
    /\ lock = NoCore
    /\ pc = [c \in Cores |-> "task"]
    /\ need_resched = [c \in Cores |-> FALSE]
    /\ ipi = [c \in Cores |-> FALSE]
    /\ kick_next = 0
    /\ smp_sched_ready = FALSE
    /\ boot = "sched_init"
    /\ dead = NoSlot

-----------------------------------------------------------------------------
\* How far j is from i going round a table of n entries.
Around(i, j, n) == (j + n - i) % n

\* The tasks that compete for a core: READY, and not an idle task.
Candidates(st) == {t \in Slots \ Cores : st[t] = "READY"}

\* Mutant: the round starts at the current task, which wins it while it wants.
PicksNextFromCurrent(c, st, n) ==
    IF st[current[c]] = "RUNNING" /\ current[c] \notin Cores
    THEN n = current[c]
    ELSE IF Candidates(st) = {}
         THEN n = IF st[current[c]] = "RUNNING" THEN current[c] ELSE c
         ELSE /\ n \in Candidates(st)
              /\ \A m \in Candidates(st) :
                    Around(current[c], n, MAX_TASKS) <= Around(current[c], m, MAX_TASKS)

\* pick_next() on core c, the table being st: the first READY task after the
\* current one; with none, the current one if it still wants the core; and if
\* not, the idle task of THIS core.
PicksNext(c, st, n) ==
    LET start == (current[c] + 1) % MAX_TASKS
    IN  \/ /\ n \in Candidates(st)
           /\ \A m \in Candidates(st) :
                 Around(start, n, MAX_TASKS) <= Around(start, m, MAX_TASKS)
        \/ /\ Candidates(st) = {}
           /\ n = IF st[current[c]] = "RUNNING" THEN current[c] ELSE c

\* Mutant: the lock is opened before the stacks are switched.
RescheduleLockOpen(c, st, cnt) ==
    \E n \in Slots :
        /\ PicksNext(c, st, n)
        /\ need_resched' = [need_resched EXCEPT ![c] = FALSE]
        /\ IF n = current[c]
           THEN /\ state' = st
                /\ counter' = cnt
                /\ pc' = [pc EXCEPT ![c] = "task"]
                /\ UNCHANGED current
           ELSE /\ state' = [st EXCEPT
                     ![current[c]] = IF @ = "RUNNING" THEN "READY" ELSE @,
                     ![n] = "RUNNING"]
                /\ counter' = [cnt EXCEPT ![n] = TASK_QUANTUM]
                /\ current' = [current EXCEPT ![c] = n]
                /\ pc' = [pc EXCEPT ![c] = "switch"]
        /\ UNCHANGED <<stack, kstack, lock, smp_sched_ready, boot>>

\* schedule_locked() on core c, called with the table st and the turns cnt.
\* If the core changes hands the lock stays closed and the stack is still that
\* of the task that leaves.
Reschedule(c, st, cnt) ==
    \E n \in Slots :
        /\ PicksNext(c, st, n)
        /\ need_resched' = [need_resched EXCEPT ![c] = FALSE]
        /\ IF n = current[c]
           THEN /\ state' = st
                /\ counter' = cnt
                /\ pc' = [pc EXCEPT ![c] = "task"]
                /\ UNCHANGED <<current, lock>>
           ELSE /\ state' = [st EXCEPT
                     ![current[c]] = IF @ = "RUNNING" THEN "READY" ELSE @,
                     ![n] = "RUNNING"]
                /\ counter' = [cnt EXCEPT ![n] = TASK_QUANTUM]
                /\ current' = [current EXCEPT ![c] = n]
                /\ lock' = c
                /\ pc' = [pc EXCEPT ![c] = "switch"]
        /\ UNCHANGED <<stack, kstack, smp_sched_ready, boot>>

\* sched_kick_idle() called by core c: one idle core, taken in turn, gets an
\* interrupt.  A core is idle when its idle task is RUNNING.
Idle(c, st) == {d \in Cores \ {c} : st[d] = "RUNNING"}

KickIdle(c, st) ==
    IF Idle(c, st) = {}
    THEN UNCHANGED <<ipi, kick_next>>
    ELSE \E d \in Idle(c, st) :
            /\ \A e \in Idle(c, st) :
                  Around(kick_next, d, CORES) <= Around(kick_next, e, CORES)
            /\ ipi' = [ipi EXCEPT ![d] = TRUE]
            /\ kick_next' = (d + 1) % CORES

\* Core c runs task t, in its own code and with the interrupts open.
Runs(c, t) == pc[c] = "task" /\ current[c] = t
Works(c)   == pc[c] = "task" /\ current[c] \in Workers
LockOpen   == lock = NoCore
-----------------------------------------------------------------------------
\* cpu_switch_to(): the registers of the one that leaves are saved and the
\* core moves to the stack of the one that enters.
CpuSwitchTo(c) ==
    /\ pc[c] = "switch"
    /\ stack' = [stack EXCEPT ![c] = current[c]]
    /\ pc' = [pc EXCEPT ![c] = "unlock"]
    /\ UNCHANGED <<state, counter, wake, current, kstack, lock, irqVars,
                   bootVars, dead>>

\* The task that enters opens the lock closed by the one that left: in its own
\* frame of schedule(), or in sched_unlock_new_task() if it is newly born.
Unlock(c) ==
    /\ pc[c] = "unlock"
    /\ lock' = NoCore
    /\ pc' = [pc EXCEPT ![c] = "task"]
    /\ UNCHANGED <<state, counter, wake, current, stack, kstack, irqVars,
                   bootVars, dead>>

\* Mutant: only whoever reaches his tick exactly, and nobody who asked for none.
ExpiredExactly(c) == IF c = 0 THEN {t \in Slots : state[t] = "SLEEPING" /\ wake[t] = 1}
                              ELSE {}

\* The timer interrupt: timer_irq() and scheduler_tick().  Core 0 also wakes
\* the sleepers, under the lock.
Expired(c) == IF c = 0 THEN {t \in Slots : state[t] = "SLEEPING" /\ wake[t] <= 1}
                       ELSE {}

TimerTick(c) ==
    /\ pc[c] = "task"
    /\ c = 0 => LockOpen
    /\ LET t  == current[c]
           st == [s \in Slots |-> IF s \in Expired(c) THEN "READY" ELSE state[s]]
       IN  /\ state' = st
           /\ wake' = [s \in Slots |-> IF c = 0 /\ state[s] = "SLEEPING" /\ wake[s] > 0
                                       THEN wake[s] - 1 ELSE wake[s]]
           /\ IF Expired(c) = {} THEN UNCHANGED <<ipi, kick_next>>
                                 ELSE KickIdle(c, st)
           /\ IF t \in Cores
              THEN /\ need_resched' = [need_resched EXCEPT ![c] = TRUE]
                   /\ UNCHANGED counter
              ELSE /\ counter' = [counter EXCEPT ![t] = IF @ > 0 THEN @ - 1 ELSE 0]
                   /\ need_resched' = [need_resched EXCEPT
                                         ![c] = @ \/ counter[t] <= 1]
    /\ pc' = [pc EXCEPT ![c] = "irq"]
    /\ UNCHANGED <<current, stack, kstack, lock, bootVars, dead>>

\* The other core's kick arrives: sched_wake_core().
KickArrives(c) ==
    /\ pc[c] = "task"
    /\ ipi[c]
    /\ ipi' = [ipi EXCEPT ![c] = FALSE]
    /\ need_resched' = [need_resched EXCEPT ![c] = TRUE]
    /\ pc' = [pc EXCEPT ![c] = "irq"]
    /\ UNCHANGED <<state, counter, wake, current, stack, kstack, lock,
                   kick_next, bootVars, dead>>

\* sched_preempt(), at the end of irq_handle().
MustPreempt(c) == need_resched[c] /\ (c = 0 \/ smp_sched_ready)

Preempt(c) ==
    /\ pc[c] = "irq"
    /\ MustPreempt(c)
    /\ LockOpen
    /\ Reschedule(c, state, counter)
    /\ UNCHANGED <<wake, ipi, kick_next, dead>>

ReturnFromIrq(c) ==
    /\ pc[c] = "irq"
    /\ ~MustPreempt(c)
    /\ pc' = [pc EXCEPT ![c] = "task"]
    /\ UNCHANGED <<state, counter, wake, current, stack, kstack, lock, irqVars,
                   bootVars, dead>>

\* idle_loop(): wfi comes back and it looks for work, whoever the core is.
IdleLoop(c) ==
    /\ Runs(c, c)
    /\ c = 0 => boot = "done"
    /\ LockOpen
    /\ Reschedule(c, state, counter)
    /\ UNCHANGED <<wake, ipi, kick_next, dead>>

TaskYield(c) ==
    /\ Works(c)
    /\ LockOpen
    /\ Reschedule(c, state, [counter EXCEPT ![current[c]] = 0])
    /\ UNCHANGED <<wake, ipi, kick_next, dead>>

TaskSleep(c) ==
    /\ Works(c)
    /\ LockOpen
    /\ \E ticks \in 0 .. MaxSleep : wake' = [wake EXCEPT ![current[c]] = ticks]
    /\ Reschedule(c, [state EXCEPT ![current[c]] = "SLEEPING"], counter)
    /\ UNCHANGED <<ipi, kick_next, dead>>

\* wq_wait(): into some queue and to sleep, without opening the lock between.
WqWait(c) ==
    /\ Works(c)
    /\ LockOpen
    /\ Reschedule(c, [state EXCEPT ![current[c]] = "BLOCKED"], counter)
    /\ UNCHANGED <<wake, ipi, kick_next, dead>>

\* The running task takes t out of its wait: a wq_wake, or a signal.
WakeTask(c, t) ==
    /\ Works(c)
    /\ LockOpen
    /\ t \in Workers
    /\ state[t] \in {"BLOCKED", "SLEEPING"}
    /\ state' = [state EXCEPT ![t] = "READY"]
    /\ wake' = [wake EXCEPT ![t] = 0]
    /\ KickIdle(c, state')
    /\ UNCHANGED <<counter, current, stack, kstack, lock, pc,
                   need_resched, bootVars, dead>>

\* task_create(), from a running task: the first free slot.
TaskCreate(c) ==
    /\ Works(c)
    /\ LockOpen
    /\ \E t \in Workers :
          /\ state[t] = "UNUSED"
          /\ \A s \in Workers : s < t => state[s] # "UNUSED"
          /\ kstack' = [kstack EXCEPT ![t] = TRUE]
          /\ counter' = [counter EXCEPT ![t] = TASK_QUANTUM]
          /\ state' = [state EXCEPT ![t] = "READY"]
    /\ KickIdle(c, state')
    /\ UNCHANGED <<wake, current, stack, lock, pc, need_resched, bootVars, dead>>

\* task_exit_con(): a zombie, the reaper told, and away with the lock closed.
TaskExit(c) ==
    /\ Works(c)
    /\ LockOpen
    /\ LET told == state[REAPER] = "BLOCKED"
           st   == [state EXCEPT ![current[c]] = "ZOMBIE",
                                 ![REAPER] = IF told THEN "READY" ELSE @]
       IN  /\ IF told THEN KickIdle(c, st) ELSE UNCHANGED <<ipi, kick_next>>
           /\ Reschedule(c, st, counter)
    /\ UNCHANGED <<wake, dead>>
-----------------------------------------------------------------------------
\* thread_reaper() looks for a zombie that has nobody to wait for it, under
\* the lock, and either takes it in its hands or goes to sleep.
ReaperFinds(c) ==
    /\ Runs(c, REAPER)
    /\ LockOpen
    /\ dead = NoSlot
    /\ \E t \in Workers : state[t] = "ZOMBIE" /\ dead' = t
    /\ UNCHANGED <<state, counter, wake, current, stack, kstack, lock, pc,
                   irqVars, bootVars>>

ReaperWaits(c) ==
    /\ Runs(c, REAPER)
    /\ LockOpen
    /\ dead = NoSlot
    /\ Reschedule(c, [state EXCEPT ![REAPER] = "BLOCKED"], counter)
    /\ UNCHANGED <<wake, ipi, kick_next, dead>>

\* reap(), outside the lock: first the stack, and the slot LAST.
ReapStack(c) ==
    /\ Runs(c, REAPER)
    /\ dead # NoSlot
    /\ kstack[dead]
    /\ kstack' = [kstack EXCEPT ![dead] = FALSE]
    /\ UNCHANGED <<state, counter, wake, current, stack, lock, pc, irqVars,
                   bootVars, dead>>

ReapSlot(c) ==
    /\ Runs(c, REAPER)
    /\ dead # NoSlot
    /\ ~kstack[dead]
    /\ state' = [state EXCEPT ![dead] = "UNUSED"]
    /\ dead' = NoSlot
    /\ UNCHANGED <<counter, wake, current, stack, kstack, lock, pc, irqVars,
                   bootVars>>
-----------------------------------------------------------------------------
\* kernel_main on core 0: sched_init() creates the reaper, sched_start_smp()
\* lets the others in, task_bootstrap() creates init, and it becomes idle.
CreateAtBoot(t) ==
    /\ Runs(0, 0)
    /\ LockOpen
    /\ state[t] = "UNUSED"
    /\ kstack' = [kstack EXCEPT ![t] = TRUE]
    /\ counter' = [counter EXCEPT ![t] = TASK_QUANTUM]
    /\ state' = [state EXCEPT ![t] = "READY"]
    /\ KickIdle(0, state')
    /\ UNCHANGED <<wake, current, stack, lock, pc, need_resched,
                   smp_sched_ready, dead>>

SchedInit == boot = "sched_init" /\ boot' = "sched_start_smp" /\ CreateAtBoot(REAPER)

SchedStartSmp ==
    /\ Runs(0, 0)
    /\ boot = "sched_start_smp"
    /\ ~smp_sched_ready
    /\ smp_sched_ready' = TRUE
    /\ UNCHANGED <<state, counter, wake, current, stack, kstack, lock, pc,
                   irqVars, boot, dead>>

BootstrapInit ==
    /\ boot = "sched_start_smp"
    /\ smp_sched_ready
    /\ boot' = "done"
    /\ CreateAtBoot(REAPER + 1)
-----------------------------------------------------------------------------
CoreStep(c) ==
    \/ CpuSwitchTo(c) \/ Unlock(c)
    \/ TimerTick(c) \/ KickArrives(c) \/ Preempt(c) \/ ReturnFromIrq(c)
    \/ IdleLoop(c) \/ TaskYield(c) \/ TaskSleep(c) \/ WqWait(c)
    \/ \E t \in Workers : WakeTask(c, t)
    \/ TaskCreate(c) \/ TaskExit(c)
    \/ ReaperFinds(c) \/ ReaperWaits(c) \/ ReapStack(c) \/ ReapSlot(c)

Next == \/ \E c \in Cores : CoreStep(c)
        \/ SchedInit \/ SchedStartSmp \/ BootstrapInit

Spec == Init /\ [][Next]_vars

\* A core that has the lock finishes the switch, its timer goes on ticking, and
\* a core that spins on the lock takes it if it finds it open again and again
\* (LDAXR/STLXR retried for ever with the interrupts masked).
Fairness ==
    \A c \in Cores :
        /\ WF_vars(CpuSwitchTo(c) \/ Unlock(c) \/ ReturnFromIrq(c))
        /\ SF_vars(TimerTick(c))
        /\ SF_vars(Preempt(c))

FairSpec == Spec /\ Fairness
-----------------------------------------------------------------------------
\* A task that is RUNNING is the current one of exactly one core: no two cores
\* ever execute the same task (pick_next() looks only at READY).
OneCorePerTask ==
    /\ \A c, d \in Cores : current[c] = current[d] => c = d
    /\ \A t \in Slots : state[t] = "RUNNING" <=> \E c \in Cores : current[c] = t

\* No two cores stand on the same kernel stack, not even in the middle of a
\* switch, when the task that leaves is already READY for everybody else and
\* its registers are not saved yet.  This is what handing the lock over is for.
StacksDisjoint == \A c, d \in Cores : stack[c] = stack[d] => c = d

\* The reaper never pulls the carpet from under anybody: the stack a core
\* stands on is mapped, even that of a zombie that has not left its core yet.
StackUnderFeet == \A c \in Cores : kstack[stack[c]]

\* The inductive invariant the three above follow from.  The lock is closed
\* exactly while its holder is between taking the decision and opening it for
\* the task that enters; outside the switch itself a core stands on the stack
\* of its current task, and during it on that of one who is no longer RUNNING;
\* whom the reaper has in its hands is a zombie no core stands on.
LockIsHandedOver ==
    \A c \in Cores : pc[c] \in {"switch", "unlock"} <=> lock = c

CurrentIsRunning ==
    /\ \A c \in Cores : state[current[c]] = "RUNNING"
    /\ \A t \in Slots : state[t] = "RUNNING" => \E c \in Cores : current[c] = t
    /\ \A c, d \in Cores : current[c] = current[d] => c = d

StackFollowsCurrent ==
    \A c \in Cores :
        IF pc[c] = "switch" THEN state[stack[c]] \notin {"RUNNING", "UNUSED"}
                            ELSE stack[c] = current[c]

IdleStaysHome ==
    \A c \in Cores : /\ state[c] \in {"READY", "RUNNING"}
                      /\ \A d \in Cores : current[d] = c => d = c

DeadIsDead ==
    dead # NoSlot => /\ dead \in Workers
                     /\ state[dead] = "ZOMBIE"
                     /\ \A c \in Cores : stack[c] # dead
                     /\ state[REAPER] \in {"READY", "RUNNING"}

StacksMapped == \A t \in Slots : state[t] # "UNUSED" /\ t # dead => kstack[t]

CoreInv ==
    /\ TypeOK /\ LockIsHandedOver /\ CurrentIsRunning /\ StackFollowsCurrent
    /\ IdleStaysHome /\ DeadIsDead /\ StacksMapped

\* Nobody that wants a core is left without one for ever.
NoStarvation ==
    \A t \in Workers \cup {REAPER} : state[t] = "READY" ~> state[t] # "READY"

\* Whoever sleeps is woken, by a signal or by the clock of core 0.
SleepersWake == \A t \in Workers : state[t] = "SLEEPING" ~> state[t] # "SLEEPING"
=============================================================================
