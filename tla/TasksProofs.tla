---------------------------- MODULE TasksProofs ----------------------------
(***************************************************************************)
(* Proofs about the tasks of the kernel.                                   *)
(*                                                                         *)
(* Sched, for any number of cores and of tasks: the inductive invariant    *)
(* CoreInv, and from it that no two cores run the same task, that no two   *)
(* stand on the same stack, and that the reaper never unmaps the stack of  *)
(* anybody who is still standing on it.                                    *)
(*                                                                         *)
(* Signals, for any number of processes, any family tree and any choice of *)
(* signals sent and caught: the types, the exclusion of stop and continue, *)
(* that waits are cut for a reason and that the frame of a handler is      *)
(* kept.                                                                   *)
(***************************************************************************)
EXTENDS Sched, Signals, TLAPS

USE SchedAssumption

\* The constants are numbers, and the sets of slots and cores are what they
\* look like.
LEMMA SlotFacts ==
    /\ Cores \subseteq Slots
    /\ Workers \subseteq Slots
    /\ REAPER \in Slots /\ REAPER \notin Cores /\ REAPER \notin Workers
    /\ \A t \in Workers : t \notin Cores
    /\ NoCore \notin Cores
    /\ NoSlot \notin Slots
    /\ 0 \in Cores
  BY DEF Cores, Slots, Workers, REAPER, NoCore, NoSlot

\* Remainders are smaller than the divisor.
LEMMA ModBound ==
    ASSUME NEW n \in Nat, NEW k \in Nat \ {0}
    PROVE  n % k \in 0 .. k - 1
  BY SMT

\* A kick moves only the pending interrupts and the turn they are taken in.
LEMMA KickType ==
    ASSUME TypeOK, NEW c \in Cores, NEW st, KickIdle(c, st)
    PROVE  ipi' \in [Cores -> BOOLEAN] /\ kick_next' \in Cores
<1>1. CASE Idle(c, st) = {}
  BY <1>1 DEF KickIdle, TypeOK
<1>2. CASE Idle(c, st) # {}
  <2>1. PICK d \in Idle(c, st) : /\ ipi' = [ipi EXCEPT ![d] = TRUE]
                                 /\ kick_next' = (d + 1) % CORES
    BY <1>2 DEF KickIdle
  <2>2. d \in Cores /\ d + 1 \in Nat
    BY DEF Idle, Cores
  <2>3. kick_next' \in Cores
    BY <2>1, <2>2, ModBound DEF Cores
  <2>4. QED
    BY <2>1, <2>2, <2>3 DEF TypeOK
<1>3. QED
  BY <1>1, <1>2

\* Whatever an operation has done to the table before it calls
\* schedule_locked(), if it has touched the RUNNING tasks only to take its own
\* out of that state, the switch leaves the invariant standing.
LEMMA RescheduleKeeps ==
    ASSUME CoreInv, NEW c \in Cores, NEW st, NEW cnt,
           LockOpen, pc[c] \in {"task", "irq"},
           st \in [Slots -> TaskState],
           cnt \in [Slots -> 0 .. TASK_QUANTUM],
           wake' \in [Slots -> 0 .. MaxSleep],
           ipi' \in [Cores -> BOOLEAN], kick_next' \in Cores, dead' = dead,
           st[current[c]] \notin {"UNUSED", "READY"},
           \A t \in Slots : t # current[c]
                               => (st[t] = "RUNNING" <=> state[t] = "RUNNING"),
           \A t \in Slots : st[t] = "UNUSED" <=> state[t] = "UNUSED",
           \A t \in Cores : st[t] = state[t],
           dead # NoSlot => st[dead] = "ZOMBIE" /\ st[REAPER] \in {"READY", "RUNNING"},
           Reschedule(c, st, cnt)
    PROVE  CoreInv'
<1> USE SlotFacts
<1>1. PICK n \in Slots :
         /\ PicksNext(c, st, n)
         /\ need_resched' = [need_resched EXCEPT ![c] = FALSE]
         /\ IF n = current[c]
            THEN /\ state' = st
                 /\ counter' = cnt
                 /\ pc' = [pc EXCEPT ![c] = "task"]
                 /\ UNCHANGED <<current, lock>>
            ELSE /\ state' = [st EXCEPT
                      ![current[c]] = IF @ = "RUNNING" THEN "READY" ELSE @,
                      ![n] = "RUNNING"]
                 /\ counter' = [cnt EXCEPT ![n] = TASK_QUANTUM]
                 /\ current' = [current EXCEPT ![c] = n]
                 /\ lock' = c
                 /\ pc' = [pc EXCEPT ![c] = "switch"]
         /\ UNCHANGED <<stack, kstack, smp_sched_ready, boot>>
  BY DEF Reschedule
<1>2. /\ current \in [Cores -> Slots] /\ stack \in [Cores -> Slots]
      /\ state \in [Slots -> TaskState] /\ pc \in [Cores -> {"task", "irq", "switch", "unlock"}]
      /\ need_resched \in [Cores -> BOOLEAN] /\ kstack \in [Slots -> BOOLEAN]
  BY DEF CoreInv, TypeOK
<1>3. \A d \in Cores : pc[d] \in {"task", "irq"} /\ stack[d] = current[d]
  BY <1>2 DEF CoreInv, LockIsHandedOver, LockOpen, StackFollowsCurrent
<1>4. CASE n = current[c]
  <2>1. st[n] = "RUNNING"
    BY <1>1, <1>2, <1>4 DEF PicksNext, Candidates, CoreInv, CurrentIsRunning
  <2>2. \A t \in Slots : st[t] = "RUNNING" <=> state[t] = "RUNNING"
    BY <2>1, <1>2, <1>4 DEF CoreInv, CurrentIsRunning
  <2>3. TypeOK'
    BY <1>1, <1>2, <1>4 DEF CoreInv, TypeOK
  <2>4. LockIsHandedOver'
    BY <1>1, <1>2, <1>3, <1>4 DEF CoreInv, LockIsHandedOver, LockOpen
  <2>5. CurrentIsRunning'
    BY <1>1, <1>2, <1>4, <2>2 DEF CoreInv, CurrentIsRunning
  <2>6. StackFollowsCurrent'
    BY <1>1, <1>2, <1>3, <1>4 DEF StackFollowsCurrent
  <2>7. IdleStaysHome'
    BY <1>1, <1>2, <1>4 DEF CoreInv, IdleStaysHome
  <2>8. DeadIsDead'
    BY <1>1, <1>4 DEF CoreInv, DeadIsDead
  <2>9. StacksMapped'
    BY <1>1, <1>4 DEF CoreInv, StacksMapped
  <2>10. QED
    BY <2>3, <2>4, <2>5, <2>6, <2>7, <2>8, <2>9 DEF CoreInv
<1>5. CASE n # current[c]
  <2> DEFINE p == current[c]
  <2>1. /\ state' = [st EXCEPT ![p] = IF @ = "RUNNING" THEN "READY" ELSE @,
                               ![n] = "RUNNING"]
        /\ counter' = [cnt EXCEPT ![n] = TASK_QUANTUM]
        /\ current' = [current EXCEPT ![c] = n]
        /\ lock' = c
        /\ pc' = [pc EXCEPT ![c] = "switch"]
        /\ UNCHANGED <<stack, kstack, smp_sched_ready, boot>>
    BY <1>1, <1>5
  <2>2. p \in Slots /\ st[p] \notin {"UNUSED", "READY"}
    BY <1>2
  <2>3. st[n] # "RUNNING" /\ st[n] # "UNUSED" /\ (n \in Cores => n = c)
    <3>1. CASE n \in Candidates(st)
      BY <3>1 DEF Candidates
    <3>2. CASE n = c
      BY <3>2, <1>2, <1>5 DEF CoreInv, CurrentIsRunning, IdleStaysHome
    <3>3. QED
      BY <1>1, <1>5, <3>1, <3>2 DEF PicksNext
  <2>4. /\ state'[n] = "RUNNING"
        /\ state'[p] \notin {"RUNNING", "UNUSED"}
        /\ \A t \in Slots : t # n /\ t # p => state'[t] = st[t]
        /\ state' \in [Slots -> TaskState]
    BY <2>1, <2>2, <1>5 DEF TaskState
  <2>5. \A t \in Slots : state'[t] = "UNUSED" <=> state[t] = "UNUSED"
    BY <2>2, <2>3, <2>4
  <2>6. /\ current'[c] = n
        /\ \A d \in Cores : d # c => current'[d] = current[d] /\ current[d] # n
                                      /\ current[d] # p
    BY <2>1, <2>3, <1>2, <1>5 DEF CoreInv, CurrentIsRunning
  <2>7. TypeOK'
    BY SMTT(60), <2>1, <2>4, <1>1, <1>2 DEF CoreInv, TypeOK
  <2>8. LockIsHandedOver'
    BY <2>1, <1>2, <1>3 DEF LockIsHandedOver
  <2>9. CurrentIsRunning'
    BY <2>4, <2>6, <1>2 DEF CoreInv, CurrentIsRunning
  <2>10. StackFollowsCurrent'
    BY <2>1, <2>4, <2>6, <1>2, <1>3 DEF StackFollowsCurrent
  <2>11. IdleStaysHome'
    <3>1. \A d \in Cores : state'[d] \in {"READY", "RUNNING"}
      <4>1. ASSUME NEW d \in Cores PROVE state'[d] \in {"READY", "RUNNING"}
        <5>1. CASE d = p
          BY <5>1, <2>1, <2>2, <1>2, <1>5 DEF CoreInv, IdleStaysHome
        <5>2. CASE d # p
          BY <5>2, <2>4 DEF CoreInv, IdleStaysHome
        <5>3. QED
          BY <5>1, <5>2
      <4>2. QED
        BY <4>1
    <3>2. QED
      BY <3>1, <2>3, <2>6 DEF CoreInv, IdleStaysHome
  <2>12. DeadIsDead'
    <3>1. ASSUME dead # NoSlot
          PROVE  /\ state'[dead] = "ZOMBIE"
                 /\ state'[REAPER] \in {"READY", "RUNNING"}
      <4>1. dead \in Slots /\ dead # p /\ st[dead] = "ZOMBIE"
        BY <3>1, <1>3, <1>2 DEF CoreInv, DeadIsDead
      <4>2. dead # n
        BY <3>1, <4>1, <2>3, <1>1, <1>5, <1>2 DEF PicksNext, Candidates, CoreInv, DeadIsDead
      <4>3. state'[dead] = "ZOMBIE"
        BY <4>1, <4>2, <2>4
      <4>4. state'[REAPER] \in {"READY", "RUNNING"}
        BY <3>1, <2>1, <2>2
      <4>5. QED
        BY <4>3, <4>4
    <3>2. QED
      BY <3>1, <2>1 DEF CoreInv, DeadIsDead
  <2>13. StacksMapped'
    BY <2>1, <2>5 DEF CoreInv, StacksMapped
  <2>14. QED
    BY <2>7, <2>8, <2>9, <2>10, <2>11, <2>12, <2>13 DEF CoreInv
<1>6. QED
  BY <1>4, <1>5


\* At boot the table holds nothing but the idle tasks, each on its own core.
LEMMA InitCore == Init => CoreInv
<1> SUFFICES ASSUME Init PROVE CoreInv
  OBVIOUS
<1> USE SlotFacts
<1>1. TypeOK
  <2>1. /\ state \in [Slots -> TaskState] /\ counter \in [Slots -> 0 .. TASK_QUANTUM]
        /\ wake \in [Slots -> 0 .. MaxSleep]
    BY DEF Init, TaskState
  <2>2. /\ current \in [Cores -> Slots] /\ stack \in [Cores -> Slots]
        /\ kstack \in [Slots -> BOOLEAN]
    <3>1. \A t \in Slots : (t \in Cores) \in BOOLEAN
      OBVIOUS
    <3>2. kstack \in [Slots -> BOOLEAN]
      BY <3>1, Zenon DEF Init
    <3>3. QED
      BY <3>2 DEF Init
  <2>3. /\ pc \in [Cores -> {"task", "irq", "switch", "unlock"}]
        /\ need_resched \in [Cores -> BOOLEAN] /\ ipi \in [Cores -> BOOLEAN]
        /\ lock \in Cores \cup {NoCore} /\ dead \in Slots \cup {NoSlot}
        /\ kick_next \in Cores /\ smp_sched_ready \in BOOLEAN
        /\ boot \in {"sched_init", "sched_start_smp", "done"}
    BY DEF Init
  <2>4. QED
    BY <2>1, <2>2, <2>3 DEF TypeOK
<1>2. LockIsHandedOver /\ CurrentIsRunning /\ StackFollowsCurrent /\ IdleStaysHome
  BY DEF Init, LockIsHandedOver, CurrentIsRunning, StackFollowsCurrent, IdleStaysHome
<1>3. DeadIsDead /\ StacksMapped
  BY DEF Init, DeadIsDead, StacksMapped
<1>4. QED
  BY <1>1, <1>2, <1>3 DEF CoreInv

\* A task of the table becomes READY from a state in which it was on no core
\* (its stack mapped if it is newly created): the invariant does not notice.
LEMMA ReadyKeeps ==
    ASSUME CoreInv, NEW t \in Slots, t \notin Cores,
           state[t] \in {"BLOCKED", "SLEEPING", "UNUSED"},
           state' = [state EXCEPT ![t] = "READY"],
           kstack' \in {kstack, [kstack EXCEPT ![t] = TRUE]},
           state[t] = "UNUSED" => kstack' = [kstack EXCEPT ![t] = TRUE],
           TypeOK',
           UNCHANGED <<current, stack, lock, pc, dead>>
    PROVE  CoreInv'
<1> USE SlotFacts
<1>1. TypeOK
  BY DEF CoreInv
<1>2. LockIsHandedOver'
  BY DEF CoreInv, LockIsHandedOver
<1>3. CurrentIsRunning'
  BY <1>1 DEF CoreInv, CurrentIsRunning, TypeOK
<1>4. StackFollowsCurrent'
  BY <1>1 DEF CoreInv, StackFollowsCurrent, TypeOK
<1>5. IdleStaysHome'
  BY <1>1 DEF CoreInv, IdleStaysHome, TypeOK
<1>6. DeadIsDead'
  BY <1>1 DEF CoreInv, DeadIsDead, TypeOK
<1>7. StacksMapped'
  BY <1>1 DEF CoreInv, StacksMapped, TypeOK
<1>8. QED
  BY <1>2, <1>3, <1>4, <1>5, <1>6, <1>7 DEF CoreInv

\* Every step of a core preserves the invariant.
LEMMA CoreStepKeeps ==
    ASSUME CoreInv, NEW c \in Cores, CoreStep(c)
    PROVE  CoreInv'
<1> USE SlotFacts
<1>1. TypeOK
  BY DEF CoreInv
<1>2. /\ current[c] \in Slots
      /\ state[current[c]] = "RUNNING"
      /\ dead # NoSlot => dead # current[c] /\ state[dead] = "ZOMBIE"
                          /\ state[REAPER] \in {"READY", "RUNNING"}
  BY <1>1 DEF CoreInv, TypeOK, CurrentIsRunning, DeadIsDead
<1>3. CASE CpuSwitchTo(c)
  <2>1. TypeOK'
    BY <1>1, <1>3 DEF CpuSwitchTo, TypeOK, irqVars, bootVars
  <2>2. LockIsHandedOver' /\ CurrentIsRunning' /\ IdleStaysHome' /\ StacksMapped'
    BY <1>1, <1>3 DEF CpuSwitchTo, CoreInv, TypeOK, LockIsHandedOver,
                      CurrentIsRunning, IdleStaysHome, StacksMapped
  <2>3. StackFollowsCurrent'
    BY <1>1, <1>3 DEF CpuSwitchTo, CoreInv, TypeOK, StackFollowsCurrent
  <2>4. DeadIsDead'
    BY <1>1, <1>2, <1>3 DEF CpuSwitchTo, CoreInv, TypeOK, DeadIsDead
  <2>5. QED
    BY <2>1, <2>2, <2>3, <2>4 DEF CoreInv
<1>4. CASE Unlock(c)
  <2>1. TypeOK'
    BY <1>1, <1>4 DEF Unlock, TypeOK, irqVars, bootVars
  <2>2. LockIsHandedOver'
    BY <1>1, <1>4 DEF Unlock, CoreInv, TypeOK, LockIsHandedOver
  <2>3. CurrentIsRunning' /\ IdleStaysHome' /\ StacksMapped' /\ DeadIsDead'
    BY <1>4 DEF Unlock, CoreInv, CurrentIsRunning, IdleStaysHome, StacksMapped, DeadIsDead
  <2>4. StackFollowsCurrent'
    BY <1>1, <1>4 DEF Unlock, CoreInv, TypeOK, StackFollowsCurrent
  <2>5. QED
    BY <2>1, <2>2, <2>3, <2>4 DEF CoreInv
<1>5. CASE TimerTick(c)
  <2> DEFINE st == [s \in Slots |-> IF s \in Expired(c) THEN "READY" ELSE state[s]]
  <2>1. /\ state' = st
        /\ pc' = [pc EXCEPT ![c] = "irq"]
        /\ pc[c] = "task"
        /\ UNCHANGED <<current, stack, kstack, lock, bootVars, dead>>
    BY <1>5 DEF TimerTick
  <2>2. /\ \A t \in Slots : state[t] # "SLEEPING" => st[t] = state[t]
        /\ \A t \in Slots : state[t] = "SLEEPING" => st[t] \in {"SLEEPING", "READY"}
        /\ st \in [Slots -> TaskState]
    BY <1>1 DEF Expired, TypeOK, TaskState
  <2>3. TypeOK'
    <3>1. wake' \in [Slots -> 0 .. MaxSleep]
      BY <1>1, <1>5 DEF TimerTick, TypeOK
    <3>2. ipi' \in [Cores -> BOOLEAN] /\ kick_next' \in Cores
      <4>1. CASE Expired(c) = {}
        BY <4>1, <1>1, <1>5 DEF TimerTick, TypeOK
      <4>2. CASE Expired(c) # {}
        <5>1. KickIdle(c, st)
          BY <4>2, <1>5 DEF TimerTick
        <5>2. QED
          BY <5>1, <1>1, KickType
      <4>3. QED
        BY <4>1, <4>2
    <3>3. /\ need_resched' \in [Cores -> BOOLEAN]
          /\ counter' \in [Slots -> 0 .. TASK_QUANTUM]
      <4>1. /\ need_resched \in [Cores -> BOOLEAN]
            /\ counter \in [Slots -> 0 .. TASK_QUANTUM]
        BY <1>1 DEF TypeOK
      <4>2. CASE current[c] \in Cores
        BY <4>1, <4>2, <1>5 DEF TimerTick
      <4>3. CASE current[c] \notin Cores
        <5>1. /\ counter' = [counter EXCEPT ![current[c]] = IF @ > 0 THEN @ - 1 ELSE 0]
              /\ need_resched' = [need_resched EXCEPT
                                     ![c] = @ \/ counter[current[c]] <= 1]
          BY <4>3, <1>5 DEF TimerTick
        <5>2. counter' \in [Slots -> 0 .. TASK_QUANTUM]
          BY <4>1, <5>1, <1>2
        <5>3. (need_resched[c] \/ counter[current[c]] <= 1) \in BOOLEAN
          OBVIOUS
        <5>4. need_resched' \in [Cores -> BOOLEAN]
          BY <4>1, <5>1, <5>3, Zenon
        <5>5. QED
          BY <5>2, <5>4
      <4>4. QED
        BY <4>2, <4>3
    <3>4. QED
      BY <1>1, <2>1, <2>2, <3>1, <3>2, <3>3 DEF TypeOK, bootVars
  <2>4. LockIsHandedOver'
    BY <1>1, <2>1 DEF CoreInv, TypeOK, LockIsHandedOver
  <2>5. CurrentIsRunning'
    BY <1>1, <2>1, <2>2 DEF CoreInv, TypeOK, CurrentIsRunning
  <2>6. StackFollowsCurrent'
    BY <1>1, <2>1, <2>2 DEF CoreInv, TypeOK, StackFollowsCurrent
  <2>7. IdleStaysHome'
    BY <1>1, <2>1, <2>2 DEF CoreInv, TypeOK, IdleStaysHome
  <2>8. DeadIsDead'
    BY <1>1, <2>1, <2>2 DEF CoreInv, TypeOK, DeadIsDead
  <2>9. StacksMapped'
    BY <1>1, <2>1, <2>2 DEF CoreInv, TypeOK, StacksMapped
  <2>10. QED
    BY <2>3, <2>4, <2>5, <2>6, <2>7, <2>8, <2>9 DEF CoreInv
<1>6. CASE KickArrives(c) \/ ReturnFromIrq(c)
  <2>1. TypeOK'
    BY <1>1, <1>6 DEF KickArrives, ReturnFromIrq, TypeOK, irqVars, bootVars
  <2>2. LockIsHandedOver'
    BY <1>1, <1>6 DEF KickArrives, ReturnFromIrq, CoreInv, TypeOK, LockIsHandedOver
  <2>3. CurrentIsRunning' /\ IdleStaysHome' /\ StacksMapped' /\ DeadIsDead'
    BY <1>6 DEF KickArrives, ReturnFromIrq, CoreInv, CurrentIsRunning,
                IdleStaysHome, StacksMapped, DeadIsDead
  <2>4. StackFollowsCurrent'
    BY <1>1, <1>6 DEF KickArrives, ReturnFromIrq, CoreInv, TypeOK, StackFollowsCurrent
  <2>5. QED
    BY <2>1, <2>2, <2>3, <2>4 DEF CoreInv
<1>7. CASE Preempt(c) \/ IdleLoop(c)
  <2>1. Reschedule(c, state, counter)
    BY <1>7 DEF Preempt, IdleLoop
  <2>2. /\ LockOpen /\ pc[c] \in {"task", "irq"}
        /\ UNCHANGED <<wake, ipi, kick_next, dead>>
    BY <1>7 DEF Preempt, IdleLoop, Runs
  <2> HIDE <1>7
  <2>3. QED
    BY <1>1, <1>2, <2>1, <2>2, RescheduleKeeps DEF TypeOK
<1>8. CASE TaskYield(c)
  <2> DEFINE cnt == [counter EXCEPT ![current[c]] = 0]
  <2>1. /\ Reschedule(c, state, cnt) /\ LockOpen /\ pc[c] = "task"
        /\ UNCHANGED <<wake, ipi, kick_next, dead>>
    BY <1>8 DEF TaskYield, Works
  <2>2. cnt \in [Slots -> 0 .. TASK_QUANTUM]
    BY <1>1 DEF TypeOK
  <2> HIDE DEF cnt
  <2>3. QED
    BY <1>1, <1>2, <2>1, <2>2, RescheduleKeeps DEF TypeOK
<1>9. CASE TaskSleep(c) \/ WqWait(c) \/ ReaperWaits(c)
  <2>1. PICK s \in {"SLEEPING", "BLOCKED"} :
            Reschedule(c, [state EXCEPT ![current[c]] = s], counter)
    BY <1>9 DEF TaskSleep, WqWait, ReaperWaits, Runs
  <2> DEFINE st == [state EXCEPT ![current[c]] = s]
  <2>2. /\ LockOpen /\ pc[c] = "task" /\ UNCHANGED <<ipi, kick_next, dead>>
        /\ current[c] \notin Cores
        /\ current[c] = REAPER => dead = NoSlot
    BY <1>9 DEF TaskSleep, WqWait, ReaperWaits, Runs, Works
  <2>3. wake' \in [Slots -> 0 .. MaxSleep]
    BY <1>1, <1>9 DEF TaskSleep, WqWait, ReaperWaits, TypeOK
  <2>4. /\ st \in [Slots -> TaskState] /\ st[current[c]] = s
        /\ \A t \in Slots : t # current[c] => st[t] = state[t]
    BY <1>1 DEF TypeOK, TaskState
  <2>5. dead # NoSlot => st[dead] = "ZOMBIE" /\ st[REAPER] \in {"READY", "RUNNING"}
    BY <1>1, <1>2, <2>2, <2>4 DEF TypeOK
  <2>6. Reschedule(c, st, counter)
    BY <2>1
  <2> HIDE <1>9 DEF st
  <2>7. QED
    BY <1>1, <1>2, <2>2, <2>3, <2>4, <2>5, <2>6, RescheduleKeeps DEF TypeOK
<1>10. CASE TaskExit(c)
  <2> DEFINE told == state[REAPER] = "BLOCKED"
             st   == [state EXCEPT ![current[c]] = "ZOMBIE",
                                   ![REAPER] = IF told THEN "READY" ELSE @]
  <2>1. /\ Reschedule(c, st, counter) /\ LockOpen /\ pc[c] = "task"
        /\ current[c] \in Workers /\ UNCHANGED <<wake, dead>>
        /\ IF told THEN KickIdle(c, st) ELSE UNCHANGED <<ipi, kick_next>>
    BY <1>10 DEF TaskExit, Works
  <2>2. ipi' \in [Cores -> BOOLEAN] /\ kick_next' \in Cores
    <3>1. CASE told
      <4>1. KickIdle(c, st)
        BY <2>1, <3>1
      <4> HIDE DEF st
      <4>2. QED
        BY <4>1, <1>1, KickType
    <3>2. CASE ~told
      BY <3>2, <2>1, <1>1 DEF TypeOK
    <3>3. QED
      BY <3>1, <3>2
  <2>3. /\ st \in [Slots -> TaskState] /\ st[current[c]] = "ZOMBIE"
        /\ \A t \in Slots : t # current[c] /\ t # REAPER => st[t] = state[t]
        /\ st[REAPER] = IF told THEN "READY" ELSE state[REAPER]
    BY <1>1, <2>1 DEF TypeOK, TaskState
  <2>4. wake' \in [Slots -> 0 .. MaxSleep] /\ counter \in [Slots -> 0 .. TASK_QUANTUM]
    BY <1>1, <2>1 DEF TypeOK
  <2>5. dead # NoSlot => st[dead] = "ZOMBIE" /\ st[REAPER] \in {"READY", "RUNNING"}
    BY <1>1, <1>2, <2>3 DEF TypeOK, CoreInv, DeadIsDead
  <2>6. /\ \A t \in Slots : t # current[c] => (st[t] = "RUNNING" <=> state[t] = "RUNNING")
        /\ \A t \in Slots : st[t] = "UNUSED" <=> state[t] = "UNUSED"
        /\ \A t \in Cores : st[t] = state[t]
    BY <1>2, <2>1, <2>3
  <2> HIDE <1>10 DEF st, told
  <2>7. QED
    BY <2>1, <2>2, <2>3, <2>4, <2>5, <2>6, RescheduleKeeps
<1>11. ASSUME NEW t \in Workers, WakeTask(c, t) PROVE CoreInv'
  <2>1. KickIdle(c, state') /\ state' = [state EXCEPT ![t] = "READY"]
    BY <1>11 DEF WakeTask
  <2>2. ipi' \in [Cores -> BOOLEAN] /\ kick_next' \in Cores
    BY <1>1, <2>1, KickType
  <2>3. TypeOK'
    BY <1>1, <1>11, <2>1, <2>2 DEF WakeTask, TypeOK, TaskState, bootVars
  <2>4. QED
    BY <1>11, <2>3, ReadyKeeps DEF WakeTask
<1>12. CASE TaskCreate(c)
  <2>1. PICK t \in Workers :
            /\ state[t] = "UNUSED"
            /\ kstack' = [kstack EXCEPT ![t] = TRUE]
            /\ counter' = [counter EXCEPT ![t] = TASK_QUANTUM]
            /\ state' = [state EXCEPT ![t] = "READY"]
    BY <1>12 DEF TaskCreate
  <2>2. /\ KickIdle(c, state')
        /\ UNCHANGED <<wake, current, stack, lock, pc, need_resched, bootVars, dead>>
    BY <1>12 DEF TaskCreate
  <2>3. ipi' \in [Cores -> BOOLEAN] /\ kick_next' \in Cores
    BY <1>1, <2>2, KickType
  <2>4. TypeOK'
    BY <1>1, <2>1, <2>2, <2>3 DEF TypeOK, TaskState, bootVars
  <2>5. QED
    BY <2>1, <2>2, <2>4, ReadyKeeps
<1>13. CASE ReaperFinds(c)
  <2>1. PICK t \in Workers : state[t] = "ZOMBIE" /\ dead' = t
    BY <1>13 DEF ReaperFinds
  <2>2. /\ LockOpen /\ current[c] = REAPER
        /\ UNCHANGED <<state, counter, wake, current, stack, kstack, lock, pc,
                       irqVars, bootVars>>
    BY <1>13 DEF ReaperFinds, Runs
  <2>3. \A d \in Cores : stack[d] # t
    BY <1>1, <2>1, <2>2 DEF CoreInv, TypeOK, LockOpen, LockIsHandedOver,
                            StackFollowsCurrent, CurrentIsRunning
  <2>4. TypeOK'
    BY <1>1, <2>1, <2>2 DEF TypeOK, irqVars, bootVars
  <2>5. DeadIsDead'
    BY <1>2, <2>1, <2>2, <2>3 DEF DeadIsDead
  <2>6. StacksMapped'
    BY <1>13, <2>2 DEF CoreInv, StacksMapped, ReaperFinds
  <2>7. LockIsHandedOver' /\ CurrentIsRunning' /\ StackFollowsCurrent' /\ IdleStaysHome'
    BY <2>2 DEF CoreInv, LockIsHandedOver, CurrentIsRunning, StackFollowsCurrent, IdleStaysHome
  <2>8. QED
    BY <2>4, <2>5, <2>6, <2>7 DEF CoreInv
<1>14. CASE ReapStack(c)
  <2>1. TypeOK' /\ DeadIsDead'
    BY <1>1, <1>14 DEF ReapStack, CoreInv, TypeOK, DeadIsDead, irqVars, bootVars
  <2>2. LockIsHandedOver' /\ CurrentIsRunning' /\ StackFollowsCurrent' /\ IdleStaysHome'
    BY <1>14 DEF ReapStack, CoreInv, LockIsHandedOver, CurrentIsRunning,
                 StackFollowsCurrent, IdleStaysHome
  <2>3. StacksMapped'
    BY <1>1, <1>14 DEF ReapStack, CoreInv, TypeOK, StacksMapped
  <2>4. QED
    BY <2>1, <2>2, <2>3 DEF CoreInv
<1>15. CASE ReapSlot(c)
  <2>1. /\ dead \in Workers /\ state[dead] = "ZOMBIE" /\ ~kstack[dead]
        /\ \A d \in Cores : stack[d] # dead
        /\ state' = [state EXCEPT ![dead] = "UNUSED"] /\ dead' = NoSlot
    BY <1>15 DEF ReapSlot, CoreInv, DeadIsDead
  <2>2. UNCHANGED <<counter, wake, current, stack, kstack, lock, pc, irqVars, bootVars>>
    BY <1>15 DEF ReapSlot
  <2>3. TypeOK'
    BY <1>1, <2>1, <2>2 DEF TypeOK, TaskState, irqVars, bootVars
  <2>4. LockIsHandedOver'
    BY <2>2 DEF CoreInv, LockIsHandedOver
  <2>5. CurrentIsRunning' /\ IdleStaysHome'
    BY <1>1, <2>1, <2>2 DEF CoreInv, TypeOK, CurrentIsRunning, IdleStaysHome
  <2>6. StackFollowsCurrent'
    BY <1>1, <2>1, <2>2 DEF CoreInv, TypeOK, StackFollowsCurrent
  <2>7. DeadIsDead' /\ StacksMapped'
    BY <1>1, <2>1, <2>2 DEF CoreInv, TypeOK, DeadIsDead, StacksMapped
  <2>8. QED
    BY <2>3, <2>4, <2>5, <2>6, <2>7 DEF CoreInv
<1>16. QED
  BY <1>3, <1>4, <1>5, <1>6, <1>7, <1>8, <1>9, <1>10, <1>11, <1>12, <1>13,
     <1>14, <1>15 DEF CoreStep

\* And so does what kernel_main does on core 0 while it brings the rest up.
LEMMA BootKeeps ==
    ASSUME CoreInv, SchedInit \/ SchedStartSmp \/ BootstrapInit
    PROVE  CoreInv'
<1> USE SlotFacts
<1>1. TypeOK
  BY DEF CoreInv
<1>2. CASE SchedStartSmp
  <2>1. TypeOK'
    BY <1>1, <1>2 DEF SchedStartSmp, TypeOK, irqVars
  <2>2. QED
    BY <1>2, <2>1 DEF SchedStartSmp, CoreInv, LockIsHandedOver, CurrentIsRunning,
        StackFollowsCurrent, IdleStaysHome, DeadIsDead, StacksMapped
<1>3. CASE SchedInit \/ BootstrapInit
  <2>1. PICK t \in {REAPER, REAPER + 1} :
            CreateAtBoot(t) /\ boot' \in {"sched_start_smp", "done"}
    BY <1>3 DEF SchedInit, BootstrapInit
  <2>2. t \in Slots /\ t \notin Cores
    BY DEF REAPER, Slots, Cores
  <2>3. KickIdle(0, state')
    BY <2>1 DEF CreateAtBoot
  <2>4. ipi' \in [Cores -> BOOLEAN] /\ kick_next' \in Cores
    BY <1>1, <2>3, KickType
  <2>5. TypeOK'
    BY <1>1, <2>1, <2>2, <2>4 DEF CreateAtBoot, TypeOK, TaskState
  <2>6. QED
    BY <2>1, <2>2, <2>5, ReadyKeeps DEF CreateAtBoot
<1>4. QED
  BY <1>2, <1>3

\* The invariant of the scheduler holds at every moment of every execution,
\* with any number of cores, of tasks and of ticks in a turn.
THEOREM SchedSafe == Spec => []CoreInv
<1>1. Init => CoreInv
  BY InitCore
<1>2. CoreInv /\ [Next]_vars => CoreInv'
  <2>1. SUFFICES ASSUME CoreInv, [Next]_vars PROVE CoreInv'
    OBVIOUS
  <2>2. CASE Next
    BY <2>1, <2>2, CoreStepKeeps, BootKeeps DEF Next
  <2>3. CASE UNCHANGED vars
    BY <2>1, <2>3 DEF vars, CoreInv, TypeOK, LockIsHandedOver, CurrentIsRunning,
        StackFollowsCurrent, IdleStaysHome, DeadIsDead, StacksMapped
  <2>4. QED
    BY <2>1, <2>2, <2>3
<1>3. QED
  BY <1>1, <1>2, PTL DEF Spec

\* Every variable of the scheduler keeps its type.
THEOREM SchedTyped == Spec => []TypeOK
<1>1. CoreInv => TypeOK
  BY DEF CoreInv
<1>2. QED
  BY <1>1, SchedSafe, PTL

\* pick_next() takes only READY tasks, under the lock: a task that is RUNNING
\* is the current one of one core and of no other.
THEOREM NoTaskOnTwoCores == Spec => []OneCorePerTask
<1>1. CoreInv => OneCorePerTask
  BY DEF CoreInv, CurrentIsRunning, OneCorePerTask
<1>2. QED
  BY <1>1, SchedSafe, PTL

\* Handing the lock over across cpu_switch_to() keeps a task that has left a
\* core, and is READY for the rest, off every other core until its registers
\* are saved: two cores never stand on one stack.
THEOREM NoSharedStack == Spec => []StacksDisjoint
<1>1. CoreInv => StacksDisjoint
  <2>1. SUFFICES ASSUME CoreInv, NEW c \in Cores, NEW d \in Cores, stack[c] = stack[d]
                 PROVE  c = d
    BY DEF StacksDisjoint
  <2>2. pc[c] = "switch" /\ pc[d] = "switch" => c = d
    BY <2>1 DEF CoreInv, LockIsHandedOver
  <2>3. \A e \in Cores : state[current[e]] = "RUNNING"
    BY <2>1 DEF CoreInv, CurrentIsRunning
  <2>4. QED
    BY <2>1, <2>2, <2>3 DEF CoreInv, CurrentIsRunning, StackFollowsCurrent
<1>2. QED
  BY <1>1, SchedSafe, PTL

\* reap() frees a kernel stack outside the lock, and yet never that on which a
\* core still stands on its way out of task_exit().
THEOREM NoStackPulledAway == Spec => []StackUnderFeet
<1>1. CoreInv => StackUnderFeet
  <2>1. SUFFICES ASSUME CoreInv, NEW c \in Cores PROVE kstack[stack[c]]
    BY DEF StackUnderFeet
  <2>2. stack[c] \in Slots /\ state[stack[c]] # "UNUSED"
    BY <2>1 DEF CoreInv, TypeOK, StackFollowsCurrent, CurrentIsRunning
  <2>3. stack[c] # dead
    BY <2>1, <2>2, SlotFacts DEF CoreInv, DeadIsDead
  <2>4. QED
    BY <2>1, <2>2, <2>3 DEF CoreInv, StacksMapped
<1>2. QED
  BY <1>1, SchedSafe, PTL

-----------------------------------------------------------------------------
(***************************************************************************)
(* Signals.                                                                *)
(***************************************************************************)
HIDE SchedAssumption

Table == [Procs -> Task]

Queued(tk) == \A p \in Procs : tk[p].wq # "none" <=> tk[p].state = "BLOCKED"

Excl(S) == ~ (SIGCONT \in S /\ S \cap Stops # {})

\* What is noted is not only a child of somebody who does not care.
Reason(t) == \E s \in t.sig_pending : s # SIGCHLD \/ s \in t.sig_handler

\* What everybody else may do to a task.
Kept(tk, tl) ==
    /\ tl \in Table
    /\ Queued(tl)
    /\ \A q \in Procs :
          /\ tl[q].sig_handler = tk[q].sig_handler
          /\ tl[q].sig_frame = tk[q].sig_frame
          /\ Excl(tk[q].sig_pending) => Excl(tl[q].sig_pending)
          /\ Reason(tk[q]) => Reason(tl[q])
          /\ tl[q].interrumpido => tk[q].interrumpido \/ Reason(tl[q])
          /\ tl[q].state = "BLOCKED" => tk[q].state = "BLOCKED"

\* The inductive invariant.
Exclusive ==
    \A p \in Procs : Excl(tasks[p].sig_pending) /\ Excl(loaded[p])

BlockedInTheKernel ==
    \A p \in Procs : tasks[p].state = "BLOCKED" => at[p] \in {"wait", "lock"}

CutHasReason ==
    \A p \in Procs :
        at[p] \in {"wait", "lock"} /\ tasks[p].interrumpido => Reason(tasks[p])

FrameOutOfDelivery ==
    \A p \in Procs :
        tasks[p].sig_frame => at[p] \notin {"scan", "take", "park", "parked"}

CursorOnSignal ==
    \A p \in Procs : at[p] \in {"take", "park", "parked"} => cursor[p] \in Sigs

SigInv == /\ SignalsTypeOK
          /\ Exclusive
          /\ BlockedInTheKernel
          /\ CutHasReason
          /\ FrameOutOfDelivery
          /\ CursorOnSignal
-----------------------------------------------------------------------------
\* One entry of the table, changed.
LEMMA OneEntry ==
    ASSUME NEW tk \in Table, NEW p \in Procs, NEW t \in Task
    PROVE  /\ [tk EXCEPT ![p] = t] \in Table
           /\ [tk EXCEPT ![p] = t][p] = t
           /\ \A q \in Procs : q # p => [tk EXCEPT ![p] = t][q] = tk[q]
  BY DEF Table

\* A change of some fields of one entry is a change of the entry.
LEMMA SomeFields ==
    ASSUME NEW tk \in Table, NEW p \in Procs,
           NEW h \in SUBSET (Sigs \ {SIGKILL}), NEW r \in SUBSET (Sigs \ {SIGKILL}),
           NEW S \in SUBSET Sigs, NEW b \in BOOLEAN
    PROVE  /\ [tk[p] EXCEPT !.sig_handler = h, !.sig_reanudar = r] \in Task
           /\ [tk[p] EXCEPT !.sig_frame = b] \in Task
           /\ [tk[p] EXCEPT !.interrumpido = b] \in Task
           /\ [tk[p] EXCEPT !.sig_pending = S] \in Task
           /\ [tk[p] EXCEPT !.sig_pending = S, !.sig_frame = b] \in Task
           /\ [tk[p] EXCEPT !.sig_pending = S, !.sig_handler = h, !.sig_reanudar = r,
                             !.sig_frame = b] \in Task
<1>1. tk[p] \in Task
  BY DEF Table
<1>2. QED
  BY <1>1 DEF Task

\* Nothing done is nothing lost.
LEMMA KeptNothing ==
    ASSUME NEW tk \in Table, Queued(tk) PROVE Kept(tk, tk)
  BY DEF Kept

\* And two changes are one.
LEMMA KeptTwice ==
    ASSUME NEW tk, NEW tl, NEW tm, Kept(tk, tl), Kept(tl, tm) PROVE Kept(tk, tm)
<1>1. SUFFICES ASSUME NEW q \in Procs
      PROVE /\ tm[q].sig_handler = tk[q].sig_handler
            /\ tm[q].sig_frame = tk[q].sig_frame
            /\ Excl(tk[q].sig_pending) => Excl(tm[q].sig_pending)
            /\ Reason(tk[q]) => Reason(tm[q])
            /\ tm[q].interrumpido => tk[q].interrumpido \/ Reason(tm[q])
            /\ tm[q].state = "BLOCKED" => tk[q].state = "BLOCKED"
  BY DEF Kept
<1>2. QED
  BY DEF Kept

\* wq_wake_all(&exit_wq).
LEMMA ExitWokenKept ==
    ASSUME NEW tk \in Table, Queued(tk) PROVE Kept(tk, ExitWoken(tk))
<1> DEFINE tl == ExitWoken(tk)
<1>1. \A q \in Procs : /\ tl[q] \in Task
                       /\ tl[q].sig_pending = tk[q].sig_pending
                       /\ tl[q].sig_handler = tk[q].sig_handler
                       /\ tl[q].sig_frame = tk[q].sig_frame
                       /\ tl[q].interrumpido = tk[q].interrumpido
                       /\ tl[q].state = "BLOCKED" => tk[q].state = "BLOCKED"
                       /\ tl[q].wq # "none" <=> tl[q].state = "BLOCKED"
  BY ZenonT(60) DEF ExitWoken, Table, Task, Queued
<1>2. tl \in Table
  BY <1>1 DEF ExitWoken, Table
<1>3. QED
  BY <1>1, <1>2 DEF Kept, Queued, Reason

\* signal_locked(): the entry of the task it is for, and at most the wake-up
\* of those who wait in exit_wq.
LEMMA NotedKept ==
    ASSUME NEW tk \in Table, Queued(tk), NEW p \in Procs \cup {NoParent}, NEW s \in Sigs
    PROVE  Kept(tk, Noted(tk, p, s))
<1>1. CASE p = NoParent \/ Ignores(tk[p], s) \/ tk[p].state = "ZOMBIE"
  BY <1>1, KeptNothing DEF Noted
<1>2. CASE ~(p = NoParent \/ Ignores(tk[p], s) \/ tk[p].state = "ZOMBIE")
  <2> DEFINE t == [tk[p] EXCEPT !.sig_pending = (@ \ Cancels(s)) \cup {s}]
             Changed(u) == [tk EXCEPT ![p] = u]
  <2>1. p \in Procs /\ tk[p] \in Task
    BY <1>2 DEF Table
  <2>2. \/ Cancels(s) \subseteq Sigs /\ Excl((tk[p].sig_pending \ Cancels(s)) \cup {s})
        \/ ~Excl(tk[p].sig_pending)
    BY DEF Cancels, Excl, Stops, Sigs, SIG_MAX, SIGCONT, SIGSTOP, SIGTSTP, SIGTTIN, SIGTTOU
  <2>3. s # SIGCHLD \/ s \in tk[p].sig_handler
    BY <1>2 DEF Ignores
  <2>4. /\ t \in Task
        /\ t.state = tk[p].state /\ t.wq = tk[p].wq
        /\ t.sig_handler = tk[p].sig_handler
        /\ t.sig_frame = tk[p].sig_frame
        /\ s \in t.sig_pending
        /\ Excl(tk[p].sig_pending) => Excl(t.sig_pending)
    BY <2>1, <2>2 DEF Task
  <2>5. ASSUME NEW u \in Task, u.sig_pending = t.sig_pending,
               u.sig_handler = t.sig_handler, u.sig_frame = t.sig_frame,
               u.state = "BLOCKED" => tk[p].state = "BLOCKED",
               u.wq # "none" <=> u.state = "BLOCKED"
        PROVE  Kept(tk, Changed(u))
    <3>1. Changed(u) \in Table
      BY <2>1, <2>5 DEF Table
    <3>2. Reason(u)
      BY <2>3, <2>4, <2>5 DEF Reason
    <3>3. /\ u.sig_handler = tk[p].sig_handler
          /\ u.sig_frame = tk[p].sig_frame
          /\ Excl(tk[p].sig_pending) => Excl(u.sig_pending)
      BY <2>4, <2>5
    <3>4. /\ Changed(u)[p] = u
          /\ \A q \in Procs : q # p => Changed(u)[q] = tk[q]
      BY <2>1 DEF Table
    <3> HIDE DEF Changed, t
    <3>5. Queued(Changed(u))
      BY <2>5, <3>4 DEF Queued
    <3>6. QED
      BY <2>5, <3>1, <3>2, <3>3, <3>4, <3>5 DEF Kept
  <2>6. CASE t.state = "STOPPED" /\ s \in {SIGCONT, SIGKILL}
    <3>1. Kept(tk, Changed([t EXCEPT !.state = "RUNNING"]))
      <4>1. tk[p].wq = "none"
        BY <2>1, <2>4, <2>6 DEF Queued
      <4>2. QED
        BY <2>4, <2>5, <4>1 DEF Task
    <3>2. Kept(Changed([t EXCEPT !.state = "RUNNING"]),
               ExitWoken(Changed([t EXCEPT !.state = "RUNNING"])))
      BY <3>1, ExitWokenKept DEF Kept
    <3>3. QED
      BY <1>2, <2>6, <3>1, <3>2, KeptTwice DEF Noted
  <2>7. CASE t.state = "SLEEPING"
    <3>1. Kept(tk, Changed([t EXCEPT !.state = "RUNNING"]))
      <4>1. tk[p].wq = "none"
        BY <2>1, <2>4, <2>7 DEF Queued
      <4>2. QED
        BY <2>4, <2>5, <4>1 DEF Task
    <3>2. QED
      BY <1>2, <2>7, <3>1 DEF Noted
  <2>8. CASE t.state = "BLOCKED"
    <3>1. Kept(tk, Changed([t EXCEPT !.state = "RUNNING", !.wq = "none",
                                     !.interrumpido = TRUE]))
      BY <2>4, <2>5 DEF Task
    <3>2. QED
      BY <1>2, <2>8, <3>1 DEF Noted
  <2>9. CASE /\ ~(t.state = "STOPPED" /\ s \in {SIGCONT, SIGKILL})
             /\ t.state \notin {"SLEEPING", "BLOCKED"}
    <3>1. Kept(tk, Changed(t))
      BY <2>1, <2>4, <2>5 DEF Queued
    <3>2. Noted(tk, p, s) = Changed(t)
      BY <1>2, <2>9 DEF Noted
    <3>3. QED
      BY <3>1, <3>2
  <2>10. QED
    BY <2>6, <2>7, <2>8, <2>9
<1>3. QED
  BY <1>1, <1>2

\* task_exit_con() and task_parar(): the task says what it is now, its parent
\* is told and the waiters are woken.
LEMMA ToldKept ==
    ASSUME NEW tk \in Table, Queued(tk), NEW p \in Procs, tk[p].state # "BLOCKED"
    PROVE  Kept(tk, Exited(tk, p)) /\ Kept(tk, Parked(tk, p))
<1>1. ASSUME NEW st \in {"ZOMBIE", "STOPPED"}
      PROVE  LET tl == [tk EXCEPT ![p].state = st]
             IN  Kept(tk, ExitWoken(Noted(tl, Parent[p], SIGCHLD)))
  <2> DEFINE tl == [tk EXCEPT ![p].state = st]
  <2>1. Kept(tk, tl)
    <3>1. [tk[p] EXCEPT !.state = st] \in Task /\ tl = [tk EXCEPT ![p] = [tk[p] EXCEPT !.state = st]]
      BY DEF Table, Task
    <3>2. tl \in Table /\ \A q \in Procs : tl[q] = IF q = p THEN [tk[p] EXCEPT !.state = st] ELSE tk[q]
      BY <3>1, OneEntry
    <3>3. Queued(tl)
      BY <3>2 DEF Queued, Table, Task
    <3>4. QED
      BY <3>2, <3>3 DEF Kept, Reason, Table, Task
  <2>2. Kept(tl, Noted(tl, Parent[p], SIGCHLD))
    <3>1. Parent[p] \in Procs \cup {NoParent} /\ SIGCHLD \in Sigs
      BY SignalsAssumption DEF Sigs, SIGCHLD, SIG_MAX
    <3>2. QED
      BY <2>1, <3>1, NotedKept DEF Kept
  <2>3. Kept(Noted(tl, Parent[p], SIGCHLD), ExitWoken(Noted(tl, Parent[p], SIGCHLD)))
    BY <2>2, ExitWokenKept DEF Kept
  <2>4. QED
    BY <2>1, <2>2, <2>3, KeptTwice
<1>2. QED
  BY <1>1 DEF Exited, Parked

\* A step of p: the others only see what Kept allows, and what p itself is left
\* with satisfies the invariant.
LEMMA OwnStep ==
    ASSUME SigInv, SignalsTypeOK', NEW p \in Procs,
           \A q \in Procs : q # p =>
               /\ at'[q] = at[q] /\ cursor'[q] = cursor[q] /\ loaded'[q] = loaded[q]
               /\ tasks'[q].sig_handler = tasks[q].sig_handler
               /\ tasks'[q].sig_frame = tasks[q].sig_frame
               /\ Excl(tasks[q].sig_pending) => Excl(tasks'[q].sig_pending)
               /\ Reason(tasks[q]) => Reason(tasks'[q])
               /\ tasks'[q].interrumpido => tasks[q].interrumpido \/ Reason(tasks'[q])
               /\ tasks'[q].state = "BLOCKED" => tasks[q].state = "BLOCKED",
           Excl(tasks'[p].sig_pending), Excl(loaded'[p]),
           tasks'[p].state = "BLOCKED" => at'[p] \in {"wait", "lock"},
           at'[p] \in {"wait", "lock"} /\ tasks'[p].interrumpido => Reason(tasks'[p]),
           tasks'[p].sig_frame => at'[p] \notin {"scan", "take", "park", "parked"},
           at'[p] \in {"take", "park", "parked"} => cursor'[p] \in Sigs
    PROVE  SigInv'
<1>1. Exclusive'
  BY DEF SigInv, Exclusive
<1>2. BlockedInTheKernel'
  BY DEF SigInv, BlockedInTheKernel
<1>3. CutHasReason'
  BY DEF SigInv, CutHasReason
<1>4. FrameOutOfDelivery'
  BY DEF SigInv, FrameOutOfDelivery
<1>5. CursorOnSignal'
  BY DEF SigInv, CursorOnSignal
<1>6. QED
  BY <1>1, <1>2, <1>3, <1>4, <1>5 DEF SigInv

\* The steps that only note, wake or change nothing of the table.
LEMMA KeptStep ==
    ASSUME SigInv, NEW p \in Procs, Kept(tasks, tasks'),
           at'[p] \in {"user", "call", "recheck", "sleep", "leave", "scan", "take",
                       "park", "read park", "read parked", "gone", "parked"},
           tasks[p].state # "BLOCKED",
           SignalsTypeOK',
           \A q \in Procs : q # p =>
               at'[q] = at[q] /\ cursor'[q] = cursor[q] /\ loaded'[q] = loaded[q],
           Excl(loaded'[p]),
           tasks[p].sig_frame => at'[p] \notin {"scan", "take", "park", "parked"},
           at'[p] \in {"take", "park", "parked"} => cursor'[p] \in Sigs
    PROVE  SigInv'
  BY OwnStep DEF Kept, SigInv, Exclusive
-----------------------------------------------------------------------------
\* What the invariant says of the table alone.
LEMMA TableFacts ==
    ASSUME SigInv
    PROVE  /\ tasks \in Table
           /\ Queued(tasks)
           /\ Kept(tasks, tasks)
           /\ \A p \in Procs : at[p] \notin {"wait", "lock"} => tasks[p].state # "BLOCKED"
  BY KeptNothing DEF SigInv, SignalsTypeOK, Table, Queued, BlockedInTheKernel

\* Signals sent are signals, and the receivers processes.
LEMMA NotedByAnybody ==
    ASSUME SigInv, NEW q \in Procs, NEW s \in Sigs
    PROVE  Kept(tasks, Noted(tasks, q, s))
  BY TableFacts, NotedKept

\* A call that comes back with a result.
LEMMA ReturnsType ==
    ASSUME SigInv, NEW p \in Procs, NEW r \in {"done", "EINTR"}, Returns(p, r)
    PROVE  /\ at' = [at EXCEPT ![p] = "leave"]
           /\ cut' \in [Procs -> BOOLEAN]
           /\ ctx' \in [Procs -> Context]
           /\ reanudable' \in [Procs -> BOOLEAN]
  BY DEF SigInv, SignalsTypeOK, Returns, Go, Context

\* The timer and the calls that do not wait.
LEMMA QuickCalls ==
    ASSUME SigInv, NEW p \in Procs,
           \/ Interrupted(p)
           \/ \E q \in Targets, s \in Sent : SysKill(p, q, s)
           \/ SysWait(p)
           \/ ReadInBackground(p)
           \/ SysExit(p)
    PROVE  SigInv'
<1>1. CASE Interrupted(p)
  <2>1. SignalsTypeOK'
    BY <1>1 DEF Interrupted, Go, SigInv, SignalsTypeOK, deliverVars, Context
  <2>2. /\ tasks' = tasks /\ tasks[p].state # "BLOCKED"
        /\ at' = [at EXCEPT ![p] = "leave"]
        /\ UNCHANGED <<cursor, loaded>>
    BY <1>1, TableFacts DEF Interrupted, Go, deliverVars
  <2>3. /\ at'[p] = "leave" /\ Excl(loaded'[p])
        /\ \A q \in Procs : q # p => at'[q] = at[q]
    BY <2>2 DEF SigInv, SignalsTypeOK, Exclusive
  <2>4. QED
    BY <2>1, <2>2, <2>3, TableFacts, KeptStep
<1>2. ASSUME NEW q \in Targets, NEW s \in Sent, SysKill(p, q, s) PROVE SigInv'
  <2>1. Kept(tasks, tasks')
    BY <1>2, NotedByAnybody, SignalsAssumption DEF SysKill
  <2>2. SignalsTypeOK'
    BY <1>2, <2>1, ReturnsType DEF SysKill, deliverVars, SigInv, SignalsTypeOK, Kept, Table, Queued
  <2>3. QED
    BY ZenonT(60), <1>2, <2>1, <2>2, TableFacts, ReturnsType, KeptStep
       DEF SysKill, InUser, deliverVars, SigInv, SignalsTypeOK, Exclusive
<1>3. CASE SysWait(p)
  <2>1. SignalsTypeOK'
    BY <1>3 DEF SysWait, Go, SigInv, SignalsTypeOK, deliverVars, Context
  <2>2. QED
    BY <1>3, <2>1, TableFacts, KeptStep
       DEF SysWait, Go, deliverVars, SigInv, SignalsTypeOK, Exclusive
<1>4. CASE ReadInBackground(p)
  <2> SIGTTIN \in Sigs
    BY DEF Sigs, SIGTTIN, SIG_MAX
  <2>1. Kept(tasks, tasks')
    <3>1. CASE SIGTTIN \in tasks[p].sig_handler
      BY <1>4, <3>1, NotedByAnybody DEF ReadInBackground
    <3>2. CASE SIGTTIN \notin tasks[p].sig_handler
      <4>1. tasks' = tasks
        BY <1>4, <3>2 DEF ReadInBackground
      <4>2. QED
        BY <4>1, TableFacts
    <3>3. QED
      BY <3>1, <3>2
  <2>2. /\ at' = [at EXCEPT ![p] = at'[p]] /\ at'[p] \in {"leave", "read park"}
        /\ UNCHANGED <<saved, cursor, loaded, again>>
        /\ tasks[p].state # "BLOCKED"
        /\ cut' \in [Procs -> BOOLEAN]
        /\ ctx' \in [Procs -> Context]
        /\ reanudable' \in [Procs -> BOOLEAN]
    BY <1>4, ReturnsType DEF ReadInBackground, InUser, Go, SigInv, SignalsTypeOK, deliverVars
  <2>3. SignalsTypeOK'
    <3>1. at' \in [Procs -> {"user", "call", "wait", "lock", "recheck", "sleep", "leave",
                  "scan", "take", "park", "parked", "read park", "read parked", "gone"}]
      BY <2>2 DEF SigInv, SignalsTypeOK
    <3>2. QED
      BY <2>1, <2>2, <3>1 DEF SigInv, SignalsTypeOK, Kept, Table, Queued
  <2>4. QED
    <3>1. /\ \A q \in Procs : q # p => at'[q] = at[q]
          /\ at'[p] \in {"leave", "read park"}
      BY <2>2 DEF SigInv, SignalsTypeOK
    <3>2. QED
      BY <2>1, <2>2, <2>3, <3>1, KeptStep DEF SigInv, SignalsTypeOK, Exclusive
<1>5. CASE SysExit(p)
  <2>1. Kept(tasks, tasks')
    BY <1>5, TableFacts, ToldKept DEF SysExit, InUser
  <2>2. SignalsTypeOK'
    BY <1>5, <2>1 DEF SysExit, Go, deliverVars, SigInv, SignalsTypeOK, Kept, Table, Queued
  <2>3. QED
    BY <1>5, <2>1, <2>2, TableFacts, KeptStep
       DEF SysExit, InUser, Go, deliverVars, SigInv, SignalsTypeOK, Exclusive
<1>6. QED
  BY <1>1, <1>2, <1>3, <1>4, <1>5

\* The rest of the calls change the entry of their own task.
LEMMA OwnCalls ==
    ASSUME SigInv, NEW p \in Procs,
           \/ \E s \in Caught[p] : SysSignal(p, s)
           \/ SysSleep(p)
           \/ SysExec(p)
           \/ SysSigreturn(p)
    PROVE  SigInv'
<1>1. ASSUME NEW s \in Caught[p], SysSignal(p, s) PROVE SigInv'
  <2>1. PICK h \in {tasks[p].sig_handler \cup {s}, tasks[p].sig_handler \ {s}},
             r \in {tasks[p].sig_reanudar \cup {s}, tasks[p].sig_reanudar \ {s}} :
             tasks' = [tasks EXCEPT ![p].sig_handler = h, ![p].sig_reanudar = r]
    BY <1>1 DEF SysSignal
  <2>2. s \in Sigs \ {SIGKILL}
    BY SignalsAssumption
  <2>3. /\ tasks' \in Table
        /\ \A q \in Procs : q # p => tasks'[q] = tasks[q]
        /\ tasks'[p].sig_pending = tasks[p].sig_pending
        /\ tasks'[p].sig_frame = tasks[p].sig_frame
        /\ tasks'[p].state = tasks[p].state
        /\ tasks'[p].wq = tasks[p].wq
    <3> DEFINE t == [tasks[p] EXCEPT !.sig_handler = h, !.sig_reanudar = r]
    <3>1. tasks[p] \in Task
      BY TableFacts DEF Table
    <3>2. h \in SUBSET (Sigs \ {SIGKILL}) /\ r \in SUBSET (Sigs \ {SIGKILL})
      BY <2>2, <3>1 DEF Task
    <3>3. t \in Task
      BY <3>2, TableFacts, SomeFields DEF Sigs
    <3>4. tasks' = [tasks EXCEPT ![p] = t]
      BY <2>1, TableFacts DEF Table, Task
    <3>5. /\ t.sig_pending = tasks[p].sig_pending
          /\ t.sig_frame = tasks[p].sig_frame
          /\ t.state = tasks[p].state
          /\ t.wq = tasks[p].wq
      BY <3>1 DEF Task
    <3> HIDE DEF t
    <3>6. tasks \in Table
      BY TableFacts
    <3>7. /\ tasks' \in Table
          /\ tasks'[p] = t
          /\ \A q \in Procs : q # p => tasks'[q] = tasks[q]
      BY <3>3, <3>4, <3>6 DEF Table
    <3>8. QED
      BY <3>5, <3>7
  <2>4. SignalsTypeOK'
    BY ZenonT(60), <1>1, <2>3, TableFacts, ReturnsType
       DEF SysSignal, deliverVars, SigInv, SignalsTypeOK, Table, Queued
  <2>5. QED
    <3>1. /\ at' = [at EXCEPT ![p] = "leave"] /\ tasks[p].state = "RUNNING"
          /\ UNCHANGED <<cursor, loaded>>
      BY <1>1, ReturnsType DEF SysSignal, InUser, deliverVars
    <3>2. /\ Excl(tasks'[p].sig_pending) /\ Excl(loaded'[p])
          /\ tasks'[p].state = "RUNNING" /\ at'[p] = "leave"
          /\ \A q \in Procs : q # p => at'[q] = at[q]
      BY <2>3, <3>1 DEF SigInv, SignalsTypeOK, Exclusive
    <3>3. QED
      BY <2>3, <2>4, <3>1, <3>2, OwnStep
<1>2. CASE SysSleep(p)
  <2>1. /\ tasks' \in Table
        /\ \A q \in Procs : q # p => tasks'[q] = tasks[q]
        /\ tasks'[p].sig_pending = tasks[p].sig_pending
        /\ tasks'[p].state = "SLEEPING"
        /\ tasks'[p].wq = tasks[p].wq
    BY <1>2, TableFacts DEF SysSleep, Table, Task
  <2>2. tasks'[p].wq = "none"
    BY <1>2, <2>1, TableFacts DEF SysSleep, InUser, Queued
  <2>3. SignalsTypeOK'
    BY <1>2, <2>1, <2>2 DEF SysSleep, Go, deliverVars, SigInv, SignalsTypeOK, Table
  <2>4. QED
    BY ZenonT(60), <1>2, <2>1, <2>3, OwnStep
       DEF SysSleep, Go, deliverVars, SigInv, SignalsTypeOK, Exclusive
<1>3. CASE SysExec(p)
  <2>1. /\ tasks' \in Table
        /\ \A q \in Procs : q # p => tasks'[q] = tasks[q]
        /\ tasks'[p].sig_pending = {}
        /\ tasks'[p].state = tasks[p].state
        /\ tasks'[p].wq = tasks[p].wq
    <3> DEFINE t == [tasks[p] EXCEPT !.sig_pending = {}, !.sig_handler = {},
                                     !.sig_reanudar = {}, !.sig_frame = FALSE]
    <3>1. tasks[p] \in Task
      BY TableFacts DEF Table
    <3>2. t \in Task
      <4>1. {} \in SUBSET Sigs /\ {} \in SUBSET (Sigs \ {SIGKILL}) /\ FALSE \in BOOLEAN
        OBVIOUS
      <4>2. QED
        BY <4>1, TableFacts, SomeFields
    <3>3. tasks' = [tasks EXCEPT ![p] = t]
      BY <1>3, TableFacts DEF SysExec, Table, Task
    <3>4. /\ t.sig_pending = {}
          /\ t.state = tasks[p].state
          /\ t.wq = tasks[p].wq
      BY <3>1 DEF Task
    <3> HIDE DEF t
    <3>5. tasks \in Table
      BY TableFacts
    <3>6. /\ tasks' \in Table
          /\ tasks'[p] = t
          /\ \A q \in Procs : q # p => tasks'[q] = tasks[q]
      BY <3>2, <3>3, <3>5 DEF Table
    <3>7. QED
      BY <3>4, <3>6
  <2>2. SignalsTypeOK'
    BY <1>3, <2>1 DEF SysExec, Go, deliverVars, SigInv, SignalsTypeOK, Table, Context
  <2>3. QED
    <3>1. /\ at' = [at EXCEPT ![p] = "leave"] /\ tasks[p].state = "RUNNING"
          /\ UNCHANGED <<cursor, loaded>>
      BY <1>3 DEF SysExec, InUser, Go, deliverVars
    <3>2. Excl(tasks'[p].sig_pending)
      BY <2>1 DEF Excl
    <3>3. /\ Excl(loaded'[p])
          /\ tasks'[p].state = "RUNNING" /\ at'[p] = "leave"
          /\ \A q \in Procs : q # p => at'[q] = at[q]
      BY <2>1, <3>1 DEF SigInv, SignalsTypeOK, Exclusive
    <3>4. QED
      BY <2>1, <2>2, <3>1, <3>2, <3>3, OwnStep
<1>4. CASE SysSigreturn(p)
  <2>1. /\ tasks' \in Table
        /\ \A q \in Procs : q # p => tasks'[q] = tasks[q]
        /\ tasks'[p].sig_pending = tasks[p].sig_pending
        /\ tasks'[p].state = tasks[p].state
        /\ tasks'[p].wq = tasks[p].wq
    <3> DEFINE t == [tasks[p] EXCEPT !.sig_frame = FALSE]
    <3>1. tasks[p] \in Task
      BY TableFacts DEF Table
    <3>2. t \in Task
      <4>1. {} \in SUBSET Sigs /\ {} \in SUBSET (Sigs \ {SIGKILL}) /\ FALSE \in BOOLEAN
        OBVIOUS
      <4>2. QED
        BY <4>1, TableFacts, SomeFields
    <3>3. tasks' = [tasks EXCEPT ![p] = t]
      BY <1>4, TableFacts DEF SysSigreturn, Table, Task
    <3>4. /\ t.sig_pending = tasks[p].sig_pending
          /\ t.state = tasks[p].state
          /\ t.wq = tasks[p].wq
      BY <3>1 DEF Task
    <3> HIDE DEF t
    <3>5. tasks \in Table
      BY TableFacts
    <3>6. /\ tasks' \in Table
          /\ tasks'[p] = t
          /\ \A q \in Procs : q # p => tasks'[q] = tasks[q]
      BY <3>2, <3>3, <3>5 DEF Table
    <3>7. QED
      BY <3>4, <3>6
  <2>2. SignalsTypeOK'
    BY <1>4, <2>1 DEF SysSigreturn, Go, SigInv, SignalsTypeOK, Table, Context
  <2>3. QED
    BY ZenonT(60), <1>4, <2>1, <2>2, TableFacts, OwnStep
       DEF SysSigreturn, InUser, Go, SigInv, SignalsTypeOK, Exclusive
<1>5. QED
  BY <1>1, <1>2, <1>3, <1>4

\* What happens to a task from outside: a key, or what it was waiting for.
LEMMA FromOutside ==
    ASSUME SigInv,
           \/ \E p \in Procs : Wake(p)
           \/ \E q \in Targets, s \in Sent : Keyboard(q, s)
    PROVE  SigInv'
<1>1. Kept(tasks, tasks') /\ UNCHANGED <<at, ctx, saved, cursor, loaded,
                                         reanudable, again, cut>>
  <2>1. ASSUME NEW p \in Procs, Wake(p) PROVE Kept(tasks, tasks')
    <3> DEFINE t == [tasks[p] EXCEPT !.state = "RUNNING", !.wq = "none"]
    <3>1. tasks[p] \in Task
      BY TableFacts DEF Table
    <3>2. t \in Task /\ t.state = "RUNNING" /\ t.wq = "none"
             /\ t.sig_pending = tasks[p].sig_pending
             /\ t.sig_handler = tasks[p].sig_handler
             /\ t.sig_frame = tasks[p].sig_frame
             /\ t.interrumpido = tasks[p].interrumpido
      BY <3>1 DEF Task
    <3>3. tasks' = [tasks EXCEPT ![p] = t]
      BY <2>1, TableFacts DEF Wake, Table, Task
    <3> HIDE DEF t
    <3>4. /\ tasks' \in Table
          /\ tasks'[p] = t
          /\ \A q \in Procs : q # p => tasks'[q] = tasks[q]
      BY <3>2, <3>3, TableFacts DEF Table
    <3>5. QED
      BY <3>2, <3>4, TableFacts DEF Kept, Queued, Reason
  <2>2. ASSUME NEW q \in Targets, NEW s \in Sent, Keyboard(q, s) PROVE Kept(tasks, tasks')
    BY <2>2, NotedByAnybody, SignalsAssumption DEF Keyboard
  <2>3. QED
    BY <2>1, <2>2 DEF Wake, Keyboard, deliverVars
<1>2. QED
  BY <1>1 DEF SigInv, SignalsTypeOK, Kept, Table, Queued, Exclusive, BlockedInTheKernel,
              CutHasReason, FrameOutOfDelivery, CursorOnSignal

\* Waiting and being woken.
LEMMA Waits ==
    ASSUME SigInv, NEW p \in Procs,
           Block(p) \/ Woken(p) \/ WokenUninterruptible(p) \/ Slept(p)
    PROVE  SigInv'
<1>1. CASE Block(p)
  <2>1. CASE Returns(p, "done") /\ UNCHANGED tasks
    <3>1. Kept(tasks, tasks') /\ tasks[p].state # "BLOCKED"
      BY <1>1, <2>1, TableFacts DEF Block
    <3>2. SignalsTypeOK'
      BY <1>1, <2>1, ReturnsType DEF Block, deliverVars, SigInv, SignalsTypeOK
    <3>3. /\ at'[p] = "leave"
          /\ \A q \in Procs : q # p => at'[q] = at[q]
          /\ UNCHANGED <<cursor, loaded>>
      BY <1>1, <2>1, ReturnsType DEF Block, deliverVars, SigInv, SignalsTypeOK
    <3>4. QED
      BY <3>1, <3>2, <3>3, KeptStep DEF SigInv, SignalsTypeOK, Exclusive
  <2>2. ASSUME NEW w \in {"exit_wq", "mutex", "other"},
               tasks' = [tasks EXCEPT ![p].state = "BLOCKED", ![p].wq = w,
                                      ![p].interrumpido = FALSE],
               Go(p, IF w = "mutex" THEN "lock" ELSE "wait"),
               UNCHANGED <<ctx, reanudable, cut, saved, cursor, loaded, again>>
        PROVE  SigInv'
    <3> DEFINE t == [tasks[p] EXCEPT !.state = "BLOCKED", !.wq = w, !.interrumpido = FALSE]
    <3>1. tasks[p] \in Task
      BY TableFacts DEF Table
    <3>2. /\ t \in Task /\ t.state = "BLOCKED" /\ t.wq = w /\ ~t.interrumpido
          /\ t.sig_pending = tasks[p].sig_pending
          /\ t.sig_frame = tasks[p].sig_frame
      BY <3>1 DEF Task
    <3>3. tasks' = [tasks EXCEPT ![p] = t]
      BY <2>2, TableFacts DEF Table, Task
    <3> HIDE DEF t
    <3>4. /\ tasks' \in Table
          /\ tasks'[p] = t
          /\ \A q \in Procs : q # p => tasks'[q] = tasks[q]
      BY <3>2, <3>3, TableFacts DEF Table
    <3>5. SignalsTypeOK'
      BY <2>2, <3>2, <3>4, TableFacts DEF Go, SigInv, SignalsTypeOK, Table, Queued
    <3>6. /\ at'[p] \in {"wait", "lock"}
          /\ \A q \in Procs : q # p => at'[q] = at[q]
      BY <2>2 DEF Go, SigInv, SignalsTypeOK
    <3>7. QED
      BY <2>2, <3>2, <3>4, <3>5, <3>6, OwnStep DEF SigInv, Exclusive
  <2>3. QED
    BY <1>1, <2>1, <2>2 DEF Block, deliverVars
<1>2. CASE Woken(p)
  <2> DEFINE t == [tasks[p] EXCEPT !.interrumpido = FALSE]
  <2>1. t \in Task /\ t.state = tasks[p].state /\ t.wq = tasks[p].wq
           /\ t.sig_pending = tasks[p].sig_pending
           /\ t.sig_handler = tasks[p].sig_handler
           /\ t.sig_frame = tasks[p].sig_frame
           /\ ~t.interrumpido
    <3>1. tasks[p] \in Task
      BY TableFacts DEF Table
    <3>2. QED
      BY <3>1 DEF Task
  <2>2. tasks' = [tasks EXCEPT ![p] = t]
    BY <1>2 DEF Woken
  <2> HIDE DEF t
  <2>3. /\ tasks' \in Table
        /\ tasks'[p] = t
        /\ \A q \in Procs : q # p => tasks'[q] = tasks[q]
    BY <2>1, <2>2, TableFacts DEF Table
  <2>4. Kept(tasks, tasks')
    BY <2>1, <2>3, TableFacts DEF Kept, Queued, Reason
  <2>5. /\ at' = [at EXCEPT ![p] = "leave"] \/ at' = [at EXCEPT ![p] = "recheck"]
        /\ cut' \in [Procs -> BOOLEAN]
        /\ ctx' \in [Procs -> Context]
        /\ reanudable' \in [Procs -> BOOLEAN]
        /\ UNCHANGED <<saved, cursor, loaded, again>>
        /\ tasks[p].state = "RUNNING"
    BY <1>2, ReturnsType DEF Woken, Go, deliverVars, SigInv, SignalsTypeOK
  <2>6. SignalsTypeOK'
    BY <2>4, <2>5 DEF SigInv, SignalsTypeOK, Kept, Table, Queued
  <2>7. at'[p] \in {"leave", "recheck"} /\ \A q \in Procs : q # p => at'[q] = at[q]
    BY <2>5 DEF SigInv, SignalsTypeOK
  <2>8. QED
    BY <2>4, <2>5, <2>6, <2>7, KeptStep DEF SigInv, Exclusive
<1>3. CASE WokenUninterruptible(p)
  <2>1. Kept(tasks, tasks') /\ tasks[p].state # "BLOCKED"
    BY <1>3, TableFacts DEF WokenUninterruptible
  <2>2. SignalsTypeOK'
    BY <1>3 DEF WokenUninterruptible, Go, deliverVars, SigInv, SignalsTypeOK
  <2>3. QED
    BY <1>3, <2>1, <2>2, KeptStep
       DEF WokenUninterruptible, Go, deliverVars, SigInv, SignalsTypeOK, Exclusive
<1>4. CASE Slept(p)
  <2>1. Kept(tasks, tasks') /\ tasks[p].state # "BLOCKED"
    BY <1>4, TableFacts DEF Slept
  <2>2. SignalsTypeOK'
    BY <1>4, ReturnsType DEF Slept, deliverVars, SigInv, SignalsTypeOK
  <2>3. /\ at'[p] = "leave"
        /\ \A q \in Procs : q # p => at'[q] = at[q]
        /\ UNCHANGED <<cursor, loaded>>
    BY <1>4, ReturnsType DEF Slept, deliverVars, SigInv, SignalsTypeOK
  <2>4. QED
    BY <2>1, <2>2, <2>3, KeptStep DEF SigInv, Exclusive
<1>5. QED
  BY <1>1, <1>2, <1>3, <1>4
-----------------------------------------------------------------------------
\* signal_deliver(), the steps that leave the table alone.
LEMMA DeliveryLooks ==
    ASSUME SigInv, NEW p \in Procs, Leave(p) \/ Scan(p) \/ Resume(p)
    PROVE  SigInv'
<1>1. CASE Leave(p)
  <2>1. /\ UNCHANGED <<tasks, ctx, saved, loaded>>
        /\ \/ at' = [at EXCEPT ![p] = "user"]
           \/ at' = [at EXCEPT ![p] = "scan"] /\ ~tasks[p].sig_frame
        /\ cursor' \in [Procs -> 0 .. SIG_MAX]
        /\ \A q \in Procs : q # p => cursor'[q] = cursor[q]
        /\ tasks[p].state # "BLOCKED"
    <3>1. tasks[p].state # "BLOCKED"
      BY <1>1, TableFacts DEF Leave
    <3>2. 0 \in 0 .. SIG_MAX /\ 1 \in 0 .. SIG_MAX
      BY DEF SIG_MAX
    <3>3. \/ at' = [at EXCEPT ![p] = "user"] /\ cursor' = [cursor EXCEPT ![p] = 0]
          \/ /\ at' = [at EXCEPT ![p] = "scan"] /\ ~tasks[p].sig_frame
             /\ cursor' = [cursor EXCEPT ![p] = 1]
      BY <1>1 DEF Leave, BackToUser, Go
    <3>4. UNCHANGED <<tasks, ctx, saved, loaded>>
      BY <1>1 DEF Leave
    <3>5. cursor' \in [Procs -> 0 .. SIG_MAX]
      BY <3>2, <3>3 DEF SigInv, SignalsTypeOK
    <3>6. \A q \in Procs : q # p => cursor'[q] = cursor[q]
      BY <3>3 DEF SigInv, SignalsTypeOK
    <3>7. \/ at' = [at EXCEPT ![p] = "user"]
          \/ at' = [at EXCEPT ![p] = "scan"] /\ ~tasks[p].sig_frame
      BY <3>3
    <3>8. QED
      BY <3>1, <3>4, <3>5, <3>6, <3>7
  <2>2. /\ reanudable' \in [Procs -> BOOLEAN]
        /\ again' \in [Procs -> BOOLEAN]
        /\ cut' \in [Procs -> BOOLEAN]
    BY <1>1 DEF Leave, BackToUser, SigInv, SignalsTypeOK
  <2>3. SignalsTypeOK'
    BY <2>1, <2>2 DEF SigInv, SignalsTypeOK
  <2>4. at'[p] \in {"user", "scan"} /\ \A q \in Procs : q # p => at'[q] = at[q]
    BY <2>1 DEF SigInv, SignalsTypeOK
  <2>5. tasks[p].sig_frame => at'[p] = "user"
    BY <2>1 DEF SigInv, SignalsTypeOK
  <2>6. Kept(tasks, tasks') /\ Excl(loaded'[p])
    BY <2>1, TableFacts DEF SigInv, Exclusive
  <2>7. QED
    BY <2>1, <2>3, <2>4, <2>5, <2>6, KeptStep
<1>2. CASE Scan(p)
  <2>1. /\ UNCHANGED <<tasks, ctx, saved, reanudable>>
        /\ ~tasks[p].sig_frame
        /\ tasks[p].state # "BLOCKED"
        /\ again' \in [Procs -> BOOLEAN] /\ cut' \in [Procs -> BOOLEAN]
    BY <1>2, TableFacts DEF Scan, BackToUser, SigInv, SignalsTypeOK, FrameOutOfDelivery
  <2> DEFINE left == {s \in tasks[p].sig_pending : s >= cursor[p]}
  <2>2. CASE left = {}
    <3>1. at' = [at EXCEPT ![p] = "user"] /\ cursor' = [cursor EXCEPT ![p] = 0]
             /\ UNCHANGED loaded
      BY <1>2, <2>2 DEF Scan, BackToUser, Go
    <3>2. SignalsTypeOK'
      <4>1. 0 \in 0 .. SIG_MAX
        BY DEF SIG_MAX
      <4>2. QED
        BY <2>1, <3>1, <4>1 DEF SigInv, SignalsTypeOK
    <3>3. QED
      BY <2>1, <3>1, <3>2, TableFacts, KeptStep DEF SigInv, SignalsTypeOK, Exclusive
  <2>3. ASSUME NEW s \in tasks[p].sig_pending, cursor' = [cursor EXCEPT ![p] = s],
               loaded' = [loaded EXCEPT ![p] = tasks[p].sig_pending],
               at' = [at EXCEPT ![p] = "take"]
        PROVE  SigInv'
    <3>1. tasks[p].sig_pending \subseteq Sigs /\ s \in Sigs
      BY TableFacts DEF Table, Task
    <3>2. s \in 0 .. SIG_MAX
      BY <3>1 DEF Sigs, SIG_MAX
    <3>3. SignalsTypeOK'
      BY <2>1, <2>3, <3>1, <3>2 DEF SigInv, SignalsTypeOK
    <3>4. /\ Kept(tasks, tasks') /\ Excl(loaded'[p])
          /\ at'[p] = "take" /\ cursor'[p] = s
          /\ \A q \in Procs : q # p =>
                at'[q] = at[q] /\ cursor'[q] = cursor[q] /\ loaded'[q] = loaded[q]
      BY <2>1, <2>3, TableFacts DEF SigInv, SignalsTypeOK, Exclusive
    <3>5. QED
      BY <2>1, <3>1, <3>3, <3>4, KeptStep
  <2>4. QED
    BY <1>2, <2>2, <2>3 DEF Scan, Go
<1>3. CASE Resume(p)
  <2>1. cursor[p] \in Sigs /\ cursor[p] + 1 \in 0 .. SIG_MAX
    BY <1>3 DEF Resume, SigInv, CursorOnSignal, Sigs, SIG_MAX
  <2>2. SignalsTypeOK'
    BY <1>3, <2>1 DEF Resume, Go, SigInv, SignalsTypeOK
  <2>3. ~tasks[p].sig_frame
    BY <1>3 DEF Resume, SigInv, FrameOutOfDelivery
  <2>4. QED
    BY ZenonT(60), <1>3, <2>2, <2>3, TableFacts, KeptStep DEF Resume, Go, SigInv, SignalsTypeOK, Exclusive
<1>4. QED
  BY <1>1, <1>2, <1>3

\* task_parar(), from the delivery or from the read.
LEMMA Stopping ==
    ASSUME SigInv, NEW p \in Procs, Park(p) \/ ResumeRead(p)
    PROVE  SigInv'
<1>1. CASE Park(p)
  <2>1. Kept(tasks, tasks') /\ tasks[p].state # "BLOCKED"
    BY <1>1, TableFacts, ToldKept DEF Park
  <2>2. /\ at'[p] \in {"parked", "read parked"}
        /\ at'[p] = "parked" => at[p] = "park"
        /\ at' \in [Procs -> {"user", "call", "wait", "lock", "recheck", "sleep", "leave",
                "scan", "take", "park", "parked", "read park", "read parked", "gone"}]
        /\ \A q \in Procs : q # p => at'[q] = at[q]
        /\ UNCHANGED <<ctx, reanudable, cut, saved, cursor, loaded, again>>
    BY <1>1 DEF Park, Go, deliverVars, SigInv, SignalsTypeOK
  <2>3. SignalsTypeOK'
    BY <2>1, <2>2 DEF SigInv, SignalsTypeOK, Kept, Table, Queued
  <2>4. QED
    BY <2>1, <2>2, <2>3, KeptStep DEF SigInv, Exclusive, FrameOutOfDelivery, CursorOnSignal
<1>2. CASE ResumeRead(p)
  <2>1. /\ at' \in {[at EXCEPT ![p] = "leave"], [at EXCEPT ![p] = "call"],
                    [at EXCEPT ![p] = "read park"]}
        /\ cut' \in [Procs -> BOOLEAN]
        /\ ctx' \in [Procs -> Context]
        /\ reanudable' \in [Procs -> BOOLEAN]
        /\ UNCHANGED <<tasks, saved, cursor, loaded, again>>
    BY <1>2, ReturnsType DEF ResumeRead, Go, deliverVars, SigInv, SignalsTypeOK
  <2>2. SignalsTypeOK'
    BY <2>1 DEF SigInv, SignalsTypeOK
  <2>3. /\ at'[p] \in {"leave", "call", "read park"}
        /\ \A q \in Procs : q # p => at'[q] = at[q]
    BY <2>1 DEF SigInv, SignalsTypeOK
  <2>4. Kept(tasks, tasks') /\ tasks[p].state # "BLOCKED"
    BY <1>2, <2>1, TableFacts DEF ResumeRead
  <2>5. QED
    BY <2>1, <2>2, <2>3, <2>4, KeptStep DEF SigInv, Exclusive
<1>3. QED
  BY <1>1, <1>2

\* The signal is taken: the copy that was loaded, without it, is what is left.
LEMMA Taken ==
    ASSUME SigInv, NEW p \in Procs, Take(p)
    PROVE  SigInv'
<1> DEFINE s == cursor[p]
           u == [tasks[p] EXCEPT !.sig_pending = loaded[p] \ {s}]
           tk == [tasks EXCEPT ![p].sig_pending = loaded[p] \ {s}]
<1>1. /\ s \in Sigs
      /\ ~tasks[p].sig_frame
      /\ tasks[p].state # "BLOCKED"
      /\ loaded' = [loaded EXCEPT ![p] = {}]
      /\ reanudable' = reanudable
      /\ at[p] = "take"
  BY TableFacts DEF Take, SigInv, CursorOnSignal, FrameOutOfDelivery
<1>2. /\ u \in Task
      /\ Excl(u.sig_pending)
      /\ u.state = tasks[p].state /\ u.wq = tasks[p].wq /\ u.sig_frame = tasks[p].sig_frame
  <2>1. tasks[p] \in Task /\ loaded[p] \in SUBSET Sigs
    BY TableFacts DEF Table, SigInv, SignalsTypeOK
  <2>2. Excl(loaded[p] \ {s})
    BY DEF SigInv, Exclusive, Excl
  <2>3. QED
    BY <2>1, <2>2 DEF Task
<1>3. tk = [tasks EXCEPT ![p] = u]
  BY TableFacts DEF Table
<1>4. /\ tk \in Table /\ Queued(tk)
      /\ tk[p] = u
      /\ \A q \in Procs : q # p => tk[q] = tasks[q]
  <2> HIDE DEF u, tk
  <2>1. /\ tk \in Table
        /\ tk[p] = u
        /\ \A q \in Procs : q # p => tk[q] = tasks[q]
    BY <1>2, <1>3, TableFacts DEF Table
  <2>2. QED
    BY <1>2, <2>1, TableFacts DEF Queued
<1> HIDE DEF s, u
<1>5. /\ \A q \in Procs : q # p => loaded'[q] = loaded[q]
      /\ loaded' \in [Procs -> SUBSET Sigs]
      /\ Excl(loaded'[p])
  BY <1>1 DEF SigInv, SignalsTypeOK, Excl
<1>6. ASSUME NEW w \in {"user", "scan", "park", "gone"}, at' = [at EXCEPT ![p] = w],
             cursor' \in [Procs -> 0 .. SIG_MAX], w = "park" => cursor'[p] \in Sigs,
             \A q \in Procs : q # p => cursor'[q] = cursor[q],
             Kept(tk, tasks')
                \/ /\ w = "user" /\ tasks' \in Table /\ Queued(tasks')
                   /\ \A q \in Procs : q # p => tasks'[q] = tasks[q]
                   /\ tasks'[p].sig_pending = u.sig_pending
                   /\ tasks'[p].state = u.state,
             ctx' \in [Procs -> Context], saved' \in [Procs -> Context],
             again' \in [Procs -> BOOLEAN], cut' \in [Procs -> BOOLEAN]
      PROVE  SigInv'
  <2>1. tasks' \in Table /\ Queued(tasks')
    BY <1>6 DEF Kept
  <2>2. SignalsTypeOK'
    BY <1>1, <1>5, <1>6, <2>1 DEF SigInv, SignalsTypeOK, Table, Queued
  <2>3. at'[p] = w /\ \A q \in Procs : q # p => at'[q] = at[q]
    BY <1>6 DEF SigInv, SignalsTypeOK
  <2>4. /\ Excl(tasks'[p].sig_pending)
        /\ tasks'[p].state # "BLOCKED"
        /\ tasks'[p].sig_frame => w = "user"
    BY <1>1, <1>2, <1>4, <1>6 DEF Kept
  <2>5. ASSUME NEW q \in Procs, q # p
        PROVE  /\ tasks'[q].sig_handler = tasks[q].sig_handler
               /\ tasks'[q].sig_frame = tasks[q].sig_frame
               /\ Excl(tasks[q].sig_pending) => Excl(tasks'[q].sig_pending)
               /\ Reason(tasks[q]) => Reason(tasks'[q])
               /\ tasks'[q].interrumpido => tasks[q].interrumpido \/ Reason(tasks'[q])
               /\ tasks'[q].state = "BLOCKED" => tasks[q].state = "BLOCKED"
    BY <1>4, <1>6, <2>5 DEF Kept
  <2>6. QED
    BY <1>5, <1>6, <2>2, <2>3, <2>4, <2>5, OwnStep
<1>7. s \in 0 .. SIG_MAX /\ s + 1 \in 0 .. SIG_MAX /\ 0 \in 0 .. SIG_MAX
  BY <1>1 DEF Sigs, SIG_MAX
<1>8. ASSUME Go(p, "scan"), tasks' = tk, cursor' = [cursor EXCEPT ![p] = s + 1],
             UNCHANGED <<ctx, saved, again, cut>>
      PROVE  SigInv'
  <2>1. Kept(tk, tasks')
    BY <1>4, <1>8, KeptNothing
  <2>2. QED
    BY <1>6, <1>7, <1>8, <2>1 DEF Go, SigInv, SignalsTypeOK
<1>9. ASSUME Go(p, "park"), tasks' = tk, UNCHANGED <<ctx, saved, cursor, again, cut>>
      PROVE  SigInv'
  <2>1. Kept(tk, tasks')
    BY <1>4, <1>9, KeptNothing
  <2>2. cursor'[p] \in Sigs
    BY <1>1, <1>9 DEF s
  <2>3. QED
    BY <1>6, <1>9, <2>1, <2>2 DEF Go, SigInv, SignalsTypeOK
<1>10. ASSUME Dies(p, tk), UNCHANGED <<ctx, saved, cursor, again, cut>>
       PROVE  SigInv'
  <2>1. tk[p].state # "BLOCKED"
    BY <1>1, <1>2, <1>4
  <2>2. Kept(tk, tasks')
    BY <1>4, <1>10, <2>1, ToldKept DEF Dies
  <2>3. QED
    BY <1>6, <1>10, <2>2 DEF Dies, Go, SigInv, SignalsTypeOK
<1>11. ASSUME tasks' = [tk EXCEPT ![p].sig_frame = TRUE],
              saved' = [saved EXCEPT ![p] = IF again[p] /\ s \in tasks[p].sig_reanudar
                                            THEN "svc" ELSE ctx[p]],
              ctx' = [ctx EXCEPT ![p] = "code"], BackToUser(p)
       PROVE  SigInv'
  <2> DEFINE v == [u EXCEPT !.sig_frame = TRUE]
  <2>1. /\ v \in Task /\ v.sig_pending = u.sig_pending /\ v.state = u.state /\ v.wq = u.wq
    BY <1>2 DEF Task
  <2>2. tasks' = [tk EXCEPT ![p] = v]
    BY <1>4, <1>11 DEF Table
  <2> HIDE DEF v, tk
  <2>3. /\ tasks' \in Table
        /\ tasks'[p] = v
        /\ \A q \in Procs : q # p => tasks'[q] = tasks[q]
    BY <1>4, <2>1, <2>2 DEF Table
  <2>4. Queued(tasks')
    BY <1>2, <1>4, <2>1, <2>3, TableFacts DEF Queued
  <2>5. saved' \in [Procs -> Context] /\ ctx' \in [Procs -> Context]
    BY <1>11 DEF SigInv, SignalsTypeOK, Context
  <2>6. again' \in [Procs -> BOOLEAN] /\ cut' \in [Procs -> BOOLEAN]
    BY <1>11 DEF BackToUser, SigInv, SignalsTypeOK
  <2>7. /\ at' = [at EXCEPT ![p] = "user"]
        /\ cursor' \in [Procs -> 0 .. SIG_MAX]
        /\ \A q \in Procs : q # p => cursor'[q] = cursor[q]
    BY <1>7, <1>11 DEF BackToUser, Go, SigInv, SignalsTypeOK
  <2>8. QED
    BY <1>6, <2>1, <2>3, <2>4, <2>5, <2>6, <2>7
<1>12. QED
  BY <1>8, <1>9, <1>10, <1>11 DEF Take, s
-----------------------------------------------------------------------------
\* SigInv is inductive: the types, the exclusion of stop and continue (also in
\* the copy of sig_pending that signal_deliver() has loaded), who can be
\* blocked, why a wait is cut and where a task with a frame can be.
THEOREM SignalsSafe == SignalsSpec => []SigInv
<1>1. SignalsInit => SigInv
  BY DEF SignalsInit, SigInv, SignalsTypeOK, Task, Context, Exclusive, Excl, BlockedInTheKernel,
         CutHasReason, FrameOutOfDelivery, CursorOnSignal, SIG_MAX
<1>2. SigInv /\ [SignalsNext]_signalsVars => SigInv'
  <2> SUFFICES ASSUME SigInv, [SignalsNext]_signalsVars PROVE SigInv'
    OBVIOUS
  <2>1. ASSUME NEW p \in Procs, Kernel(p) PROVE SigInv'
    BY <2>1, DeliveryLooks, Taken, Stopping, Waits DEF Kernel
  <2>2. ASSUME NEW p \in Procs, Interrupted(p) \/ Calls(p) PROVE SigInv'
    BY <2>2, QuickCalls, OwnCalls DEF Calls
  <2>3. ASSUME NEW p \in Procs, Wake(p) PROVE SigInv'
    BY <2>3, FromOutside
  <2>4. ASSUME NEW q \in Targets, NEW s \in Sent, Keyboard(q, s) PROVE SigInv'
    BY <2>4, FromOutside
  <2>5. CASE UNCHANGED signalsVars
    BY <2>5 DEF signalsVars, SigInv, SignalsTypeOK, Exclusive, BlockedInTheKernel,
                CutHasReason, FrameOutOfDelivery, CursorOnSignal
  <2>6. QED
    BY <2>1, <2>2, <2>3, <2>4, <2>5 DEF SignalsNext
<1>3. QED
  BY <1>1, <1>2, PTL DEF SignalsSpec

\* Everything keeps its type, and who is in a queue is BLOCKED: wq_remove() and
\* the wake-ups never leave one without the other.
THEOREM SignalsTyped == SignalsSpec => []SignalsTypeOK
<1>1. SigInv => SignalsTypeOK
  BY DEF SigInv
<1>2. QED
  BY <1>1, SignalsSafe, PTL

\* A stop and a continue are never pending together, whatever the interleaving
\* of the delivery with the cores that note signals; which of them is left when they
\* race, it does not say.
THEOREM OneOfTheTwo == SignalsSpec => []StopAndContinueExclude
<1>1. SigInv => StopAndContinueExclude
  BY DEF SigInv, Exclusive, Excl, StopAndContinueExclude
<1>2. QED
  BY <1>1, SignalsSafe, PTL

\* A wait is not cut by a child that dies or stops if its parent does not catch
\* SIGCHLD.
THEOREM ChildrenAreQuiet == SignalsSpec => []ChildrenDisturbNobody
<1>1. SigInv => ChildrenDisturbNobody
  BY DEF SigInv, CutHasReason, Reason, ChildrenDisturbNobody
<1>2. QED
  BY <1>1, SignalsSafe, PTL

\* Handlers do not nest: the context that one has interrupted stays where it
\* is until sigreturn takes it.
THEOREM FrameSurvives == SignalsSpec => FrameIsKept
<1> DEFINE Keeps == \A p \in Procs : tasks[p].sig_frame /\ tasks'[p].sig_frame
                                        => saved'[p] = saved[p]
<1>1. SigInv /\ [SignalsNext]_signalsVars => [Keeps]_signalsVars
  <2> SUFFICES ASSUME SigInv, [SignalsNext]_signalsVars, NEW p \in Procs,
                      tasks[p].sig_frame, tasks'[p].sig_frame
               PROVE  saved'[p] = saved[p]
    OBVIOUS
  <2>1. ASSUME NEW q \in Procs, Take(q) PROVE saved'[p] = saved[p]
    <3>1. q # p
      BY <2>1 DEF Take, SigInv, FrameOutOfDelivery
    <3>2. QED
      BY <2>1, <3>1 DEF Take, SigInv, SignalsTypeOK
  <2>2. ASSUME NEW q \in Procs, SysSigreturn(q) PROVE saved'[p] = saved[p]
    <3>1. q # p
      BY <2>2, TableFacts DEF SysSigreturn, Table, Task
    <3>2. QED
      BY <2>2, <3>1 DEF SysSigreturn, SigInv, SignalsTypeOK
  <2>3. ASSUME NEW q \in Procs, Kernel(q), ~Take(q) PROVE saved' = saved
    BY <2>3 DEF Kernel, Leave, Scan, Park, Resume, ResumeRead, Block, Woken,
                WokenUninterruptible, Slept, deliverVars
  <2>4. ASSUME NEW q \in Procs, Interrupted(q) \/ Calls(q), ~SysSigreturn(q)
        PROVE  saved' = saved
    BY <2>4 DEF Interrupted, Calls, SysKill, SysSignal, SysWait, SysSleep,
                ReadInBackground, SysExec, SysExit, deliverVars
  <2>5. ASSUME NEW q \in Procs, Wake(q) PROVE saved' = saved
    BY <2>5 DEF Wake, deliverVars
  <2>6. ASSUME NEW q \in Targets, NEW s \in Sent, Keyboard(q, s) PROVE saved' = saved
    BY <2>6 DEF Keyboard, deliverVars
  <2>7. CASE UNCHANGED signalsVars
    BY <2>7 DEF signalsVars
  <2>8. QED
    BY <2>1, <2>2, <2>3, <2>4, <2>5, <2>6, <2>7 DEF SignalsNext
<1>2. QED
  BY <1>1, SignalsSafe, PTL DEF SignalsSpec, FrameIsKept
-----------------------------------------------------------------------------
\* The mark of a call that may be made again is up only on the way out that put
\* it, and what the delivery keeps of it only while it goes on.
MarkOf(p) ==
    /\ reanudable[p] => at[p] = "leave" /\ ctx[p] = "EINTR"
    /\ again[p] => at[p] \in {"scan", "take", "park", "parked", "gone"} /\ ctx[p] = "EINTR"

MarkInv == SignalsTypeOK /\ \A p \in Procs : MarkOf(p)

\* Who is not the one that moves keeps its mark.
LEMMA OthersKeepMark ==
    ASSUME NEW p \in Procs, MarkInv, MarkOf(p)',
           \A q \in Procs : q # p =>
               /\ at'[q] = at[q] /\ ctx'[q] = ctx[q]
               /\ reanudable'[q] = reanudable[q] /\ again'[q] = again[q]
    PROVE  \A q \in Procs : MarkOf(q)'
  BY DEF MarkInv, MarkOf

\* A call that comes back puts the mark if it was cut, and only then.
LEMMA ReturnsMark ==
    ASSUME NEW p \in Procs, MarkInv, NEW r \in {"done", "EINTR"}, Returns(p, r),
           at[p] # "leave", UNCHANGED again,
           at[p] \notin {"scan", "take", "park", "parked", "gone"}
    PROVE  \A q \in Procs : MarkOf(q)'
<1>1. ~reanudable[p] /\ ~again[p]
  BY DEF MarkInv, MarkOf
<1>2. /\ at'[p] = "leave"
      /\ ctx'[p] = IF r = "EINTR" THEN "EINTR" ELSE "code"
      /\ reanudable'[p] = (reanudable[p] \/ r = "EINTR")
      /\ again'[p] = again[p]
  BY DEF MarkInv, SignalsTypeOK, Returns, Go
<1>3. MarkOf(p)'
  BY <1>1, <1>2 DEF MarkOf
<1>4. QED
  BY <1>3, OthersKeepMark DEF MarkInv, SignalsTypeOK, Returns, Go

\* A step of p that leaves its marks where they are, and goes where a mark may be.
LEMMA MovesMark ==
    ASSUME NEW p \in Procs, MarkInv, NEW w, at' = [at EXCEPT ![p] = w],
           UNCHANGED <<reanudable, again>>,
           ctx' = ctx \/ (at[p] \notin {"leave", "scan", "take", "park", "parked", "gone"}
                           /\ \E x : ctx' = [ctx EXCEPT ![p] = x]),
           \/ at[p] \notin {"leave", "scan", "take", "park", "parked", "gone"}
           \/ at[p] # "leave" /\ w \in {"scan", "take", "park", "parked", "gone"}
    PROVE  \A q \in Procs : MarkOf(q)'
<1>1. at'[p] = w /\ \A q \in Procs : q # p => at'[q] = at[q] /\ ctx'[q] = ctx[q]
  BY DEF MarkInv, SignalsTypeOK
<1>2. ~reanudable[p] /\ (again[p] => ctx' = ctx)
  BY DEF MarkInv, MarkOf
<1>3. MarkOf(p)'
  BY <1>1, <1>2 DEF MarkInv, MarkOf
<1>4. QED
  BY <1>1, <1>3, OthersKeepMark

\* The steps of a delivery.
LEMMA DeliveryMark ==
    ASSUME NEW p \in Procs, MarkInv, Leave(p) \/ Scan(p) \/ Take(p) \/ Park(p) \/ Resume(p)
    PROVE  \A q \in Procs : MarkOf(q)'
<1>1. CASE Leave(p)
  <2>1. /\ reanudable'[p] = FALSE
        /\ ctx'[p] = ctx[p]
        /\ \/ at'[p] = "user" /\ again'[p] = FALSE
           \/ at'[p] = "scan" /\ again'[p] = reanudable[p]
    BY <1>1 DEF MarkInv, SignalsTypeOK, Leave, BackToUser, Go
  <2>2. MarkOf(p)'
    BY <2>1 DEF MarkInv, MarkOf
  <2>3. QED
    BY <1>1, <2>2, OthersKeepMark DEF MarkInv, SignalsTypeOK, Leave, BackToUser, Go
<1>2. ASSUME BackToUser(p), reanudable' = reanudable, at[p] # "leave",
             \A q \in Procs : q # p => ctx'[q] = ctx[q]
      PROVE  \A q \in Procs : MarkOf(q)'
  <2>1. ~reanudable'[p] /\ ~again'[p]
    BY <1>2 DEF MarkInv, SignalsTypeOK, MarkOf, BackToUser
  <2>2. MarkOf(p)'
    BY <2>1 DEF MarkOf
  <2>3. QED
    BY <1>2, <2>2, OthersKeepMark DEF MarkInv, SignalsTypeOK, BackToUser, Go
<1>3. CASE Scan(p)
  <2>1. CASE BackToUser(p)
    BY <1>2, <1>3, <2>1 DEF Scan
  <2>2. CASE ~BackToUser(p)
    BY <1>3, <2>2, MovesMark DEF Scan, Go
  <2>3. QED
    BY <2>1, <2>2
<1>4. CASE Take(p)
  <2>1. CASE BackToUser(p)
    BY <1>2, <1>4, <2>1 DEF Take, MarkInv, SignalsTypeOK
  <2>2. CASE ~BackToUser(p)
    <3>1. \E w \in {"scan", "park", "gone"} : at' = [at EXCEPT ![p] = w]
      BY <1>4, <2>2 DEF Take, Go, Dies
    <3>2. UNCHANGED <<reanudable, again, ctx>> /\ at[p] = "take"
      BY <1>4, <2>2 DEF Take
    <3>3. QED
      BY <3>1, <3>2, MovesMark
  <2>3. QED
    BY <2>1, <2>2
<1>5. CASE Park(p)
  BY <1>5, MovesMark DEF Park, Go, deliverVars
<1>6. CASE Resume(p)
  BY <1>6, MovesMark DEF Resume, Go
<1>7. QED
  BY <1>1, <1>3, <1>4, <1>5, <1>6

\* The waits, and what ends them.
LEMMA WaitsMark ==
    ASSUME NEW p \in Procs, MarkInv,
           Block(p) \/ Woken(p) \/ WokenUninterruptible(p) \/ Slept(p) \/ ResumeRead(p)
    PROVE  \A q \in Procs : MarkOf(q)'
<1>1. UNCHANGED again /\ at[p] \notin {"leave", "scan", "take", "park", "parked", "gone"}
  BY DEF Block, Woken, WokenUninterruptible, Slept, ResumeRead, deliverVars
<1>2. ASSUME NEW r \in {"done", "EINTR"}, Returns(p, r) PROVE \A q \in Procs : MarkOf(q)'
  BY <1>1, <1>2, ReturnsMark
<1>3. ASSUME NEW w, Go(p, w), UNCHANGED <<ctx, reanudable>> PROVE \A q \in Procs : MarkOf(q)'
  BY <1>1, <1>3, MovesMark DEF Go
<1>4. QED
  BY <1>2, <1>3 DEF Block, Woken, WokenUninterruptible, Slept, ResumeRead

\* The calls that do not wait, and the interrupts.
LEMMA CallsMark ==
    ASSUME NEW p \in Procs, MarkInv, Interrupted(p) \/ Calls(p)
    PROVE  \A q \in Procs : MarkOf(q)'
<1>1. at[p] = "user"
  BY DEF Interrupted, Calls, SysKill, SysSignal, SysWait, SysSleep, ReadInBackground,
         SysExec, SysExit, SysSigreturn, InUser
<1>2. ~reanudable[p] /\ ~again[p]
  BY <1>1 DEF MarkInv, MarkOf
<1>3. ASSUME NEW r \in {"done", "EINTR"}, Returns(p, r), UNCHANGED again
      PROVE \A q \in Procs : MarkOf(q)'
  BY <1>1, <1>3, ReturnsMark
<1>4. ASSUME NEW w, Go(p, w), UNCHANGED <<reanudable, again>>,
             ctx' = ctx \/ \E x : ctx' = [ctx EXCEPT ![p] = x]
      PROVE  \A q \in Procs : MarkOf(q)'
  BY <1>1, <1>4, MovesMark DEF Go
<1>5. CASE SysSigreturn(p)
  <2>1. /\ ctx'[p] = saved[p] /\ at'[p] = "leave" /\ again'[p] = again[p]
        /\ reanudable'[p] = (reanudable[p] \/ saved[p] = "EINTR")
    BY <1>5 DEF SysSigreturn, Go, MarkInv, SignalsTypeOK
  <2>2. MarkOf(p)'
    BY <1>2, <2>1 DEF MarkOf
  <2>3. QED
    BY <1>5, <2>2, OthersKeepMark DEF SysSigreturn, Go, MarkInv, SignalsTypeOK
<1>6. CASE SysExec(p)
  <2>1. again'[p] = again[p] /\ reanudable'[p] = FALSE
    BY <1>6 DEF SysExec, deliverVars, MarkInv, SignalsTypeOK
  <2>2. MarkOf(p)'
    BY <1>2, <2>1 DEF MarkOf
  <2>3. QED
    BY <1>6, <2>2, OthersKeepMark DEF SysExec, Go, deliverVars, MarkInv, SignalsTypeOK
<1>7. CASE Interrupted(p) \/ SysWait(p) \/ SysSleep(p) \/ SysExit(p)
  BY <1>4, <1>7 DEF Interrupted, SysWait, SysSleep, SysExit, deliverVars
<1>8. CASE ReadInBackground(p)
  BY <1>3, <1>4, <1>8 DEF ReadInBackground, deliverVars
<1>9. CASE (\E q \in Targets, s \in Sent : SysKill(p, q, s)) \/ \E s \in Caught[p] : SysSignal(p, s)
  BY <1>3, <1>9 DEF SysKill, SysSignal, deliverVars
<1>10. QED
  BY <1>5, <1>6, <1>7, <1>8, <1>9 DEF Calls

\* The PC is moved back only in the frame of a call that has just come back with
\* -EINTR, whatever interrupts, signals and handlers come before and after.
THEOREM NoCodeIsRunTwice == SignalsSpec => []OnlyCallsAreMadeAgain
<1>1. SignalsInit => MarkInv
  <2>1. SignalsInit => SigInv
    BY DEF SignalsInit, SigInv, SignalsTypeOK, Task, Context, Exclusive, Excl,
           BlockedInTheKernel, CutHasReason, FrameOutOfDelivery, CursorOnSignal, SIG_MAX
  <2>2. QED
    BY <2>1 DEF SignalsInit, SigInv, MarkInv, MarkOf
<1>2. MarkInv /\ SignalsTypeOK' /\ [SignalsNext]_signalsVars => MarkInv'
  <2> SUFFICES ASSUME MarkInv, SignalsTypeOK', [SignalsNext]_signalsVars
               PROVE  \A p \in Procs : MarkOf(p)'
    BY DEF MarkInv
  <2>1. ASSUME NEW p \in Procs, Kernel(p) PROVE \A q \in Procs : MarkOf(q)'
    BY <2>1, DeliveryMark, WaitsMark DEF Kernel
  <2>2. ASSUME NEW p \in Procs, Interrupted(p) \/ Calls(p) PROVE \A q \in Procs : MarkOf(q)'
    BY <2>2, CallsMark
  <2>3. ASSUME UNCHANGED <<at, ctx, reanudable, again>> PROVE \A q \in Procs : MarkOf(q)'
    BY <2>3 DEF MarkInv, MarkOf
  <2>4. QED
    BY <2>1, <2>2, <2>3 DEF SignalsNext, Wake, Keyboard, deliverVars, signalsVars
<1>3. MarkInv => OnlyCallsAreMadeAgain
  BY DEF MarkInv, MarkOf, OnlyCallsAreMadeAgain
<1>4. QED
  BY <1>1, <1>2, <1>3, SignalsTyped, PTL DEF SignalsSpec
=============================================================================
