-------------------------- MODULE TerminalProofs --------------------------
(***************************************************************************)
(* Proofs about the console and about the processes that live on it.       *)
(*                                                                         *)
(* Procs, for any number of slots and of pids: the types, that nobody      *)
(* sleeps in waitpid() over news or for nobody, that a death is told once, *)
(* and that the reaper takes untold only the zombies that have no parent   *)
(* left.                                                                   *)
(*                                                                         *)
(* Console, for any number of writers and of cores, any texts and keys and *)
(* any sizes of log, line, buffers and FIFO: the queues do not overflow,   *)
(* what the processes write comes out whole and is announced, keys are     *)
(* heard, and what is read is what was typed, in order, with nothing from  *)
(* before the last ^C.                                                     *)
(*                                                                         *)
(* ConsoleInv is the inductive invariant of the keys and of the notices.   *)
(* Its part Order says that what is in the hands of each of those a key    *)
(* goes through - USB, FIFO, buf[] of the driver, uart_push(), linea,      *)
(* rxbuf, reader - comes before what the next has; Interrupts, FromSerial  *)
(* and FromUsb, how many ^C were typed before each key, compared with how  *)
(* many have been dealt with; Hands, who may have a key in hand while      *)
(* somebody else does.  TextInv, inductive over ConsoleInv, is that of the *)
(* text: nobody but who holds consola_lock has text at the end.            *)
(***************************************************************************)
EXTENDS Console, Procs, FiniteSetTheorems, SequenceTheorems, TLAPS

(* ------------------------------- Processes ------------------------------ *)

\* The inductive invariant.  Who creates a process is awake and alive, and who
\* waits is alive.
Creates(s) == at[s] \in {"fork", "spawn", "spawned"}

Places ==
    \A s \in Slots :
        /\ tasks[s].state \in {"READY", "STOPPED", "ZOMBIE"} => tasks[s].pgd
        /\ at[s] # "user" => Live(s)
        /\ Creates(s) => tasks[s].state = "READY"
        /\ at[s] = "wait" => tasks[s].state \in {"READY", "BLOCKED"}

\* A slot that is being filled is nobody yet, and one process fills it.
Kids ==
    \A s \in Slots : Creates(s) =>
        /\ kid[s] \in Slots
        /\ tasks[kid[s]].state = "BLOCKED"
        /\ ~tasks[kid[s]].pgd
        /\ \A t \in Slots : Creates(t) /\ kid[t] = kid[s] => t = s

\* The pids of the living have been given out, each to one of them.
Numbers ==
    \A s \in Slots : Live(s) =>
        /\ tasks[s].pid \in 1 .. next_pid - 1
        /\ tasks[s].parent < next_pid
        /\ \A t \in Slots : Live(t) /\ tasks[t].pid = tasks[s].pid => t = s

\* Whose death has been told has no parent any more.
ToldHasNoParent ==
    \A p \in Pids : told[p] # 0 =>
        /\ told[p] = 1
        /\ p < next_pid
        /\ \A t \in Slots : Live(t) /\ tasks[t].pid = p =>
              tasks[t].state = "ZOMBIE" /\ tasks[t].parent = None

\* What the reaper has in its hands nobody alive is the parent of.
Grave ==
    reaper = "reaps" =>
        /\ dead \in Slots
        /\ tasks[dead].state = "ZOMBIE"
        /\ \A t \in Slots : Live(t) => tasks[t].pid # tasks[dead].parent

ProcsInv == /\ ProcsTypeOK
            /\ Places
            /\ Kids
            /\ Numbers
            /\ ToldHasNoParent
            /\ Grave
            /\ NoMissedNews
            /\ SomebodyToWaitFor
-----------------------------------------------------------------------------
\* The invariant holds at the start.
LEMMA InitInv == ProcsInit => ProcsInv
<1> SUFFICES ASSUME ProcsInit PROVE ProcsInv
  OBVIOUS
<1> USE ProcsAssumption, NoneAssumption
<1>1. \A s \in Slots : /\ tasks[s] \in Slot
                       /\ s # 1 => tasks[s].state = "UNUSED"
                       /\ tasks[s].state \in {"READY", "UNUSED"}
                       /\ tasks[s].pgd <=> s = 1
                       /\ s = 1 => tasks[s].pid = 1
                       /\ tasks[s].parent = 0
                       /\ at[s] = "user"
  <2> TAKE s \in Slots
  <2>1. tasks[s] = [state |-> IF s = 1 THEN "READY" ELSE "UNUSED",
                    pid |-> IF s = 1 THEN 1 ELSE None,
                    parent |-> None, pgd |-> s = 1, parada_avisada |-> FALSE]
    BY DEF ProcsInit
  <2>2. 1 \in Pids
    BY DEF Pids
  <2>3. tasks[s] \in Slot
    BY <2>1, <2>2 DEF Slot
  <2>4. QED
    BY <2>1, <2>3 DEF ProcsInit, None
<1>2. ProcsTypeOK
  <2>1. tasks \in [Slots -> Slot]
    BY <1>1 DEF ProcsInit
  <2>2. req \in [Slots -> Request]
    BY DEF ProcsInit, Request, NoRequest, PID_CUALQUIERA
  <2>3. QED
    BY <2>1, <2>2 DEF ProcsTypeOK, ProcsInit, None, Pids
<1>3. Places /\ Kids /\ Grave /\ NoMissedNews /\ SomebodyToWaitFor
  BY <1>1 DEF ProcsInit, Places, Kids, Grave, NoMissedNews, SomebodyToWaitFor,
              InExitQueue, Creates
<1>4. Numbers
  BY <1>1 DEF ProcsInit, Numbers, Live
<1>5. ToldHasNoParent
  BY DEF ProcsInit, ToldHasNoParent
<1>6. QED
  BY <1>2, <1>3, <1>4, <1>5 DEF ProcsInv

\* First half of the birth.
LEMMA ReserveInv ==
    ASSUME ProcsInv, NEW s \in Slots, NEW how, Reserve(s, how) PROVE ProcsInv'
<1> USE ProcsAssumption, NoneAssumption
<1>1. PICK t \in Slots :
        /\ tasks[t].state = "UNUSED"
        /\ tasks' = [tasks EXCEPT ![t].state = "BLOCKED", ![t].pgd = FALSE]
        /\ kid' = [kid EXCEPT ![s] = t]
  BY DEF Reserve
<1>2. \A u \in Slots :
        /\ tasks'[u] \in Slot
        /\ u # t => tasks'[u] = tasks[u]
        /\ u = t => tasks'[u].state = "BLOCKED" /\ ~tasks'[u].pgd
  BY ZenonT(60), <1>1 DEF ProcsInv, ProcsTypeOK, Slot
<1>3. /\ how \in {"fork", "spawn"} /\ InUser(s) /\ s # t
      /\ at \in [Slots -> {"user", "fork", "spawn", "spawned", "wait"}]
      /\ at' = [at EXCEPT ![s] = how]
      /\ UNCHANGED <<req, cut, next_pid, reaper, dead, told>>
      /\ ~Live(t) /\ at[t] = "user"
  BY <1>1 DEF Reserve, Go, InUser, ProcsInv, ProcsTypeOK, Places, Live
<1>4. \A u \in Slots : Live(u)' <=> Live(u)
  BY <1>2, <1>3 DEF Live
<1>5. ProcsTypeOK'
  <2>1. tasks' \in [Slots -> Slot]
    BY <1>1, <1>2 DEF ProcsInv, ProcsTypeOK
  <2>2. QED
    BY <2>1, <1>1, <1>3 DEF ProcsInv, ProcsTypeOK
<1>6. Places'
  <2>1. Places
    BY DEF ProcsInv
  <2>2. s \in Slots /\ at[s] = "user" /\ tasks[s].state = "READY" /\ tasks[s].pgd
    BY <1>3, <2>1 DEF InUser, Places
  <2>3. at'[s] = how /\ \A u \in Slots : u # s => at'[u] = at[u]
    BY <1>3
  <2>4. ASSUME NEW u \in Slots
        PROVE  /\ tasks'[u].state \in {"READY", "STOPPED", "ZOMBIE"} => tasks'[u].pgd
               /\ at'[u] # "user" => Live(u)'
               /\ Creates(u)' => tasks'[u].state = "READY"
               /\ at'[u] = "wait" => tasks'[u].state \in {"READY", "BLOCKED"}
    <3>1. CASE u = t
      <4>1. tasks'[u].state = "BLOCKED" /\ at'[u] = "user"
        BY <1>2, <1>3, <2>3, <3>1
      <4>2. QED
        BY <4>1 DEF Creates
    <3>2. CASE u = s
      <4>1. tasks'[u] = tasks[u] /\ at'[u] = how
        BY <1>2, <1>3, <2>3, <3>2
      <4>2. Live(u)'
        BY <2>2, <3>2, <4>1 DEF Live
      <4>3. QED
        BY <1>3, <2>2, <3>2, <4>1, <4>2 DEF Creates
    <3>3. CASE u # t /\ u # s
      <4>1. tasks'[u] = tasks[u] /\ at'[u] = at[u] /\ (Live(u)' <=> Live(u))
        BY <1>2, <1>4, <2>3, <3>3
      <4>2. QED
        BY <2>1, <4>1 DEF Places, Creates
    <3>4. QED
      BY <3>1, <3>2, <3>3
  <2>5. QED
    BY <2>4 DEF Places
<1>7. Kids'
  BY <1>1, <1>2, <1>3 DEF ProcsInv, Kids, Creates, ProcsTypeOK, InUser, Places
<1>8. Numbers' /\ ToldHasNoParent'
  BY <1>2, <1>3, <1>4 DEF ProcsInv, Numbers, ToldHasNoParent, Live
<1>9. Grave'
  <2> SUFFICES ASSUME reaper = "reaps" PROVE Grave'
    BY <1>3 DEF Grave
  <2>1. dead \in Slots /\ tasks'[dead] = tasks[dead] /\ tasks[dead].state = "ZOMBIE"
    BY <1>1, <1>2 DEF ProcsInv, Grave
  <2>2. \A u \in Slots : Live(u)' => tasks'[u].pid # tasks'[dead].parent
    BY <2>1, <1>2, <1>3, <1>4 DEF ProcsInv, Grave
  <2>3. QED
    BY <2>1, <2>2, <1>3 DEF Grave
<1>10. \A u, v \in Slots : /\ InExitQueue(u)' => InExitQueue(u) /\ u # t
                           /\ InExitQueue(u)' => (IsChild(u, req[u], v)' <=> IsChild(u, req[u], v))
                           /\ InExitQueue(u)' => (HasNews(u, req[u], v)' => HasNews(u, req[u], v))
  BY ZenonT(60), <1>2, <1>3, <1>4 DEF InExitQueue, IsChild, HasNews, InUser, Live
<1>11. NoMissedNews' /\ SomebodyToWaitFor'
  BY <1>3, <1>10 DEF ProcsInv, NoMissedNews, SomebodyToWaitFor
<1>12. QED
  BY <1>5, <1>6, <1>7, <1>8, <1>9, <1>11 DEF ProcsInv

\* The parent of the slot that is being filled: nobody sees it yet.
LEMMA NameParentInv ==
    ASSUME ProcsInv, NEW s \in Slots, NameParent(s) PROVE ProcsInv'
<1> USE ProcsAssumption, NoneAssumption
<1> DEFINE t == kid[s]
<1>1. /\ t \in Slots /\ ~Live(t) /\ Live(s) /\ tasks[t].state = "BLOCKED"
      /\ at[s] = "spawn" /\ at[t] = "user"
      /\ tasks' = [tasks EXCEPT ![t].parent = tasks[s].pid]
      /\ at' = [at EXCEPT ![s] = "spawned"]
      /\ UNCHANGED <<kid, req, cut, next_pid, reaper, dead, told>>
  BY DEF NameParent, Go, ProcsInv, Kids, Creates, Places, Live, ProcsTypeOK
<1>2. \A u \in Slots :
        /\ tasks'[u] \in Slot
        /\ u # t => tasks'[u] = tasks[u]
        /\ tasks'[u].state = tasks[u].state
        /\ tasks'[u].pgd = tasks[u].pgd
        /\ tasks'[u].pid = tasks[u].pid
  BY <1>1 DEF ProcsInv, ProcsTypeOK, Slot
<1>3. \A u \in Slots : /\ Live(u)' <=> Live(u)
                       /\ Creates(u)' <=> Creates(u)
  BY <1>1, <1>2 DEF Live, Creates, ProcsInv, ProcsTypeOK
<1>4. ProcsTypeOK'
  BY <1>1, <1>2 DEF ProcsInv, ProcsTypeOK
<1>5. Places'
  BY <1>1, <1>2, <1>3 DEF ProcsInv, Places, ProcsTypeOK
<1>6. Kids'
  BY <1>1, <1>2, <1>3 DEF ProcsInv, Kids
<1>7. Numbers' /\ ToldHasNoParent'
  BY <1>1, <1>2, <1>3 DEF ProcsInv, Numbers, ToldHasNoParent
<1>8. Grave'
  <2> SUFFICES ASSUME reaper = "reaps" PROVE Grave'
    BY <1>1 DEF Grave
  <2>1. dead \in Slots /\ tasks[dead].state = "ZOMBIE" /\ tasks'[dead] = tasks[dead]
    BY <1>1, <1>2 DEF ProcsInv, Grave
  <2>2. QED
    BY <2>1, <1>1, <1>2, <1>3 DEF ProcsInv, Grave
<1>9. \A u, v \in Slots : /\ InExitQueue(u)' <=> InExitQueue(u)
                          /\ IsChild(u, req[u], v)' <=> IsChild(u, req[u], v)
                          /\ HasNews(u, req[u], v)' <=> HasNews(u, req[u], v)
  BY <1>1, <1>2, <1>3 DEF InExitQueue, IsChild, HasNews, ProcsInv, ProcsTypeOK
<1>10. NoMissedNews' /\ SomebodyToWaitFor'
  BY <1>1, <1>9 DEF ProcsInv, NoMissedNews, SomebodyToWaitFor
<1>11. QED
  BY <1>4, <1>5, <1>6, <1>7, <1>8, <1>10 DEF ProcsInv

\* Second half of the birth: a pid that nobody has had.
LEMMA PublishInv ==
    ASSUME ProcsInv, NEW s \in Slots, Publish(s) PROVE ProcsInv'
<1> USE ProcsAssumption, NoneAssumption
<1> DEFINE t == kid[s]
           new == [state |-> "READY", pid |-> next_pid, parent |-> tasks[s].pid,
                   pgd |-> TRUE, parada_avisada |-> FALSE]
<1>1. /\ t \in Slots /\ ~Live(t) /\ Live(s) /\ s # t /\ tasks[t].state = "BLOCKED"
      /\ Creates(s) /\ at[t] = "user" /\ next_pid \in Pids
      /\ tasks' = [tasks EXCEPT ![t] = new]
      /\ at' = [at EXCEPT ![s] = "user", ![t] = "user"]
      /\ kid' = [kid EXCEPT ![s] = None]
      /\ next_pid' = next_pid + 1
      /\ UNCHANGED <<req, cut, reaper, dead, told>>
  BY DEF Publish, ProcsInv, Kids, Creates, Places, Live, ProcsTypeOK, Pids
<1>2. tasks[s].pid \in 1 .. next_pid - 1 /\ tasks[s].pid \in Pids
  BY <1>1 DEF ProcsInv, Numbers, ProcsTypeOK, Slot, Pids
<1>3. \A u \in Slots :
        /\ tasks'[u] \in Slot
        /\ u # t => tasks'[u] = tasks[u]
        /\ u = t => tasks'[u] = new
  BY <1>1, <1>2 DEF ProcsInv, ProcsTypeOK, Slot
<1>4. \A u \in Slots : /\ Live(u)' <=> Live(u) \/ u = t
                       /\ Creates(u)' <=> Creates(u) /\ u # s
                       /\ at'[u] = IF u = s THEN "user" ELSE at[u]
  BY <1>1, <1>3 DEF Live, Creates, ProcsInv, ProcsTypeOK
<1>5. ProcsTypeOK'
  <2>1. tasks' \in [Slots -> Slot]
    BY <1>1, <1>3 DEF ProcsInv, ProcsTypeOK
  <2>2. next_pid' \in 1 .. MaxPid + 1
    BY <1>1 DEF Pids
  <2>3. at' \in [Slots -> {"user", "fork", "spawn", "spawned", "wait"}]
    BY <1>1 DEF ProcsInv, ProcsTypeOK
  <2>4. QED
    BY <2>1, <2>2, <2>3, <1>1 DEF ProcsInv, ProcsTypeOK
<1>6. Places'
  <2>1. \A u \in Slots : u # t /\ u # s => at'[u] = at[u] /\ tasks'[u] = tasks[u]
    BY <1>1, <1>3, <1>4
  <2>2. at'[s] = "user" /\ at'[t] = "user" /\ tasks'[t].pgd /\ tasks'[s] = tasks[s]
    BY <1>1, <1>3, <1>4 DEF Live
  <2>3. QED
    BY ZenonT(60), <2>1, <2>2, <1>4 DEF ProcsInv, Places, Creates
<1>7. Kids'
  <2> SUFFICES ASSUME NEW u \in Slots, Creates(u)'
      PROVE /\ kid'[u] \in Slots
            /\ tasks'[kid'[u]].state = "BLOCKED"
            /\ ~tasks'[kid'[u]].pgd
            /\ \A v \in Slots : Creates(v)' /\ kid'[v] = kid'[u] => v = u
    BY DEF Kids
  <2>1. Creates(u) /\ u # s /\ kid'[u] = kid[u] /\ kid[u] # t
    BY <1>1, <1>4 DEF ProcsInv, Kids, ProcsTypeOK
  <2>2. tasks'[kid'[u]] = tasks[kid[u]] /\ kid[u] \in Slots
    BY <2>1, <1>3 DEF ProcsInv, Kids
  <2>3. \A v \in Slots : Creates(v)' => Creates(v) /\ kid'[v] = kid[v]
    BY <1>1, <1>4 DEF ProcsInv, ProcsTypeOK
  <2>4. QED
    BY <2>1, <2>2, <2>3 DEF ProcsInv, Kids
<1>8. Numbers'
  <2> SUFFICES ASSUME NEW u \in Slots, Live(u)'
      PROVE /\ tasks'[u].pid \in 1 .. next_pid' - 1
            /\ tasks'[u].parent < next_pid'
            /\ \A v \in Slots : Live(v)' /\ tasks'[v].pid = tasks'[u].pid => v = u
    BY DEF Numbers
  <2>1. \A v \in Slots : Live(v) => tasks[v].pid \in 1 .. next_pid - 1 /\ tasks[v].parent < next_pid
    BY DEF ProcsInv, Numbers
  <2>2. next_pid \in Nat
    BY DEF ProcsInv, ProcsTypeOK
  <2>3. CASE u = t
    BY <2>1, <2>2, <2>3, <1>1, <1>2, <1>3, <1>4
  <2>4. CASE u # t
    <3>1. Live(u) /\ tasks'[u] = tasks[u] /\ tasks[u] \in Slot
      BY <2>4, <1>3, <1>4 DEF ProcsInv, ProcsTypeOK
    <3>2. \A v \in Slots : Live(v)' /\ tasks'[v].pid = tasks'[u].pid => v = u
      <4> SUFFICES ASSUME NEW v \in Slots, Live(v)', tasks'[v].pid = tasks'[u].pid
                   PROVE  v = u
        OBVIOUS
      <4>1. tasks[u].pid \in 1 .. next_pid - 1
        BY ONLY <2>1, <3>1
      <4>2. v # t
        BY <2>2, <3>1, <4>1, <1>3
      <4>3. tasks'[v] = tasks[v] /\ Live(v)
        BY <4>2, <1>3, <1>4
      <4> QED
        BY ONLY <3>1, <4>3, ProcsInv, u \in Slots, tasks'[v].pid = tasks'[u].pid DEF ProcsInv, Numbers
    <3>3. tasks[u].parent \in Int
      BY <3>1 DEF Slot, Pids, None
    <3>4. QED
      BY <2>1, <2>2, <3>1, <3>2, <3>3, <1>1
  <2>5. QED
    BY <2>3, <2>4
<1>9. ToldHasNoParent'
  <2> SUFFICES ASSUME NEW p \in Pids, told[p] # 0
      PROVE /\ told[p] = 1 /\ p < next_pid'
            /\ \A u \in Slots : Live(u)' /\ tasks'[u].pid = p =>
                  tasks'[u].state = "ZOMBIE" /\ tasks'[u].parent = None
    BY <1>1 DEF ToldHasNoParent
  <2>1. told[p] = 1 /\ p < next_pid /\ next_pid \in Nat
    BY DEF ProcsInv, ToldHasNoParent, ProcsTypeOK
  <2>2. QED
    BY <2>1, <1>1, <1>3, <1>4 DEF ProcsInv, ToldHasNoParent, Pids
<1>10. Grave'
  <2> SUFFICES ASSUME reaper = "reaps" PROVE Grave'
    BY <1>1 DEF Grave
  <2>1. dead \in Slots /\ tasks[dead].state = "ZOMBIE" /\ tasks'[dead] = tasks[dead]
    BY <1>1, <1>3 DEF ProcsInv, Grave
  <2>2. Live(dead) /\ tasks[dead].parent < next_pid
    BY <2>1 DEF ProcsInv, Places, Live, Numbers
  <2>3. \A u \in Slots : Live(u)' => tasks'[u].pid # tasks'[dead].parent
    <3>1. tasks[dead].parent \in Int /\ next_pid \in Int
      BY <2>1 DEF ProcsInv, ProcsTypeOK, Slot, Pids, None
    <3>2. tasks'[t].pid # tasks[dead].parent
      BY <3>1, <2>2, <1>1, <1>3
    <3>3. \A u \in Slots : Live(u) => tasks[u].pid # tasks[dead].parent
      BY DEF ProcsInv, Grave
    <3>4. QED
      BY <3>2, <3>3, <2>1, <1>3, <1>4
  <2>4. QED
    BY <2>1, <2>3, <1>1 DEF Grave
<1>11. \A u, v \in Slots :
          InExitQueue(u)' => /\ InExitQueue(u)
                             /\ IsChild(u, req[u], v) => IsChild(u, req[u], v)'
                             /\ HasNews(u, req[u], v)' => HasNews(u, req[u], v)
  BY <1>1, <1>3, <1>4 DEF InExitQueue, IsChild, HasNews, ProcsInv, ProcsTypeOK
<1>12. NoMissedNews' /\ SomebodyToWaitFor'
  BY <1>1, <1>11 DEF ProcsInv, NoMissedNews, SomebodyToWaitFor
<1>13. QED
  BY <1>5, <1>6, <1>7, <1>8, <1>9, <1>10, <1>12 DEF ProcsInv

\* No memory: the slot is free again.
LEMMA FailInv ==
    ASSUME ProcsInv, NEW s \in Slots, Fail(s) PROVE ProcsInv'
<1> USE ProcsAssumption, NoneAssumption
<1> DEFINE t == kid[s]
<1>1. /\ t \in Slots /\ ~Live(t) /\ Live(s) /\ s # t /\ tasks[t].state = "BLOCKED"
      /\ Creates(s) /\ at[t] = "user"
      /\ tasks' = [tasks EXCEPT ![t].state = "UNUSED"]
      /\ at' = [at EXCEPT ![s] = "user"]
      /\ kid' = [kid EXCEPT ![s] = None]
      /\ UNCHANGED <<req, cut, next_pid, reaper, dead, told>>
  BY DEF Fail, Go, ProcsInv, Kids, Creates, Places, Live, ProcsTypeOK
<1>2. \A u \in Slots :
        /\ tasks'[u] \in Slot
        /\ u # t => tasks'[u] = tasks[u]
        /\ u = t => tasks'[u].state = "UNUSED"
  BY <1>1 DEF ProcsInv, ProcsTypeOK, Slot
<1>3. \A u \in Slots : /\ Live(u)' <=> Live(u)
                       /\ Creates(u)' <=> Creates(u) /\ u # s
                       /\ at'[u] = IF u = s THEN "user" ELSE at[u]
  BY <1>1, <1>2 DEF Live, Creates, ProcsInv, ProcsTypeOK
<1>4. ProcsTypeOK'
  <2>1. tasks' \in [Slots -> Slot]
    BY <1>1, <1>2 DEF ProcsInv, ProcsTypeOK
  <2>2. QED
    BY <2>1, <1>1 DEF ProcsInv, ProcsTypeOK
<1>5. Places'
  BY <1>1, <1>2, <1>3 DEF ProcsInv, Places, Live
<1>6. Kids'
  <2>1. \A u \in Slots : Creates(u)' => /\ Creates(u) /\ kid'[u] = kid[u] /\ kid[u] # t
                                        /\ kid[u] \in Slots /\ tasks'[kid[u]] = tasks[kid[u]]
    BY <1>1, <1>2, <1>3 DEF ProcsInv, Kids, ProcsTypeOK
  <2>2. QED
    BY <2>1 DEF ProcsInv, Kids
<1>7. Numbers' /\ ToldHasNoParent'
  BY <1>1, <1>2, <1>3 DEF ProcsInv, Numbers, ToldHasNoParent, Live
<1>8. Grave'
  <2> SUFFICES ASSUME reaper = "reaps" PROVE Grave'
    BY <1>1 DEF Grave
  <2>1. dead \in Slots /\ tasks[dead].state = "ZOMBIE" /\ tasks'[dead] = tasks[dead]
    BY <1>1, <1>2 DEF ProcsInv, Grave
  <2>2. \A u \in Slots : Live(u)' => tasks'[u].pid # tasks'[dead].parent
    BY <2>1, <1>1, <1>2, <1>3 DEF ProcsInv, Grave
  <2>3. QED
    BY <2>1, <2>2, <1>1 DEF Grave
<1>9. \A u, v \in Slots :
          InExitQueue(u)' => /\ InExitQueue(u)
                             /\ IsChild(u, req[u], v) => IsChild(u, req[u], v)'
                             /\ HasNews(u, req[u], v)' => HasNews(u, req[u], v)
  BY <1>1, <1>2, <1>3 DEF InExitQueue, IsChild, HasNews, ProcsInv, ProcsTypeOK, Live
<1>10. NoMissedNews' /\ SomebodyToWaitFor'
  BY <1>1, <1>9 DEF ProcsInv, NoMissedNews, SomebodyToWaitFor
<1>11. QED
  BY <1>4, <1>5, <1>6, <1>7, <1>8, <1>10 DEF ProcsInv

\* What stops, goes on, dies or is signalled: a state changes, and whoever waits
\* for news is woken if there may be any.
LEMMA TurnInv ==
    ASSUME ProcsInv, NEW s \in Slots, NEW all \in BOOLEAN,
           tasks' \in [Slots -> Slot],
           UNCHANGED <<at, kid, req, next_pid, dead, told>>,
           cut' \in [Slots -> BOOLEAN],
           reaper' = reaper \/ reaper' = "looks",
           Live(s), ~Creates(s) \/ tasks'[s].state = "READY",
           tasks[s].state # "ZOMBIE", tasks'[s].state # "UNUSED",
           at[s] = "wait" => tasks'[s].state = "READY",
           tasks'[s].state \in {"STOPPED", "ZOMBIE"} => all,
           \A u \in Slots :
              /\ tasks'[u].pid = tasks[u].pid
              /\ tasks'[u].parent = tasks[u].parent
              /\ tasks'[u].pgd = tasks[u].pgd
              /\ u # s => \/ tasks'[u] = tasks[u]
                          \/ InExitQueue(u) /\ tasks'[u].state = "READY"
              /\ all /\ InExitQueue(u) => tasks'[u].state # "BLOCKED"
    PROVE ProcsInv'
<1> USE ProcsAssumption, NoneAssumption
<1>1. \A u \in Slots : /\ Live(u)' <=> Live(u)
                       /\ Creates(u)' <=> Creates(u)
                       /\ tasks[u].state = "ZOMBIE" => tasks'[u] = tasks[u]
                       /\ ~Live(u) => tasks'[u] = tasks[u]
  BY DEF Live, Creates, InExitQueue, ProcsInv, Places
<1>2. ProcsTypeOK'
  BY DEF ProcsInv, ProcsTypeOK
<1>3. Places'
  <2> SUFFICES ASSUME NEW u \in Slots
               PROVE  /\ tasks'[u].state \in {"READY", "STOPPED", "ZOMBIE"} => tasks'[u].pgd
                      /\ at[u] # "user" => Live(u)'
                      /\ Creates(u) => tasks'[u].state = "READY"
                      /\ at[u] = "wait" => tasks'[u].state \in {"READY", "BLOCKED"}
    BY DEF Places, Creates
  <2>1. /\ tasks[u].state \in {"READY", "STOPPED", "ZOMBIE"} => tasks[u].pgd
        /\ at[u] # "user" => Live(u)
        /\ Creates(u) => tasks[u].state = "READY"
        /\ at[u] = "wait" => tasks[u].state \in {"READY", "BLOCKED"}
    BY DEF ProcsInv, Places
  <2>2. CASE u = s
    BY <1>1, <2>1, <2>2 DEF Live
  <2>3. CASE u # s /\ tasks'[u] = tasks[u]
    BY <1>1, <2>1, <2>3
  <2>4. CASE u # s /\ InExitQueue(u) /\ tasks'[u].state = "READY"
    BY <1>1, <2>1, <2>4 DEF InExitQueue, Creates, Live
  <2>5. QED
    BY <2>2, <2>3, <2>4
<1>4. Kids'
  <2>1. \A u \in Slots : Creates(u) => /\ kid[u] \in Slots
                                       /\ ~Live(kid[u])
                                       /\ tasks'[kid[u]] = tasks[kid[u]]
    BY <1>1 DEF ProcsInv, Kids, Live
  <2>2. QED
    BY <2>1, <1>1 DEF ProcsInv, Kids
<1>5. Numbers' /\ ToldHasNoParent'
  <2>1. Numbers'
    BY <1>1 DEF ProcsInv, Numbers
  <2>2. ToldHasNoParent'
    BY <1>1 DEF ProcsInv, ToldHasNoParent
  <2>3. QED
    BY <2>1, <2>2
<1>6. Grave'
  BY <1>1 DEF ProcsInv, Grave
<1>7. \A u, v \in Slots :
          InExitQueue(u)' => /\ InExitQueue(u) /\ ~all
                             /\ IsChild(u, req[u], v) => IsChild(u, req[u], v)'
                             /\ HasNews(u, req[u], v)' => HasNews(u, req[u], v)
  <2> SUFFICES ASSUME NEW u \in Slots, NEW v \in Slots, InExitQueue(u)'
      PROVE /\ InExitQueue(u) /\ ~all
            /\ IsChild(u, req[u], v) => IsChild(u, req[u], v)'
            /\ HasNews(u, req[u], v)' => HasNews(u, req[u], v)
    OBVIOUS
  <2>1. InExitQueue(u) /\ ~all
    BY <1>1 DEF InExitQueue
  <2>2. IsChild(u, req[u], v) <=> IsChild(u, req[u], v)'
    BY <1>1 DEF IsChild
  <2>3. HasNews(u, req[u], v)' => HasNews(u, req[u], v)
    BY <2>1, <2>2 DEF HasNews
  <2>4. QED
    BY <2>1, <2>2, <2>3
<1>8. NoMissedNews' /\ SomebodyToWaitFor'
  BY <1>7 DEF ProcsInv, NoMissedNews, SomebodyToWaitFor
<1>9. QED
  BY <1>2, <1>3, <1>4, <1>5, <1>6, <1>8 DEF ProcsInv

\* wq_wake_all(&exit_wq), after one entry has changed.
LEMMA WokenFields ==
    ASSUME ProcsTypeOK, NEW s \in Slots, NEW t \in Slot,
           t.pid = tasks[s].pid, t.parent = tasks[s].parent, t.pgd = tasks[s].pgd,
           tasks' = ExitWoken([tasks EXCEPT ![s] = t])
    PROVE  /\ tasks' \in [Slots -> Slot]
           /\ \A u \in Slots :
                /\ tasks'[u].pid = tasks[u].pid
                /\ tasks'[u].parent = tasks[u].parent
                /\ tasks'[u].pgd = tasks[u].pgd
                /\ u # s => \/ tasks'[u] = tasks[u]
                            \/ InExitQueue(u) /\ tasks'[u].state = "READY"
                /\ InExitQueue(u) => tasks'[u].state = "READY"
                /\ ~InExitQueue(s) => tasks'[s].state = t.state
<1> DEFINE tk == [tasks EXCEPT ![s] = t]
<1>1. \A u \in Slots : tk[u] \in Slot /\ tk[u] = IF u = s THEN t ELSE tasks[u]
  BY DEF ProcsTypeOK
<1>2. \A u \in Slots :
        tasks'[u] = IF InExitQueue(u) THEN [tk[u] EXCEPT !.state = "READY"] ELSE tk[u]
  BY DEF ExitWoken
<1>3. \A u \in Slots : [tk[u] EXCEPT !.state = "READY"] \in Slot
  BY <1>1 DEF Slot
<1>4. tasks' \in [Slots -> Slot]
  BY <1>1, <1>2, <1>3 DEF ExitWoken
<1>5. ASSUME NEW u \in Slots
      PROVE  /\ tasks'[u].pid = tk[u].pid
             /\ tasks'[u].parent = tk[u].parent
             /\ tasks'[u].pgd = tk[u].pgd
             /\ InExitQueue(u) => tasks'[u].state = "READY"
             /\ ~InExitQueue(u) => tasks'[u] = tk[u]
  BY <1>1, <1>2 DEF Slot
<1>6. ASSUME NEW u \in Slots
      PROVE  /\ tk[u].pid = tasks[u].pid
             /\ tk[u].parent = tasks[u].parent
             /\ tk[u].pgd = tasks[u].pgd
             /\ u # s => tk[u] = tasks[u]
             /\ u = s => tk[u] = t
  BY <1>1
<1> HIDE DEF tk
<1>7. QED
  BY <1>4, <1>5, <1>6

\* avisar_al_padre() only cuts waits.
LEMMA TellParentCuts ==
    ASSUME ProcsTypeOK, NEW s \in Slots, TellParent(s) PROVE cut' \in [Slots -> BOOLEAN]
BY DEF ProcsTypeOK, TellParent

\* A process stops, and its father is told.
LEMMA StopInv ==
    ASSUME ProcsInv, NEW s \in Slots, Stop(s) PROVE ProcsInv'
<1> DEFINE t == [tasks[s] EXCEPT !.state = "STOPPED", !.parada_avisada = FALSE]
<1>1. /\ InUser(s) /\ ~InExitQueue(s)
      /\ ProcsTypeOK
      /\ tasks' = ExitWoken([tasks EXCEPT ![s] = t])
  BY DEF Stop, InUser, InExitQueue, ProcsInv
<1>2. /\ t \in Slot /\ t.state = "STOPPED" /\ t.pid = tasks[s].pid
      /\ t.parent = tasks[s].parent /\ t.pgd = tasks[s].pgd
  BY <1>1 DEF ProcsTypeOK, Slot
<1>3. cut' \in [Slots -> BOOLEAN] /\ UNCHANGED <<at, kid, req, next_pid, reaper, dead, told>>
  BY <1>1, TellParentCuts DEF Stop
<1>4. /\ Live(s) /\ ~Creates(s) /\ tasks[s].state = "READY" /\ at[s] # "wait"
  BY <1>1 DEF InUser, Live, Creates
<1> HIDE DEF t
<1>5. QED
  BY ZenonT(60), <1>1, <1>2, <1>3, <1>4, WokenFields, TurnInv

\* A process dies (task_exit) and waits to be reaped.
LEMMA ExitInv ==
    ASSUME ProcsInv, NEW s \in Slots, Exit(s) PROVE ProcsInv'
<1> DEFINE t == [tasks[s] EXCEPT !.state = "ZOMBIE"]
<1>1. /\ InUser(s) /\ ~InExitQueue(s)
      /\ ProcsTypeOK
      /\ tasks' = ExitWoken([tasks EXCEPT ![s] = t])
  BY DEF Exit, InUser, InExitQueue, ProcsInv
<1>2. /\ t \in Slot /\ t.state = "ZOMBIE" /\ t.pid = tasks[s].pid
      /\ t.parent = tasks[s].parent /\ t.pgd = tasks[s].pgd
  BY <1>1 DEF ProcsTypeOK, Slot
<1>3. /\ cut' \in [Slots -> BOOLEAN]
      /\ UNCHANGED <<at, kid, req, next_pid, dead, told>>
      /\ reaper' = reaper \/ reaper' = "looks"
  BY <1>1, TellParentCuts DEF Exit, WakeReaper
<1>4. /\ Live(s) /\ ~Creates(s) /\ tasks[s].state = "READY" /\ at[s] # "wait"
  BY <1>1 DEF InUser, Live, Creates
<1> HIDE DEF t
<1>5. QED
  BY <1>1, <1>2, <1>3, <1>4, WokenFields, TurnInv

\* A stopped process goes on.
LEMMA ContinueInv ==
    ASSUME ProcsInv, NEW s \in Slots, Continue(s) PROVE ProcsInv'
<1> DEFINE t == [tasks[s] EXCEPT !.state = "READY"]
<1>1. /\ tasks[s].state = "STOPPED" /\ ~InExitQueue(s)
      /\ ProcsTypeOK
      /\ tasks' = ExitWoken([tasks EXCEPT ![s] = t])
      /\ UNCHANGED <<at, kid, req, cut, next_pid, reaper, dead, told>>
  BY DEF Continue, InExitQueue, ProcsInv
<1>2. /\ t \in Slot /\ t.state = "READY" /\ t.pid = tasks[s].pid
      /\ t.parent = tasks[s].parent /\ t.pgd = tasks[s].pgd
  BY <1>1 DEF ProcsTypeOK, Slot
<1>3. cut' \in [Slots -> BOOLEAN] /\ Live(s) /\ at[s] # "wait" /\ ~Creates(s)
  BY <1>1 DEF ProcsInv, ProcsTypeOK, Places, Live, Creates
<1> HIDE DEF t
<1>4. QED
  BY <1>1, <1>2, <1>3, WokenFields, TurnInv

\* A signal wakes who waits for a child.
LEMMA SignalledInv ==
    ASSUME ProcsInv, NEW s \in Slots, Signalled(s) PROVE ProcsInv'
<1>1. /\ InExitQueue(s)
      /\ tasks' = [tasks EXCEPT ![s].state = "READY"]
      /\ cut' \in [Slots -> BOOLEAN]
      /\ UNCHANGED <<at, kid, req, next_pid, reaper, dead, told>>
  BY DEF Signalled, ProcsInv, ProcsTypeOK
<1>2. /\ tasks' \in [Slots -> Slot]
      /\ tasks'[s].state = "READY"
      /\ \A u \in Slots : /\ tasks'[u].pid = tasks[u].pid
                          /\ tasks'[u].parent = tasks[u].parent
                          /\ tasks'[u].pgd = tasks[u].pgd
                          /\ u # s => tasks'[u] = tasks[u]
  BY <1>1 DEF ProcsInv, ProcsTypeOK, Slot
<1>3. Live(s) /\ tasks[s].state = "BLOCKED"
  BY <1>1 DEF ProcsInv, Places, InExitQueue
<1>4. QED
  BY <1>1, <1>2, <1>3, TurnInv
-----------------------------------------------------------------------------
\* The process that calls waitpid(), or is in it and awake.
Calls(s) == Live(s) /\ ~Creates(s) /\ tasks[s].state = "READY"

\* The call ends with nothing taken.
LEMMA BackInv ==
    ASSUME ProcsInv, NEW s \in Slots, Calls(s), Back(s), cut' \in [Slots -> BOOLEAN],
           UNCHANGED <<tasks, kid, next_pid, reaper, dead, told>>
    PROVE ProcsInv'
<1>1. /\ at' = [at EXCEPT ![s] = "user"]
      /\ req' = [req EXCEPT ![s] = NoRequest]
      /\ NoRequest \in Request
  BY DEF Back, Go, Request, NoRequest
<1>2. ProcsTypeOK'
  BY <1>1 DEF ProcsInv, ProcsTypeOK
<1>3. \A u \in Slots : /\ Live(u)' <=> Live(u)
                       /\ Creates(u)' <=> Creates(u)
                       /\ at'[u] = IF u = s THEN "user" ELSE at[u]
  BY <1>1 DEF ProcsInv, ProcsTypeOK, Creates, Live, Calls
<1>4. Places' /\ Kids'
  BY <1>3 DEF ProcsInv, Places, Kids
<1>5. Numbers' /\ ToldHasNoParent' /\ Grave'
  BY <1>3 DEF ProcsInv, Numbers, ToldHasNoParent, Grave
<1>6. \A u \in Slots : InExitQueue(u)' => InExitQueue(u) /\ req'[u] = req[u]
  BY <1>1, <1>3 DEF InExitQueue, ProcsInv, ProcsTypeOK
<1>7. NoMissedNews' /\ SomebodyToWaitFor'
  BY <1>6 DEF ProcsInv, NoMissedNews, SomebodyToWaitFor, IsChild, HasNews, Live
<1>8. QED
  BY <1>2, <1>4, <1>5, <1>7 DEF ProcsInv

\* It sleeps: it has a child, and there is no news of it.
LEMMA BlocksInv ==
    ASSUME ProcsInv, NEW s \in Slots, Calls(s), NEW r \in Request, Blocks(s, r),
           \E t \in Slots : IsChild(s, r, t), \A t \in Slots : ~HasNews(s, r, t),
           cut' \in [Slots -> BOOLEAN],
           UNCHANGED <<kid, next_pid, reaper, dead, told>>
    PROVE ProcsInv'
<1>1. /\ tasks' = [tasks EXCEPT ![s].state = "BLOCKED"]
      /\ at' = [at EXCEPT ![s] = "wait"]
      /\ req' = [req EXCEPT ![s] = r]
  BY DEF Blocks, Go
<1>2. \A u \in Slots :
        /\ tasks'[u] \in Slot
        /\ u # s => tasks'[u] = tasks[u]
        /\ u = s => tasks'[u].state = "BLOCKED"
        /\ tasks'[u].pid = tasks[u].pid
        /\ tasks'[u].parent = tasks[u].parent
        /\ tasks'[u].pgd = tasks[u].pgd
        /\ tasks'[u].parada_avisada = tasks[u].parada_avisada
  BY <1>1 DEF ProcsInv, ProcsTypeOK, Slot
<1>3. ProcsTypeOK'
  <2>1. tasks' \in [Slots -> Slot]
    BY <1>1, <1>2 DEF ProcsInv, ProcsTypeOK
  <2>2. QED
    BY <2>1, <1>1 DEF ProcsInv, ProcsTypeOK
<1>4. \A u \in Slots : /\ Live(u)' <=> Live(u)
                       /\ Creates(u)' <=> Creates(u)
                       /\ at'[u] = IF u = s THEN "wait" ELSE at[u]
                       /\ req'[u] = IF u = s THEN r ELSE req[u]
                       /\ tasks[u].state = "ZOMBIE" => u # s
  BY <1>1, <1>2 DEF ProcsInv, ProcsTypeOK, Creates, Live, Calls
<1>5. Places'
  BY <1>2, <1>4 DEF ProcsInv, Places, Creates, Calls
<1>6. Kids'
  <2>1. \A u \in Slots : Creates(u) => kid[u] \in Slots /\ tasks'[kid[u]] = tasks[kid[u]]
    BY <1>2 DEF ProcsInv, Kids, Calls, Live
  <2>2. QED
    BY <2>1, <1>4 DEF ProcsInv, Kids
<1>7. Numbers' /\ ToldHasNoParent'
  <2>1. Numbers'
    BY <1>2, <1>4 DEF ProcsInv, Numbers
  <2>2. ToldHasNoParent'
    BY <1>2, <1>4 DEF ProcsInv, ToldHasNoParent
  <2>3. QED
    BY <2>1, <2>2
<1>8. Grave'
  BY <1>2, <1>4 DEF ProcsInv, Grave
<1>9. \A u, v \in Slots : \A q : /\ IsChild(u, q, v)' <=> IsChild(u, q, v)
                                 /\ HasNews(u, q, v)' => HasNews(u, q, v)
  BY <1>2, <1>4 DEF IsChild, HasNews
<1>10. \A u \in Slots : InExitQueue(u)' => \/ InExitQueue(u) /\ req'[u] = req[u]
                                           \/ u = s /\ req'[u] = r
  BY <1>2, <1>4 DEF InExitQueue
<1>11. NoMissedNews'
  BY <1>9, <1>10 DEF ProcsInv, NoMissedNews
<1>12. SomebodyToWaitFor'
  BY <1>9, <1>10 DEF ProcsInv, SomebodyToWaitFor
<1>13. QED
  BY <1>3, <1>5, <1>6, <1>7, <1>8, <1>11, <1>12 DEF ProcsInv

\* A death is told: nobody else was its parent, and it had not been told.
LEMMA CollectInv ==
    ASSUME ProcsInv, NEW s \in Slots, Calls(s), NEW r \in Request, Back(s),
           NEW t \in Slots, IsChild(s, r, t), Collect(t),
           cut' \in [Slots -> BOOLEAN],
           UNCHANGED <<kid, next_pid, dead>>
    PROVE ProcsInv'
<1> USE ProcsAssumption, NoneAssumption
<1> DEFINE p == tasks[t].pid
<1>1. /\ tasks' = [tasks EXCEPT ![t].parent = None]
      /\ told' = [told EXCEPT ![p] = @ + 1]
      /\ at' = [at EXCEPT ![s] = "user"]
      /\ req' = [req EXCEPT ![s] = NoRequest]
      /\ NoRequest \in Request
      /\ reaper' = reaper \/ reaper' = "looks"
      /\ tasks[t].state = "ZOMBIE" /\ Live(t) /\ tasks[t].parent = tasks[s].pid
  BY DEF Collect, Back, Go, WakeReaper, IsChild, Request, NoRequest
<1>2. \A u \in Slots :
        /\ tasks'[u] \in Slot
        /\ u # t => tasks'[u] = tasks[u]
        /\ u = t => tasks'[u].parent = None
        /\ tasks'[u].state = tasks[u].state
        /\ tasks'[u].pid = tasks[u].pid
        /\ tasks'[u].pgd = tasks[u].pgd
        /\ tasks'[u].parada_avisada = tasks[u].parada_avisada
  BY <1>1 DEF ProcsInv, ProcsTypeOK, Slot, None
<1>3. /\ p \in Pids /\ p < next_pid /\ next_pid \in Nat
      /\ \A u \in Slots : Live(u) => tasks[u].pid # None
      /\ tasks[s].pid # None
      /\ \A u \in Slots : Live(u) /\ tasks[u].pid = p => u = t
  BY <1>1 DEF ProcsInv, Numbers, ProcsTypeOK, Slot, Pids, None, Calls
<1>4. told[p] = 0 /\ told'[p] = 1 /\ \A q \in Pids : q # p => told'[q] = told[q]
  BY <1>1, <1>3 DEF ProcsInv, ToldHasNoParent, ProcsTypeOK
<1>5. ProcsTypeOK'
  <2>1. tasks' \in [Slots -> Slot]
    BY <1>1, <1>2 DEF ProcsInv, ProcsTypeOK
  <2>2. told' \in [Pids -> Nat]
    BY <1>1, <1>3 DEF ProcsInv, ProcsTypeOK
  <2>3. reaper' \in {"looks", "asleep", "reaps"}
    BY <1>1 DEF ProcsInv, ProcsTypeOK
  <2>4. QED
    BY <2>1, <2>2, <2>3, <1>1 DEF ProcsInv, ProcsTypeOK
<1>6. \A u \in Slots : /\ Live(u)' <=> Live(u)
                       /\ Creates(u)' <=> Creates(u)
                       /\ at'[u] = IF u = s THEN "user" ELSE at[u]
  BY <1>1, <1>2 DEF ProcsInv, ProcsTypeOK, Creates, Live, Calls
<1>7. Places' /\ Kids'
  <2>1. Places'
    BY <1>2, <1>6 DEF ProcsInv, Places
  <2>2. Kids'
    BY <1>2, <1>6 DEF ProcsInv, Kids
  <2>3. QED
    BY <2>1, <2>2
<1>8. Numbers'
  <2>1. \A u \in Slots : Live(u) => tasks'[u].parent < next_pid
    BY <1>2, <1>3 DEF ProcsInv, Numbers, None, Pids
  <2>2. QED
    BY <2>1, <1>2, <1>6 DEF ProcsInv, Numbers
<1>9. ToldHasNoParent'
  <2> SUFFICES ASSUME NEW q \in Pids, told'[q] # 0
      PROVE /\ told'[q] = 1 /\ q < next_pid
            /\ \A u \in Slots : Live(u)' /\ tasks'[u].pid = q =>
                  tasks'[u].state = "ZOMBIE" /\ tasks'[u].parent = None
    BY DEF ToldHasNoParent
  <2>1. CASE q = p
    BY <2>1, <1>1, <1>2, <1>3, <1>4, <1>6
  <2>2. CASE q # p
    BY <2>2, <1>2, <1>4, <1>6 DEF ProcsInv, ToldHasNoParent
  <2>3. QED
    BY <2>1, <2>2
<1>10. Grave'
  BY <1>1, <1>2, <1>3, <1>6 DEF ProcsInv, Grave
<1>11. \A u \in Slots : InExitQueue(u)' => InExitQueue(u) /\ u # s /\ req'[u] = req[u] /\ Live(u)
  BY <1>1, <1>2, <1>6 DEF ProcsInv, Places, InExitQueue, ProcsTypeOK
<1>12. \A u, v \in Slots :
          InExitQueue(u)' => /\ HasNews(u, req[u], v)' => HasNews(u, req[u], v)
                             /\ IsChild(u, req[u], v) => IsChild(u, req[u], v)'
  <2> SUFFICES ASSUME NEW u \in Slots, NEW v \in Slots, InExitQueue(u)'
      PROVE  /\ HasNews(u, req[u], v)' => HasNews(u, req[u], v)
             /\ IsChild(u, req[u], v) => IsChild(u, req[u], v)'
    OBVIOUS
  <2>1. u # s /\ Live(u) /\ tasks[u].pid # tasks[s].pid /\ req'[u] = req[u]
    BY <1>11 DEF ProcsInv, Numbers, Calls
  <2>2. CASE v = t
    <3>1. ~IsChild(u, req[u], v) /\ ~IsChild(u, req[u], v)'
      BY <2>1, <2>2, <1>1, <1>2, <1>3 DEF IsChild
    <3>2. QED
      BY <3>1 DEF HasNews
  <2>3. CASE v # t
    BY <2>1, <2>3, <1>2, <1>6 DEF IsChild, HasNews
  <2>4. QED
    BY <2>2, <2>3
<1>13. NoMissedNews' /\ SomebodyToWaitFor'
  BY <1>11, <1>12 DEF ProcsInv, NoMissedNews, SomebodyToWaitFor
<1>14. QED
  BY <1>5, <1>7, <1>8, <1>9, <1>10, <1>13 DEF ProcsInv

\* A stop is told: it is no news any more.
LEMMA TellStopInv ==
    ASSUME ProcsInv, NEW s \in Slots, Calls(s), Back(s),
           NEW t \in Slots, TellStop(t),
           cut' \in [Slots -> BOOLEAN],
           UNCHANGED <<kid, next_pid, dead>>
    PROVE ProcsInv'
<1>1. /\ tasks' = [tasks EXCEPT ![t].parada_avisada = TRUE]
      /\ at' = [at EXCEPT ![s] = "user"]
      /\ req' = [req EXCEPT ![s] = NoRequest]
      /\ NoRequest \in Request
      /\ UNCHANGED <<told, reaper>>
  BY DEF TellStop, Back, Go, Request, NoRequest
<1>2. \A u \in Slots :
        /\ tasks'[u] \in Slot
        /\ tasks'[u].state = tasks[u].state
        /\ tasks'[u].pid = tasks[u].pid
        /\ tasks'[u].parent = tasks[u].parent
        /\ tasks'[u].pgd = tasks[u].pgd
        /\ tasks[u].parada_avisada => tasks'[u].parada_avisada
  BY ZenonT(60), <1>1 DEF ProcsInv, ProcsTypeOK, Slot
<1>3. ProcsTypeOK'
  <2>1. tasks' \in [Slots -> Slot]
    BY <1>1, <1>2 DEF ProcsInv, ProcsTypeOK
  <2>2. QED
    BY <2>1, <1>1 DEF ProcsInv, ProcsTypeOK
<1>4. \A u \in Slots : /\ Live(u)' <=> Live(u)
                       /\ Creates(u)' <=> Creates(u)
                       /\ at'[u] = IF u = s THEN "user" ELSE at[u]
  BY <1>1, <1>2 DEF ProcsInv, ProcsTypeOK, Creates, Live, Calls
<1>5. Places' /\ Kids'
  <2>1. Places'
    BY <1>2, <1>4 DEF ProcsInv, Places
  <2>2. Kids'
    BY <1>2, <1>4 DEF ProcsInv, Kids
  <2>3. QED
    BY <2>1, <2>2
<1>6. Numbers' /\ ToldHasNoParent'
  <2>1. Numbers'
    BY <1>2, <1>4 DEF ProcsInv, Numbers
  <2>2. ToldHasNoParent'
    BY <1>1, <1>2, <1>4 DEF ProcsInv, ToldHasNoParent
  <2>3. QED
    BY <2>1, <2>2
<1>7. Grave'
  BY <1>1, <1>2, <1>4 DEF ProcsInv, Grave
<1>8. \A u \in Slots : InExitQueue(u)' => InExitQueue(u) /\ req'[u] = req[u]
  BY <1>1, <1>2, <1>4 DEF ProcsInv, InExitQueue, ProcsTypeOK
<1>9. \A u, v \in Slots : \A q : /\ IsChild(u, q, v)' <=> IsChild(u, q, v)
                                 /\ HasNews(u, q, v)' => HasNews(u, q, v)
  BY <1>2, <1>4 DEF IsChild, HasNews
<1>10. NoMissedNews' /\ SomebodyToWaitFor'
  BY <1>8, <1>9 DEF ProcsInv, NoMissedNews, SomebodyToWaitFor
<1>11. QED
  BY <1>3, <1>5, <1>6, <1>7, <1>10 DEF ProcsInv

\* One turn of the loop of task_wait().
LEMMA AnswerInv ==
    ASSUME ProcsInv, NEW s \in Slots, Calls(s), NEW r \in Request, NEW nohang,
           Answer(s, r, nohang)
    PROVE ProcsInv'
<1>1. cut' \in [Slots -> BOOLEAN] /\ UNCHANGED <<kid, next_pid, dead>>
  BY DEF Answer, ProcsInv, ProcsTypeOK
<1>2. CASE Back(s) /\ UNCHANGED <<tasks, told, reaper>>
  BY <1>1, <1>2, BackInv
<1>3. CASE /\ Back(s)
           /\ \E t \in Slots : FirstNews(s, r, t) /\ (Collect(t) \/ TellStop(t))
  <2>1. PICK t \in Slots : FirstNews(s, r, t) /\ (Collect(t) \/ TellStop(t))
    BY <1>3
  <2>2. IsChild(s, r, t)
    BY <2>1 DEF FirstNews, HasNews
  <2>3. CASE Collect(t)
    BY <1>1, <1>3, <2>2, <2>3, CollectInv
  <2>4. CASE TellStop(t)
    BY <1>1, <1>3, <2>4, TellStopInv
  <2>5. QED
    BY <2>1, <2>3, <2>4
<1>4. CASE /\ \E t \in Slots : IsChild(s, r, t)
           /\ \A t \in Slots : ~HasNews(s, r, t)
           /\ Blocks(s, r)
           /\ UNCHANGED <<told, reaper>>
  BY <1>1, <1>4, BlocksInv
<1>5. QED
  BY <1>2, <1>3, <1>4 DEF Answer

\* waitpid() starts: the answer is there, or it sleeps.
LEMMA WaitInv ==
    ASSUME ProcsInv, NEW s \in Slots, NEW r \in Request, NEW nohang, Wait(s, r, nohang)
    PROVE ProcsInv'
<1>1. Calls(s) /\ Answer(s, r, nohang)
  BY DEF Wait, InUser, Calls, Live, Creates
<1>2. QED
  BY <1>1, AnswerInv

\* waitpid() looks again once it is woken, or is cut.
LEMMA WaitEndsInv ==
    ASSUME ProcsInv, NEW s \in Slots, WaitEnds(s) PROVE ProcsInv'
<1>1. Calls(s)
  BY DEF WaitEnds, Calls, Creates, ProcsInv, Places
<1>2. CASE cut[s]
  <2>1. cut' \in [Slots -> BOOLEAN]
    BY <1>2 DEF WaitEnds, ProcsInv, ProcsTypeOK
  <2>2. QED
    BY <1>1, <1>2, <2>1, BackInv DEF WaitEnds
<1>3. CASE ~cut[s]
  <2>1. req[s] \in Request /\ Answer(s, req[s], FALSE)
    BY <1>3 DEF WaitEnds, ProcsInv, ProcsTypeOK
  <2>2. QED
    BY <1>1, <2>1, AnswerInv
<1>4. QED
  BY <1>2, <1>3
-----------------------------------------------------------------------------
\* The reaper takes a zombie that has no parent left: pids are not used again,
\* so there will be none while it works.
LEMMA ReaperLooksInv ==
    ASSUME ProcsInv, ReaperFinds \/ ReaperSleeps PROVE ProcsInv'
<1> USE NoneAssumption
<1>1. UNCHANGED <<tasks, at, kid, req, cut, next_pid, told>>
  BY DEF ReaperFinds, ReaperSleeps
<1>2. /\ reaper' \in {"looks", "asleep", "reaps"} /\ dead' \in Slots \cup {None}
      /\ reaper' = "reaps" => dead' \in Slots /\ Ours(dead')
  BY DEF ReaperFinds, ReaperSleeps, ProcsInv, ProcsTypeOK
<1>3. ProcsTypeOK'
  BY <1>1, <1>2 DEF ProcsInv, ProcsTypeOK
<1>4. Places' /\ Kids' /\ Numbers' /\ ToldHasNoParent'
  BY <1>1 DEF ProcsInv, Places, Kids, Numbers, ToldHasNoParent, Live, Creates
<1>5. \A u \in Slots : Live(u) => tasks[u].pid # None
  BY DEF ProcsInv, Numbers, None
<1>6. Grave'
  BY <1>1, <1>2, <1>5 DEF Grave, Ours, ByPid, Live
<1>7. NoMissedNews' /\ SomebodyToWaitFor'
  BY <1>1 DEF ProcsInv, NoMissedNews, SomebodyToWaitFor, InExitQueue, IsChild, HasNews, Live
<1>8. QED
  BY <1>3, <1>4, <1>6, <1>7 DEF ProcsInv

\* The reaper takes one of the dead that nobody waits for.
LEMMA ReapInv ==
    ASSUME ProcsInv, Reap PROVE ProcsInv'
<1> USE NoneAssumption
<1>1. PICK d \in Slots :
        /\ d = dead /\ tasks[d].state = "ZOMBIE"
        /\ \A t \in Slots : Live(t) => tasks[t].pid # tasks[d].parent
  BY DEF Reap, ProcsInv, Grave
<1>2. /\ tasks' = [tasks EXCEPT ![d].state = "UNUSED", ![d].pgd = FALSE]
      /\ at' = [at EXCEPT ![d] = "user"]
      /\ dead' = None /\ reaper' = "looks"
      /\ UNCHANGED <<kid, req, cut, next_pid, told>>
  BY <1>1 DEF Reap
<1>3. \A u \in Slots :
        /\ tasks'[u] \in Slot
        /\ u # d => tasks'[u] = tasks[u] /\ at'[u] = at[u]
        /\ u = d => tasks'[u].state = "UNUSED" /\ ~tasks'[u].pgd /\ at'[u] = "user"
  <2>1. \A u \in Slots :
          /\ tasks'[u] \in Slot
          /\ u # d => tasks'[u] = tasks[u]
          /\ u = d => tasks'[u].state = "UNUSED" /\ ~tasks'[u].pgd
    <3>1. tasks' = [tasks EXCEPT ![d].state = "UNUSED", ![d].pgd = FALSE]
      BY <1>2
    <3>2. tasks \in [Slots -> Slot]
      BY DEF ProcsInv, ProcsTypeOK
    <3>3. QED
      BY <3>1, <3>2 DEF Slot
  <2>2. \A u \in Slots : /\ u # d => at'[u] = at[u]
                         /\ u = d => at'[u] = "user"
    BY <1>2 DEF ProcsInv, ProcsTypeOK
  <2>3. QED
    BY <2>1, <2>2
<1>4. \A u \in Slots : /\ Live(u)' <=> Live(u) /\ u # d
                       /\ Creates(u)' <=> Creates(u)
  BY <1>1, <1>3 DEF ProcsInv, Places, Live, Creates
<1>5. ProcsTypeOK'
  <2>1. tasks' \in [Slots -> Slot]
    BY <1>2, <1>3 DEF ProcsInv, ProcsTypeOK
  <2>2. QED
    BY <2>1, <1>2 DEF ProcsInv, ProcsTypeOK
<1>6. Places'
  <2>1. \A u \in Slots : u # d => at'[u] = at[u] /\ tasks'[u] = tasks[u]
    BY <1>3
  <2>2. at'[d] = "user" /\ tasks'[d].state = "UNUSED" /\ ~Creates(d)'
    BY <1>3 DEF Creates
  <2>3. QED
    BY <2>1, <2>2, <1>4 DEF ProcsInv, Places
<1>7. Kids'
  <2>1. \A u \in Slots : Creates(u) => /\ kid[u] \in Slots /\ kid[u] # d
                                       /\ tasks'[kid[u]] = tasks[kid[u]]
    BY <1>1, <1>3 DEF ProcsInv, Kids
  <2>2. QED
    BY <2>1, <1>2, <1>4 DEF ProcsInv, Kids
<1>8. Numbers' /\ ToldHasNoParent' /\ Grave'
  <2>1. \A u \in Slots : Live(u)' => Live(u) /\ tasks'[u] = tasks[u]
    BY <1>3, <1>4
  <2>2. Numbers' /\ ToldHasNoParent'
    <3>1. Numbers'
      BY <1>2, <2>1 DEF ProcsInv, Numbers
    <3>2. ToldHasNoParent'
      BY ZenonT(60), <1>2, <2>1 DEF ProcsInv, ToldHasNoParent
    <3>3. QED
      BY <3>1, <3>2
  <2>3. Grave'
    BY <1>2 DEF Grave
  <2>4. QED
    BY <2>2, <2>3
<1>9. \A u, v \in Slots :
          InExitQueue(u)' => /\ InExitQueue(u)
                             /\ IsChild(u, req[u], v) => IsChild(u, req[u], v)'
                             /\ HasNews(u, req[u], v)' => HasNews(u, req[u], v)
  <2> SUFFICES ASSUME NEW u \in Slots, NEW v \in Slots, InExitQueue(u)'
      PROVE  /\ InExitQueue(u)
             /\ IsChild(u, req[u], v) => IsChild(u, req[u], v)'
             /\ HasNews(u, req[u], v)' => HasNews(u, req[u], v)
    OBVIOUS
  <2>1. u # d /\ InExitQueue(u) /\ Live(u)
    BY <1>3 DEF InExitQueue, ProcsInv, Places
  <2>2. CASE v = d
    <3>1. ~IsChild(u, req[u], v) /\ ~Live(v)'
      BY <2>1, <2>2, <1>1, <1>4 DEF IsChild
    <3>2. ~HasNews(u, req[u], v)'
      BY <3>1 DEF IsChild, HasNews
    <3>3. QED
      BY <2>1, <3>1, <3>2
  <2>3. CASE v # d
    <3>1. tasks'[v] = tasks[v] /\ tasks'[u] = tasks[u] /\ (Live(v)' <=> Live(v)) /\ req' = req
      BY <2>1, <2>3, <1>2, <1>3, <1>4
    <3>2. QED
      BY <2>1, <3>1 DEF IsChild, HasNews
  <2>4. QED
    BY <2>2, <2>3
<1>10. NoMissedNews' /\ SomebodyToWaitFor'
  BY <1>2, <1>9 DEF ProcsInv, NoMissedNews, SomebodyToWaitFor
<1>11. QED
  BY <1>5, <1>6, <1>7, <1>8, <1>10 DEF ProcsInv
-----------------------------------------------------------------------------
\* The invariant survives every step.
LEMMA NextInv == ProcsInv /\ [ProcsNext]_procsVars => ProcsInv'
<1> SUFFICES ASSUME ProcsInv, [ProcsNext]_procsVars PROVE ProcsInv'
  OBVIOUS
<1>1. ASSUME NEW s \in Slots, NEW how, Reserve(s, how) PROVE ProcsInv'
  BY <1>1, ReserveInv
<1>2. ASSUME NEW s \in Slots, Born(s) PROVE ProcsInv'
  BY <1>2, NameParentInv, PublishInv, FailInv DEF Born
<1>3. ASSUME NEW s \in Slots, Stop(s) \/ Continue(s) \/ Exit(s) \/ Signalled(s)
      PROVE ProcsInv'
  BY <1>3, StopInv, ContinueInv, ExitInv, SignalledInv
<1>4. ASSUME NEW s \in Slots, WaitEnds(s) PROVE ProcsInv'
  BY <1>4, WaitEndsInv
<1>5. ASSUME NEW s \in Slots, NEW r \in Request, NEW nohang, Wait(s, r, nohang)
      PROVE ProcsInv'
  BY <1>5, WaitInv
<1>6. CASE Reaper
  BY <1>6, ReaperLooksInv, ReapInv DEF Reaper
<1>7. CASE UNCHANGED procsVars
  BY <1>7 DEF procsVars, ProcsInv, ProcsTypeOK, Places, Kids, Numbers, ToldHasNoParent, Grave,
              NoMissedNews, SomebodyToWaitFor, InExitQueue, IsChild, HasNews, Live, Creates
<1>8. QED
  BY <1>1, <1>2, <1>3, <1>4, <1>5, <1>6, <1>7 DEF ProcsNext

\* The invariant always holds.
LEMMA Invariant == ProcsSpec => []ProcsInv
<1>1. QED
  BY InitInv, NextInv, PTL DEF ProcsSpec

\* The types of src/sched.c's table, of the callers and of the reaper.
THEOREM ProcsTyped == ProcsSpec => []ProcsTypeOK
<1>1. ProcsInv => ProcsTypeOK
  BY DEF ProcsInv
<1>2. QED
  BY <1>1, Invariant, PTL

\* Nobody sleeps in task_wait() while there is an answer for it, whatever stops,
\* deaths, births and other collectors come in between.
THEOREM NobodyMissesNews == ProcsSpec => []NoMissedNews
<1>1. ProcsInv => NoMissedNews
  BY DEF ProcsInv
<1>2. QED
  BY <1>1, Invariant, PTL

\* Nobody sleeps in task_wait() for a child that is not there any more.
THEOREM NobodyWaitsForNobody == ProcsSpec => []SomebodyToWaitFor
<1>1. ProcsInv => SomebodyToWaitFor
  BY DEF ProcsInv
<1>2. QED
  BY <1>1, Invariant, PTL

\* A death is told once, however many collect at a time.
THEOREM ToldOnce == ProcsSpec => []DeathToldOnce
<1>1. ProcsInv => DeathToldOnce
  <2> SUFFICES ASSUME ProcsInv, NEW p \in Pids PROVE told[p] <= 1
    BY DEF DeathToldOnce
  <2>1. told[p] = 0 \/ told[p] = 1
    BY DEF ProcsInv, ToldHasNoParent
  <2>2. QED
    BY <2>1
<1>2. QED
  BY <1>1, Invariant, PTL
-----------------------------------------------------------------------------
\* Only the reaper frees a zombie, and only the one it has in its hands.
LEMMA OnlyReapFrees ==
    ASSUME ProcsInv, [ProcsNext]_procsVars, NEW s \in Slots,
           tasks[s].state = "ZOMBIE", tasks'[s].state = "UNUSED"
    PROVE  Reap /\ s = dead
<1>1. ProcsTypeOK
  BY DEF ProcsInv
<1>2. ASSUME NEW u \in Slots, NEW how, Reserve(u, how) PROVE FALSE
  BY <1>1, <1>2 DEF Reserve, ProcsTypeOK, Slot
<1>3. ASSUME NEW u \in Slots, Born(u) PROVE FALSE
  <2>1. Creates(u) /\ kid[u] # s /\ kid[u] \in Slots
    BY <1>3 DEF Born, NameParent, Publish, Fail, Creates, ProcsInv, Kids
  <2>2. tasks'[s] = tasks[s]
    BY <1>1, <1>3, <2>1 DEF Born, NameParent, Publish, Fail, ProcsTypeOK
  <2>3. QED
    BY <2>2
<1>4. ASSUME NEW u \in Slots, Stop(u) \/ Continue(u) \/ Exit(u) \/ Signalled(u)
      PROVE FALSE
  <2>1. u # s /\ ~InExitQueue(s)
    BY <1>4 DEF Stop, Continue, Exit, Signalled, InUser, InExitQueue
  <2>2. tasks'[s] = tasks[s]
    BY <1>1, <1>4, <2>1 DEF Stop, Continue, Exit, Signalled, ExitWoken, ProcsTypeOK
  <2>3. QED
    BY <2>2
<1>5. ASSUME NEW u \in Slots, NEW r, NEW nohang, Answer(u, r, nohang) PROVE FALSE
  <2>1. CASE UNCHANGED tasks
    BY <2>1
  <2>2. CASE Blocks(u, r)
    BY <1>1, <2>2 DEF Blocks, ProcsTypeOK, Slot
  <2>3. CASE \E t \in Slots : Collect(t) \/ TellStop(t)
    BY SMTT(60), <1>1, <2>3 DEF Collect, TellStop, ProcsTypeOK, Slot
  <2>4. QED
    BY <1>5, <2>1, <2>2, <2>3 DEF Answer
<1>6. ASSUME NEW u \in Slots, WaitEnds(u) PROVE FALSE
  BY <1>5, <1>6 DEF WaitEnds
<1>7. ASSUME NEW u \in Slots, NEW r \in Request, NEW nohang, Wait(u, r, nohang)
      PROVE FALSE
  BY <1>5, <1>7 DEF Wait
<1>8. CASE Reaper
  BY <1>1, <1>8 DEF Reaper, ReaperFinds, ReaperSleeps, Reap, ProcsInv, Grave, ProcsTypeOK, Slot
<1>9. CASE UNCHANGED procsVars
  BY <1>9 DEF procsVars
<1>10. QED
  BY <1>2, <1>3, <1>4, <1>6, <1>7, <1>8, <1>9 DEF ProcsNext

\* The reaper takes a zombie untold only when nobody alive is its parent.
THEOREM OrphansOnly == ProcsSpec => OnlyOrphansUntold
<1>1. ProcsInv /\ [ProcsNext]_procsVars =>
        [\A s, t \in Slots :
            /\ tasks[s].state = "ZOMBIE" /\ tasks'[s].state = "UNUSED"
            /\ told[tasks[s].pid] = 0
            /\ Live(t)
            => tasks[t].pid # tasks[s].parent]_procsVars
  <2> SUFFICES ASSUME ProcsInv, [ProcsNext]_procsVars, NEW s \in Slots, NEW t \in Slots,
                      tasks[s].state = "ZOMBIE", tasks'[s].state = "UNUSED", Live(t)
      PROVE tasks[t].pid # tasks[s].parent
    OBVIOUS
  <2>1. Reap /\ s = dead
    BY OnlyReapFrees
  <2>2. QED
    BY <2>1 DEF Reap, ProcsInv, Grave
<1>2. QED
  BY <1>1, Invariant, PTL DEF ProcsSpec, OnlyOrphansUntold

(* -------------------------------- Console ------------------------------- *)

Keys    == Nat \ {0}
ConPcs  == {"boot", "cede", "icr", "read", "push", "again", "last", "sig", "recv", "saca", "told",
            "wake", "show", "ack"}
PushPcs == {"no", "key", "store", "wake", "tell", "telling", "icr", "woken", "sig"}
Piece   == [by : Writers \cup {Nobody}, i : Nat]

Scripts == [script : Seq(Kinds), on : {"serial", "usb"}, texts : [Writers -> Seq(Nat)], typed : Nat]
Uarts   == [fifo : Seq(Keys), ris : BOOLEAN, open : BOOLEAN, owned : BOOLEAN, desviar : BOOLEAN]
Drivers    == [pc : ConPcs, buf : Seq(Keys), sig : Nat, any : BOOLEAN, irq : BOOLEAN,
            text : Seq(Piece), n : Nat, empty : BOOLEAN]
Usbs    == [pc : {"rest", "give"}, keys : Seq(Keys)]
Pushed  == [pc : PushPcs, irq : BOOLEAN, buf : Seq(Keys), n : Nat, thrown : BOOLEAN, sig : Nat,
            any : BOOLEAN]
Ttys    == [cells : [1 .. LineMax -> Nat], n : 0 .. LineMax, rx : Seq(Nat), eof : BOOLEAN,
            canon : BOOLEAN]
Readers == [pc : {"out", "look", "asleep"}, n : Nat, last : Nat]
Ghosts  == [late : SUBSET Callers, crossed : BOOLEAN, done : Nat, blurred : BOOLEAN, mixed : BOOLEAN]
Pens    == [pc : {"call", "begin", "hw", "put", "full", "asleep", "ret", "done"}, i : Nat, torn : BOOLEAN]

\* The types, in three parts.
KeysTyped ==
  /\ board \in Scripts /\ board.typed <= Len(board.script)
  /\ uart \in Uarts /\ con \in Drivers /\ usb \in Usbs /\ push \in Pushed
  /\ tty \in Ttys /\ reader \in Readers /\ ghost \in Ghosts /\ left \in Bounds
  /\ reader.pc # "out" => reader.n # 0

Limits ==
  /\ Len(uart.fifo) <= FifoMax /\ Len(con.buf) <= BufMax /\ Len(tty.rx) <= RxMax
  /\ con.pc \in {"icr", "read", "again"} => Len(con.buf) < BufMax

TextTyped ==
  /\ mail \in Seq({"klog", "irq", "print"}) /\ Len(mail) <= Room
  /\ klog \in Seq(Piece) /\ Len(klog) <= KlogMax
  /\ avisado \in BOOLEAN /\ perdidos \in BOOLEAN /\ lock \in Writers \cup {Nobody}
  /\ avisar \in [Callers -> {"no", "lower", "notify", "raise"}]
  /\ writer \in [Writers -> Pens]
  /\ \A w \in Writers : writer[w].i \in 0 .. Len(Texts[w])

\* Who has the UART and the keys.
Hands ==
  /\ board.on = "serial" \/ usb.pc = "rest" => usb.keys = <<>>
  /\ board.on = "usb" => ~uart.ris /\ uart.fifo = <<>> /\ con.buf = <<>> /\ con.sig = 0 /\ ~push.irq
  /\ con.pc = "boot" <=> ~uart.owned
  /\ con.pc = "boot" => con.buf = <<>> /\ con.sig = 0
  /\ push.irq => con.pc = "boot" /\ push.pc \in {"key", "store", "icr", "woken", "sig"}
  /\ push.pc \in {"icr", "woken", "sig"} => push.irq
  /\ ~push.irq => push.sig = 0 /\ ~push.any
  /\ push.pc \notin {"key", "store"} => push.buf = <<>>
  /\ push.pc = "store" => push.buf # <<>>
  /\ push.pc # "no" => push.irq \/ board.on = "usb" \/ (con.pc \in {"push", "last"} /\ con.buf = <<>>)
  /\ con.pc \notin {"icr", "read", "push", "again", "last"} => con.buf = <<>>
  /\ con.buf # <<>> => con.any
  /\ push.irq /\ push.buf # <<>> => push.any

\* Where the interrupt is that is not up, or not let in.
Heard ==
  /\ uart.fifo # <<>> /\ ~uart.ris => con.pc \in {"boot", "cede", "icr", "read", "push"}
  /\ ~uart.open => (\E i \in DOMAIN mail : mail[i] = "irq") \/ (con.irq /\ con.pc # "recv")
  /\ reader.pc = "asleep" /\ (tty.rx # <<>> \/ tty.eof) =>
       push.pc \in {"key", "store", "wake", "icr", "woken"}

\* The driver will say klog_entregado() before it waits, or has a notice.
Busy   == \/ con.pc \notin {"recv", "ack", "wake", "show"}
          \/ con.pc \in {"wake", "show"} /\ con.n > 0
Coming == Busy \/ \E i \in DOMAIN mail : mail[i] = "klog"

Announced ==
  /\ \A c \in Callers : avisar[c] = "raise" /\ c \notin ghost.late => Coming
  /\ avisado /\ ~ghost.crossed => Coming
  /\ con.pc = "told" /\ con.n = 0 => con.empty

\* What has come is in its order, and each thing before what follows it.
Sorted(s)   == \A i, j \in DOMAIN s : i < j => s[i] < s[j]
Below(s, t) == \A i \in DOMAIN s, j \in DOMAIN t : s[i] < t[j]
New(k)      == /\ \A i \in DOMAIN tty.rx : tty.rx[i] < k
               /\ \A i \in 1 .. LineMax : tty.cells[i] < k
               /\ reader.last < k
AllNew(s)   == \A i \in DOMAIN s : New(s[i]) /\ s[i] <= board.typed

InLine == IF push.pc = "store" THEN push.n ELSE tty.n
Valid  == tty.canon \/ push.pc = "store"

Order ==
  /\ Sorted(push.buf) /\ Sorted(con.buf) /\ Sorted(usb.keys) /\ Sorted(uart.fifo) /\ Sorted(tty.rx)
  /\ Below(push.buf, con.buf) /\ Below(push.buf, usb.keys) /\ Below(push.buf, uart.fifo)
  /\ Below(con.buf, uart.fifo)
  /\ AllNew(push.buf) /\ AllNew(con.buf) /\ AllNew(usb.keys) /\ AllNew(uart.fifo)
  /\ New(board.typed + 1)
  /\ \A i \in DOMAIN tty.rx : reader.last < tty.rx[i]
  /\ push.pc = "store" => tty.n <= push.n /\ push.n < LineMax - 1
  /\ Valid => \A i \in 1 .. InLine :
       /\ \A j \in 1 .. InLine : i < j => tty.cells[i] < tty.cells[j]
       /\ \A j \in DOMAIN tty.rx : tty.rx[j] < tty.cells[i]
       /\ reader.last < tty.cells[i]

\* A key that is waiting belongs to what was typed after the last ^C that was
\* dealt with; and if none was met together with others or lost, before the next.
Fresh(k)    == /\ Epoch(k) >= ghost.done
               /\ ~ghost.blurred => Epoch(k) = ghost.done
AllFresh(s) == \A i \in DOMAIN s : Fresh(s[i])
Counted     == ghost.done + con.sig + push.sig

Interrupts ==
  /\ AllFresh(tty.rx) /\ AllFresh(push.buf) /\ AllFresh(con.buf)
  /\ Valid => \A i \in 1 .. InLine : Fresh(tty.cells[i])
  /\ ghost.mixed => ghost.blurred
  /\ con.any /\ con.sig > 0 => ghost.blurred
  /\ push.any /\ push.sig > 0 => ghost.blurred

FromSerial ==
  board.on = "serial" =>
    /\ \A i \in DOMAIN uart.fifo : Epoch(uart.fifo[i]) >= Counted
    /\ Epoch(board.typed + 1) >= Counted
    /\ ~ghost.blurred =>
         /\ uart.fifo = <<>> => Epoch(board.typed + 1) = Counted
         /\ uart.fifo # <<>> => /\ Epoch(uart.fifo[1]) = Counted
                                /\ Epoch(uart.fifo[Len(uart.fifo)] + 1) = Epoch(board.typed + 1)
         /\ \A i \in 1 .. Len(uart.fifo) - 1 : Epoch(uart.fifo[i + 1]) = Epoch(uart.fifo[i] + 1)

FromUsb ==
  board.on = "usb" =>
    /\ Len(usb.keys) <= board.typed
    /\ \A i \in DOMAIN usb.keys : usb.keys[i] = board.typed - Len(usb.keys) + i
    /\ Epoch(board.typed - Len(usb.keys) + 1) = ghost.done

ConsoleInv == /\ KeysTyped /\ Limits /\ TextTyped /\ Hands /\ Heard /\ Announced
              /\ Order /\ Interrupts /\ FromSerial /\ FromUsb
-----------------------------------------------------------------------------
\* The sizes are those of queues that hold something.
LEMMA Sizes ==
    /\ KlogMax \in Nat /\ Reserva \in Nat /\ Chunk \in Nat \ {0} /\ LineMax \in Nat /\ LineMax > 1
    /\ RxMax \in Nat /\ FifoMax \in Nat /\ BufMax \in Nat \ {0} /\ Room \in Nat \ {0}
    /\ ReadSizes \subseteq Nat \ {0} /\ KlogMax > Reserva + 2
BY ConsoleAssumption

\* How many interruptions were typed before a key.
LEMMA EpochIs ==
    ASSUME NEW k \in Keys
    PROVE  Epoch(k) \in Nat /\ IsFiniteSet({j \in 1 .. k - 1 : Kind(j) = "sig"})
<1>1. IsFiniteSet(1 .. k - 1)
  BY FS_Interval DEF Keys
<1>2. IsFiniteSet({j \in 1 .. k - 1 : Kind(j) = "sig"})
  BY <1>1, FS_Subset
<1>3. QED
  BY <1>2, FS_CardinalityType DEF Epoch

\* A later key has as many before it.
LEMMA EpochGrows ==
    ASSUME NEW k \in Keys, NEW m \in Keys, k <= m
    PROVE  Epoch(k) <= Epoch(m)
<1>1. {j \in 1 .. k - 1 : Kind(j) = "sig"} \subseteq {j \in 1 .. m - 1 : Kind(j) = "sig"}
  BY DEF Keys
<1>2. QED
  BY <1>1, EpochIs, FS_Subset DEF Epoch

\* A ^C is counted from the key that follows it.
LEMMA EpochNext ==
    ASSUME NEW k \in Keys
    PROVE  /\ Kind(k) = "sig" => Epoch(k + 1) = Epoch(k) + 1
           /\ Kind(k) # "sig" => Epoch(k + 1) = Epoch(k)
<1> DEFINE S(n) == {j \in 1 .. n - 1 : Kind(j) = "sig"}
<1>1. Kind(k) = "sig" => S(k + 1) = S(k) \cup {k} /\ k \notin S(k)
  BY DEF Keys
<1>2. Kind(k) # "sig" => S(k + 1) = S(k)
  BY DEF Keys
<1>3. IsFiniteSet(S(k))
  BY EpochIs
<1> HIDE DEF S
<1>4. Kind(k) = "sig" => Cardinality(S(k + 1)) = Cardinality(S(k)) + 1
  BY <1>1, <1>3, FS_AddElement
<1>5. Epoch(k) = Cardinality(S(k)) /\ Epoch(k + 1) = Cardinality(S(k + 1))
  BY DEF S, Epoch
<1>6. QED
  BY <1>2, <1>4, <1>5

\* After a ^C there is one more.
LEMMA EpochSig ==
    ASSUME NEW k \in Keys, NEW m \in Keys, k < m, Kind(k) = "sig"
    PROVE  Epoch(k) + 1 <= Epoch(m)
<1>1. k + 1 \in Keys /\ k + 1 <= m
  BY DEF Keys
<1>2. Epoch(k + 1) <= Epoch(m)
  BY <1>1, EpochGrows
<1>3. QED
  BY <1>2, EpochNext

\* With none in between it is the same.
LEMMA EpochPlain ==
    ASSUME NEW k \in Keys, NEW m \in Keys, k <= m, \A j \in k .. m - 1 : Kind(j) # "sig"
    PROVE  Epoch(m) = Epoch(k)
<1>1. {j \in 1 .. k - 1 : Kind(j) = "sig"} = {j \in 1 .. m - 1 : Kind(j) = "sig"}
  BY DEF Keys
<1>2. QED
  BY <1>1 DEF Epoch

\* The count is of the script, which nobody changes.
LEMMA EpochStands ==
    ASSUME board'.script = board.script
    PROVE  \A k : Epoch(k)' = Epoch(k) /\ Kind(k)' = Kind(k)
BY DEF Epoch, Kind

\* What the order, the interruptions and the keys in hand depend on.
Held == <<board, uart.fifo, con.buf, con.sig, usb.keys, push.buf, push.n, push.sig, tty.rx,
          tty.cells, tty.n, tty.canon, reader.last, ghost.done, ghost.blurred, ghost.mixed>>

KeysInOrder == Order /\ Interrupts /\ FromSerial /\ FromUsb

\* A step that touches nothing of what they speak of keeps the four.
LEMMA KeysStand ==
    ASSUME KeysInOrder, UNCHANGED Held, push'.pc = "store" <=> push.pc = "store",
           con'.any => con.any, push'.any => push.any
    PROVE  KeysInOrder'
<1>1. /\ board' = board /\ uart'.fifo = uart.fifo /\ usb'.keys = usb.keys
      /\ con'.buf = con.buf /\ con'.sig = con.sig
      /\ push'.buf = push.buf /\ push'.n = push.n /\ push'.sig = push.sig
      /\ tty'.rx = tty.rx /\ tty'.cells = tty.cells /\ tty'.n = tty.n /\ tty'.canon = tty.canon
      /\ reader'.last = reader.last
      /\ ghost'.done = ghost.done /\ ghost'.blurred = ghost.blurred /\ ghost'.mixed = ghost.mixed
  BY DEF Held
<1>2. InLine' = InLine /\ (Valid' <=> Valid)
  BY <1>1 DEF InLine, Valid
<1>3. \A k : (New(k)' <=> New(k)) /\ (Fresh(k)' <=> Fresh(k)) /\ Epoch(k)' = Epoch(k)
  BY <1>1 DEF New, Fresh, Epoch, Kind
<1>4. Order'
  BY <1>1, <1>2, <1>3 DEF KeysInOrder, Order, AllNew, Sorted, Below
<1>5. Interrupts'
  BY <1>1, <1>2, <1>3 DEF KeysInOrder, Interrupts, AllFresh
<1>6. FromSerial' /\ FromUsb'
  BY <1>1, <1>3 DEF KeysInOrder, FromSerial, FromUsb, Counted
<1>7. QED
  BY <1>4, <1>5, <1>6 DEF KeysInOrder

\* Nothing has been typed and nothing is in hand.
LEMMA InitConsole == Init => ConsoleInv
<1> SUFFICES ASSUME Init PROVE ConsoleInv
  OBVIOUS
<1>1. PICK s \in Scenes :
        /\ board = [script |-> s.script, on |-> s.on, texts |-> s.texts, typed |-> 0]
        /\ left = s.left
        /\ uart = [fifo |-> <<>>, ris |-> FALSE, open |-> TRUE, owned |-> ~s.boot, desviar |-> ~s.boot]
        /\ con = [pc |-> IF s.boot THEN "boot" ELSE "icr", buf |-> <<>>, sig |-> 0, any |-> FALSE,
                  irq |-> FALSE, text |-> <<>>, n |-> 0, empty |-> FALSE]
  BY DEF Init
<1>2. /\ s.script \in Seq(Kinds) /\ s.on \in {"serial", "usb"} /\ s.texts \in [Writers -> Seq(Nat)]
      /\ s.left \in Bounds /\ s.boot \in BOOLEAN
  BY ConsoleAssumption
<1>3. /\ mail = <<>> /\ usb = [pc |-> "rest", keys |-> <<>>]
      /\ push = [pc |-> "no", irq |-> FALSE, buf |-> <<>>, n |-> 0, thrown |-> FALSE,
                 sig |-> 0, any |-> FALSE]
      /\ tty = [cells |-> [i \in 1 .. LineMax |-> 0], n |-> 0, rx |-> <<>>, eof |-> FALSE,
                canon |-> TRUE]
      /\ reader = [pc |-> "out", n |-> 0, last |-> 0]
      /\ klog = <<>> /\ avisado = FALSE /\ perdidos = FALSE
      /\ avisar = [c \in Callers |-> "no"] /\ lock = Nobody
      /\ writer = [w \in Writers |-> [pc |-> IF Texts[w] = <<>> THEN "done" ELSE "call", i |-> 0,
                                      torn |-> FALSE]]
      /\ ghost = [late |-> {}, crossed |-> FALSE, done |-> 0, blurred |-> FALSE, mixed |-> FALSE]
  BY DEF Init
<1>4. KeysTyped
  <2>1. board \in Scripts /\ board.typed <= Len(board.script)
    BY <1>1, <1>2 DEF Scripts
  <2>2. uart \in Uarts
    BY <1>1, <1>2 DEF Uarts
  <2>3. con \in Drivers
    BY <1>1, <1>2 DEF Drivers, ConPcs
  <2>4. tty \in Ttys
    BY <1>3, ConsoleAssumption DEF Ttys
  <2>5. usb \in Usbs /\ push \in Pushed /\ reader \in Readers /\ ghost \in Ghosts
    BY <1>3 DEF Usbs, Pushed, PushPcs, Readers, Ghosts
  <2>6. QED
    BY <1>1, <1>2, <1>3, <2>1, <2>2, <2>3, <2>4, <2>5 DEF KeysTyped
<1>5. Limits /\ Hands /\ Heard
  <2>1. Limits
    BY <1>1, <1>3, Sizes DEF Limits
  <2>2. Hands
    BY <1>1, <1>2, <1>3 DEF Hands
  <2>3. Heard
    BY <1>1, <1>3 DEF Heard
  <2>4. QED
    BY <2>1, <2>2, <2>3
<1>6. TextTyped
  <2>1. writer \in [Writers -> Pens] /\ \A w \in Writers : writer[w].i \in 0 .. Len(Texts[w])
    BY <1>1, <1>2, <1>3 DEF Pens, Texts
  <2>2. avisado \in BOOLEAN /\ perdidos \in BOOLEAN
    BY <1>3, Zenon
  <2>3. /\ mail \in Seq({"klog", "irq", "print"}) /\ Len(mail) <= Room
        /\ klog \in Seq(Piece) /\ Len(klog) <= KlogMax
    BY <1>3, Sizes
  <2>4. avisar \in [Callers -> {"no", "lower", "notify", "raise"}] /\ lock \in Writers \cup {Nobody}
    BY <1>3
  <2>5. QED
    BY <2>1, <2>2, <2>3, <2>4 DEF TextTyped
<1>7. Announced
  BY <1>1, <1>3 DEF Announced, Coming, Busy
<1>8. Order
  BY <1>1, <1>3 DEF Order, Sorted, Below, AllNew, New, InLine, Valid
<1>9. Epoch(1) = 0
  <2>1. {j \in 1 .. 1 - 1 : Kind(j) = "sig"} = {}
    OBVIOUS
  <2>2. QED
    BY <2>1, FS_EmptySet DEF Epoch
<1>10. Interrupts /\ FromSerial /\ FromUsb
  BY <1>1, <1>3, <1>9 DEF Interrupts, FromSerial, FromUsb, AllFresh, InLine, Valid, Counted
<1>11. QED
  BY <1>4, <1>5, <1>6, <1>7, <1>8, <1>10 DEF ConsoleInv
-----------------------------------------------------------------------------
\* Whether some of it was lost is a flag.
LEMMA SaidLost ==
    ASSUME perdidos \in BOOLEAN, NEW es, Said(es)
    PROVE  perdidos' \in BOOLEAN
<1> DEFINE fits == IF uart.desviar THEN KlogMax - Len(klog) ELSE Len(es)
<1>1. perdidos' = (perdidos \/ Len(es) > fits)
  BY DEF Said
<1> HIDE DEF fits
<1>2. QED
  BY <1>1, Zenon

\* What a text puts in the log is of the right kind, and finds room.
LEMMA SaidKeeps ==
    ASSUME TextTyped, NEW es \in Seq(Piece), Said(es)
    PROVE  klog' \in Seq(Piece) /\ Len(klog') <= KlogMax /\ perdidos' \in BOOLEAN
<1>0. perdidos' \in BOOLEAN
  BY SaidLost DEF TextTyped
<1>1. klog \in Seq(Piece) /\ Len(klog) <= KlogMax /\ Len(klog) \in Nat /\ Len(es) \in Nat
  BY DEF TextTyped
<1>2. CASE uart.desviar
  <2>1. PICK n \in 0 .. Len(es) : n <= KlogMax - Len(klog) /\ klog' = klog \o SubSeq(es, 1, n)
    <3>1. PICK m \in Nat : m = KlogMax - Len(klog)
      BY <1>1, Sizes
    <3>2. klog' = klog \o SubSeq(es, 1, IF Len(es) < m THEN Len(es) ELSE m)
      BY <1>2, <3>1 DEF Said
    <3>3. CASE Len(es) < m
      BY <1>1, <3>1, <3>2, <3>3, SMTT(40)
    <3>4. CASE ~(Len(es) < m)
      <4>1. klog' = klog \o SubSeq(es, 1, m)
        BY <3>2, <3>4
      <4>2. m \in 0 .. Len(es) /\ m <= KlogMax - Len(klog)
        BY <1>1, <3>1, <3>4
      <4>3. QED
        BY <4>1, <4>2
    <3>5. QED
      BY <3>3, <3>4
  <2>2. SubSeq(es, 1, n) \in Seq(Piece) /\ Len(SubSeq(es, 1, n)) = n
    BY <1>1
  <2>3. QED
    <3>1. klog' \in Seq(Piece) /\ Len(klog') = Len(klog) + n
      BY <1>1, <2>1, <2>2
    <3>2. QED
      BY <1>0, <1>1, <2>1, <3>1, Sizes
<1>3. CASE ~uart.desviar
  <2>1. klog' = klog
    BY <1>3 DEF Said
  <2>2. QED
    BY <1>0, <1>1, <2>1
<1>4. QED
  BY <1>2, <1>3

\* A text of the kernel is such a text.
LEMMA KernelTextKeeps ==
    ASSUME TextTyped, NEW n \in Nat, KernelText(n)
    PROVE  klog' \in Seq(Piece) /\ Len(klog') <= KlogMax /\ perdidos' \in BOOLEAN
<1> DEFINE es == [j \in 1 .. n |-> [by |-> Nobody, i |-> 0]]
<1>1. es \in Seq(Piece)
  BY DEF Piece
<1>2. Said(es)
  BY DEF KernelText
<1>3. QED
  BY <1>1, <1>2, SaidKeeps

\* A notice goes to the end of the mail.
LEMMA Posts ==
    ASSUME TextTyped, NEW what \in {"klog", "irq", "print"}, Posted(what)
    PROVE  /\ mail' \in Seq({"klog", "irq", "print"}) /\ Len(mail') <= Room
           /\ \A i \in DOMAIN mail : i \in DOMAIN mail' /\ mail'[i] = mail[i]
           /\ \E i \in DOMAIN mail' : mail'[i] = what
<1>1. mail \in Seq({"klog", "irq", "print"}) /\ Len(mail) < Room /\ mail' = Append(mail, what)
  BY DEF TextTyped, Posted
<1>2. Len(mail) \in Nat /\ Len(mail') = Len(mail) + 1 /\ mail'[Len(mail) + 1] = what
  BY <1>1
<1>3. QED
  BY <1>1, <1>2, Sizes

\* Who has not to do with the keys leaves them as they are.
LEMMA KeysUntouched ==
    ASSUME ConsoleInv, UNCHANGED <<board, uart, con, usb, push, tty, reader>>, left' \in Bounds,
           ghost' \in Ghosts,
           ghost'.done = ghost.done, ghost'.blurred = ghost.blurred, ghost'.mixed = ghost.mixed,
           \A i \in DOMAIN mail : i \in DOMAIN mail' /\ mail'[i] = mail[i]
    PROVE  KeysTyped' /\ Limits' /\ Hands' /\ Heard' /\ KeysInOrder'
<1>1. KeysTyped' /\ Limits' /\ Hands'
  BY DEF ConsoleInv, KeysTyped, Limits, Hands
<1>2. Heard'
  BY DEF ConsoleInv, Heard
<1>3. KeysInOrder'
  BY KeysStand DEF ConsoleInv, KeysInOrder, Held
<1>4. QED
  BY <1>1, <1>2, <1>3

\* Who has not to do with notices leaves them as they are.
LEMMA NoticesUntouched ==
    ASSUME Announced, UNCHANGED <<avisar, avisado>>,
           ghost'.late = ghost.late, ghost'.crossed = ghost.crossed, con' = con,
           \A i \in DOMAIN mail : i \in DOMAIN mail' /\ mail'[i] = mail[i]
    PROVE  Announced'
BY DEF Announced, Coming, Busy

\* A writer takes consola_lock, puts what it can, sleeps, and goes on.
LEMMA WriterKeeps ==
    ASSUME ConsoleInv, NEW w \in Writers,
           \/ Escribe(w) \/ Elige(w) \/ Directo(w) \/ DirectoTarde(w)
           \/ Mete(w) \/ Espera(w) \/ Vuelve(w)
    PROVE  ConsoleInv'
<1>1. UNCHANGED <<board, uart, mail, con, usb, push, tty, reader, avisado, avisar, ghost, left>>
  BY DEF Escribe, Elige, Directo, DirectoTarde, Mete, Espera, Vuelve, keyVars
<1>2. KeysTyped' /\ Limits' /\ Hands' /\ Heard' /\ KeysInOrder'
  BY <1>1, KeysUntouched DEF ConsoleInv, KeysTyped
<1>3. Announced'
  BY <1>1, NoticesUntouched DEF ConsoleInv
<1>4. writer[w] \in Pens /\ writer[w].i \in 0 .. Len(Texts[w]) /\ Texts[w] \in Seq(Nat)
  BY DEF ConsoleInv, TextTyped, KeysTyped, Scripts, Texts
<1>5. writer' \in [Writers -> Pens] /\ \A v \in Writers : writer'[v].i \in 0 .. Len(Texts[v])
  <2>1. PICK p : writer' = [writer EXCEPT ![w] = p] /\ p \in Pens /\ p.i \in 0 .. Len(Texts[w])
    <3>1. CASE Escribe(w) \/ Elige(w) \/ Espera(w) \/ Vuelve(w)
      <4>1. PICK c \in {"begin", "put", "hw", "asleep", "done"} :
              writer' = [writer EXCEPT ![w].pc = c]
        BY <3>1 DEF Escribe, Elige, Espera, Vuelve
      <4>2. [writer[w] EXCEPT !.pc = c] \in Pens /\ [writer[w] EXCEPT !.pc = c].i = writer[w].i
        BY <1>4 DEF Pens
      <4>3. writer' = [writer EXCEPT ![w] = [writer[w] EXCEPT !.pc = c]]
        BY <4>1
      <4>4. QED
        BY <1>4, <4>2, <4>3
    <3>2. CASE Directo(w)
      <4>1. writer' = [writer EXCEPT ![w].pc = "ret", ![w].i = Len(Texts[w])]
        BY <3>2 DEF Directo
      <4>6. PICK j \in 0 .. Len(Texts[w]) : j = Len(Texts[w]) /\ j \in Nat
        BY <1>4
      <4>2. PICK p : p = [writer[w] EXCEPT !.pc = "ret", !.i = j]
        OBVIOUS
      <4>3. p \in Pens /\ p.i \in 0 .. Len(Texts[w])
        BY <1>4, <4>2, <4>6 DEF Pens
      <4>4. writer' = [writer EXCEPT ![w] = p]
        BY <4>1, <4>2, <4>6
      <4>5. QED
        BY <4>3, <4>4
    <3>3. CASE Mete(w)
      <4>1. PICK j \in Whole(w) :
              writer' = [writer EXCEPT ![w].pc = IF j = Len(Texts[w]) THEN "ret" ELSE "full",
                                       ![w].i = j]
        BY <3>3 DEF Mete
      <4>2. j \in 0 .. Len(Texts[w]) /\ j \in Nat
        BY <1>4 DEF Whole
      <4>3. PICK c \in {"ret", "full"} : c = IF j = Len(Texts[w]) THEN "ret" ELSE "full"
        OBVIOUS
      <4>4. PICK p : p = [writer[w] EXCEPT !.pc = c, !.i = j]
        OBVIOUS
      <4>5. p \in Pens /\ p.i \in 0 .. Len(Texts[w])
        BY <1>4, <4>2, <4>4 DEF Pens
      <4>6. writer' = [writer EXCEPT ![w] = p]
        BY <4>1, <4>3, <4>4
      <4>7. QED
        BY <4>5, <4>6
    <3>4. CASE DirectoTarde(w)
      <4>1. PICK c \in {"ret", "hw"} :
              /\ writer[w].i < Len(Texts[w])
              /\ writer' = [writer EXCEPT ![w].pc = c, ![w].i = writer[w].i + 1, ![w].torn = TRUE]
        BY <3>4 DEF DirectoTarde
      <4>6. PICK j \in 0 .. Len(Texts[w]) : j = writer[w].i + 1 /\ j \in Nat
        <5>1. Len(Texts[w]) \in Nat /\ writer[w].i \in Nat /\ writer[w].i + 1 <= Len(Texts[w])
          BY <1>4, <4>1
        <5>2. QED
          BY <5>1
      <4>7. PICK x \in BOOLEAN : x = TRUE
        OBVIOUS
      <4>2. PICK p : p = [writer[w] EXCEPT !.pc = c, !.i = j, !.torn = x]
        OBVIOUS
      <4>3. p \in Pens /\ p.i \in 0 .. Len(Texts[w])
        BY <1>4, <4>2, <4>6 DEF Pens
      <4>4. writer' = [writer EXCEPT ![w] = p]
        BY <4>1, <4>2, <4>6, <4>7
      <4>5. QED
        BY <4>3, <4>4
    <3>5. QED
      BY <3>1, <3>2, <3>3, <3>4
  <2>2. QED
    BY <2>1 DEF ConsoleInv, TextTyped
<1>6. klog' \in Seq(Piece) /\ Len(klog') <= KlogMax /\ perdidos' \in BOOLEAN
  <2>1. CASE Mete(w)
    <3>1. PICK j \in Whole(w) : Said(Pieces(w, writer[w].i, j)) /\ j \in Nat
      BY <1>4, <2>1 DEF Mete, Whole
    <3>2. Pieces(w, writer[w].i, j) \in Seq(Piece)
      <4>1. PICK n : n = j - writer[w].i
        OBVIOUS
      <4>2. n \in Int /\ \A x \in 1 .. n : writer[w].i + x \in Nat
        BY <1>4, <3>1, <4>1
      <4>3. Pieces(w, writer[w].i, j) = [x \in 1 .. n |-> [by |-> w, i |-> writer[w].i + x]]
        BY <4>1 DEF Pieces
      <4>4. PICK m \in Nat : 1 .. n = 1 .. m
        <5>1. CASE n \in Nat
          BY <5>1
        <5>2. CASE n \notin Nat
          <6>1. 1 .. n = 1 .. 0
            BY <4>2, <5>2
          <6>2. QED
            BY <6>1
        <5>3. QED
          BY <5>1, <5>2
      <4>5. \A x \in 1 .. n : [by |-> w, i |-> writer[w].i + x] \in Piece
        BY <4>2 DEF Piece
      <4>6. Pieces(w, writer[w].i, j) \in [1 .. m -> Piece]
        BY ONLY <4>3, <4>4, <4>5, Zenon
      <4>7. QED
        BY ONLY <4>4, <4>6
    <3>3. QED
      BY <3>1, <3>2, SaidKeeps DEF ConsoleInv
  <2>2. CASE ~Mete(w)
    <3>1. UNCHANGED <<klog, perdidos>>
      BY <2>2 DEF Escribe, Elige, Directo, DirectoTarde, Espera, Vuelve
    <3>2. QED
      BY <3>1, ZenonT(30) DEF ConsoleInv, TextTyped
  <2>3. QED
    BY <2>1, <2>2
<1>7. lock' \in Writers \cup {Nobody}
  BY DEF Escribe, Elige, Directo, DirectoTarde, Mete, Espera, Vuelve, ConsoleInv, TextTyped
<1>8. Texts' = Texts
  BY <1>1 DEF Texts
<1>9. TextTyped'
  BY <1>1, <1>5, <1>6, <1>7, <1>8 DEF ConsoleInv, TextTyped
<1>10. QED
  BY <1>2, <1>3, <1>9 DEF ConsoleInv, KeysInOrder

\* The kernel says something of its own.
LEMMA KernelWritesKeeps == ASSUME ConsoleInv, KernelWrites PROVE ConsoleInv'
<1>1. /\ KernelText(1) /\ left.kernel > 0 /\ left' = [left EXCEPT !.kernel = @ - 1]
      /\ UNCHANGED <<board, uart, mail, con, usb, push, tty, reader, avisado, avisar, lock, writer, ghost>>
  BY DEF KernelWrites, keyVars
<1>2. left' \in Bounds
  BY <1>1 DEF ConsoleInv, KeysTyped, Bounds
<1>3. KeysTyped' /\ Limits' /\ Hands' /\ Heard' /\ KeysInOrder'
  BY <1>1, <1>2, KeysUntouched DEF ConsoleInv, KeysTyped
<1>4. Announced'
  BY <1>1, NoticesUntouched DEF ConsoleInv
<1>5. klog' \in Seq(Piece) /\ Len(klog') <= KlogMax /\ perdidos' \in BOOLEAN
  BY <1>1, KernelTextKeeps DEF ConsoleInv
<1>6. TextTyped'
  BY <1>1, <1>5 DEF ConsoleInv, TextTyped, Texts
<1>7. QED
  BY <1>3, <1>4, <1>6 DEF ConsoleInv, KeysInOrder

\* A process prints through the driver.
LEMMA ImprimeKeeps == ASSUME ConsoleInv, Imprime PROVE ConsoleInv'
<1>1. /\ Posted("print") /\ left.prints > 0 /\ left' = [left EXCEPT !.prints = @ - 1]
      /\ UNCHANGED <<board, uart, con, usb, push, tty, reader, klog, avisado, perdidos, avisar, lock,
                     writer, ghost>>
  BY DEF Imprime, keyVars, textVars
<1>2. left' \in Bounds
  BY <1>1 DEF ConsoleInv, KeysTyped, Bounds
<1>3. /\ mail' \in Seq({"klog", "irq", "print"}) /\ Len(mail') <= Room
      /\ \A i \in DOMAIN mail : i \in DOMAIN mail' /\ mail'[i] = mail[i]
  BY <1>1, Posts DEF ConsoleInv
<1>4. KeysTyped' /\ Limits' /\ Hands' /\ Heard' /\ KeysInOrder'
  BY <1>1, <1>2, <1>3, KeysUntouched DEF ConsoleInv, KeysTyped
<1>5. Announced'
  BY <1>1, <1>3, NoticesUntouched DEF ConsoleInv
<1>6. TextTyped'
  BY <1>1, <1>3 DEF ConsoleInv, TextTyped, Texts
<1>7. QED
  BY <1>4, <1>5, <1>6 DEF ConsoleInv, KeysInOrder

\* klog_avisar(), whoever runs it.  A flag that goes up has its notice in the
\* mail, or the driver that has taken it at work, unless klog_entregado() came
\* in between: then it is late.
LEMMA AvisarKeeps ==
    ASSUME ConsoleInv, NEW c \in Callers, UNCHANGED con,
           \/ Mira(c) /\ UNCHANGED <<avisado, mail, ghost>>
           \/ Avisa(c)
    PROVE  /\ avisar' \in [Callers -> {"no", "lower", "notify", "raise"}] /\ avisado' \in BOOLEAN
           /\ ghost' \in Ghosts /\ ghost'.done = ghost.done /\ ghost'.blurred = ghost.blurred
           /\ ghost'.mixed = ghost.mixed
           /\ mail' \in Seq({"klog", "irq", "print"}) /\ Len(mail') <= Room
           /\ \A i \in DOMAIN mail : i \in DOMAIN mail' /\ mail'[i] = mail[i]
           /\ Announced'
<1>1. /\ avisar \in [Callers -> {"no", "lower", "notify", "raise"}] /\ avisado \in BOOLEAN
      /\ mail \in Seq({"klog", "irq", "print"}) /\ Len(mail) <= Room /\ ghost \in Ghosts /\ Announced
  BY DEF ConsoleInv, TextTyped, KeysTyped
<1>2. CASE Mira(c) /\ UNCHANGED <<avisado, mail, ghost>>
  <2>1. PICK s \in {"no", "lower", "notify"} : avisar' = [avisar EXCEPT ![c] = s]
    BY <1>2 DEF Mira
  <2>2. Announced'
    BY <1>1, <1>2, <2>1 DEF Announced, Coming, Busy
  <2>3. avisado' \in BOOLEAN
    BY <1>1, <1>2, Zenon
  <2>4. QED
    BY <1>1, <1>2, <2>1, <2>2, <2>3
<1>3. CASE avisar[c] = "lower" /\ avisado' = FALSE /\ avisar' = [avisar EXCEPT ![c] = "no"]
           /\ ghost' = [ghost EXCEPT !.crossed = FALSE] /\ UNCHANGED mail
  <2>1. Announced'
    BY <1>1, <1>3 DEF Announced, Coming, Busy, Ghosts
  <2>2. QED
    BY <1>1, <1>3, <2>1 DEF Ghosts
<1>4. CASE avisar[c] = "notify" /\ Posted("klog") /\ avisar' = [avisar EXCEPT ![c] = "raise"]
           /\ ghost' = [ghost EXCEPT !.late = @ \ {c}] /\ UNCHANGED avisado
  <2>1. /\ mail' \in Seq({"klog", "irq", "print"}) /\ Len(mail') <= Room
        /\ \A i \in DOMAIN mail : i \in DOMAIN mail' /\ mail'[i] = mail[i]
        /\ \E i \in DOMAIN mail' : mail'[i] = "klog"
    BY <1>4, Posts DEF ConsoleInv
  <2>2. Announced'
    BY <1>1, <2>1 DEF Announced, Coming
  <2>3. ghost' \in Ghosts /\ ghost'.done = ghost.done /\ ghost'.blurred = ghost.blurred
        /\ ghost'.mixed = ghost.mixed
    BY <1>1, <1>4 DEF Ghosts
  <2>4. avisado' \in BOOLEAN
    BY <1>1, <1>4, Zenon
  <2>5. QED
    BY <1>1, <1>4, <2>1, <2>2, <2>3, <2>4
<1>5. CASE avisar[c] = "notify" /\ avisar' = [avisar EXCEPT ![c] = "no"]
           /\ UNCHANGED <<avisado, mail, ghost>>
  <2>1. Announced'
    BY <1>1, <1>5 DEF Announced, Coming, Busy
  <2>2. avisado' \in BOOLEAN
    BY <1>1, <1>5, Zenon
  <2>3. QED
    BY <1>1, <1>5, <2>1, <2>2
<1>6. CASE avisar[c] = "raise" /\ avisado' = TRUE /\ avisar' = [avisar EXCEPT ![c] = "no"]
           /\ ghost' = [ghost EXCEPT !.crossed = @ \/ c \in ghost.late] /\ UNCHANGED mail
  <2>1. PICK b \in BOOLEAN : b = (ghost.crossed \/ c \in ghost.late)
    BY Zenon
  <2>2. ghost' = [ghost EXCEPT !.crossed = b]
    BY <1>6, <2>1
  <2>3. ghost' \in Ghosts /\ ghost'.done = ghost.done /\ ghost'.blurred = ghost.blurred
        /\ ghost'.mixed = ghost.mixed /\ ghost'.late = ghost.late /\ ghost'.crossed = b
    BY <1>1, <2>2 DEF Ghosts
  <2>4. c \in ghost.late \/ Coming
    BY <1>1, <1>6 DEF Announced
  <2>5. Coming' <=> Coming
    BY <1>6 DEF Coming, Busy
  <2>6. Announced'
    BY <1>1, <1>6, <2>1, <2>3, <2>4, <2>5 DEF Announced
  <2>7. QED
    BY <1>1, <1>6, <2>3, <2>6
<1>7. QED
  BY <1>2, <1>3, <1>4, <1>5, <1>6 DEF Avisa

\* The clock of a core.
LEMMA TickKeeps == ASSUME ConsoleInv, NEW c \in Cores, Tick(c) PROVE ConsoleInv'
<1>1. /\ UNCHANGED <<board, uart, con, usb, push, tty, reader, klog, perdidos, lock, writer, left>>
      /\ \/ Mira(c) /\ UNCHANGED <<avisado, mail, ghost>>
         \/ Avisa(c)
  BY DEF Tick, keyVars
<1>2. c \in Callers
  BY DEF Callers
<1>3. /\ avisar' \in [Callers -> {"no", "lower", "notify", "raise"}] /\ avisado' \in BOOLEAN
      /\ ghost' \in Ghosts /\ ghost'.done = ghost.done /\ ghost'.blurred = ghost.blurred
      /\ ghost'.mixed = ghost.mixed
      /\ mail' \in Seq({"klog", "irq", "print"}) /\ Len(mail') <= Room
      /\ \A i \in DOMAIN mail : i \in DOMAIN mail' /\ mail'[i] = mail[i]
      /\ Announced'
  BY <1>1, <1>2, AvisarKeeps
<1>4. KeysTyped' /\ Limits' /\ Hands' /\ Heard' /\ KeysInOrder'
  BY <1>1, <1>3, KeysUntouched DEF ConsoleInv, KeysTyped
<1>5. perdidos' \in BOOLEAN
  BY <1>1, ZenonT(30) DEF ConsoleInv, TextTyped
<1>6. TextTyped'
  BY <1>1, <1>3, <1>5 DEF ConsoleInv, TextTyped, Texts
<1>7. QED
  BY <1>3, <1>4, <1>6 DEF ConsoleInv, KeysInOrder
-----------------------------------------------------------------------------
\* A piece of a sequence, which keeps what the whole has.
PieceOf(t, s) == \E d \in Nat : \A i \in DOMAIN t : i + d \in DOMAIN s /\ t[i] = s[i + d]

\* The pieces that the code takes of a sequence: its tail, a beginning, an end.
LEMMA PiecesOf ==
    ASSUME NEW X, NEW s \in Seq(X)
    PROVE  /\ PieceOf(s, s) /\ PieceOf(<<>>, s)
           /\ s # <<>> => /\ PieceOf(Tail(s), s) /\ Tail(s) \in Seq(X) /\ Len(Tail(s)) = Len(s) - 1
                          /\ 1 \in DOMAIN s /\ Head(s) = s[1] /\ s[1] \in X
                          /\ \A i \in DOMAIN Tail(s) : i + 1 \in DOMAIN s /\ Tail(s)[i] = s[i + 1]
           /\ \A n \in 0 .. Len(s) :
                /\ PieceOf(SubSeq(s, n + 1, Len(s)), s) /\ PieceOf(SubSeq(s, 1, n), s)
                /\ SubSeq(s, n + 1, Len(s)) \in Seq(X) /\ SubSeq(s, 1, n) \in Seq(X)
                /\ Len(SubSeq(s, n + 1, Len(s))) = Len(s) - n /\ Len(SubSeq(s, 1, n)) = n
                /\ \A i \in 1 .. n : SubSeq(s, 1, n)[i] = s[i]
                /\ \A i \in 1 .. Len(s) - n : SubSeq(s, n + 1, Len(s))[i] = s[i + n]
<1>1. PieceOf(s, s) /\ PieceOf(<<>>, s)
  <2>1. \A i \in DOMAIN s : i + 0 \in DOMAIN s /\ s[i] = s[i + 0]
    OBVIOUS
  <2>2. \A i \in DOMAIN <<>> : FALSE
    OBVIOUS
  <2>3. PieceOf(s, s)
    BY <2>1 DEF PieceOf
  <2>4. PieceOf(<<>>, s)
    <3>1. 0 \in Nat /\ \A i \in DOMAIN <<>> : i + 0 \in DOMAIN s /\ <<>>[i] = s[i + 0]
      BY <2>2
    <3>2. QED
      BY <3>1 DEF PieceOf
  <2>5. QED
    BY <2>3, <2>4
<1>2. ASSUME s # <<>>
      PROVE  /\ PieceOf(Tail(s), s) /\ Tail(s) \in Seq(X) /\ Len(Tail(s)) = Len(s) - 1
             /\ 1 \in DOMAIN s /\ Head(s) = s[1] /\ s[1] \in X
             /\ \A i \in DOMAIN Tail(s) : i + 1 \in DOMAIN s /\ Tail(s)[i] = s[i + 1]
  <2>1. \A i \in DOMAIN Tail(s) : i + 1 \in DOMAIN s /\ Tail(s)[i] = s[i + 1]
    BY <1>2
  <2>2. QED
    BY <1>2, <2>1 DEF PieceOf
<1>3. ASSUME NEW n \in 0 .. Len(s)
      PROVE  /\ PieceOf(SubSeq(s, n + 1, Len(s)), s) /\ PieceOf(SubSeq(s, 1, n), s)
             /\ SubSeq(s, n + 1, Len(s)) \in Seq(X) /\ SubSeq(s, 1, n) \in Seq(X)
             /\ Len(SubSeq(s, n + 1, Len(s))) = Len(s) - n /\ Len(SubSeq(s, 1, n)) = n
             /\ \A i \in 1 .. n : SubSeq(s, 1, n)[i] = s[i]
             /\ \A i \in 1 .. Len(s) - n : SubSeq(s, n + 1, Len(s))[i] = s[i + n]
  <2>1. /\ SubSeq(s, 1, n) \in Seq(X) /\ Len(SubSeq(s, 1, n)) = n
        /\ \A i \in 1 .. n : SubSeq(s, 1, n)[i] = s[i]
    BY <1>3
  <2>2. /\ SubSeq(s, n + 1, Len(s)) \in Seq(X) /\ Len(SubSeq(s, n + 1, Len(s))) = Len(s) - n
        /\ \A i \in 1 .. Len(s) - n : SubSeq(s, n + 1, Len(s))[i] = s[i + n]
    BY <1>3
  <2>3. \A i \in DOMAIN SubSeq(s, 1, n) : i + 0 \in DOMAIN s /\ SubSeq(s, 1, n)[i] = s[i + 0]
    BY <2>1
  <2>4. \A i \in DOMAIN SubSeq(s, n + 1, Len(s)) :
           i + n \in DOMAIN s /\ SubSeq(s, n + 1, Len(s))[i] = s[i + n]
    BY <2>2
  <2>5. QED
    BY <2>1, <2>2, <2>3, <2>4 DEF PieceOf
<1>4. QED
  BY <1>1, <1>2, <1>3

\* What a piece has of its sequence.
LEMMA Inherited ==
    ASSUME NEW X, NEW s \in Seq(Nat), NEW t, DOMAIN t \subseteq Nat, PieceOf(t, s)
    PROVE  /\ Sorted(s) => Sorted(t)
           /\ \A u : Below(s, u) => Below(t, u)
           /\ \A u : Below(u, s) => Below(u, t)
           /\ AllNew(s) => AllNew(t)
           /\ AllFresh(s) => AllFresh(t)
<1>1. PICK d \in Nat : \A i \in DOMAIN t : i + d \in DOMAIN s /\ t[i] = s[i + d]
  BY DEF PieceOf
<1>2. Sorted(s) => Sorted(t)
  <2>1. \A i, j \in DOMAIN t : i < j => i + d < j + d
    OBVIOUS
  <2>2. QED
    BY <1>1, <2>1 DEF Sorted
<1>3. QED
  BY <1>1, <1>2 DEF Below, AllNew, AllFresh

\* Keys leave uart_push() and nothing is done with them.
LEMMA KeysDropped ==
    ASSUME KeysInOrder, push.buf \in Seq(Keys), push'.buf \in Seq(Keys), PieceOf(push'.buf, push.buf),
           UNCHANGED <<board, uart, con, usb, tty, reader, ghost>>,
           push'.sig = push.sig, push'.any = push.any,
           InLine' = InLine, Valid' <=> Valid,
           push'.pc = "store" => tty.n <= push'.n /\ push'.n < LineMax - 1
    PROVE  KeysInOrder'
<1>1. \A k : (New(k)' <=> New(k)) /\ (Fresh(k)' <=> Fresh(k)) /\ Epoch(k)' = Epoch(k)
  BY DEF New, Fresh, Epoch, Kind
<1>2. push.buf \in Seq(Nat) /\ DOMAIN push'.buf \subseteq Nat
  BY DEF Keys
<1>3. /\ Sorted(push.buf) => Sorted(push'.buf)
      /\ \A u : Below(push.buf, u) => Below(push'.buf, u)
      /\ AllNew(push.buf) => AllNew(push'.buf)
      /\ AllFresh(push.buf) => AllFresh(push'.buf)
  BY <1>2, Inherited
<1>4. Order'
  <2>1. AllNew(push.buf)' <=> \A i \in DOMAIN push'.buf : New(push'.buf[i]) /\ push'.buf[i] <= board.typed
    BY <1>1 DEF AllNew
  <2>2. /\ Sorted(push'.buf) /\ Below(push'.buf, con.buf) /\ Below(push'.buf, usb.keys)
        /\ Below(push'.buf, uart.fifo) /\ AllNew(push.buf)'
    BY <1>3, <2>1 DEF KeysInOrder, Order, AllNew
  <2>3. QED
    BY <1>1, <2>2 DEF KeysInOrder, Order, AllNew, Sorted, Below
<1>5. Interrupts'
  BY <1>1, <1>3 DEF KeysInOrder, Interrupts, AllFresh
<1>6. FromSerial' /\ FromUsb'
  BY <1>1 DEF KeysInOrder, FromSerial, FromUsb, Counted
<1>7. QED
  BY <1>4, <1>5, <1>6 DEF KeysInOrder

\* A key goes from uart_push() to the line, or with the line to who reads.
LEMMA KeyGoes ==
    ASSUME ConsoleInv, push.buf # <<>>, push'.buf = Tail(push.buf), push'.pc = "key",
           push'.sig = push.sig, push'.any = push.any,
           UNCHANGED <<board, uart, con, usb, reader, ghost>>,
           tty' \in Ttys, Sorted(tty'.rx),
           \A i \in DOMAIN tty'.rx :
              \/ \E j \in DOMAIN tty.rx : tty'.rx[i] = tty.rx[j]
              \/ tty'.rx[i] = push.buf[1]
              \/ Valid /\ \E j \in 1 .. InLine : tty'.rx[i] = tty.cells[j],
           \A i \in 1 .. LineMax : tty'.cells[i] \in {tty.cells[i], push.buf[1]},
           tty'.canon /\ tty'.n # 0 =>
              /\ tty'.rx = tty.rx /\ Valid
              /\ \A i \in 1 .. tty'.n :
                   \/ i <= InLine /\ tty'.cells[i] = tty.cells[i]
                   \/ i = tty'.n /\ tty'.cells[i] = push.buf[1]
    PROVE  KeysInOrder'
<1> DEFINE k == push.buf[1]
<1>1. /\ push.buf \in Seq(Keys) /\ push'.buf \in Seq(Keys) /\ PieceOf(push'.buf, push.buf)
      /\ 1 \in DOMAIN push.buf /\ k \in Keys
      /\ \A i \in DOMAIN push'.buf : i + 1 \in DOMAIN push.buf /\ push'.buf[i] = push.buf[i + 1]
  BY PiecesOf DEF ConsoleInv, KeysTyped, Pushed
<1>2. push.buf \in Seq(Nat) /\ DOMAIN push'.buf \subseteq Nat /\ k \in Nat
  BY <1>1 DEF Keys
<1>3. Order /\ New(k) /\ Fresh(k) /\ k <= board.typed /\ Interrupts
  BY <1>1 DEF ConsoleInv, Order, AllNew, Interrupts, AllFresh
<1>4. tty \in Ttys /\ reader.last \in Nat /\ board.typed \in Nat /\ InLine <= LineMax /\ InLine \in Nat
  <2>1. tty \in Ttys /\ reader.last \in Nat /\ board.typed \in Nat /\ push.n \in Nat /\ tty.n \in 0 .. LineMax
    BY DEF ConsoleInv, KeysTyped, Readers, Scripts, Pushed, Ttys
  <2>2. push.pc = "store" => push.n <= LineMax
    BY <1>3, <2>1, Sizes DEF Order
  <2>3. QED
    BY <2>1, <2>2, Sizes DEF InLine
<1>5. /\ Sorted(push'.buf) /\ Below(push'.buf, con.buf) /\ Below(push'.buf, usb.keys)
      /\ Below(push'.buf, uart.fifo) /\ AllFresh(push'.buf)
      /\ \A i \in DOMAIN push'.buf : New(push'.buf[i]) /\ push'.buf[i] <= board.typed
  BY <1>1, <1>2, <1>3, Inherited, ZenonT(40) DEF Order, Interrupts, AllNew
<1>6. ASSUME NEW x, x \in Nat, New(x), k < x
      PROVE  New(x)'
  <2>1. \A i \in DOMAIN tty'.rx : tty'.rx[i] < x
    <3>1. SUFFICES ASSUME NEW i \in DOMAIN tty'.rx PROVE tty'.rx[i] < x
      OBVIOUS
    <3>2. \A j \in DOMAIN tty.rx : tty.rx[j] < x
      BY <1>6 DEF New
    <3>3. \A j \in 1 .. InLine : tty.cells[j] < x
      BY <1>4, <1>6, Sizes DEF New
    <3>4. QED
      BY <1>6, <3>2, <3>3
  <2>2. \A i \in 1 .. LineMax : tty'.cells[i] < x
    BY <1>6 DEF New
  <2>3. QED
    BY <1>6, <2>1, <2>2 DEF New
<1>7. \A i \in DOMAIN push'.buf : k < push'.buf[i] /\ push'.buf[i] \in Nat
  <2>1. \A i \in DOMAIN push'.buf : i + 1 \in DOMAIN push.buf /\ 1 < i + 1
    BY <1>1
  <2>2. QED
    BY <1>1, <1>3, <2>1 DEF Order, Sorted, Keys
<1>8. /\ \A i \in DOMAIN con.buf : k < con.buf[i] /\ con.buf[i] \in Nat
      /\ \A i \in DOMAIN usb.keys : k < usb.keys[i] /\ usb.keys[i] \in Nat
      /\ \A i \in DOMAIN uart.fifo : k < uart.fifo[i] /\ uart.fifo[i] \in Nat
      /\ k < board.typed + 1 /\ board.typed + 1 \in Nat
  <2>1. con.buf \in Seq(Keys) /\ usb.keys \in Seq(Keys) /\ uart.fifo \in Seq(Keys)
    BY DEF ConsoleInv, KeysTyped, Drivers, Usbs, Uarts
  <2>2. QED
    BY <1>1, <1>2, <1>3, <1>4, <2>1, SMTT(40) DEF Order, Below, Keys
<1>9. AllNew(push.buf)' /\ AllNew(con.buf)' /\ AllNew(usb.keys)' /\ AllNew(uart.fifo)' /\ New(board.typed + 1)'
  <2>1. AllNew(push.buf)'
    BY <1>5, <1>6, <1>7 DEF AllNew
  <2>2. AllNew(con.buf)' /\ AllNew(usb.keys)' /\ AllNew(uart.fifo)'
    BY <1>3, <1>6, <1>8 DEF Order, AllNew
  <2>3. New(board.typed + 1)'
    BY <1>3, <1>6, <1>8 DEF Order
  <2>4. QED
    BY <2>1, <2>2, <2>3
<1>10. reader.last < k /\ (\A j \in DOMAIN tty.rx : tty.rx[j] < k) /\ \A j \in 1 .. InLine : tty.cells[j] < k
  BY <1>3, <1>4, Sizes DEF New
<1>11. \A i \in DOMAIN tty'.rx : reader.last < tty'.rx[i]
  BY <1>3, <1>10 DEF Order
<1>12. Valid' <=> tty'.canon
  BY DEF Valid
<1>13. InLine' = tty'.n
  BY DEF InLine
<1>14. tty'.canon => \A i \in 1 .. tty'.n :
         /\ \A j \in 1 .. tty'.n : i < j => tty'.cells[i] < tty'.cells[j]
         /\ \A j \in DOMAIN tty'.rx : tty'.rx[j] < tty'.cells[i]
         /\ reader.last < tty'.cells[i]
         /\ Fresh(tty'.cells[i])
  <2>1. SUFFICES ASSUME tty'.canon, NEW i \in 1 .. tty'.n
                 PROVE  /\ \A j \in 1 .. tty'.n : i < j => tty'.cells[i] < tty'.cells[j]
                        /\ \A j \in DOMAIN tty'.rx : tty'.rx[j] < tty'.cells[i]
                        /\ reader.last < tty'.cells[i]
                        /\ Fresh(tty'.cells[i])
    OBVIOUS
  <2>2. /\ tty'.n \in Nat /\ tty'.rx = tty.rx /\ Valid
        /\ \A m \in 1 .. tty'.n : \/ m <= InLine /\ tty'.cells[m] = tty.cells[m]
                                  \/ m = tty'.n /\ tty'.cells[m] = k
    BY <2>1 DEF Ttys
  <2>3. \A m \in 1 .. InLine :
          /\ \A j \in 1 .. InLine : m < j => tty.cells[m] < tty.cells[j]
          /\ \A j \in DOMAIN tty.rx : tty.rx[j] < tty.cells[m]
          /\ reader.last < tty.cells[m] /\ Fresh(tty.cells[m])
    BY <1>3, <2>2 DEF Order, Interrupts
  <2>4. CASE i <= InLine /\ tty'.cells[i] = tty.cells[i]
    BY <1>4, <1>10, <2>2, <2>3, <2>4
  <2>5. CASE i = tty'.n /\ tty'.cells[i] = k
    BY <1>3, <1>10, <2>2, <2>5
  <2>6. QED
    BY <2>2, <2>4, <2>5
<1>15. Order'
  BY <1>3, <1>5, <1>9, <1>11, <1>12, <1>13, <1>14 DEF Order, Sorted, Below
<1>16. \A x : (Fresh(x)' <=> Fresh(x)) /\ Epoch(x)' = Epoch(x)
  BY DEF Fresh, Epoch, Kind
<1>17. AllFresh(tty.rx)'
  <2>1. \A i \in DOMAIN tty'.rx : Fresh(tty'.rx[i])
    BY <1>3 DEF Interrupts, AllFresh
  <2>2. QED
    BY <1>16, <2>1 DEF AllFresh
<1>18. Interrupts'
  BY <1>3, <1>5, <1>12, <1>13, <1>14, <1>16, <1>17 DEF Interrupts, AllFresh
<1>19. FromSerial' /\ FromUsb'
  BY <1>16 DEF ConsoleInv, FromSerial, FromUsb, Counted
<1>20. QED
  BY <1>15, <1>18, <1>19 DEF KeysInOrder
-----------------------------------------------------------------------------
\* rx_meter() leaves what was there, and of the new what finds room.
LEMMA MeterIs ==
    ASSUME NEW rx \in Seq(Nat), Len(rx) <= RxMax, NEW ks \in Seq(Nat)
    PROVE  /\ Meter(rx, ks) \in Seq(Nat) /\ Len(Meter(rx, ks)) <= RxMax
           /\ \E n \in 0 .. Len(ks) :
                /\ Len(Meter(rx, ks)) = Len(rx) + n
                /\ \A i \in 1 .. Len(rx) : Meter(rx, ks)[i] = rx[i]
                /\ \A j \in 1 .. n : Meter(rx, ks)[Len(rx) + j] = ks[j]
<1>1. PICK m \in Nat : m = RxMax - Len(rx)
  BY Sizes
<1>2. PICK n \in 0 .. Len(ks) : n <= m /\ Meter(rx, ks) = rx \o SubSeq(ks, 1, n)
  <2>1. Meter(rx, ks) = rx \o SubSeq(ks, 1, IF Len(ks) < m THEN Len(ks) ELSE m)
    BY <1>1 DEF Meter
  <2>2. CASE Len(ks) < m
    <3>1. Meter(rx, ks) = rx \o SubSeq(ks, 1, Len(ks))
      BY <2>1, <2>2
    <3>2. Len(ks) \in 0 .. Len(ks) /\ Len(ks) <= m
      BY <2>2
    <3>3. QED
      BY <3>1, <3>2
  <2>3. CASE ~(Len(ks) < m)
    <3>1. Meter(rx, ks) = rx \o SubSeq(ks, 1, m)
      BY <2>1, <2>3
    <3>2. m \in 0 .. Len(ks) /\ m <= m
      BY <2>3
    <3>3. QED
      BY <3>1, <3>2
  <2>4. QED
    BY <2>2, <2>3
<1>3. /\ SubSeq(ks, 1, n) \in Seq(Nat) /\ Len(SubSeq(ks, 1, n)) = n
      /\ \A j \in 1 .. n : SubSeq(ks, 1, n)[j] = ks[j]
  BY PiecesOf
<1>4. /\ Meter(rx, ks) \in Seq(Nat) /\ Len(Meter(rx, ks)) = Len(rx) + n
      /\ \A i \in 1 .. Len(rx) : Meter(rx, ks)[i] = rx[i]
      /\ \A j \in 1 .. n : Meter(rx, ks)[Len(rx) + j] = ks[j]
  BY <1>2, <1>3
<1>5. Len(Meter(rx, ks)) <= RxMax
  BY <1>1, <1>2, <1>4, Sizes
<1>6. QED
  BY <1>4, <1>5

\* What rx_meter() adds comes after what was there.
LEMMA MeterSorted ==
    ASSUME NEW rx \in Seq(Nat), Len(rx) <= RxMax, NEW ks \in Seq(Nat),
           Sorted(rx), Sorted(ks), Below(rx, ks)
    PROVE  /\ Sorted(Meter(rx, ks))
           /\ \A i \in DOMAIN Meter(rx, ks) : \/ \E j \in DOMAIN rx : Meter(rx, ks)[i] = rx[j]
                                              \/ \E j \in DOMAIN ks : Meter(rx, ks)[i] = ks[j]
<1> DEFINE r == Meter(rx, ks)
<1>1. PICK n \in 0 .. Len(ks) :
        /\ r \in Seq(Nat) /\ Len(r) = Len(rx) + n
        /\ \A i \in 1 .. Len(rx) : r[i] = rx[i]
        /\ \A j \in 1 .. n : r[Len(rx) + j] = ks[j]
  BY MeterIs
<1> HIDE DEF r
<1>2. \A i \in DOMAIN r : \/ i \in DOMAIN rx /\ r[i] = rx[i]
                          \/ i - Len(rx) \in DOMAIN ks /\ r[i] = ks[i - Len(rx)] /\ i > Len(rx)
  <2>1. SUFFICES ASSUME NEW i \in DOMAIN r
                 PROVE  \/ i \in DOMAIN rx /\ r[i] = rx[i]
                        \/ i - Len(rx) \in DOMAIN ks /\ r[i] = ks[i - Len(rx)] /\ i > Len(rx)
    OBVIOUS
  <2>2. i \in 1 .. Len(rx) + n /\ Len(rx) \in Nat /\ DOMAIN rx = 1 .. Len(rx) /\ DOMAIN ks = 1 .. Len(ks)
    BY <1>1, <2>1
  <2>3. CASE i <= Len(rx)
    BY <1>1, <2>2, <2>3
  <2>4. CASE ~(i <= Len(rx))
    <3>1. PICK j \in 1 .. n : j = i - Len(rx)
      BY <2>2, <2>4
    <3>2. Len(rx) + j = i /\ j \in DOMAIN ks
      BY <2>2, <3>1
    <3>3. r[Len(rx) + j] = ks[j]
      BY <1>1
    <3>4. QED
      BY <2>2, <2>4, <3>1, <3>2, <3>3
  <2>5. QED
    BY <2>3, <2>4
<1>3. Sorted(r)
  <2>1. SUFFICES ASSUME NEW i \in DOMAIN r, NEW j \in DOMAIN r, i < j
                 PROVE  r[i] < r[j]
    BY DEF Sorted
  <2>2. i \in Nat \ {0} /\ j \in Nat /\ Len(rx) \in Nat /\ DOMAIN rx = 1 .. Len(rx)
    BY <1>1
  <2>3. CASE j \in DOMAIN rx /\ r[j] = rx[j]
    <3>1. i \in DOMAIN rx
      BY <2>1, <2>2, <2>3
    <3>2. r[i] = rx[i]
      BY <1>1, <2>2, <3>1
    <3>3. rx[i] < rx[j]
      BY <2>1, <2>3, <3>1 DEF Sorted
    <3>4. QED
      BY <2>3, <3>2, <3>3
  <2>4. CASE j - Len(rx) \in DOMAIN ks /\ r[j] = ks[j - Len(rx)]
    <3>1. CASE i \in DOMAIN rx /\ r[i] = rx[i]
      BY <2>4, <3>1 DEF Below
    <3>2. CASE i - Len(rx) \in DOMAIN ks /\ r[i] = ks[i - Len(rx)]
      <4>1. i - Len(rx) < j - Len(rx)
        BY <2>1, <2>2
      <4>2. QED
        BY <2>4, <3>2, <4>1 DEF Sorted
    <3>3. QED
      BY <1>2, <3>1, <3>2
  <2>5. QED
    BY <1>2, <2>3, <2>4
<1>4. QED
  BY <1>2, <1>3 DEF r

\* The line is in its order, and after what was delivered before.
LEMMA TheLine ==
    ASSUME NEW t \in Ttys, Sorted(t.rx), Len(t.rx) <= RxMax,
           \A i \in 1 .. t.n : /\ \A j \in 1 .. t.n : i < j => t.cells[i] < t.cells[j]
                               /\ \A j \in DOMAIN t.rx : t.rx[j] < t.cells[i]
    PROVE  /\ Entregar(t) \in Ttys /\ Sorted(Entregar(t).rx) /\ Len(Entregar(t).rx) <= RxMax
           /\ Entregar(t).n = 0 /\ Entregar(t).cells = t.cells /\ Entregar(t).canon = t.canon
           /\ \A i \in DOMAIN Entregar(t).rx : \/ \E j \in DOMAIN t.rx : Entregar(t).rx[i] = t.rx[j]
                                               \/ \E j \in 1 .. t.n : Entregar(t).rx[i] = t.cells[j]
<1>1. /\ t.n \in 0 .. LineMax /\ t.cells \in [1 .. LineMax -> Nat] /\ t.rx \in Seq(Nat)
  BY DEF Ttys
<1>2. PICK ks : ks = Linea(t)
  OBVIOUS
<1>3. ks \in Seq(Nat) /\ Len(ks) = t.n /\ \A i \in 1 .. t.n : ks[i] = t.cells[i]
  <2>1. ks = [i \in 1 .. t.n |-> t.cells[i]]
    BY <1>2 DEF Linea
  <2>2. t.n \in Nat /\ \A i \in 1 .. t.n : t.cells[i] \in Nat
    <3>1. t.n \in Nat /\ LineMax \in Nat /\ t.n <= LineMax
      BY <1>1, Sizes, SMTT(40)
    <3>2. \A i \in 1 .. t.n : i \in 1 .. LineMax
      BY <3>1
    <3>3. QED
      BY <1>1, <3>1, <3>2
  <2>3. QED
    BY <2>1, <2>2
<1>4. Sorted(ks) /\ Below(t.rx, ks)
  <2>1. DOMAIN ks = 1 .. t.n
    BY <1>1, <1>3
  <2>2. \A i, j \in 1 .. t.n : i < j => ks[i] < ks[j]
    BY <1>3
  <2>3. \A i \in DOMAIN t.rx, j \in 1 .. t.n : t.rx[i] < ks[j]
    BY <1>3
  <2>4. QED
    BY <2>1, <2>2, <2>3 DEF Sorted, Below
<1>5. PICK r : r = Meter(t.rx, ks)
  OBVIOUS
<1>6. /\ r \in Seq(Nat) /\ Len(r) <= RxMax /\ Sorted(r)
      /\ \A i \in DOMAIN r : \/ \E j \in DOMAIN t.rx : r[i] = t.rx[j]
                             \/ \E j \in DOMAIN ks : r[i] = ks[j]
  BY <1>1, <1>3, <1>4, <1>5, MeterIs, MeterSorted
<1>7. Entregar(t) = [t EXCEPT !.rx = r, !.n = 0]
  BY <1>2, <1>5 DEF Entregar
<1>8. PICK h : h = [t EXCEPT !.rx = r]
  OBVIOUS
<1>9. h \in Ttys /\ h.rx = r /\ h.cells = t.cells /\ h.canon = t.canon
  BY <1>6, <1>8 DEF Ttys
<1>10. PICK u : u = [h EXCEPT !.n = 0]
  OBVIOUS
<1>11. u \in Ttys /\ u.rx = r /\ u.n = 0 /\ u.cells = t.cells /\ u.canon = t.canon
  <2>1. 0 \in 0 .. LineMax
    BY Sizes
  <2>2. QED
    BY <1>9, <1>10, <2>1 DEF Ttys
<1>12. Entregar(t) = u
  BY <1>7, <1>8, <1>10
<1>13. \A i \in DOMAIN r : \/ \E j \in DOMAIN t.rx : r[i] = t.rx[j]
                          \/ \E j \in 1 .. t.n : r[i] = t.cells[j]
  <2>1. DOMAIN ks = 1 .. t.n
    BY <1>1, <1>3
  <2>2. QED
    BY <1>3, <1>6, <2>1
<1>14. QED
  BY <1>6, <1>11, <1>12, <1>13

\* What disciplina() does with a key.
LEMMA DisciplineKeeps ==
    ASSUME ConsoleInv, push.pc = "key", push.buf # <<>>, Disciplina(push.buf[1])
    PROVE  /\ tty' \in Ttys /\ Sorted(tty'.rx) /\ Len(tty'.rx) <= RxMax
           /\ \A i \in DOMAIN tty'.rx :
                \/ \E j \in DOMAIN tty.rx : tty'.rx[i] = tty.rx[j]
                \/ tty'.rx[i] = push.buf[1]
                \/ Valid /\ \E j \in 1 .. InLine : tty'.rx[i] = tty.cells[j]
           /\ \A i \in 1 .. LineMax : tty'.cells[i] \in {tty.cells[i], push.buf[1]}
           /\ tty'.canon /\ tty'.n # 0 =>
                /\ tty'.rx = tty.rx /\ Valid
                /\ \A i \in 1 .. tty'.n : i <= InLine /\ tty'.cells[i] = tty.cells[i]
           /\ klog' \in Seq(Piece) /\ Len(klog') <= KlogMax /\ perdidos' \in BOOLEAN
<1> DEFINE k == push.buf[1]
<1>1. /\ tty \in Ttys /\ tty.rx \in Seq(Nat) /\ Len(tty.rx) <= RxMax /\ tty.n \in 0 .. LineMax
      /\ tty.cells \in [1 .. LineMax -> Nat] /\ tty.canon \in BOOLEAN
  BY DEF ConsoleInv, KeysTyped, Limits, Ttys
<1>2. k \in Nat /\ New(k) /\ Sorted(tty.rx) /\ TextTyped
  <2>1. push.buf \in Seq(Keys) /\ 1 \in DOMAIN push.buf
    BY PiecesOf DEF ConsoleInv, KeysTyped, Pushed
  <2>2. QED
    BY <2>1 DEF ConsoleInv, Order, AllNew, Keys
<1>3. InLine = tty.n /\ (Valid <=> tty.canon)
  BY DEF InLine, Valid
<1>4. tty.canon => \A i \in 1 .. tty.n :
        /\ \A j \in 1 .. tty.n : i < j => tty.cells[i] < tty.cells[j]
        /\ \A j \in DOMAIN tty.rx : tty.rx[j] < tty.cells[i]
  BY <1>3 DEF ConsoleInv, Order
<1>5. UNCHANGED <<klog, perdidos>> =>
        klog' \in Seq(Piece) /\ Len(klog') <= KlogMax /\ perdidos' \in BOOLEAN
  BY <1>2, ZenonT(30) DEF TextTyped
<1>6. CASE ~tty.canon /\ tty' = [tty EXCEPT !.rx = Meter(@, <<k>>)] /\ UNCHANGED <<klog, perdidos>>
  <2>1. PICK ks : ks = <<k>>
    OBVIOUS
  <2>2. ks \in Seq(Nat) /\ Sorted(ks) /\ Below(tty.rx, ks) /\ DOMAIN ks = {1} /\ ks[1] = k
    BY <1>2, <2>1 DEF Sorted, Below, New
  <2>3. PICK r : r = Meter(tty.rx, ks)
    OBVIOUS
  <2>4. /\ r \in Seq(Nat) /\ Len(r) <= RxMax /\ Sorted(r)
        /\ \A i \in DOMAIN r : \/ \E j \in DOMAIN tty.rx : r[i] = tty.rx[j]
                               \/ \E j \in DOMAIN ks : r[i] = ks[j]
    BY <1>1, <1>2, <2>2, <2>3, MeterIs, MeterSorted, ZenonT(40)
  <2>5. tty' = [tty EXCEPT !.rx = r]
    BY <1>6, <2>1, <2>3
  <2>6. tty' \in Ttys /\ tty'.rx = r /\ tty'.cells = tty.cells /\ ~tty'.canon
    BY <1>1, <1>6, <2>4, <2>5 DEF Ttys
  <2>7. QED
    BY <1>5, <1>6, <2>2, <2>4, <2>6
<1>7. CASE tty.canon /\ tty' = Entregar(Linea1(tty, k)) /\ KernelText(2)
  <2>1. PICK t : t = Linea1(tty, k)
    OBVIOUS
  <2>2. /\ t \in Ttys /\ t.rx = tty.rx /\ t.canon = tty.canon
        /\ \A i \in 1 .. LineMax : t.cells[i] \in {tty.cells[i], k}
        /\ \A i \in 1 .. t.n : \/ i <= tty.n /\ t.cells[i] = tty.cells[i]
                               \/ i = t.n /\ t.cells[i] = k
    <3>1. CASE tty.n < LineMax
      <4>1. PICK m : m = tty.n + 1
        OBVIOUS
      <4>2. m \in 1 .. LineMax /\ m \in 0 .. LineMax /\ m \in Nat
        BY <1>1, <3>1, <4>1, Sizes
      <4>3. PICK cs : cs = [tty.cells EXCEPT ![m] = k]
        OBVIOUS
      <4>4. cs \in [1 .. LineMax -> Nat] /\ cs[m] = k /\ \A i \in 1 .. LineMax : i # m => cs[i] = tty.cells[i]
        BY <1>1, <1>2, <4>2, <4>3
      <4>5. t = [tty EXCEPT !.cells = cs, !.n = m]
        BY <2>1, <3>1, <4>1, <4>3 DEF Linea1
      <4>6. t \in Ttys /\ t.rx = tty.rx /\ t.canon = tty.canon /\ t.cells = cs /\ t.n = m
        BY <1>1, <4>2, <4>4, <4>5 DEF Ttys
      <4>7. \A i \in 1 .. m : i = m \/ (i <= tty.n /\ i # m /\ i \in 1 .. LineMax)
        BY <1>1, <4>1, <4>2, Sizes
      <4>8. QED
        BY <4>4, <4>6, <4>7
    <3>2. CASE ~(tty.n < LineMax)
      <4>1. t = tty
        BY <2>1, <3>2 DEF Linea1
      <4>2. QED
        BY <1>1, <4>1
    <3>3. QED
      BY <3>1, <3>2
  <2>3. t.n \in Nat
    BY <2>2 DEF Ttys
  <2>4. (\A j \in DOMAIN tty.rx : tty.rx[j] < k) /\ (\A i \in 1 .. tty.n : tty.cells[i] < k)
    BY <1>1, <1>2, Sizes DEF New
  <2>5. \A i \in 1 .. t.n : /\ \A j \in 1 .. t.n : i < j => t.cells[i] < t.cells[j]
                            /\ \A j \in DOMAIN t.rx : t.rx[j] < t.cells[i]
    <3>1. SUFFICES ASSUME NEW i \in 1 .. t.n
                   PROVE  /\ \A j \in 1 .. t.n : i < j => t.cells[i] < t.cells[j]
                          /\ \A j \in DOMAIN t.rx : t.rx[j] < t.cells[i]
      OBVIOUS
    <3>2. CASE i <= tty.n /\ t.cells[i] = tty.cells[i]
      BY <1>1, <1>4, <1>7, <2>2, <2>3, <2>4, <3>2
    <3>3. CASE i = t.n /\ t.cells[i] = k
      BY <2>2, <2>3, <2>4, <3>3
    <3>4. QED
      BY <2>2, <3>2, <3>3
  <2>6. tty' = Entregar(t)
    BY <1>7, <2>1
  <2>7. /\ tty' \in Ttys /\ Sorted(tty'.rx) /\ Len(tty'.rx) <= RxMax
        /\ tty'.n = 0 /\ tty'.cells = t.cells
        /\ \A i \in DOMAIN tty'.rx : \/ \E j \in DOMAIN t.rx : tty'.rx[i] = t.rx[j]
                                     \/ \E j \in 1 .. t.n : tty'.rx[i] = t.cells[j]
    BY <1>1, <1>2, <2>2, <2>5, <2>6, TheLine
  <2>8. klog' \in Seq(Piece) /\ Len(klog') <= KlogMax /\ perdidos' \in BOOLEAN
    BY <1>2, <1>7, KernelTextKeeps
  <2>9. \A i \in DOMAIN tty'.rx :
           \/ \E j \in DOMAIN tty.rx : tty'.rx[i] = tty.rx[j]
           \/ tty'.rx[i] = k
           \/ \E j \in 1 .. tty.n : tty'.rx[i] = tty.cells[j]
    <3>1. SUFFICES ASSUME NEW i \in DOMAIN tty'.rx, NEW j \in 1 .. t.n, tty'.rx[i] = t.cells[j]
                   PROVE  tty'.rx[i] = k \/ \E m \in 1 .. tty.n : tty'.rx[i] = tty.cells[m]
      BY <2>2, <2>7
    <3>2. j \in 1 .. tty.n \/ t.cells[j] = k
      BY <1>1, <2>2, <2>3
    <3>3. QED
      BY <2>2, <3>1, <3>2
  <2>10. QED
    BY <1>3, <1>7, <2>2, <2>7, <2>8, <2>9
<1>8. CASE tty.canon /\ Kind(k) = "bs" /\ Disciplina(k)
  <2>1. CASE tty.n = 0 /\ UNCHANGED <<tty, klog, perdidos>>
    BY <1>1, <1>2, <1>5, <2>1
  <2>2. CASE tty.n # 0 /\ tty' = [tty EXCEPT !.n = @ - 1] /\ KernelText(3)
    <3>1. PICK m : m = tty.n - 1
      OBVIOUS
    <3>2. m \in 0 .. LineMax /\ m < tty.n /\ m \in Nat
      BY <1>1, <2>2, <3>1, Sizes
    <3>3. tty' = [tty EXCEPT !.n = m]
      BY <2>2, <3>1
    <3>4. tty' \in Ttys /\ tty'.rx = tty.rx /\ tty'.cells = tty.cells /\ tty'.n = m
      BY <1>1, <3>2, <3>3 DEF Ttys
    <3>5. klog' \in Seq(Piece) /\ Len(klog') <= KlogMax /\ perdidos' \in BOOLEAN
      BY <1>2, <2>2, KernelTextKeeps
    <3>6. \A i \in 1 .. tty'.n : i <= tty.n
      BY <1>1, <3>2, <3>4
    <3>7. QED
      BY <1>1, <1>2, <1>3, <1>8, <3>4, <3>5, <3>6
  <2>3. QED
    BY <1>8, <2>1, <2>2 DEF Disciplina
<1>9. CASE tty.canon /\ tty' = [tty EXCEPT !.n = 0] /\ KernelText(3 * tty.n)
  <2>1. PICK m \in Nat : m = 3 * tty.n
    BY <1>1
  <2>2. klog' \in Seq(Piece) /\ Len(klog') <= KlogMax /\ perdidos' \in BOOLEAN
    BY <1>2, <1>9, <2>1, KernelTextKeeps
  <2>3. tty' \in Ttys /\ tty'.rx = tty.rx /\ tty'.cells = tty.cells /\ tty'.n = 0
    <3>1. 0 \in 0 .. LineMax
      BY Sizes
    <3>2. QED
      BY <1>1, <1>9, <3>1 DEF Ttys
  <2>4. QED
    BY <1>1, <1>2, <2>2, <2>3
<1>10. CASE /\ tty.canon
            /\ tty' = IF tty.n > 0 THEN Entregar(tty) ELSE [tty EXCEPT !.eof = TRUE]
            /\ UNCHANGED <<klog, perdidos>>
  <2>1. CASE tty.n > 0
    <3>1. tty' = Entregar(tty)
      BY <1>10, <2>1
    <3>2. /\ tty' \in Ttys /\ Sorted(tty'.rx) /\ Len(tty'.rx) <= RxMax
          /\ tty'.n = 0 /\ tty'.cells = tty.cells
          /\ \A i \in DOMAIN tty'.rx : \/ \E j \in DOMAIN tty.rx : tty'.rx[i] = tty.rx[j]
                                       \/ \E j \in 1 .. tty.n : tty'.rx[i] = tty.cells[j]
      <4>1. \A i \in 1 .. tty.n : /\ \A j \in 1 .. tty.n : i < j => tty.cells[i] < tty.cells[j]
                                  /\ \A j \in DOMAIN tty.rx : tty.rx[j] < tty.cells[i]
        BY <1>4, <1>10
      <4>2. QED
        BY <1>1, <1>2, <3>1, <4>1, TheLine
    <3>3. QED
      BY <1>3, <1>5, <1>10, <3>2
  <2>2. CASE ~(tty.n > 0)
    <3>1. tty' = [tty EXCEPT !.eof = TRUE] /\ tty.n = 0
      BY <1>1, <1>10, <2>2
    <3>2. tty' \in Ttys /\ tty'.rx = tty.rx /\ tty'.cells = tty.cells /\ tty'.n = 0
      BY <1>1, <3>1 DEF Ttys
    <3>3. QED
      BY <1>1, <1>2, <1>5, <1>10, <3>2
  <2>3. QED
    BY <2>1, <2>2
<1>11. QED
  BY <1>6, <1>7, <1>8, <1>9, <1>10 DEF Disciplina
-----------------------------------------------------------------------------
\* uart_push() in its keys: the rest is where it was.
LEMMA PushOther ==
    ASSUME ConsoleInv, push.pc \in {"key", "store"},
           UNCHANGED <<board, uart, con, usb, reader, ghost, left, mail, avisado, avisar, lock, writer>>,
           push' \in Pushed, push'.irq = push.irq, push'.sig = push.sig, push'.any = push.any,
           push'.pc \in {"key", "store", "wake"}, push'.pc = "wake" => push'.buf = <<>> /\ ~push.irq,
           push'.pc = "store" => push'.buf # <<>>, push'.buf # <<>> => push.buf # <<>>,
           tty' \in Ttys, Len(tty'.rx) <= RxMax,
           klog' \in Seq(Piece), Len(klog') <= KlogMax, perdidos' \in BOOLEAN,
           KeysInOrder'
    PROVE  ConsoleInv'
<1>1. KeysTyped'
  BY DEF ConsoleInv, KeysTyped
<1>2. Limits'
  BY DEF ConsoleInv, Limits
<1>3. Hands'
  BY DEF ConsoleInv, Hands
<1>4. Heard'
  BY DEF ConsoleInv, Heard
<1>5. Announced'
  BY NoticesUntouched DEF ConsoleInv
<1>6. avisado' \in BOOLEAN
  BY ZenonT(30) DEF ConsoleInv, TextTyped
<1>7. TextTyped'
  BY <1>6 DEF ConsoleInv, TextTyped, Texts
<1>8. QED
  BY <1>1, <1>2, <1>3, <1>4, <1>5, <1>7 DEF ConsoleInv, KeysInOrder

\* uart_push() takes a key, throws it away, or throws all of them away.
LEMMA PushKeyKeeps ==
    ASSUME ConsoleInv, PushKey, UNCHANGED <<board, uart, con, usb, lock, writer, left>>
    PROVE  ConsoleInv'
<1>1. /\ push.pc = "key" /\ push.buf # <<>>
      /\ UNCHANGED <<board, uart, con, usb, reader, ghost, left, mail, avisado, avisar, lock, writer>>
  BY DEF PushKey
<1>2. push \in Pushed /\ push.buf \in Seq(Keys) /\ tty \in Ttys /\ tty.n \in Nat /\ Len(tty.rx) <= RxMax
      /\ KeysInOrder /\ TextTyped
  BY DEF ConsoleInv, KeysTyped, Limits, Pushed, Ttys, KeysInOrder
<1>3. /\ PieceOf(<<>>, push.buf) /\ PieceOf(push.buf, push.buf) /\ PieceOf(Tail(push.buf), push.buf)
      /\ Tail(push.buf) \in Seq(Keys) /\ Head(push.buf) = push.buf[1]
  BY <1>1, <1>2, PiecesOf
<1>4. UNCHANGED <<klog, perdidos>> =>
        klog' \in Seq(Piece) /\ Len(klog') <= KlogMax /\ perdidos' \in BOOLEAN
  BY <1>2, ZenonT(30) DEF TextTyped
<1>5. InLine = tty.n /\ (Valid <=> tty.canon)
  BY <1>1 DEF InLine, Valid
<1>6. CASE /\ ~push.irq /\ push' = [push EXCEPT !.pc = "wake", !.buf = <<>>, !.thrown = TRUE]
           /\ UNCHANGED <<tty, klog, perdidos>>
  <2>1. /\ push' \in Pushed /\ push'.pc = "wake" /\ push'.buf = <<>> /\ push'.irq = push.irq
        /\ push'.sig = push.sig /\ push'.any = push.any
    <3>1. PICK e \in Seq(Keys) : e = <<>>
      <4>1. <<>> \in Seq(Keys)
        OBVIOUS
      <4>2. QED
        BY <4>1
    <3>2. push' = [push EXCEPT !.pc = "wake", !.buf = e, !.thrown = TRUE]
      BY <1>6, <3>1
    <3>3. QED
      BY <1>2, <3>1, <3>2 DEF Pushed, PushPcs
  <2>2. InLine' = InLine /\ (Valid' <=> Valid)
    BY <1>5, <1>6, <2>1 DEF InLine, Valid
  <2>3. KeysInOrder'
    <3>1. push'.buf \in Seq(Keys) /\ PieceOf(push'.buf, push.buf) /\ push'.pc # "store"
      BY <1>3, <2>1
    <3>2. QED
      BY <1>1, <1>2, <1>6, <2>1, <2>2, <3>1, KeysDropped
  <2>4. QED
    BY <1>1, <1>2, <1>4, <1>6, <2>1, <2>3, PushOther
<1>7. CASE /\ Plain(Head(push.buf)) /\ tty.n < LineMax - 1
           /\ push' = [push EXCEPT !.pc = "store", !.n = tty.n] /\ UNCHANGED <<tty, klog, perdidos>>
  <2>1. PICK m \in Nat : m = tty.n
    BY <1>2
  <2>2. /\ push' \in Pushed /\ push'.pc = "store" /\ push'.buf = push.buf /\ push'.irq = push.irq
        /\ push'.sig = push.sig /\ push'.any = push.any /\ push'.n = tty.n
    BY <1>2, <1>7, <2>1 DEF Pushed, PushPcs
  <2>3. InLine' = InLine /\ (Valid' <=> Valid)
    BY <1>5, <1>7, <2>2 DEF InLine, Valid, Plain
  <2>4. KeysInOrder'
    <3>1. /\ push'.buf \in Seq(Keys) /\ PieceOf(push'.buf, push.buf)
          /\ tty.n <= push'.n /\ push'.n < LineMax - 1
      BY <1>2, <1>3, <1>7, <2>2
    <3>2. QED
      BY <1>1, <1>2, <1>7, <2>2, <2>3, <3>1, KeysDropped
  <2>5. QED
    BY <1>1, <1>2, <1>4, <1>7, <2>2, <2>4, PushOther
<1>8. CASE push' = [push EXCEPT !.buf = Tail(@)] /\ UNCHANGED <<tty, klog, perdidos>>
  <2>1. PICK b : b = Tail(push.buf)
    OBVIOUS
  <2>2. /\ push' \in Pushed /\ push'.pc = "key" /\ push'.buf = b /\ push'.irq = push.irq
        /\ push'.sig = push.sig /\ push'.any = push.any
    BY <1>1, <1>2, <1>3, <1>8, <2>1 DEF Pushed, PushPcs
  <2>3. InLine' = InLine /\ (Valid' <=> Valid)
    BY <1>5, <1>8, <2>2 DEF InLine, Valid
  <2>4. KeysInOrder'
    <3>1. push'.buf \in Seq(Keys) /\ PieceOf(push'.buf, push.buf) /\ push'.pc # "store"
      BY <1>3, <2>1, <2>2
    <3>2. QED
      BY <1>1, <1>2, <1>8, <2>2, <2>3, <3>1, KeysDropped
  <2>5. QED
    BY <1>1, <1>2, <1>4, <1>8, <2>2, <2>4, PushOther
<1>9. CASE Disciplina(Head(push.buf)) /\ push' = [push EXCEPT !.buf = Tail(@)]
  <2>1. PICK b : b = Tail(push.buf)
    OBVIOUS
  <2>2. /\ push' \in Pushed /\ push'.pc = "key" /\ push'.buf = b /\ push'.irq = push.irq
        /\ push'.sig = push.sig /\ push'.any = push.any
    BY <1>1, <1>2, <1>3, <1>9, <2>1 DEF Pushed, PushPcs
  <2>3. Disciplina(push.buf[1])
    BY <1>3, <1>9
  <2>4. /\ tty' \in Ttys /\ Sorted(tty'.rx) /\ Len(tty'.rx) <= RxMax
        /\ \A i \in DOMAIN tty'.rx :
             \/ \E j \in DOMAIN tty.rx : tty'.rx[i] = tty.rx[j]
             \/ tty'.rx[i] = push.buf[1]
             \/ Valid /\ \E j \in 1 .. InLine : tty'.rx[i] = tty.cells[j]
        /\ \A i \in 1 .. LineMax : tty'.cells[i] \in {tty.cells[i], push.buf[1]}
        /\ tty'.canon /\ tty'.n # 0 =>
             /\ tty'.rx = tty.rx /\ Valid
             /\ \A i \in 1 .. tty'.n : i <= InLine /\ tty'.cells[i] = tty.cells[i]
        /\ klog' \in Seq(Piece) /\ Len(klog') <= KlogMax /\ perdidos' \in BOOLEAN
    BY <1>1, <2>3, DisciplineKeeps
  <2>5. KeysInOrder'
    <3>1. push'.buf = Tail(push.buf) /\ push'.pc = "key"
      BY <2>1, <2>2
    <3>2. QED
      BY <1>1, <2>2, <2>4, <3>1, KeyGoes
  <2>6. QED
    BY <1>1, <2>2, <2>4, <2>5, PushOther
<1>10. QED
  BY <1>6, <1>7, <1>8, <1>9 DEF PushKey

\* A plain key enters the line where linea_n was when it was read.
LEMMA PushStoreKeeps ==
    ASSUME ConsoleInv, PushStore, UNCHANGED <<board, uart, con, usb, lock, writer, left>>
    PROVE  ConsoleInv'
<1>1. /\ push.pc = "store" /\ push' = [push EXCEPT !.pc = "key", !.buf = Tail(@)]
      /\ tty' = [tty EXCEPT !.cells[push.n + 1] = Head(push.buf), !.n = push.n + 1]
      /\ IF tty.canon THEN KernelText(1) ELSE UNCHANGED <<klog, perdidos>>
      /\ UNCHANGED <<board, uart, con, usb, reader, ghost, left, mail, avisado, avisar, lock, writer>>
  BY DEF PushStore
<1>2. push \in Pushed /\ push.buf \in Seq(Keys) /\ tty \in Ttys /\ tty.n \in Nat /\ Len(tty.rx) <= RxMax
      /\ push.n \in Nat /\ push.n < LineMax - 1 /\ push.buf # <<>> /\ TextTyped /\ Sorted(tty.rx)
  BY <1>1 DEF ConsoleInv, KeysTyped, Limits, Pushed, Ttys, Hands, Order
<1>3. Tail(push.buf) \in Seq(Keys) /\ Head(push.buf) = push.buf[1] /\ push.buf[1] \in Keys
  BY <1>2, PiecesOf
<1>4. PICK b, m, k : b = Tail(push.buf) /\ m = push.n + 1 /\ k = push.buf[1]
  OBVIOUS
<1>5. /\ push' \in Pushed /\ push'.pc = "key" /\ push'.buf = b /\ push'.irq = push.irq
      /\ push'.sig = push.sig /\ push'.any = push.any
  BY <1>1, <1>2, <1>3, <1>4 DEF Pushed, PushPcs
<1>6. m \in 1 .. LineMax /\ m \in 0 .. LineMax /\ m \in Nat /\ k \in Nat
  BY <1>2, <1>3, <1>4, Sizes DEF Keys
<1>7. PICK cs : cs = [tty.cells EXCEPT ![m] = k]
  OBVIOUS
<1>8. cs \in [1 .. LineMax -> Nat] /\ cs[m] = k /\ \A i \in 1 .. LineMax : i # m => cs[i] = tty.cells[i]
  BY <1>2, <1>6, <1>7 DEF Ttys
<1>9. tty' = [tty EXCEPT !.cells = cs, !.n = m]
  BY <1>1, <1>3, <1>4, <1>7
<1>10. tty' \in Ttys /\ tty'.rx = tty.rx /\ tty'.cells = cs /\ tty'.n = m
  BY <1>2, <1>6, <1>8, <1>9 DEF Ttys
<1>11. InLine = push.n /\ Valid
  BY <1>1 DEF InLine, Valid
<1>12. \A i \in 1 .. m : \/ i <= InLine /\ cs[i] = tty.cells[i]
                         \/ i = m /\ cs[i] = push.buf[1]
  <2>1. \A i \in 1 .. m : i = m \/ (i <= push.n /\ i # m /\ i \in 1 .. LineMax)
    BY <1>2, <1>4, <1>6, Sizes
  <2>2. QED
    BY <1>4, <1>8, <1>11, <2>1
<1>13. KeysInOrder'
  <2>1. push'.buf = Tail(push.buf) /\ push'.pc = "key"
    BY <1>4, <1>5
  <2>2. \A i \in 1 .. LineMax : tty'.cells[i] \in {tty.cells[i], push.buf[1]}
    BY <1>4, <1>8, <1>10
  <2>3. \A i \in DOMAIN tty'.rx : \E j \in DOMAIN tty.rx : tty'.rx[i] = tty.rx[j]
    BY <1>10
  <2>4. \A i \in 1 .. tty'.n : \/ i <= InLine /\ tty'.cells[i] = tty.cells[i]
                               \/ i = tty'.n /\ tty'.cells[i] = push.buf[1]
    BY <1>10, <1>12
  <2>5. QED
    BY <1>1, <1>2, <1>5, <1>10, <1>11, <2>1, <2>2, <2>3, <2>4, KeyGoes
<1>14. klog' \in Seq(Piece) /\ Len(klog') <= KlogMax /\ perdidos' \in BOOLEAN
  <2>1. CASE tty.canon
    BY <1>1, <1>2, <2>1, KernelTextKeeps
  <2>2. CASE ~tty.canon
    <3>1. UNCHANGED <<klog, perdidos>>
      BY <1>1, <2>2
    <3>2. QED
      BY <1>2, <3>1, ZenonT(30) DEF TextTyped
  <2>3. QED
    BY <2>1, <2>2
<1>15. QED
  BY <1>1, <1>2, <1>5, <1>10, <1>13, <1>14, PushOther

\* uart_push() wakes who reads.
LEMMA PushWakeKeeps ==
    ASSUME ConsoleInv, PushWake, UNCHANGED <<board, uart, con, usb, lock, writer, left>>
    PROVE  ConsoleInv'
<1>1. /\ push.pc \in {"key", "wake"} /\ push.buf = <<>> /\ ~push.irq
      /\ reader' = Woken(reader) /\ push' = [push EXCEPT !.pc = "tell"]
      /\ UNCHANGED <<board, uart, con, usb, ghost, left, mail, avisado, avisar, lock, writer, tty, klog,
                     perdidos>>
  BY DEF PushWake
<1>2. push \in Pushed /\ reader \in Readers /\ (reader.pc # "out" => reader.n # 0)
  BY DEF ConsoleInv, KeysTyped
<1>3. /\ push' \in Pushed /\ push'.pc = "tell" /\ push'.buf = push.buf /\ push'.irq = push.irq
      /\ push'.sig = push.sig /\ push'.any = push.any /\ push'.n = push.n
  BY <1>1, <1>2 DEF Pushed, PushPcs
<1>4. /\ reader' \in Readers /\ reader'.last = reader.last /\ (reader'.pc # "out" => reader'.n # 0)
      /\ reader'.pc # "asleep"
  BY <1>1, <1>2 DEF Woken, Readers
<1>5. KeysTyped' /\ Limits' /\ Hands' /\ Heard'
  <2>1. KeysTyped' /\ Limits'
    BY <1>1, <1>3, <1>4 DEF ConsoleInv, KeysTyped, Limits
  <2>2. Hands'
    BY <1>1, <1>3 DEF ConsoleInv, Hands
  <2>3. Heard'
    BY <1>1, <1>4 DEF ConsoleInv, Heard
  <2>4. QED
    BY <2>1, <2>2, <2>3
<1>6. KeysInOrder'
  BY <1>1, <1>3, <1>4, KeysStand DEF ConsoleInv, KeysInOrder, Held
<1>7. Announced'
  BY <1>1, NoticesUntouched DEF ConsoleInv
<1>8. avisado' \in BOOLEAN /\ perdidos' \in BOOLEAN
  BY <1>1, ZenonT(30) DEF ConsoleInv, TextTyped
<1>9. TextTyped'
  BY <1>1, <1>8 DEF ConsoleInv, TextTyped, Texts
<1>10. QED
  BY <1>5, <1>6, <1>7, <1>9 DEF ConsoleInv, KeysInOrder

\* uart_push() tells who shows the echo, and says what it threw away.
LEMMA PushTellKeeps ==
    ASSUME ConsoleInv, PushTell, UNCHANGED <<board, uart, con, usb, lock, writer, left>>
    PROVE  ConsoleInv'
<1>1. UNCHANGED <<tty, reader>> /\ push.pc \in {"tell", "telling"}
  BY DEF PushTell, keyVars
<1>2. push \in Pushed /\ KeysInOrder
  BY DEF ConsoleInv, KeysTyped, KeysInOrder
<1>3. PICK c \in {"tell", "telling", "no"} :
        push' = push \/ push' = [push EXCEPT !.pc = c] \/ push' = [push EXCEPT !.pc = c, !.thrown = FALSE]
  BY <1>1 DEF PushTell
<1>4. /\ push' \in Pushed /\ push'.pc \in {"tell", "telling", "no"} /\ push'.buf = push.buf
      /\ push'.irq = push.irq /\ push'.sig = push.sig /\ push'.any = push.any /\ push'.n = push.n
  BY <1>1, <1>2, <1>3 DEF Pushed, PushPcs
<1>5. /\ avisar' \in [Callers -> {"no", "lower", "notify", "raise"}] /\ avisado' \in BOOLEAN
      /\ ghost' \in Ghosts /\ ghost'.done = ghost.done /\ ghost'.blurred = ghost.blurred
      /\ ghost'.mixed = ghost.mixed
      /\ mail' \in Seq({"klog", "irq", "print"}) /\ Len(mail') <= Room
      /\ \A i \in DOMAIN mail : i \in DOMAIN mail' /\ mail'[i] = mail[i]
      /\ Announced'
  <2>1. CASE \/ Mira("push") /\ UNCHANGED <<avisado, mail, ghost>>
             \/ Avisa("push")
    <3>1. "push" \in Callers
      BY DEF Callers
    <3>2. QED
      BY <2>1, <3>1, AvisarKeeps
  <2>2. CASE UNCHANGED <<mail, avisado, avisar, ghost>>
    <3>1. Announced'
      BY <2>2, NoticesUntouched DEF ConsoleInv
    <3>2. avisado' \in BOOLEAN
      BY <2>2, ZenonT(30) DEF ConsoleInv, TextTyped
    <3>3. QED
      BY <2>2, <3>1, <3>2 DEF ConsoleInv, TextTyped, KeysTyped
  <2>3. QED
    BY <2>1, <2>2 DEF PushTell
<1>6. klog' \in Seq(Piece) /\ Len(klog') <= KlogMax /\ perdidos' \in BOOLEAN
  <2>1. CASE KernelText(1)
    BY <2>1, KernelTextKeeps DEF ConsoleInv
  <2>2. CASE UNCHANGED <<klog, perdidos>>
    BY <2>2, ZenonT(30) DEF ConsoleInv, TextTyped
  <2>3. QED
    BY <2>1, <2>2 DEF PushTell
<1>7. KeysTyped' /\ Limits' /\ Hands' /\ Heard'
  <2>1. KeysTyped' /\ Limits'
    BY <1>1, <1>4, <1>5 DEF ConsoleInv, KeysTyped, Limits
  <2>2. Hands'
    BY <1>1, <1>4 DEF ConsoleInv, Hands
  <2>3. Heard'
    BY <1>1, <1>5 DEF ConsoleInv, Heard
  <2>4. QED
    BY <2>1, <2>2, <2>3
<1>8. KeysInOrder'
  BY <1>1, <1>2, <1>4, <1>5, KeysStand DEF Held
<1>9. TextTyped'
  BY <1>5, <1>6 DEF ConsoleInv, TextTyped, Texts
<1>10. QED
  BY <1>5, <1>7, <1>8, <1>9 DEF ConsoleInv, KeysInOrder

\* uart_push().
LEMMA PushKeeps == ASSUME ConsoleInv, Push PROVE ConsoleInv'
BY PushKeyKeeps, PushStoreKeeps, PushWakeKeeps, PushTellKeeps DEF Push
-----------------------------------------------------------------------------
\* The process that reads touches nothing but what is kept for it.
LEMMA ReaderOther ==
    ASSUME ConsoleInv,
           UNCHANGED <<board, uart, mail, con, usb, push, klog, avisado, perdidos, avisar, lock, writer>>,
           tty' \in Ttys, Len(tty'.rx) <= RxMax,
           reader' \in Readers, reader'.pc # "out" => reader'.n # 0,
           reader'.pc = "asleep" => tty'.rx = <<>> /\ ~tty'.eof,
           left' \in Bounds, ghost' \in Ghosts, ghost'.late = ghost.late, ghost'.crossed = ghost.crossed,
           KeysInOrder'
    PROVE  ConsoleInv'
<1>1. KeysTyped' /\ Limits'
  BY DEF ConsoleInv, KeysTyped, Limits
<1>2. Hands'
  BY DEF ConsoleInv, Hands
<1>3. Heard'
  BY DEF ConsoleInv, Heard
<1>4. Announced'
  BY NoticesUntouched DEF ConsoleInv
<1>5. avisado' \in BOOLEAN /\ perdidos' \in BOOLEAN
  BY ZenonT(30) DEF ConsoleInv, TextTyped
<1>6. TextTyped'
  BY <1>5 DEF ConsoleInv, TextTyped, Texts
<1>7. QED
  BY <1>1, <1>2, <1>3, <1>4, <1>6 DEF ConsoleInv, KeysInOrder

\* What is taken is older than what stays, and of one epoch with it.
LEMMA KeysTaken ==
    ASSUME ConsoleInv, NEW m \in 1 .. Len(tty.rx),
           UNCHANGED <<board, uart, con, usb, push>>,
           tty'.rx = SubSeq(tty.rx, m + 1, Len(tty.rx)), tty'.cells = tty.cells, tty'.n = tty.n,
           tty'.canon = tty.canon, reader'.last = tty.rx[m],
           ghost'.done = ghost.done, ghost'.blurred = ghost.blurred,
           ghost'.mixed = (ghost.mixed \/ Epoch(tty.rx[1]) # Epoch(tty.rx[m]))
    PROVE  KeysInOrder'
<1>1. /\ tty.rx \in Seq(Nat) /\ m \in 0 .. Len(tty.rx) /\ m \in DOMAIN tty.rx /\ 1 \in DOMAIN tty.rx
      /\ Order /\ Interrupts /\ FromSerial /\ FromUsb
  BY DEF ConsoleInv, KeysTyped, Ttys
<1>2. /\ PieceOf(tty'.rx, tty.rx) /\ tty'.rx \in Seq(Nat)
      /\ \A i \in DOMAIN tty'.rx : i + m \in DOMAIN tty.rx /\ tty'.rx[i] = tty.rx[i + m] /\ m < i + m
  <2>1. PICK s \in Seq(Nat) : s = tty.rx
    BY <1>1
  <2>2. PICK t : t = SubSeq(s, m + 1, Len(s))
    OBVIOUS
  <2>3. m \in 0 .. Len(s) /\ m \in 1 .. Len(s)
    BY <1>1, <2>1
  <2>4. /\ PieceOf(t, s) /\ t \in Seq(Nat) /\ Len(t) = Len(s) - m
        /\ \A i \in 1 .. Len(s) - m : t[i] = s[i + m]
    BY <2>2, <2>3, PiecesOf
  <2>5. \A i \in DOMAIN t : i + m \in DOMAIN s /\ t[i] = s[i + m] /\ m < i + m
    <3>1. Len(s) \in Nat /\ m \in Nat /\ m <= Len(s) /\ DOMAIN s = 1 .. Len(s)
      BY <2>3
    <3>2. DOMAIN t = 1 .. Len(s) - m
      BY <2>4
    <3>3. \A i \in 1 .. Len(s) - m : i + m \in 1 .. Len(s) /\ m < i + m
      BY <3>1
    <3>4. QED
      BY <2>4, <3>1, <3>2, <3>3
  <2>6. tty'.rx = t
    BY <2>1, <2>2
  <2>7. QED
    BY <2>1, <2>4, <2>5, <2>6
<1>3. Sorted(tty'.rx) /\ AllFresh(tty'.rx)
  <2>1. DOMAIN tty'.rx \subseteq Nat
    BY <1>2
  <2>2. QED
    BY <1>1, <1>2, <2>1, Inherited DEF Order, Interrupts
<1>4. \A k : New(k) => New(k)'
  <2>1. SUFFICES ASSUME NEW k, New(k) PROVE New(k)'
    OBVIOUS
  <2>2. (\A i \in DOMAIN tty.rx : tty.rx[i] < k) /\ \A i \in 1 .. LineMax : tty.cells[i] < k
    BY <2>1 DEF New
  <2>3. (\A i \in DOMAIN tty'.rx : tty'.rx[i] < k) /\ tty.rx[m] < k
    BY <1>1, <1>2, <2>2
  <2>4. QED
    BY <2>2, <2>3 DEF New
<1>5. \A i \in DOMAIN tty'.rx : tty.rx[m] < tty'.rx[i]
  BY <1>1, <1>2 DEF Order, Sorted
<1>6. InLine' = InLine /\ (Valid' <=> Valid)
  BY DEF InLine, Valid
<1>7. Valid => \A i \in 1 .. InLine :
        /\ \A j \in 1 .. InLine : i < j => tty.cells[i] < tty.cells[j]
        /\ \A j \in DOMAIN tty'.rx : tty'.rx[j] < tty.cells[i]
        /\ tty.rx[m] < tty.cells[i]
  BY <1>1, <1>2 DEF Order
<1>8. Order'
  <2>1. AllNew(push.buf)' /\ AllNew(con.buf)' /\ AllNew(usb.keys)' /\ AllNew(uart.fifo)' /\ New(board.typed + 1)'
    BY <1>1, <1>4 DEF Order, AllNew
  <2>2. QED
    BY <1>1, <1>3, <1>5, <1>6, <1>7, <2>1 DEF Order, Sorted, Below
<1>9. \A x : (Fresh(x)' <=> Fresh(x)) /\ Epoch(x)' = Epoch(x)
  BY DEF Fresh, Epoch, Kind
<1>10. ghost'.mixed => ghost'.blurred
  <2>1. Fresh(tty.rx[1]) /\ Fresh(tty.rx[m])
    BY <1>1 DEF Interrupts, AllFresh
  <2>2. Epoch(tty.rx[1]) # Epoch(tty.rx[m]) => ghost.blurred
    BY <2>1 DEF Fresh
  <2>3. QED
    BY <1>1, <2>2 DEF Interrupts
<1>11. Interrupts'
  BY <1>1, <1>3, <1>6, <1>9, <1>10 DEF Interrupts, AllFresh
<1>12. FromSerial' /\ FromUsb'
  BY <1>1, <1>9 DEF FromSerial, FromUsb, Counted
<1>13. QED
  BY <1>8, <1>11, <1>12 DEF KeysInOrder

\* uart_leer() finds keys, the end of the input, or nothing and sleeps.
LEMMA LeerKeeps ==
    ASSUME ConsoleInv, Leer, UNCHANGED <<board, uart, mail, con, usb, push, textVars>>
    PROVE  ConsoleInv'
<1>1. /\ UNCHANGED <<board, uart, mail, con, usb, push, klog, avisado, perdidos, avisar, lock, writer, left>>
      /\ reader.pc = "look"
  BY DEF Leer, textVars
<1>2. /\ tty \in Ttys /\ tty.rx \in Seq(Nat) /\ Len(tty.rx) <= RxMax /\ reader \in Readers
      /\ reader.n # 0 /\ left \in Bounds /\ ghost \in Ghosts /\ KeysInOrder
  BY <1>1 DEF ConsoleInv, KeysTyped, Limits, Ttys, KeysInOrder
<1>3. ASSUME NEW m \in 1 .. Len(tty.rx),
             tty' = [tty EXCEPT !.rx = SubSeq(@, m + 1, Len(@))],
             reader' = [reader EXCEPT !.pc = "out", !.last = tty.rx[m]],
             ghost' = [ghost EXCEPT !.mixed = @ \/ Epoch(tty.rx[1]) # Epoch(tty.rx[m])]
      PROVE  ConsoleInv'
  <2>1. PICK r : r = SubSeq(tty.rx, m + 1, Len(tty.rx))
    OBVIOUS
  <2>2. r \in Seq(Nat) /\ Len(r) <= RxMax
    <3>1. m \in 0 .. Len(tty.rx)
      OBVIOUS
    <3>2. r \in Seq(Nat) /\ Len(r) = Len(tty.rx) - m
      BY <1>2, <2>1, <3>1, PiecesOf
    <3>3. QED
      BY <1>2, <3>2, Sizes
  <2>3. tty' = [tty EXCEPT !.rx = r]
    BY <1>3, <2>1
  <2>4. /\ tty' \in Ttys /\ tty'.rx = r /\ tty'.cells = tty.cells /\ tty'.n = tty.n
        /\ tty'.canon = tty.canon
    BY <1>2, <2>2, <2>3 DEF Ttys
  <2>5. PICK k \in Nat : k = tty.rx[m]
    BY <1>2
  <2>6. reader' \in Readers /\ reader'.pc = "out" /\ reader'.last = k
    BY <1>2, <1>3, <2>5 DEF Readers
  <2>7. PICK b \in BOOLEAN : b = (ghost.mixed \/ Epoch(tty.rx[1]) # Epoch(tty.rx[m]))
    BY Zenon
  <2>8. ghost' = [ghost EXCEPT !.mixed = b]
    BY <1>3, <2>7
  <2>9. /\ ghost' \in Ghosts /\ ghost'.late = ghost.late /\ ghost'.crossed = ghost.crossed
        /\ ghost'.done = ghost.done /\ ghost'.blurred = ghost.blurred /\ ghost'.mixed = b
    BY <1>2, <2>8 DEF Ghosts
  <2>10. KeysInOrder'
    <3>1. ghost'.mixed = (ghost.mixed \/ Epoch(tty.rx[1]) # Epoch(tty.rx[m]))
      BY <2>7, <2>9
    <3>2. tty'.rx = SubSeq(tty.rx, m + 1, Len(tty.rx)) /\ reader'.last = tty.rx[m]
      BY <2>1, <2>4, <2>5, <2>6
    <3>3. QED
      BY <1>1, <2>4, <2>9, <3>1, <3>2, KeysTaken
  <2>11. QED
    BY <1>1, <1>2, <2>2, <2>4, <2>6, <2>9, <2>10, ReaderOther
<1>4. CASE /\ tty.rx = <<>> /\ tty' = [tty EXCEPT !.eof = FALSE]
           /\ reader' = [reader EXCEPT !.pc = "out"] /\ UNCHANGED ghost
  <2>1. /\ tty' \in Ttys /\ tty'.rx = tty.rx /\ tty'.cells = tty.cells /\ tty'.n = tty.n
        /\ tty'.canon = tty.canon
    BY <1>2, <1>4 DEF Ttys
  <2>2. reader' \in Readers /\ reader'.pc = "out" /\ reader'.last = reader.last
    BY <1>2, <1>4 DEF Readers
  <2>3. KeysInOrder'
    BY <1>1, <1>2, <1>4, <2>1, <2>2, KeysStand DEF Held
  <2>4. QED
    BY <1>1, <1>2, <1>4, <2>1, <2>2, <2>3, ReaderOther
<1>5. CASE /\ tty.rx = <<>> /\ ~tty.eof
           /\ reader' = [reader EXCEPT !.pc = "asleep"] /\ UNCHANGED <<tty, ghost>>
  <2>1. reader' \in Readers /\ reader'.n = reader.n /\ reader'.last = reader.last
    BY <1>2, <1>5 DEF Readers
  <2>2. KeysInOrder'
    BY <1>1, <1>2, <1>5, <2>1, KeysStand DEF Held
  <2>3. QED
    BY <1>1, <1>2, <1>5, <2>1, <2>2, ReaderOther
<1>6. QED
  BY <1>3, <1>4, <1>5 DEF Leer

\* uart_modo() throws the line away when it comes back to lines.
LEMMA ModoKeeps ==
    ASSUME ConsoleInv, Modo, UNCHANGED <<board, uart, mail, con, usb, push, textVars>>
    PROVE  ConsoleInv'
<1>1. /\ UNCHANGED <<board, uart, mail, con, usb, push, klog, avisado, perdidos, avisar, lock, writer>>
      /\ reader.pc = "out" /\ left.modes > 0 /\ UNCHANGED <<reader, ghost>>
      /\ tty' = [tty EXCEPT !.canon = ~@, !.n = IF tty.canon THEN @ ELSE 0]
      /\ left' = [left EXCEPT !.modes = @ - 1]
  BY DEF Modo, textVars
<1>2. /\ tty \in Ttys /\ tty.canon \in BOOLEAN /\ tty.n \in 0 .. LineMax /\ Len(tty.rx) <= RxMax
      /\ reader \in Readers /\ left \in Bounds /\ ghost \in Ghosts
      /\ Order /\ Interrupts /\ FromSerial /\ FromUsb /\ push.n \in Nat
  BY DEF ConsoleInv, KeysTyped, Limits, Ttys, Pushed
<1>3. PICK b \in BOOLEAN : b = ~tty.canon
  BY <1>2
<1>4. PICK n \in 0 .. LineMax : n = IF tty.canon THEN tty.n ELSE 0
  <2>1. 0 \in 0 .. LineMax
    BY Sizes
  <2>2. QED
    BY <1>2, <2>1
<1>5. tty' = [tty EXCEPT !.canon = b, !.n = n]
  BY <1>1, <1>3, <1>4
<1>6. tty' \in Ttys /\ tty'.rx = tty.rx /\ tty'.cells = tty.cells /\ tty'.n = n /\ tty'.canon = b
  BY <1>2, <1>5 DEF Ttys
<1>7. left' \in Bounds
  BY <1>1, <1>2 DEF Bounds
<1>8. \A k : (New(k)' <=> New(k)) /\ (Fresh(k)' <=> Fresh(k)) /\ Epoch(k)' = Epoch(k)
  BY <1>1, <1>6 DEF New, Fresh, Epoch, Kind
<1>9. Valid' /\ InLine' # 0 => Valid /\ InLine' = InLine
  BY <1>1, <1>3, <1>4, <1>6 DEF Valid, InLine
<1>10. InLine' = 0 => 1 .. InLine' = {}
  OBVIOUS
<1>11. push.pc = "store" => tty'.n <= push.n
  BY <1>2, <1>4, <1>6 DEF Order
<1>12. Order'
  <2>1. Valid' => \A i \in 1 .. InLine' :
          /\ \A j \in 1 .. InLine' : i < j => tty.cells[i] < tty.cells[j]
          /\ \A j \in DOMAIN tty.rx : tty.rx[j] < tty.cells[i]
          /\ reader.last < tty.cells[i]
    BY <1>2, <1>9, <1>10 DEF Order
  <2>2. QED
    BY <1>1, <1>2, <1>6, <1>8, <1>11, <2>1 DEF Order, Sorted, Below, AllNew
<1>13. Interrupts'
  <2>1. Valid' => \A i \in 1 .. InLine' : Fresh(tty.cells[i])
    BY <1>2, <1>9, <1>10 DEF Interrupts
  <2>2. QED
    BY <1>1, <1>2, <1>6, <1>8, <2>1 DEF Interrupts, AllFresh
<1>14. FromSerial' /\ FromUsb'
  BY <1>1, <1>2, <1>8 DEF FromSerial, FromUsb, Counted
<1>15. QED
  <2>1. KeysInOrder' /\ reader'.pc = "out"
    BY <1>1, <1>12, <1>13, <1>14 DEF KeysInOrder
  <2>2. QED
    BY <1>1, <1>2, <1>6, <1>7, <2>1, ReaderOther

\* The process that reads.
LEMMA ReaderKeeps == ASSUME ConsoleInv, Reader PROVE ConsoleInv'
<1>1. UNCHANGED <<board, uart, mail, con, usb, push, textVars>>
  BY DEF Reader
<1>2. ASSUME NEW n \in ReadSizes, Call(n)
      PROVE  ConsoleInv'
  <2>1. /\ reader' = [reader EXCEPT !.pc = "look", !.n = n] /\ UNCHANGED <<tty, ghost, left>>
        /\ UNCHANGED <<board, uart, mail, con, usb, push, klog, avisado, perdidos, avisar, lock, writer>>
    BY <1>1, <1>2 DEF Call, textVars
  <2>2. /\ tty \in Ttys /\ Len(tty.rx) <= RxMax /\ reader \in Readers /\ left \in Bounds
        /\ ghost \in Ghosts /\ KeysInOrder /\ n \in Nat \ {0}
    BY Sizes DEF ConsoleInv, KeysTyped, Limits, KeysInOrder
  <2>3. reader' \in Readers /\ reader'.pc = "look" /\ reader'.n # 0 /\ reader'.last = reader.last
    BY <2>1, <2>2 DEF Readers
  <2>4. KeysInOrder'
    BY <2>1, <2>2, <2>3, KeysStand DEF Held
  <2>5. QED
    BY <2>1, <2>2, <2>3, <2>4, ReaderOther
<1>3. QED
  BY <1>1, <1>2, LeerKeeps, ModoKeeps DEF Reader
-----------------------------------------------------------------------------
\* What was typed now is after all that was.
LEMMA LaterIsNew ==
    ASSUME ConsoleInv, New(board.typed + 1)
    PROVE  /\ \A k \in Nat : board.typed < k => New(k)
           /\ \A s \in {push.buf, con.buf, usb.keys, uart.fifo} :
                s \in Seq(Keys) /\ \A i \in DOMAIN s : s[i] <= board.typed /\ s[i] \in Nat
<1>1. board.typed \in Nat /\ tty \in Ttys /\ reader \in Readers
  BY DEF ConsoleInv, KeysTyped, Scripts
<1>2. ASSUME NEW k \in Nat, board.typed < k
      PROVE  New(k)
  <2>1. /\ tty.rx \in Seq(Nat) /\ tty.cells \in [1 .. LineMax -> Nat] /\ reader.last \in Nat
        /\ board.typed + 1 <= k
    BY <1>1, <1>2 DEF Ttys, Readers
  <2>2. \A i \in DOMAIN tty.rx : tty.rx[i] < k
    <3>1. \A i \in DOMAIN tty.rx : tty.rx[i] < board.typed + 1 /\ tty.rx[i] \in Nat
      BY <2>1 DEF New
    <3>2. QED
      BY <1>1, <2>1, <3>1
  <2>3. \A i \in 1 .. LineMax : tty.cells[i] < k
    <3>1. \A i \in 1 .. LineMax : tty.cells[i] < board.typed + 1 /\ tty.cells[i] \in Nat
      BY <2>1 DEF New
    <3>2. QED
      BY <1>1, <2>1, <3>1
  <2>4. reader.last < k
    BY <1>1, <2>1 DEF New
  <2>5. QED
    BY <2>2, <2>3, <2>4 DEF New
<1>3. ASSUME NEW s \in {push.buf, con.buf, usb.keys, uart.fifo}
      PROVE  s \in Seq(Keys) /\ \A i \in DOMAIN s : s[i] <= board.typed /\ s[i] \in Nat
  <2>1. s \in Seq(Keys) /\ AllNew(s)
    BY DEF ConsoleInv, KeysTyped, Order, Pushed, Drivers, Usbs, Uarts
  <2>2. \A i \in DOMAIN s : s[i] \in Nat
    BY <2>1 DEF Keys
  <2>3. QED
    BY <2>1, <2>2 DEF AllNew
<1>4. QED
  BY <1>2, <1>3

\* A key is typed on the serial line, and finds room or is lost.
LEMMA TypedKeys ==
    ASSUME ConsoleInv, board.on = "serial", board' = [board EXCEPT !.typed = @ + 1],
           UNCHANGED <<con, usb, push, tty, reader>>,
           ghost'.done = ghost.done, ghost'.mixed = ghost.mixed, ghost.blurred => ghost'.blurred,
           \/ uart'.fifo = Append(uart.fifo, board.typed + 1)
           \/ /\ uart'.fifo = uart.fifo
              /\ Kind(board.typed + 1) = "sig" => ghost'.blurred
    PROVE  KeysInOrder'
<1> DEFINE k == board.typed + 1
<1>1. /\ Order /\ Interrupts /\ FromSerial /\ New(k) /\ board.typed \in Nat /\ k \in Nat /\ k \in Keys
      /\ board'.script = board.script /\ board'.on = "serial" /\ board'.typed = k
      /\ uart.fifo \in Seq(Keys) /\ uart.fifo \in Seq(Nat)
  BY DEF ConsoleInv, KeysTyped, Scripts, Order, Uarts, Keys
<1>2. /\ \A x \in Nat : board.typed < x => New(x)
      /\ \A s \in {push.buf, con.buf, usb.keys, uart.fifo} :
           s \in Seq(Keys) /\ \A i \in DOMAIN s : s[i] <= board.typed /\ s[i] \in Nat
  BY <1>1, LaterIsNew
<1>3. /\ \A x : New(x)' <=> New(x)
      /\ \A x : (Fresh(x) => Fresh(x)') /\ Epoch(x)' = Epoch(x) /\ Kind(x)' = Kind(x)
  BY <1>1 DEF New, Fresh, Epoch, Kind
<1>4. InLine' = InLine /\ (Valid' <=> Valid)
  BY DEF InLine, Valid
<1>5. /\ uart'.fifo \in Seq(Nat)
      /\ \A i \in DOMAIN uart'.fifo : \/ i \in DOMAIN uart.fifo /\ uart'.fifo[i] = uart.fifo[i]
                                      \/ i = Len(uart.fifo) + 1 /\ uart'.fifo[i] = k
  <2>1. PICK f \in Seq(Nat) : f = uart.fifo
    BY <1>1
  <2>2. PICK g : g = Append(f, k)
    OBVIOUS
  <2>3. /\ g \in Seq(Nat)
        /\ \A i \in DOMAIN g : \/ i \in DOMAIN f /\ g[i] = f[i]
                               \/ i = Len(f) + 1 /\ g[i] = k
    <3>1. /\ g \in Seq(Nat) /\ Len(g) = Len(f) + 1 /\ Len(f) \in Nat /\ DOMAIN f = 1 .. Len(f)
          /\ g[Len(f) + 1] = k /\ \A i \in 1 .. Len(f) : g[i] = f[i]
      BY <1>1, <2>2
    <3>2. \A i \in DOMAIN g : i \in 1 .. Len(f) \/ i = Len(f) + 1
      BY <3>1
    <3>3. QED
      BY <3>1, <3>2
  <2>4. CASE uart'.fifo = Append(uart.fifo, k)
    <3>1. uart'.fifo = g
      BY <2>1, <2>2, <2>4
    <3>2. QED
      BY <2>1, <2>3, <3>1
  <2>5. CASE uart'.fifo = uart.fifo
    BY <1>1, <2>5
  <2>6. QED
    BY <2>4, <2>5
<1>6. AllNew(push.buf)' /\ AllNew(con.buf)' /\ AllNew(usb.keys)' /\ AllNew(uart.fifo)' /\ New(board.typed + 1)'
  <2>1. \A s \in {push.buf, con.buf, usb.keys, uart.fifo} : AllNew(s) /\ \A i \in DOMAIN s : s[i] <= k
    BY <1>1, <1>2 DEF Order
  <2>2. AllNew(push.buf)' /\ AllNew(con.buf)' /\ AllNew(usb.keys)'
    BY <1>1, <1>3, <2>1 DEF AllNew
  <2>3. AllNew(uart.fifo)'
    BY <1>1, <1>3, <1>5, <2>1, SMTT(40) DEF AllNew
  <2>4. New(board.typed + 1)'
    <3>1. New(k + 1)
      <4>1. k + 1 \in Nat /\ board.typed < k + 1
        BY <1>1
      <4>2. QED
        BY <1>2, <4>1
    <3>2. QED
      BY <1>1, <1>3, <3>1
  <2>5. QED
    BY <2>2, <2>3, <2>4
<1>7. Sorted(uart'.fifo) /\ Below(push.buf, uart'.fifo) /\ Below(con.buf, uart'.fifo)
  <2>1. Sorted(uart'.fifo)
    <3>1. SUFFICES ASSUME NEW i \in DOMAIN uart'.fifo, NEW j \in DOMAIN uart'.fifo, i < j
                   PROVE  uart'.fifo[i] < uart'.fifo[j]
      BY DEF Sorted
    <3>2. i \in Nat /\ j \in Nat /\ Len(uart.fifo) \in Nat /\ DOMAIN uart.fifo = 1 .. Len(uart.fifo)
      BY <1>1, <1>5
    <3>3. i \in DOMAIN uart.fifo /\ uart'.fifo[i] = uart.fifo[i]
      BY <1>5, <3>1, <3>2
    <3>4. CASE j \in DOMAIN uart.fifo /\ uart'.fifo[j] = uart.fifo[j]
      BY <1>1, <3>1, <3>3, <3>4 DEF Order, Sorted
    <3>5. CASE uart'.fifo[j] = k
      BY <1>1, <1>2, <3>3, <3>5
    <3>6. QED
      BY <1>5, <3>4, <3>5
  <2>2. \A s \in {push.buf, con.buf} : Below(s, uart.fifo) /\ \A i \in DOMAIN s : s[i] < k
    BY <1>1, <1>2 DEF Order
  <2>3. QED
    BY <1>5, <2>1, <2>2 DEF Below
<1>8. Order'
  BY <1>1, <1>3, <1>4, <1>6, <1>7 DEF Order, Sorted, Below
<1>9. Interrupts'
  BY <1>1, <1>3, <1>4 DEF Interrupts, AllFresh
<1>10. FromSerial'
  <2>1. Counted' = Counted /\ Epoch(k) >= Counted /\ Counted \in Nat
    BY <1>1, SMTT(40) DEF Counted, FromSerial, ConsoleInv, KeysTyped, Drivers, Pushed, Ghosts
  <2>2. Epoch(k) \in Nat /\ Epoch(k + 1) \in Nat /\ Epoch(k + 1) >= Counted
    <3>1. k + 1 \in Keys /\ k <= k + 1
      BY <1>1 DEF Keys
    <3>2. Epoch(k) <= Epoch(k + 1) /\ Epoch(k) \in Nat /\ Epoch(k + 1) \in Nat
      BY <1>1, <3>1, EpochGrows, EpochIs
    <3>3. QED
      BY <2>1, <3>2
  <2>3. \A i \in DOMAIN uart'.fifo : Epoch(uart'.fifo[i]) >= Counted
    BY <1>1, <1>5, <2>1 DEF FromSerial
  <2>4. ASSUME ~ghost'.blurred, uart'.fifo = Append(uart.fifo, k)
        PROVE  /\ uart'.fifo # <<>>
               /\ Epoch(uart'.fifo[1]) = Counted
               /\ uart'.fifo[Len(uart'.fifo)] = k
               /\ \A i \in 1 .. Len(uart'.fifo) - 1 : Epoch(uart'.fifo[i + 1]) = Epoch(uart'.fifo[i] + 1)
    <3>1. PICK f \in Seq(Nat) : f = uart.fifo
      BY <1>1
    <3>2. PICK g : g = Append(f, k)
      OBVIOUS
    <3>3. Len(f) \in Nat /\ Len(g) = Len(f) + 1 /\ g[Len(f) + 1] = k /\ \A i \in 1 .. Len(f) : g[i] = f[i]
      BY <1>1, <3>2
    <3>4. /\ f = <<>> => Epoch(k) = Counted
          /\ f # <<>> => Epoch(f[1]) = Counted /\ Epoch(f[Len(f)] + 1) = Epoch(k)
          /\ \A i \in 1 .. Len(f) - 1 : Epoch(f[i + 1]) = Epoch(f[i] + 1)
      BY <1>1, <2>4, <3>1 DEF FromSerial
    <3>5. g # <<>> /\ g[Len(g)] = k
      BY <3>3
    <3>6. Epoch(g[1]) = Counted
      <4>1. CASE f = <<>>
        <5>1. g[1] = k
          BY <3>3, <4>1
        <5>2. QED
          BY <3>4, <4>1, <5>1
      <4>2. CASE f # <<>>
        <5>1. g[1] = f[1]
          BY <3>3, <4>2
        <5>2. QED
          BY <3>4, <4>2, <5>1
      <4>3. QED
        BY <4>1, <4>2
    <3>7. ASSUME NEW i \in 1 .. Len(g) - 1
          PROVE  Epoch(g[i + 1]) = Epoch(g[i] + 1)
      <4>1. i \in 1 .. Len(f) /\ g[i] = f[i] /\ f # <<>>
        BY <3>3, <3>7
      <4>2. CASE i = Len(f)
        <5>1. g[i + 1] = k /\ g[i] = f[Len(f)]
          BY <3>3, <4>1, <4>2
        <5>2. QED
          BY <3>4, <4>1, <5>1
      <4>3. CASE i # Len(f)
        <5>1. i \in 1 .. Len(f) - 1 /\ i + 1 \in 1 .. Len(f)
          BY <3>3, <4>1, <4>3
        <5>2. g[i + 1] = f[i + 1]
          BY <3>3, <5>1
        <5>3. QED
          BY <3>4, <4>1, <5>1, <5>2
      <4>4. QED
        BY <4>2, <4>3
    <3>8. uart'.fifo = g
      BY <2>4, <3>1, <3>2
    <3>9. QED
      BY <3>5, <3>6, <3>7, <3>8
  <2>5. ASSUME ~ghost'.blurred, uart'.fifo = uart.fifo, Kind(k) # "sig"
        PROVE  /\ uart.fifo = <<>> => Epoch(k + 1) = Counted
               /\ uart.fifo # <<>> => /\ Epoch(uart.fifo[1]) = Counted
                                      /\ Epoch(uart.fifo[Len(uart.fifo)] + 1) = Epoch(k + 1)
               /\ \A i \in 1 .. Len(uart.fifo) - 1 : Epoch(uart.fifo[i + 1]) = Epoch(uart.fifo[i] + 1)
    <3>1. Epoch(k + 1) = Epoch(k)
      BY <1>1, <2>5, EpochNext
    <3>2. QED
      BY <1>1, <2>5, <3>1 DEF FromSerial
  <2>6. board'.typed + 1 = k + 1
    BY <1>1
  <2>7. QED
    <3>1. CASE ghost'.blurred
      BY <1>1, <1>3, <2>1, <2>2, <2>3, <2>6, <3>1 DEF FromSerial
    <3>2. CASE ~ghost'.blurred /\ uart'.fifo = Append(uart.fifo, k)
      BY <1>1, <1>3, <2>1, <2>2, <2>3, <2>4, <2>6, <3>2 DEF FromSerial
    <3>3. CASE ~ghost'.blurred /\ uart'.fifo = uart.fifo /\ Kind(k) # "sig"
      BY <1>1, <1>3, <2>1, <2>2, <2>3, <2>5, <2>6, <3>3 DEF FromSerial
    <3>4. QED
      BY <3>1, <3>2, <3>3
<1>11. FromUsb'
  BY <1>1 DEF FromUsb
<1>12. QED
  BY <1>8, <1>9, <1>10, <1>11 DEF KeysInOrder

\* A key that is typed enters the FIFO, or is lost.
LEMMA TypedKeeps == ASSUME ConsoleInv, Typed PROVE ConsoleInv'
<1> DEFINE k == board.typed + 1
<1>1. /\ board.on = "serial" /\ board.typed < Len(board.script)
      /\ board' = [board EXCEPT !.typed = @ + 1]
      /\ uart' = [uart EXCEPT !.fifo = IF Len(@) < FifoMax THEN Append(@, k) ELSE @, !.ris = TRUE]
      /\ ghost' = [ghost EXCEPT !.blurred = \/ @
                                            \/ Len(uart.fifo) >= FifoMax /\ Kind(k) = "sig"]
      /\ UNCHANGED <<mail, con, usb, push, tty, reader, klog, avisado, perdidos, avisar, lock, writer, left>>
  BY DEF Typed, keyVars, textVars
<1>2. /\ board \in Scripts /\ board.typed \in Nat /\ k \in Nat /\ k \in Keys /\ Len(board.script) \in Nat
      /\ uart \in Uarts /\ uart.fifo \in Seq(Keys) /\ Len(uart.fifo) <= FifoMax /\ ghost \in Ghosts
      /\ Len(uart.fifo) \in Nat
  BY DEF ConsoleInv, KeysTyped, Limits, Scripts, Uarts, Keys
<1>3. PICK f : f = IF Len(uart.fifo) < FifoMax THEN Append(uart.fifo, k) ELSE uart.fifo
  OBVIOUS
<1>4. f \in Seq(Keys) /\ Len(f) <= FifoMax
  <2>1. CASE Len(uart.fifo) < FifoMax
    <3>1. f = Append(uart.fifo, k)
      BY <1>3, <2>1
    <3>2. f \in Seq(Keys) /\ Len(f) = Len(uart.fifo) + 1
      BY <1>2, <3>1
    <3>3. QED
      BY <1>2, <2>1, <3>2, Sizes
  <2>2. CASE ~(Len(uart.fifo) < FifoMax)
    BY <1>2, <1>3, <2>2
  <2>3. QED
    BY <2>1, <2>2
<1>5. uart' = [uart EXCEPT !.fifo = f, !.ris = TRUE]
  BY <1>1, <1>3
<1>6. /\ uart' \in Uarts /\ uart'.fifo = f /\ uart'.ris /\ uart'.open = uart.open
      /\ uart'.owned = uart.owned
  BY <1>2, <1>4, <1>5 DEF Uarts
<1>7. PICK b \in BOOLEAN : b = (ghost.blurred \/ (Len(uart.fifo) >= FifoMax /\ Kind(k) = "sig"))
  BY Zenon
<1>8. ghost' = [ghost EXCEPT !.blurred = b]
  BY <1>1, <1>7
<1>9. /\ ghost' \in Ghosts /\ ghost'.late = ghost.late /\ ghost'.crossed = ghost.crossed
      /\ ghost'.done = ghost.done /\ ghost'.mixed = ghost.mixed /\ ghost'.blurred = b
  BY <1>2, <1>8 DEF Ghosts
<1>10. PICK m \in Nat : m = board.typed + 1 /\ m <= Len(board.script)
  BY <1>1, <1>2
<1>11. board' \in Scripts /\ board'.typed = m /\ board'.on = board.on /\ board'.script = board.script
       /\ board'.texts = board.texts
  BY <1>1, <1>2, <1>10 DEF Scripts
<1>12. KeysTyped' /\ Limits'
  BY <1>1, <1>4, <1>6, <1>9, <1>10, <1>11 DEF ConsoleInv, KeysTyped, Limits
<1>13. Hands'
  BY <1>1, <1>6, <1>11 DEF ConsoleInv, Hands
<1>14. Heard'
  BY <1>1, <1>6 DEF ConsoleInv, Heard
<1>15. Announced'
  BY <1>1, <1>9, NoticesUntouched DEF ConsoleInv
<1>16. avisado' \in BOOLEAN /\ perdidos' \in BOOLEAN
  BY <1>1, ZenonT(30) DEF ConsoleInv, TextTyped
<1>17. TextTyped'
  BY <1>1, <1>11, <1>16 DEF ConsoleInv, TextTyped, Texts
<1>18. KeysInOrder'
  <2>1. \/ uart'.fifo = Append(uart.fifo, k)
        \/ uart'.fifo = uart.fifo /\ (Kind(k) = "sig" => ghost'.blurred)
    <3>1. Len(uart.fifo) < FifoMax \/ Len(uart.fifo) >= FifoMax
      BY <1>2, Sizes
    <3>2. CASE Len(uart.fifo) < FifoMax
      BY <1>3, <1>6, <3>2
    <3>3. CASE Len(uart.fifo) >= FifoMax /\ ~(Len(uart.fifo) < FifoMax)
      BY <1>3, <1>6, <1>7, <1>9, <3>3
    <3>4. QED
      BY <1>2, <3>2, <3>3, Sizes
  <2>2. ghost.blurred => ghost'.blurred
    BY <1>7, <1>9
  <2>3. QED
    BY <1>1, <1>9, <2>1, <2>2, TypedKeys
<1>19. QED
  BY <1>12, <1>13, <1>14, <1>15, <1>17, <1>18 DEF ConsoleInv, KeysInOrder

\* The core that takes the interrupt tells the driver, or opens it again.
LEMMA IrqHandleKeeps == ASSUME ConsoleInv, IrqHandle PROVE ConsoleInv'
<1>1. /\ UNCHANGED <<board, con, usb, push, tty, reader, klog, avisado, perdidos, avisar, lock, writer, ghost,
                     left>>
      /\ \/ Posted("irq") /\ uart' = [uart EXCEPT !.open = FALSE]
         \/ UNCHANGED <<uart, mail>>
  BY DEF IrqHandle, keyVars, textVars
<1>2. CASE UNCHANGED <<uart, mail>>
  <2>1. KeysTyped' /\ Limits' /\ Hands' /\ Heard' /\ KeysInOrder'
    BY <1>1, <1>2, KeysUntouched DEF ConsoleInv, KeysTyped
  <2>2. Announced'
    BY <1>1, <1>2, NoticesUntouched DEF ConsoleInv
  <2>3. avisado' \in BOOLEAN /\ perdidos' \in BOOLEAN
    BY <1>1, ZenonT(30) DEF ConsoleInv, TextTyped
  <2>4. TextTyped'
    BY <1>1, <1>2, <2>3 DEF ConsoleInv, TextTyped, Texts
  <2>5. QED
    BY <2>1, <2>2, <2>4 DEF ConsoleInv, KeysInOrder
<1>3. CASE Posted("irq") /\ uart' = [uart EXCEPT !.open = FALSE]
  <2>1. /\ mail' \in Seq({"klog", "irq", "print"}) /\ Len(mail') <= Room
        /\ \A i \in DOMAIN mail : i \in DOMAIN mail' /\ mail'[i] = mail[i]
        /\ \E i \in DOMAIN mail' : mail'[i] = "irq"
    BY <1>3, Posts DEF ConsoleInv
  <2>2. uart \in Uarts
    BY DEF ConsoleInv, KeysTyped
  <2>3. /\ uart' \in Uarts /\ uart'.fifo = uart.fifo /\ uart'.ris = uart.ris
        /\ uart'.owned = uart.owned
    BY <1>3, <2>2 DEF Uarts
  <2>4. KeysTyped' /\ Limits' /\ Hands'
    BY <1>1, <2>3 DEF ConsoleInv, KeysTyped, Limits, Hands
  <2>5. Heard'
    BY <1>1, <2>1, <2>3 DEF ConsoleInv, Heard
  <2>6. KeysInOrder'
    BY <1>1, <2>3, KeysStand DEF ConsoleInv, KeysInOrder, Held
  <2>7. Announced'
    BY <1>1, <2>1, NoticesUntouched DEF ConsoleInv
  <2>8. avisado' \in BOOLEAN /\ perdidos' \in BOOLEAN
    BY <1>1, ZenonT(30) DEF ConsoleInv, TextTyped
  <2>9. TextTyped'
    BY <1>1, <2>1, <2>8 DEF ConsoleInv, TextTyped, Texts
  <2>10. QED
    BY <2>4, <2>5, <2>6, <2>7, <2>9 DEF ConsoleInv, KeysInOrder
<1>4. QED
  BY <1>1, <1>2, <1>3
-----------------------------------------------------------------------------
\* The first key leaves the FIFO: a ^C counts from there on.
LEMMA FifoGoes ==
    ASSUME ConsoleInv, board.on = "serial", uart.fifo # <<>>, UNCHANGED board,
           uart'.fifo = Tail(uart.fifo), ghost.blurred => ghost'.blurred,
           Counted' = IF Kind(uart.fifo[1]) = "sig" THEN Counted + 1 ELSE Counted
    PROVE  FromSerial'
<1> DEFINE k == uart.fifo[1]
<1>1. /\ uart.fifo \in Seq(Keys) /\ FromSerial /\ board.typed \in Nat /\ board.typed + 1 \in Keys
      /\ Counted \in Nat /\ Order
  <2>1. /\ uart.fifo \in Seq(Keys) /\ FromSerial /\ board.typed \in Nat /\ Order
        /\ con.sig \in Nat /\ push.sig \in Nat /\ ghost.done \in Nat
    BY DEF ConsoleInv, KeysTyped, Uarts, Scripts, Drivers, Pushed, Ghosts
  <2>2. QED
    BY <2>1, SMTT(40) DEF Counted, Keys
<1>2. PICK f \in Seq(Keys) : f = uart.fifo
  BY <1>1
<1>3. PICK g : g = Tail(f)
  OBVIOUS
<1>4. /\ g \in Seq(Keys) /\ Len(g) = Len(f) - 1 /\ 1 \in DOMAIN f /\ k \in Keys /\ Len(f) \in Nat
      /\ DOMAIN f = 1 .. Len(f) /\ DOMAIN g = 1 .. Len(g)
      /\ \A i \in DOMAIN g : i + 1 \in DOMAIN f /\ g[i] = f[i + 1] /\ f[i + 1] \in Keys
  <2>1. f # <<>>
    BY <1>2
  <2>2. /\ g \in Seq(Keys) /\ Len(g) = Len(f) - 1 /\ 1 \in DOMAIN f /\ f[1] \in Keys
        /\ \A i \in DOMAIN g : i + 1 \in DOMAIN f /\ g[i] = f[i + 1]
    BY <1>3, <2>1, PiecesOf
  <2>3. \A i \in DOMAIN g : f[i + 1] \in Keys
    BY <2>2
  <2>4. QED
    BY <1>2, <2>2, <2>3
<1>5. \A x : Epoch(x)' = Epoch(x)
  BY DEF Epoch, Kind
<1>6. /\ \A i \in DOMAIN f : Epoch(f[i]) >= Counted /\ Epoch(f[i]) \in Nat
      /\ Epoch(board.typed + 1) >= Counted /\ Epoch(board.typed + 1) \in Nat
      /\ k <= board.typed /\ k < board.typed + 1
      /\ \A i \in DOMAIN g : k < g[i]
  <2>1. \A i \in DOMAIN f : Epoch(f[i]) >= Counted /\ f[i] \in Keys /\ f[i] <= board.typed
    BY <1>1, <1>2 DEF FromSerial, Order, AllNew
  <2>2. \A i \in DOMAIN g : i + 1 \in DOMAIN f /\ 1 < i + 1
    BY <1>4
  <2>3. \A i \in DOMAIN g : k < g[i]
    BY <1>1, <1>2, <1>4, <2>2 DEF Order, Sorted
  <2>4. k <= board.typed /\ k < board.typed + 1
    BY <1>1, <1>2, <1>4, <2>1, SMTT(40) DEF Keys
  <2>5. QED
    BY <1>1, <2>1, <2>3, <2>4, EpochIs DEF FromSerial
<1>7. /\ \A i \in DOMAIN g : Epoch(g[i]) >= Counted'
      /\ Epoch(board.typed + 1) >= Counted'
  <2>1. CASE Kind(k) = "sig"
    <3>1. Counted' = Counted + 1
      BY <2>1
    <3>2. Epoch(k) >= Counted /\ Epoch(k) \in Nat
      BY <1>2, <1>4, <1>6
    <3>3. Epoch(k) + 1 <= Epoch(board.typed + 1)
      BY <1>1, <1>4, <1>6, <2>1, EpochSig
    <3>4. \A i \in DOMAIN g : Epoch(k) + 1 <= Epoch(g[i]) /\ Epoch(g[i]) \in Nat
      BY <1>4, <1>6, <2>1, EpochSig
    <3>5. QED
      BY <1>1, <1>6, <3>1, <3>2, <3>3, <3>4
  <2>2. CASE Kind(k) # "sig"
    <3>1. Counted' = Counted
      BY <2>2
    <3>2. QED
      BY <1>4, <1>6, <3>1
  <2>3. QED
    BY <2>1, <2>2
<1>8. ASSUME ~ghost'.blurred
      PROVE  /\ g = <<>> => Epoch(board.typed + 1) = Counted'
             /\ g # <<>> => Epoch(g[1]) = Counted' /\ Epoch(g[Len(g)] + 1) = Epoch(board.typed + 1)
             /\ \A i \in 1 .. Len(g) - 1 : Epoch(g[i + 1]) = Epoch(g[i] + 1)
  <2>1. /\ Epoch(k) = Counted /\ Epoch(f[Len(f)] + 1) = Epoch(board.typed + 1)
        /\ \A i \in 1 .. Len(f) - 1 : Epoch(f[i + 1]) = Epoch(f[i] + 1)
    BY <1>1, <1>2, <1>8 DEF FromSerial
  <2>2. Epoch(k + 1) = Counted'
    BY <1>4, <2>1, EpochNext
  <2>3. g = <<>> => Len(f) = 1
    BY <1>4
  <2>4. g = <<>> => Epoch(board.typed + 1) = Counted'
    BY <1>2, <2>1, <2>2, <2>3
  <2>5. g # <<>> => 1 \in DOMAIN g /\ Len(g) \in DOMAIN g /\ Len(g) + 1 = Len(f) /\ 1 \in 1 .. Len(f) - 1
    BY <1>4
  <2>6. g # <<>> => Epoch(g[1]) = Counted'
    <3>1. SUFFICES ASSUME g # <<>> PROVE Epoch(g[1]) = Counted'
      OBVIOUS
    <3>2. g[1] = f[1 + 1] /\ Epoch(f[1 + 1]) = Epoch(f[1] + 1)
      BY <1>4, <2>1, <2>5, <3>1
    <3>3. QED
      BY <1>2, <2>2, <3>2
  <2>7. g # <<>> => Epoch(g[Len(g)] + 1) = Epoch(board.typed + 1)
    <3>1. SUFFICES ASSUME g # <<>> PROVE Epoch(g[Len(g)] + 1) = Epoch(board.typed + 1)
      OBVIOUS
    <3>2. g[Len(g)] = f[Len(f)]
      BY <1>4, <2>5, <3>1
    <3>3. QED
      BY <2>1, <3>2
  <2>8. \A i \in 1 .. Len(g) - 1 : Epoch(g[i + 1]) = Epoch(g[i] + 1)
    <3>1. SUFFICES ASSUME NEW i \in 1 .. Len(g) - 1 PROVE Epoch(g[i + 1]) = Epoch(g[i] + 1)
      OBVIOUS
    <3>2. PICK j : j = i + 1
      OBVIOUS
    <3>3. i \in DOMAIN g /\ j \in DOMAIN g /\ j \in 1 .. Len(f) - 1
      BY <1>4, <3>2
    <3>4. g[i] = f[j] /\ g[j] = f[j + 1]
      BY <1>4, <3>2, <3>3
    <3>5. Epoch(f[j + 1]) = Epoch(f[j] + 1)
      BY <2>1, <3>3
    <3>6. QED
      BY <3>2, <3>4, <3>5
  <2>9. QED
    BY <2>4, <2>6, <2>7, <2>8
<1>9. uart'.fifo = g
  BY <1>2, <1>3
<1>10. QED
  BY <1>5, <1>7, <1>8, <1>9 DEF FromSerial

\* A key that is the last keeps the order.
LEMMA Appended ==
    ASSUME NEW s \in Seq(Keys), NEW k \in Keys
    PROVE  /\ Append(s, k) \in Seq(Keys) /\ Len(Append(s, k)) = Len(s) + 1 /\ Append(s, k) # <<>>
           /\ \A i \in DOMAIN Append(s, k) : \/ i \in DOMAIN s /\ Append(s, k)[i] = s[i]
                                             \/ i = Len(s) + 1 /\ Append(s, k)[i] = k
           /\ Sorted(s) /\ (\A i \in DOMAIN s : s[i] < k) => Sorted(Append(s, k))
<1>1. PICK t : t = Append(s, k)
  OBVIOUS
<1>2. /\ t \in Seq(Keys) /\ Len(t) = Len(s) + 1 /\ Len(s) \in Nat /\ DOMAIN s = 1 .. Len(s)
      /\ DOMAIN t = 1 .. Len(t)
      /\ t[Len(s) + 1] = k /\ \A i \in 1 .. Len(s) : t[i] = s[i]
  BY <1>1
<1>3. \A i \in DOMAIN t : \/ i \in DOMAIN s /\ t[i] = s[i]
                          \/ i = Len(s) + 1 /\ t[i] = k
  <2>1. \A i \in DOMAIN t : i \in 1 .. Len(s) \/ i = Len(s) + 1
    BY <1>2
  <2>2. QED
    BY <1>2, <2>1
<1>4. t # <<>>
  BY <1>2
<1>5. ASSUME Sorted(s), \A i \in DOMAIN s : s[i] < k
      PROVE  Sorted(t)
  <2>1. SUFFICES ASSUME NEW i \in DOMAIN t, NEW j \in DOMAIN t, i < j PROVE t[i] < t[j]
    BY DEF Sorted
  <2>2. i \in DOMAIN s /\ t[i] = s[i]
    BY <1>2, <1>3, <2>1
  <2>3. CASE j \in DOMAIN s /\ t[j] = s[j]
    BY <1>5, <2>1, <2>2, <2>3 DEF Sorted
  <2>4. CASE t[j] = k
    BY <1>5, <2>2, <2>4
  <2>5. QED
    BY <1>3, <2>3, <2>4
<1>6. QED
  BY <1>1, <1>2, <1>3, <1>4, <1>5

\* What is behind the first key of the FIFO, and in front of it.
LEMMA FifoRest ==
    ASSUME ConsoleInv, board.on = "serial", uart.fifo # <<>>, UNCHANGED <<board, tty, reader>>,
           uart'.fifo = Tail(uart.fifo)
    PROVE  /\ uart.fifo[1] \in Keys /\ New(uart.fifo[1]) /\ uart.fifo[1] <= board.typed
           /\ uart'.fifo \in Seq(Keys) /\ Len(uart'.fifo) <= FifoMax
           /\ Sorted(uart'.fifo) /\ AllNew(uart.fifo)'
           /\ Below(push.buf, uart'.fifo) /\ Below(con.buf, uart'.fifo)
           /\ \A i \in DOMAIN uart'.fifo : uart.fifo[1] < uart'.fifo[i]
           /\ \A i \in DOMAIN push.buf : push.buf[i] < uart.fifo[1]
           /\ \A i \in DOMAIN con.buf : con.buf[i] < uart.fifo[1]
           /\ Epoch(uart.fifo[1]) >= Counted
           /\ ~ghost.blurred => Epoch(uart.fifo[1]) = Counted
<1>1. uart.fifo \in Seq(Keys) /\ Order /\ FromSerial /\ Len(uart.fifo) <= FifoMax
  BY DEF ConsoleInv, KeysTyped, Uarts, Limits
<1>2. PICK f \in Seq(Keys) : f = uart.fifo
  BY <1>1
<1>3. PICK g : g = Tail(f)
  OBVIOUS
<1>4. /\ f # <<>> /\ Sorted(f) /\ AllNew(f) /\ Below(push.buf, f) /\ Below(con.buf, f) /\ f \in Seq(Nat)
      /\ Len(f) <= FifoMax
  BY <1>1, <1>2 DEF Order, Keys
<1>5. /\ PieceOf(g, f) /\ g \in Seq(Keys) /\ Len(g) = Len(f) - 1 /\ 1 \in DOMAIN f /\ f[1] \in Keys
      /\ \A i \in DOMAIN g : i + 1 \in DOMAIN f /\ g[i] = f[i + 1]
  BY <1>3, <1>4, PiecesOf
<1>6. Sorted(g) /\ AllNew(g) /\ Below(push.buf, g) /\ Below(con.buf, g)
  <2>1. DOMAIN g \subseteq Nat
    BY <1>5
  <2>2. QED
    BY <1>4, <1>5, <2>1, Inherited
<1>7. \A i \in DOMAIN g : f[1] < g[i]
  <2>1. \A i \in DOMAIN g : 1 < i + 1
    BY <1>5
  <2>2. QED
    BY <1>4, <1>5, <2>1 DEF Sorted
<1>8. Len(g) <= FifoMax
  BY <1>4, <1>5, Sizes
<1>9. New(f[1]) /\ f[1] <= board.typed
  BY <1>4, <1>5 DEF AllNew
<1>10. /\ \A i \in DOMAIN push.buf : push.buf[i] < f[1]
       /\ \A i \in DOMAIN con.buf : con.buf[i] < f[1]
  BY <1>4, <1>5 DEF Below
<1>11. Epoch(f[1]) >= Counted /\ (~ghost.blurred => Epoch(f[1]) = Counted)
  BY <1>1, <1>2, <1>4, <1>5 DEF FromSerial
<1>12. uart'.fifo = g
  BY <1>2, <1>3
<1>13. AllNew(uart.fifo)'
  BY <1>6, <1>12 DEF AllNew, New
<1>14. QED
  BY <1>2, <1>5, <1>6, <1>7, <1>8, <1>9, <1>10, <1>11, <1>12, <1>13

\* The line, the other queues and who reads stand while a key leaves the FIFO.
LEMMA OrderOfRest ==
    ASSUME ConsoleInv, UNCHANGED <<board, usb, tty, reader>>, push'.n = push.n,
           push'.pc = "store" <=> push.pc = "store",
           Sorted(push'.buf), Sorted(con'.buf), Sorted(uart'.fifo),
           Below(push'.buf, con'.buf), Below(push'.buf, usb.keys), Below(push'.buf, uart'.fifo),
           Below(con'.buf, uart'.fifo),
           AllNew(push.buf)', AllNew(con.buf)', AllNew(uart.fifo)'
    PROVE  Order'
<1>1. \A x : New(x)' <=> New(x)
  BY DEF New
<1>2. InLine' = InLine /\ (Valid' <=> Valid)
  BY DEF InLine, Valid
<1>3. Order
  BY DEF ConsoleInv
<1>4. AllNew(usb.keys)' /\ New(board.typed + 1)'
  BY <1>1, <1>3 DEF Order, AllNew
<1>5. QED
  BY <1>2, <1>3, <1>4 DEF Order, Sorted, Below
-----------------------------------------------------------------------------
\* uart_irq(): the driver has not come, and nothing else has the keys.
LEMMA IrqOther ==
    ASSUME ConsoleInv, con.pc = "boot", board.on = "serial",
           UNCHANGED <<board, mail, con, usb, klog, avisado, perdidos, avisar, lock, left>>,
           uart' \in Uarts, uart'.owned = uart.owned, uart'.open = uart.open, Len(uart'.fifo) <= FifoMax,
           push' \in Pushed, push'.irq => push'.pc \in {"key", "icr", "woken", "sig"},
           ~push'.irq => push'.pc = "no" /\ push'.sig = 0 /\ ~push'.any,
           push'.pc # "key" => push'.buf = <<>>, push'.buf # <<>> => push'.any,
           tty' \in Ttys, Len(tty'.rx) <= RxMax, reader' \in Readers, reader'.pc # "out" => reader'.n # 0,
           reader'.pc = "asleep" /\ (tty'.rx # <<>> \/ tty'.eof) => push'.pc \in {"key", "icr", "woken"},
           ghost' \in Ghosts, ghost'.late = ghost.late, ghost'.crossed = ghost.crossed,
           writer' \in [Writers -> Pens], \A w \in Writers : writer'[w].i = writer[w].i,
           KeysInOrder'
    PROVE  ConsoleInv'
<1>1. KeysTyped' /\ Limits'
  BY DEF ConsoleInv, KeysTyped, Limits
<1>2. Hands'
  <2>1. Hands /\ con.buf = <<>> /\ con.sig = 0
    BY DEF ConsoleInv, Hands
  <2>2. push'.pc # "no" => push'.irq
    OBVIOUS
  <2>3. QED
    BY <2>1, <2>2 DEF Hands
<1>3. Heard'
  BY DEF ConsoleInv, Heard
<1>4. Announced'
  BY NoticesUntouched DEF ConsoleInv
<1>5. avisado' \in BOOLEAN /\ perdidos' \in BOOLEAN
  BY ZenonT(30) DEF ConsoleInv, TextTyped
<1>6. TextTyped'
  BY <1>5 DEF ConsoleInv, TextTyped, Texts
<1>7. QED
  BY <1>1, <1>2, <1>3, <1>4, <1>6 DEF ConsoleInv, KeysInOrder

\* A sequence of one.
LEMMA OneKey ==
    ASSUME NEW k \in Keys, NEW s, s = <<k>>
    PROVE  s \in Seq(Keys) /\ s # <<>> /\ DOMAIN s = {1} /\ s[1] = k /\ Sorted(s)
BY DEF Sorted

\* uart_irq() takes a key out of the FIFO.
LEMMA UartReadsKeeps ==
    ASSUME ConsoleInv, UartIrqReads,
           UNCHANGED <<board, mail, con, usb, klog, avisado, perdidos, avisar, lock, shown, left>>
    PROVE  ConsoleInv'
<1> DEFINE k == uart.fifo[1]
<1>1. /\ push.pc = "key" /\ push.irq /\ push.buf = <<>> /\ uart.fifo # <<>>
      /\ uart' = [uart EXCEPT !.fifo = Tail(@)]
      /\ UNCHANGED <<tty, reader, writer>>
  BY DEF UartIrqReads, keyVars
<1>2. /\ con.pc = "boot" /\ board.on = "serial" /\ con.buf = <<>> /\ con.sig = 0 /\ usb.keys = <<>>
      /\ uart \in Uarts /\ uart.fifo \in Seq(Keys) /\ push \in Pushed /\ push.sig \in Nat /\ ghost \in Ghosts
      /\ Interrupts /\ tty \in Ttys /\ Len(tty.rx) <= RxMax /\ reader \in Readers
      /\ (reader.pc # "out" => reader.n # 0) /\ writer \in [Writers -> Pens] /\ ghost.done \in Nat
  <2>1. board.on \in {"serial", "usb"}
    BY DEF ConsoleInv, KeysTyped, Scripts
  <2>2. QED
    BY <1>1, <2>1 DEF ConsoleInv, KeysTyped, Limits, Hands, Uarts, Pushed, TextTyped, Ghosts
<1>3. PICK g : g = Tail(uart.fifo)
  OBVIOUS
<1>4. g \in Seq(Keys) /\ Head(uart.fifo) = k
  BY <1>1, <1>2, <1>3, PiecesOf
<1>5. uart' \in Uarts /\ uart'.fifo = g /\ uart'.owned = uart.owned /\ uart'.open = uart.open
  BY <1>1, <1>2, <1>3, <1>4 DEF Uarts
<1>6. /\ k \in Keys /\ New(k) /\ k <= board.typed /\ Len(uart'.fifo) <= FifoMax
      /\ Sorted(uart'.fifo) /\ AllNew(uart.fifo)'
      /\ Below(push.buf, uart'.fifo) /\ Below(con.buf, uart'.fifo)
      /\ \A i \in DOMAIN uart'.fifo : k < uart'.fifo[i]
      /\ Epoch(k) >= Counted /\ (~ghost.blurred => Epoch(k) = Counted)
  <2>1. uart'.fifo = Tail(uart.fifo)
    BY <1>3, <1>5
  <2>2. QED
    BY <1>1, <1>2, <2>1, FifoRest
<1>7. Counted = ghost.done + push.sig
  BY <1>2 DEF Counted
<1>8. (\A x : (New(x)' <=> New(x)) /\ Epoch(x)' = Epoch(x)) /\ InLine = tty.n
  BY <1>1 DEF New, Epoch, Kind, InLine
<1>9. CASE /\ Kind(k) = "sig" /\ push' = [push EXCEPT !.sig = @ + 1]
           /\ ghost' = [ghost EXCEPT !.blurred = @ \/ push.any]
  <2>1. PICK m \in Nat : m = push.sig + 1
    BY <1>2
  <2>2. /\ push' \in Pushed /\ push'.sig = m /\ push'.pc = "key" /\ push'.irq /\ push'.buf = <<>>
        /\ push'.any = push.any /\ push'.n = push.n
    BY <1>1, <1>2, <1>9, <2>1 DEF Pushed
  <2>3. PICK b \in BOOLEAN : b = (ghost.blurred \/ push.any)
    BY Zenon
  <2>4. ghost' = [ghost EXCEPT !.blurred = b]
    BY <1>9, <2>3
  <2>5. /\ ghost' \in Ghosts /\ ghost'.late = ghost.late /\ ghost'.crossed = ghost.crossed
        /\ ghost'.done = ghost.done /\ ghost'.mixed = ghost.mixed /\ ghost'.blurred = b
    BY <1>2, <2>4 DEF Ghosts
  <2>6. (ghost.blurred => ghost'.blurred) /\ (push.any => ghost'.blurred)
    BY <2>3, <2>5
  <2>7. FromSerial'
    <3>1. Counted' = Counted + 1
      BY <1>2, <1>7, <2>1, <2>2, <2>5 DEF Counted
    <3>2. uart'.fifo = Tail(uart.fifo)
      BY <1>3, <1>5
    <3>3. QED
      BY <1>1, <1>2, <1>9, <2>6, <3>1, <3>2, FifoGoes
  <2>8. Order'
    <3>1. AllNew(push.buf)' /\ AllNew(con.buf)'
      BY <1>2, <2>2 DEF AllNew
    <3>2. Sorted(push'.buf) /\ Sorted(con'.buf) /\ Below(push'.buf, con'.buf) /\ Below(push'.buf, usb.keys)
          /\ Below(push'.buf, uart'.fifo) /\ Below(con'.buf, uart'.fifo)
      BY <1>2, <2>2 DEF Sorted, Below
    <3>3. QED
      BY <1>1, <1>6, <2>2, <3>1, <3>2, OrderOfRest
  <2>9. Interrupts'
    <3>1. \A x : Fresh(x) => Fresh(x)'
      BY <1>8, <2>5, <2>6 DEF Fresh
    <3>2. InLine' = InLine /\ (Valid' <=> Valid)
      BY <1>1, <2>2 DEF InLine, Valid
    <3>3. QED
      BY <1>1, <1>2, <2>2, <2>5, <2>6, <3>1, <3>2 DEF Interrupts, AllFresh
  <2>10. KeysInOrder'
    BY <1>2, <2>7, <2>8, <2>9 DEF KeysInOrder, FromUsb
  <2>11. QED
    BY <1>1, <1>2, <1>5, <1>6, <2>2, <2>5, <2>10, IrqOther
<1>10. CASE /\ push' = [push EXCEPT !.buf = <<k>>, !.any = TRUE] /\ Kind(k) # "sig"
            /\ ghost' = [ghost EXCEPT !.blurred = @ \/ push.sig > 0]
  <2>1. PICK s : s = <<k>>
    OBVIOUS
  <2>2. s \in Seq(Keys) /\ s # <<>> /\ DOMAIN s = {1} /\ s[1] = k /\ Sorted(s)
    BY <1>6, <2>1, OneKey
  <2>3. /\ push' \in Pushed /\ push'.sig = push.sig /\ push'.pc = "key" /\ push'.irq /\ push'.buf = s
        /\ push'.any /\ push'.n = push.n
    BY <1>1, <1>2, <1>10, <2>1, <2>2 DEF Pushed
  <2>4. PICK b \in BOOLEAN : b = (ghost.blurred \/ push.sig > 0)
    BY Zenon
  <2>5. ghost' = [ghost EXCEPT !.blurred = b]
    BY <1>10, <2>4
  <2>6. /\ ghost' \in Ghosts /\ ghost'.late = ghost.late /\ ghost'.crossed = ghost.crossed
        /\ ghost'.done = ghost.done /\ ghost'.mixed = ghost.mixed /\ ghost'.blurred = b
    BY <1>2, <2>5 DEF Ghosts
  <2>7. (ghost.blurred => ghost'.blurred) /\ (push.sig > 0 => ghost'.blurred)
    BY <2>4, <2>6
  <2>8. FromSerial'
    <3>1. Counted' = Counted
      BY <2>3, <2>6 DEF Counted
    <3>2. uart'.fifo = Tail(uart.fifo)
      BY <1>3, <1>5
    <3>3. QED
      BY <1>1, <1>2, <1>10, <2>7, <3>1, <3>2, FifoGoes
  <2>9. Order'
    <3>1. AllNew(push.buf)' /\ AllNew(con.buf)'
      BY <1>2, <1>6, <1>8, <2>2, <2>3 DEF AllNew
    <3>2. Sorted(push'.buf) /\ Sorted(con'.buf) /\ Below(push'.buf, con'.buf) /\ Below(push'.buf, usb.keys)
          /\ Below(push'.buf, uart'.fifo) /\ Below(con'.buf, uart'.fifo)
      BY <1>2, <1>6, <2>2, <2>3 DEF Sorted, Below
    <3>3. QED
      BY <1>1, <1>6, <2>3, <3>1, <3>2, OrderOfRest
  <2>10. Interrupts'
    <3>1. \A x : Fresh(x) => Fresh(x)'
      BY <1>8, <2>6, <2>7 DEF Fresh
    <3>2. InLine' = InLine /\ (Valid' <=> Valid)
      BY <1>1, <2>3 DEF InLine, Valid
    <3>3. PICK x \in Keys : x = k
      BY <1>6
    <3>4. Fresh(x)'
      <4>1. Epoch(x) \in Nat
        BY EpochIs
      <4>2. Epoch(x) >= ghost.done
        BY <1>2, <1>6, <1>7, <3>3, <4>1
      <4>3. ~ghost'.blurred => push.sig = 0
        BY <1>2, <2>7
      <4>4. ~ghost'.blurred => Epoch(x) = ghost.done
        BY <1>2, <1>6, <1>7, <2>7, <3>3, <4>3
      <4>5. QED
        BY <1>8, <2>6, <4>2, <4>4 DEF Fresh
    <3>5. QED
      BY <1>1, <1>2, <2>2, <2>3, <2>6, <2>7, <3>1, <3>2, <3>3, <3>4 DEF Interrupts, AllFresh
  <2>11. KeysInOrder'
    BY <1>2, <2>8, <2>9, <2>10 DEF KeysInOrder, FromUsb
  <2>12. QED
    BY <1>1, <1>2, <1>5, <1>6, <2>2, <2>3, <2>6, <2>11, IrqOther
<1>11. QED
  BY <1>4, <1>9, <1>10 DEF UartIrqReads
-----------------------------------------------------------------------------
\* task_console_interrupt(): what was typed is thrown away, and nobody sleeps.
LEMMA InterruptTyped ==
    ASSUME ConsoleInv, NEW n \in Nat, Interrupt(n)
    PROVE  /\ tty' \in Ttys /\ tty'.rx = <<>> /\ tty'.n = 0 /\ ~tty'.eof /\ Len(tty'.rx) <= RxMax
           /\ tty'.cells = tty.cells /\ tty'.canon = tty.canon
           /\ reader' \in Readers /\ reader'.last = reader.last /\ reader'.pc # "asleep"
           /\ reader'.pc # "out" => reader'.n # 0
           /\ writer' \in [Writers -> Pens] /\ \A w \in Writers : writer'[w].i = writer[w].i
           /\ ghost' \in Ghosts /\ ghost'.late = ghost.late /\ ghost'.crossed = ghost.crossed
           /\ ghost'.done = ghost.done + n /\ ghost'.blurred = ghost.blurred /\ ghost'.mixed = ghost.mixed
<1>1. /\ tty' = Descartar(tty) /\ reader' = [reader EXCEPT !.pc = IF @ = "asleep" THEN "out" ELSE @]
      /\ writer' = [w \in Writers |-> [writer[w] EXCEPT !.pc = IF @ = "asleep" THEN "ret" ELSE @]]
      /\ ghost' = [ghost EXCEPT !.done = @ + n]
  BY DEF Interrupt
<1>2. /\ tty \in Ttys /\ reader \in Readers /\ (reader.pc # "out" => reader.n # 0)
      /\ writer \in [Writers -> Pens] /\ ghost \in Ghosts /\ ghost.done \in Nat
  BY DEF ConsoleInv, KeysTyped, TextTyped, Ghosts
<1>3. /\ tty' \in Ttys /\ tty'.rx = <<>> /\ tty'.n = 0 /\ ~tty'.eof /\ Len(tty'.rx) <= RxMax
      /\ tty'.cells = tty.cells /\ tty'.canon = tty.canon
  <2>1. PICK e \in Seq(Nat) : e = <<>>
    <3>1. <<>> \in Seq(Nat)
      OBVIOUS
    <3>2. QED
      BY <3>1
  <2>2. PICK z \in 0 .. LineMax : z = 0
    BY Sizes
  <2>3. tty' = [tty EXCEPT !.n = z, !.rx = e, !.eof = FALSE]
    BY <1>1, <2>1, <2>2 DEF Descartar
  <2>4. /\ tty' \in Ttys /\ tty'.rx = e /\ tty'.n = z /\ ~tty'.eof
        /\ tty'.cells = tty.cells /\ tty'.canon = tty.canon
    BY <1>2, <2>3 DEF Ttys
  <2>5. QED
    BY <2>1, <2>2, <2>4, Sizes
<1>4. /\ reader' \in Readers /\ reader'.last = reader.last /\ reader'.pc # "asleep"
      /\ (reader'.pc # "out" => reader'.n # 0)
  BY <1>1, <1>2 DEF Readers
<1>5. writer' \in [Writers -> Pens] /\ \A w \in Writers : writer'[w].i = writer[w].i
  <2>1. ASSUME NEW w \in Writers
        PROVE  writer'[w] \in Pens /\ writer'[w].i = writer[w].i
    <3>1. writer[w] \in Pens
      BY <1>2
    <3>2. writer'[w] = [writer[w] EXCEPT !.pc = IF @ = "asleep" THEN "ret" ELSE @]
      BY <1>1
    <3>3. PICK c \in {"call", "begin", "hw", "put", "full", "asleep", "ret", "done"} :
            c = IF writer[w].pc = "asleep" THEN "ret" ELSE writer[w].pc
      BY <3>1 DEF Pens
    <3>4. writer'[w] = [writer[w] EXCEPT !.pc = c]
      BY <3>2, <3>3
    <3>5. QED
      BY <3>1, <3>4 DEF Pens
  <2>2. DOMAIN writer' = Writers /\ writer' = [w \in Writers |-> writer'[w]]
    BY <1>1
  <2>3. QED
    BY <2>1, <2>2
<1>6. /\ ghost' \in Ghosts /\ ghost'.late = ghost.late /\ ghost'.crossed = ghost.crossed
      /\ ghost'.done = ghost.done + n /\ ghost'.blurred = ghost.blurred /\ ghost'.mixed = ghost.mixed
  <2>1. PICK d \in Nat : d = ghost.done + n
    BY <1>2
  <2>2. ghost' = [ghost EXCEPT !.done = d]
    BY <1>1, <2>1
  <2>3. QED
    BY <1>2, <2>1, <2>2 DEF Ghosts
<1>7. QED
  BY <1>3, <1>4, <1>5, <1>6

\* With no key in hand, nothing typed before is left.
LEMMA InterruptKeys ==
    ASSUME ConsoleInv, NEW n \in Nat, Interrupt(n), UNCHANGED board, uart'.fifo = uart.fifo,
           push.buf = <<>>, push'.buf = <<>>, con.buf = <<>>, con'.buf = <<>>, push'.pc # "store",
           PieceOf(usb'.keys, usb.keys), usb'.keys \in Seq(Keys),
           con'.any /\ con'.sig > 0 => con.any /\ con.sig > 0,
           push'.any /\ push'.sig > 0 => push.any /\ push.sig > 0
    PROVE  Order' /\ Interrupts'
<1>1. /\ tty'.rx = <<>> /\ tty'.n = 0 /\ tty'.cells = tty.cells /\ tty'.canon = tty.canon
      /\ reader'.last = reader.last
      /\ ghost'.done = ghost.done + n /\ ghost'.blurred = ghost.blurred /\ ghost'.mixed = ghost.mixed
  BY InterruptTyped
<1>2. Order /\ Interrupts /\ usb.keys \in Seq(Keys)
  BY DEF ConsoleInv, KeysTyped, Usbs
<1>3. \A x : New(x) => New(x)'
  BY <1>1 DEF New
<1>4. Sorted(usb'.keys) /\ AllNew(usb'.keys)
  <2>1. DOMAIN usb'.keys \subseteq Nat /\ usb.keys \in Seq(Nat)
    BY <1>2 DEF Keys
  <2>2. QED
    BY <1>2, <2>1, Inherited DEF Order
<1>5. InLine' = 0 /\ 1 .. 0 = {}
  BY <1>1 DEF InLine
<1>6. Order'
  <2>1. AllNew(usb.keys)' /\ AllNew(uart.fifo)' /\ AllNew(push.buf)' /\ AllNew(con.buf)'
        /\ New(board.typed + 1)'
    BY <1>2, <1>3, <1>4 DEF Order, AllNew
  <2>2. /\ Sorted(push'.buf) /\ Sorted(con'.buf) /\ Sorted(tty'.rx) /\ Sorted(uart'.fifo)
        /\ \A s : Below(push'.buf, s) /\ Below(con'.buf, s)
        /\ \A i \in DOMAIN tty'.rx : reader'.last < tty'.rx[i]
    BY <1>1, <1>2 DEF Order, Sorted, Below
  <2>3. QED
    BY <1>4, <1>5, <2>1, <2>2 DEF Order, Sorted, Below
<1>7. Interrupts'
  BY <1>1, <1>2, <1>5 DEF Interrupts, AllFresh
<1>8. QED
  BY <1>6, <1>7

\* uart_irq() acknowledges, wakes who reads, and deals with the ^C it met.
LEMMA UartAcksKeeps ==
    ASSUME ConsoleInv, UartIrqAcks,
           UNCHANGED <<board, mail, con, usb, klog, avisado, perdidos, avisar, lock, shown, left>>
    PROVE  ConsoleInv'
<1>1. push.irq /\ push.buf = <<>> /\ push.pc \in {"key", "icr", "woken", "sig"}
  BY DEF UartIrqAcks, ConsoleInv, Hands
<1>2. /\ con.pc = "boot" /\ board.on = "serial" /\ con.buf = <<>> /\ con.sig = 0 /\ usb.keys = <<>>
      /\ uart \in Uarts /\ Len(uart.fifo) <= FifoMax /\ push \in Pushed /\ push.sig \in Nat
      /\ ghost \in Ghosts /\ ghost.done \in Nat
      /\ KeysInOrder /\ tty \in Ttys /\ Len(tty.rx) <= RxMax /\ reader \in Readers
      /\ (reader.pc # "out" => reader.n # 0) /\ writer \in [Writers -> Pens]
      /\ (reader.pc = "asleep" /\ (tty.rx # <<>> \/ tty.eof) => push.pc \in {"key", "icr", "woken"})
  <2>1. board.on \in {"serial", "usb"}
    BY DEF ConsoleInv, KeysTyped, Scripts
  <2>2. /\ con.pc = "boot" /\ board.on = "serial" /\ con.buf = <<>> /\ con.sig = 0 /\ usb.keys = <<>>
    BY <1>1, <2>1 DEF ConsoleInv, Hands
  <2>3. (reader.pc = "asleep" /\ (tty.rx # <<>> \/ tty.eof) => push.pc \in {"key", "icr", "woken"})
    BY <1>1 DEF ConsoleInv, Heard
  <2>4. QED
    BY <2>2, <2>3 DEF ConsoleInv, KeysTyped, Limits, Pushed, TextTyped, Ghosts, KeysInOrder
<1>3. CASE /\ push.pc = "key" /\ push' = [push EXCEPT !.pc = "icr"]
           /\ UNCHANGED <<uart, tty, reader, writer, ghost>>
  <2>1. /\ push' \in Pushed /\ push'.pc = "icr" /\ push'.irq /\ push'.buf = <<>> /\ push'.sig = push.sig
        /\ push'.any = push.any /\ push'.n = push.n
    BY <1>1, <1>2, <1>3 DEF Pushed, PushPcs
  <2>2. KeysInOrder'
    BY <1>1, <1>2, <1>3, <2>1, KeysStand DEF Held
  <2>3. QED
    BY <1>2, <1>3, <2>1, <2>2, IrqOther
<1>4. CASE /\ push.pc = "icr" /\ uart' = [uart EXCEPT !.ris = FALSE] /\ push' = [push EXCEPT !.pc = "woken"]
           /\ UNCHANGED <<tty, reader, writer, ghost>>
  <2>1. /\ push' \in Pushed /\ push'.pc = "woken" /\ push'.irq /\ push'.buf = <<>> /\ push'.sig = push.sig
        /\ push'.any = push.any /\ push'.n = push.n
    BY <1>1, <1>2, <1>4 DEF Pushed, PushPcs
  <2>2. uart' \in Uarts /\ uart'.fifo = uart.fifo /\ uart'.owned = uart.owned /\ uart'.open = uart.open
    BY <1>2, <1>4 DEF Uarts
  <2>3. KeysInOrder'
    BY <1>1, <1>2, <1>4, <2>1, <2>2, KeysStand DEF Held
  <2>4. QED
    BY <1>2, <1>4, <2>1, <2>2, <2>3, IrqOther
<1>5. CASE /\ push.pc = "woken" /\ reader' = Woken(reader) /\ push' = [push EXCEPT !.pc = "sig"]
           /\ UNCHANGED <<uart, tty, writer, ghost>>
  <2>1. /\ push' \in Pushed /\ push'.pc = "sig" /\ push'.irq /\ push'.buf = <<>> /\ push'.sig = push.sig
        /\ push'.any = push.any /\ push'.n = push.n
    BY <1>1, <1>2, <1>5 DEF Pushed, PushPcs
  <2>2. /\ reader' \in Readers /\ reader'.last = reader.last /\ (reader'.pc # "out" => reader'.n # 0)
        /\ reader'.pc # "asleep"
    BY <1>2, <1>5 DEF Woken, Readers
  <2>3. KeysInOrder'
    BY <1>1, <1>2, <1>5, <2>1, <2>2, KeysStand DEF Held
  <2>4. QED
    BY <1>2, <1>5, <2>1, <2>2, <2>3, IrqOther
<1>6. CASE /\ push.pc = "sig"
           /\ IF push.sig > 0 THEN Interrupt(push.sig) ELSE UNCHANGED <<keyVars, writer, ghost>>
           /\ push' = [push EXCEPT !.pc = "no", !.irq = FALSE, !.sig = 0, !.any = FALSE]
           /\ UNCHANGED uart
  <2>1. /\ push' \in Pushed /\ push'.pc = "no" /\ ~push'.irq /\ push'.buf = <<>> /\ push'.sig = 0
        /\ ~push'.any /\ push'.n = push.n
    BY <1>1, <1>2, <1>6 DEF Pushed, PushPcs
  <2>2. CASE push.sig > 0
    <3>1. Interrupt(push.sig)
      BY <1>6, <2>2
    <3>2. /\ tty' \in Ttys /\ tty'.rx = <<>> /\ ~tty'.eof /\ Len(tty'.rx) <= RxMax
          /\ reader' \in Readers /\ reader'.pc # "asleep" /\ (reader'.pc # "out" => reader'.n # 0)
          /\ writer' \in [Writers -> Pens] /\ \A w \in Writers : writer'[w].i = writer[w].i
          /\ ghost' \in Ghosts /\ ghost'.late = ghost.late /\ ghost'.crossed = ghost.crossed
          /\ ghost'.done = ghost.done + push.sig /\ ghost'.blurred = ghost.blurred
      BY <1>2, <3>1, InterruptTyped
    <3>3. Order' /\ Interrupts'
      <4>1. PieceOf(usb'.keys, usb.keys) /\ usb'.keys \in Seq(Keys)
        <5>1. usb.keys \in Seq(Keys) /\ usb'.keys = usb.keys
          BY <1>2
        <5>2. PieceOf(usb.keys, usb.keys)
          BY <5>1, PiecesOf
        <5>3. QED
          BY <5>1, <5>2
      <4>2. QED
        BY <1>1, <1>2, <1>6, <2>1, <3>1, <4>1, InterruptKeys
    <3>4. Counted' = Counted
      BY <1>2, <2>1, <3>2 DEF Counted
    <3>5. \A x : Epoch(x)' = Epoch(x)
      BY DEF Epoch, Kind
    <3>6. FromSerial' /\ FromUsb'
      BY <1>2, <1>6, <3>2, <3>4, <3>5 DEF KeysInOrder, FromSerial, FromUsb
    <3>7. KeysInOrder'
      BY <3>3, <3>6 DEF KeysInOrder
    <3>8. QED
      BY <1>2, <1>6, <2>1, <3>2, <3>7, IrqOther
  <2>3. CASE ~(push.sig > 0)
    <3>1. UNCHANGED <<tty, reader, writer, ghost>> /\ push.sig = 0
      BY <1>2, <1>6, <2>3 DEF keyVars
    <3>2. KeysInOrder'
      BY <1>1, <1>2, <1>6, <2>1, <3>1, KeysStand DEF Held
    <3>3. QED
      BY <1>2, <1>6, <2>1, <3>1, <3>2, IrqOther
  <2>4. QED
    BY <2>2, <2>3
<1>7. QED
  BY <1>3, <1>4, <1>5, <1>6 DEF UartIrqAcks, keyVars

\* uart_irq(), in all its steps.
LEMMA UartIrqKeeps == ASSUME ConsoleInv, UartIrq PROVE ConsoleInv'
<1>1. UNCHANGED <<board, mail, con, usb, klog, avisado, perdidos, avisar, lock, shown, left>>
  BY DEF UartIrq
<1>2. CASE /\ push.pc = "no" /\ ~uart.owned /\ uart.ris
           /\ push' = [push EXCEPT !.pc = "key", !.irq = TRUE]
           /\ UNCHANGED <<uart, tty, reader, writer, ghost>>
  <2>1. board.on \in {"serial", "usb"}
    BY DEF ConsoleInv, KeysTyped, Scripts
  <2>2. con.pc = "boot" /\ board.on = "serial" /\ push.buf = <<>>
    BY <1>2, <2>1 DEF ConsoleInv, Hands
  <2>3. /\ uart \in Uarts /\ Len(uart.fifo) <= FifoMax /\ push \in Pushed /\ ghost \in Ghosts
        /\ KeysInOrder /\ tty \in Ttys /\ Len(tty.rx) <= RxMax /\ reader \in Readers
        /\ (reader.pc # "out" => reader.n # 0) /\ writer \in [Writers -> Pens]
    BY DEF ConsoleInv, KeysTyped, Limits, TextTyped, KeysInOrder
  <2>4. /\ push' \in Pushed /\ push'.pc = "key" /\ push'.irq /\ push'.buf = <<>> /\ push'.sig = push.sig
        /\ push'.any = push.any /\ push'.n = push.n
    BY <1>2, <2>2, <2>3 DEF Pushed, PushPcs
  <2>5. KeysInOrder'
    BY <1>1, <1>2, <2>2, <2>3, <2>4, KeysStand DEF Held
  <2>6. QED
    BY <1>1, <1>2, <2>2, <2>3, <2>4, <2>5, IrqOther
<1>3. QED
  BY <1>1, <1>2, UartReadsKeeps, UartAcksKeeps DEF UartIrq, keyVars
-----------------------------------------------------------------------------
\* The driver goes on with its keys, and will say that it delivered.
LEMMA ConOther ==
    ASSUME ConsoleInv, UNCHANGED <<board, klog, avisado, perdidos, avisar, lock>>,
           ghost'.late = ghost.late, ghost'.crossed = ghost.crossed,
           Coming => Coming', con'.pc # "told",
           mail' \in Seq({"klog", "irq", "print"}), Len(mail') <= Room,
           writer' \in [Writers -> Pens], \A w \in Writers : writer'[w].i = writer[w].i,
           KeysTyped', Limits', Hands', Heard', KeysInOrder'
    PROVE  ConsoleInv'
<1>1. Announced'
  BY DEF ConsoleInv, Announced
<1>2. avisado' \in BOOLEAN /\ perdidos' \in BOOLEAN
  BY ZenonT(30) DEF ConsoleInv, TextTyped
<1>3. TextTyped'
  BY <1>2 DEF ConsoleInv, TextTyped, Texts
<1>4. QED
  BY <1>1, <1>3 DEF ConsoleInv, KeysInOrder

\* The driver takes the UART.
LEMMA RegistraKeeps == ASSUME ConsoleInv, Registra PROVE ConsoleInv'
<1>1. /\ UNCHANGED <<board, mail, usb, push, tty, reader, klog, avisado, perdidos, avisar, lock, writer,
                     ghost, left>>
      /\ \/ /\ con.pc = "boot" /\ ~push.irq
            /\ uart' = [uart EXCEPT !.owned = TRUE, !.open = TRUE]
            /\ con' = [con EXCEPT !.pc = "cede"]
         \/ /\ con.pc = "cede"
            /\ uart' = [uart EXCEPT !.desviar = TRUE]
            /\ con' = [con EXCEPT !.pc = "icr"]
  BY DEF Registra, keyVars, textVars
<1>2. /\ con \in Drivers /\ uart \in Uarts /\ con.buf = <<>>
      /\ mail \in Seq({"klog", "irq", "print"}) /\ Len(mail) <= Room /\ writer \in [Writers -> Pens]
  BY <1>1 DEF ConsoleInv, KeysTyped, TextTyped, Hands
<1>3. PICK c \in {"cede", "icr"} : con' = [con EXCEPT !.pc = c]
  BY <1>1
<1>4. /\ con' \in Drivers /\ con'.pc = c /\ con'.buf = <<>> /\ con'.sig = con.sig /\ con'.any = con.any
      /\ con'.irq = con.irq
  BY <1>2, <1>3 DEF Drivers, ConPcs
<1>5. /\ uart' \in Uarts /\ uart'.fifo = uart.fifo /\ uart'.ris = uart.ris /\ uart'.owned
      /\ uart'.open = uart.open \/ uart'.open
  BY <1>1, <1>2 DEF ConsoleInv, Hands, Uarts
<1>6. KeysTyped' /\ Limits'
  BY <1>1, <1>2, <1>4, <1>5, Sizes DEF ConsoleInv, KeysTyped, Limits
<1>7. Hands'
  BY <1>1, <1>2, <1>4, <1>5 DEF ConsoleInv, Hands
<1>8. Heard'
  BY <1>1, <1>4, <1>5 DEF ConsoleInv, Heard
<1>9. KeysInOrder'
  BY <1>1, <1>2, <1>4, <1>5, KeysStand DEF ConsoleInv, KeysInOrder, Held
<1>10. Coming'
  BY <1>4 DEF Coming, Busy
<1>11. QED
  BY <1>1, <1>2, <1>4, <1>6, <1>7, <1>8, <1>9, <1>10, ConOther

\* The driver takes a notice, and does what it is for.
LEMMA RecvKeeps == ASSUME ConsoleInv, Recv PROVE ConsoleInv'
<1>1. /\ con.pc = "recv" /\ mail # <<>> /\ mail' = Tail(mail)
      /\ con' = [con EXCEPT !.irq = Head(mail) = "irq",
                            !.pc = CASE Head(mail) = "irq" -> "icr"
                                     [] Head(mail) = "klog" -> "saca"
                                     [] OTHER -> "recv"]
      /\ UNCHANGED <<board, uart, usb, push, tty, reader, klog, avisado, perdidos, avisar, lock, writer,
                     ghost, left>>
  BY DEF Recv, keyVars, textVars
<1>2. /\ con \in Drivers /\ con.buf = <<>> /\ mail \in Seq({"klog", "irq", "print"}) /\ Len(mail) <= Room
      /\ writer \in [Writers -> Pens]
  BY <1>1 DEF ConsoleInv, KeysTyped, TextTyped, Hands
<1>3. /\ mail' \in Seq({"klog", "irq", "print"}) /\ Len(mail') <= Room
      /\ Head(mail) = mail[1]
      /\ \A i \in DOMAIN mail : i # 1 => \E j \in DOMAIN mail' : mail'[j] = mail[i]
  <2>1. /\ mail' \in Seq({"klog", "irq", "print"}) /\ Len(mail') = Len(mail) - 1 /\ Head(mail) = mail[1]
        /\ \A j \in DOMAIN mail' : mail'[j] = mail[j + 1]
    BY <1>1, <1>2, PiecesOf
  <2>2. \A i \in DOMAIN mail : i # 1 => i - 1 \in DOMAIN mail' /\ (i - 1) + 1 = i
    BY <1>2, <2>1
  <2>3. QED
    BY <1>2, <2>1, <2>2, Sizes
<1>4. PICK b \in BOOLEAN : b = (Head(mail) = "irq")
  BY Zenon
<1>5. PICK c \in {"icr", "saca", "recv"} :
        /\ c = CASE Head(mail) = "irq" -> "icr" [] Head(mail) = "klog" -> "saca" [] OTHER -> "recv"
        /\ mail[1] = "irq" <=> c = "icr"
        /\ mail[1] = "klog" <=> c = "saca"
  BY <1>3
<1>6. con' = [con EXCEPT !.irq = b, !.pc = c]
  BY <1>1, <1>4, <1>5
<1>7. /\ con' \in Drivers /\ con'.pc = c /\ con'.buf = <<>> /\ con'.sig = con.sig /\ con'.any = con.any
      /\ con'.irq = b
  BY <1>2, <1>6 DEF Drivers, ConPcs
<1>8. KeysTyped' /\ Limits'
  BY <1>1, <1>2, <1>7, Sizes DEF ConsoleInv, KeysTyped, Limits
<1>9. Hands'
  BY <1>1, <1>2, <1>7 DEF ConsoleInv, Hands
<1>10. Heard'
  <2>1. ~uart'.open => (\E i \in DOMAIN mail' : mail'[i] = "irq") \/ (con'.irq /\ con'.pc # "recv")
    <3>1. SUFFICES ASSUME ~uart.open
                   PROVE  (\E i \in DOMAIN mail' : mail'[i] = "irq") \/ (con'.irq /\ con'.pc # "recv")
      BY <1>1
    <3>2. PICK i \in DOMAIN mail : mail[i] = "irq"
      BY <1>1, <3>1 DEF ConsoleInv, Heard
    <3>3. CASE i = 1
      BY <1>3, <1>4, <1>5, <1>7, <3>2, <3>3
    <3>4. CASE i # 1
      BY <1>3, <3>2, <3>4
    <3>5. QED
      BY <3>3, <3>4
  <2>2. uart'.fifo # <<>> => uart'.ris
    BY <1>1 DEF ConsoleInv, Heard
  <2>3. QED
    BY <1>1, <2>1, <2>2 DEF ConsoleInv, Heard
<1>11. KeysInOrder'
  BY <1>1, <1>2, <1>7, KeysStand DEF ConsoleInv, KeysInOrder, Held
<1>12. Coming => Coming'
  <2>1. SUFFICES ASSUME Coming PROVE Coming'
    OBVIOUS
  <2>2. PICK i \in DOMAIN mail : mail[i] = "klog"
    BY <1>1, <2>1 DEF Coming, Busy
  <2>3. CASE i = 1
    BY <1>5, <1>7, <2>2, <2>3 DEF Coming, Busy
  <2>4. CASE i # 1
    BY <1>3, <2>2, <2>4 DEF Coming
  <2>5. QED
    BY <2>3, <2>4
<1>13. QED
  BY <1>1, <1>2, <1>3, <1>7, <1>8, <1>9, <1>10, <1>11, <1>12, ConOther

\* drenar() acknowledges, and leaves the FIFO when it finds it empty twice.
LEMMA DrainStepKeeps ==
    ASSUME ConsoleInv, (Reconoce /\ UNCHANGED ghost) \/ Vacia \/ OtraVez,
           UNCHANGED <<board, mail, usb, push, keyVars, textVars, left>>
    PROVE  ConsoleInv'
<1>1. /\ con.pc \in {"icr", "read", "again"} /\ UNCHANGED ghost
      /\ UNCHANGED <<board, mail, usb, push, tty, reader, klog, avisado, perdidos, avisar, lock, writer,
                     left>>
  BY DEF Reconoce, Vacia, OtraVez, keyVars, textVars
<1>2. /\ con \in Drivers /\ uart \in Uarts /\ Len(con.buf) < BufMax
      /\ mail \in Seq({"klog", "irq", "print"}) /\ Len(mail) <= Room /\ writer \in [Writers -> Pens]
  BY <1>1 DEF ConsoleInv, KeysTyped, TextTyped, Limits
<1>3. PICK c \in {"icr", "read", "again", "last", "sig"} :
        /\ con' = [con EXCEPT !.pc = c]
        /\ \/ uart' = [uart EXCEPT !.ris = FALSE] /\ c = "read"
           \/ uart' = uart /\ (uart.fifo = <<>> \/ c = "icr")
        /\ c = "sig" => con.buf = <<>>
  <2>1. CASE Reconoce
    BY <2>1 DEF Reconoce
  <2>2. CASE Vacia /\ con.pc = "read"
    BY <2>2 DEF Vacia
  <2>3. CASE Vacia /\ con.pc = "again"
    <3>1. PICK c : c = IF con.buf = <<>> THEN "sig" ELSE "last"
      OBVIOUS
    <3>2. con' = [con EXCEPT !.pc = c] /\ uart' = uart /\ uart.fifo = <<>>
      BY <2>3, <3>1 DEF Vacia
    <3>3. QED
      BY <3>1, <3>2
  <2>4. CASE OtraVez
    BY <2>4 DEF OtraVez
  <2>5. QED
    BY <1>1, <2>1, <2>2, <2>3, <2>4 DEF Vacia
<1>4. /\ con' \in Drivers /\ con'.pc = c /\ con'.buf = con.buf /\ con'.sig = con.sig /\ con'.any = con.any
      /\ con'.irq = con.irq
  BY <1>2, <1>3 DEF Drivers, ConPcs
<1>5. /\ uart' \in Uarts /\ uart'.fifo = uart.fifo /\ (uart'.ris => uart.ris)
      /\ uart'.owned = uart.owned /\ uart'.open = uart.open
  BY <1>2, <1>3 DEF Uarts
<1>6. KeysTyped' /\ Limits'
  BY <1>1, <1>2, <1>4, <1>5, Sizes DEF ConsoleInv, KeysTyped, Limits
<1>7. Hands'
  BY <1>1, <1>3, <1>4, <1>5 DEF ConsoleInv, Hands
<1>8. Heard'
  <2>1. uart'.fifo # <<>> /\ ~uart'.ris => con'.pc \in {"boot", "cede", "icr", "read", "push"}
    BY <1>3, <1>4, <1>5
  <2>2. ~uart'.open => (\E i \in DOMAIN mail' : mail'[i] = "irq") \/ (con'.irq /\ con'.pc # "recv")
    BY <1>1, <1>4, <1>5 DEF ConsoleInv, Heard
  <2>3. QED
    BY <1>1, <2>1, <2>2 DEF ConsoleInv, Heard
<1>9. KeysInOrder'
  BY <1>1, <1>4, <1>5, KeysStand DEF ConsoleInv, KeysInOrder, Held
<1>10. Coming'
  BY <1>4 DEF Coming, Busy
<1>11. QED
  BY <1>1, <1>2, <1>4, <1>6, <1>7, <1>8, <1>9, <1>10, ConOther

\* drenar() takes a key out of the FIFO.
LEMMA LeeKeeps ==
    ASSUME ConsoleInv, Lee, UNCHANGED <<board, mail, usb, push, keyVars, textVars, left>>
    PROVE  ConsoleInv'
<1> DEFINE k == uart.fifo[1]
<1>1. /\ con.pc = "read" /\ uart.fifo # <<>> /\ uart' = [uart EXCEPT !.fifo = Tail(@)]
      /\ UNCHANGED <<board, mail, usb, push, tty, reader, klog, avisado, perdidos, avisar, lock, writer,
                     left>>
  BY DEF Lee, keyVars, textVars
<1>2. /\ board.on = "serial" /\ usb.keys = <<>> /\ ~push.irq /\ push.pc = "no" /\ push.buf = <<>>
      /\ push.sig = 0 /\ ~push.any
  <2>1. board.on \in {"serial", "usb"}
    BY DEF ConsoleInv, KeysTyped, Scripts
  <2>2. board.on = "serial" /\ ~push.irq
    BY <1>1, <2>1 DEF ConsoleInv, Hands
  <2>3. push.pc = "no"
    BY <1>1, <2>2 DEF ConsoleInv, Hands
  <2>4. QED
    BY <2>2, <2>3 DEF ConsoleInv, Hands
<1>3. /\ con \in Drivers /\ con.buf \in Seq(Keys) /\ Len(con.buf) < BufMax /\ con.sig \in Nat
      /\ uart \in Uarts /\ uart.fifo \in Seq(Keys) /\ ghost \in Ghosts /\ ghost.done \in Nat
      /\ mail \in Seq({"klog", "irq", "print"}) /\ Len(mail) <= Room /\ writer \in [Writers -> Pens]
      /\ Interrupts /\ Order
  BY <1>1 DEF ConsoleInv, KeysTyped, TextTyped, Limits, Drivers, Uarts, Ghosts
<1>4. PICK g : g = Tail(uart.fifo)
  OBVIOUS
<1>5. g \in Seq(Keys) /\ Head(uart.fifo) = k
  BY <1>1, <1>3, <1>4, PiecesOf
<1>6. /\ uart' \in Uarts /\ uart'.fifo = g /\ uart'.owned = uart.owned /\ uart'.open = uart.open
      /\ uart'.ris = uart.ris
  BY <1>1, <1>3, <1>4, <1>5 DEF Uarts
<1>7. /\ k \in Keys /\ New(k) /\ k <= board.typed /\ Len(uart'.fifo) <= FifoMax
      /\ Sorted(uart'.fifo) /\ AllNew(uart.fifo)' /\ uart'.fifo \in Seq(Keys)
      /\ Below(push.buf, uart'.fifo) /\ Below(con.buf, uart'.fifo)
      /\ \A i \in DOMAIN uart'.fifo : k < uart'.fifo[i]
      /\ \A i \in DOMAIN con.buf : con.buf[i] < k
      /\ Epoch(k) >= Counted /\ (~ghost.blurred => Epoch(k) = Counted)
  <2>1. uart'.fifo = Tail(uart.fifo)
    BY <1>4, <1>6
  <2>2. QED
    BY <1>1, <1>2, <2>1, FifoRest
<1>8. Counted = ghost.done + con.sig
  BY <1>2, <1>3 DEF Counted
<1>9. /\ \A x : (New(x)' <=> New(x)) /\ Epoch(x)' = Epoch(x)
      /\ InLine' = InLine /\ (Valid' <=> Valid)
  BY <1>1 DEF New, Epoch, Kind, InLine, Valid
<1>10. PICK b \in BOOLEAN, c \in {"read", "push"}, s \in Seq(Keys), m \in Nat, a \in BOOLEAN :
         /\ ghost' = [ghost EXCEPT !.blurred = b] /\ (ghost.blurred => b)
         /\ con' = [con EXCEPT !.buf = s, !.pc = c, !.sig = m, !.any = a]
         /\ \/ /\ Kind(k) = "sig" /\ s = con.buf /\ m = con.sig + 1 /\ c = "read" /\ a = con.any
               /\ con.any => b
            \/ /\ Kind(k) # "sig" /\ s = Append(con.buf, k) /\ m = con.sig /\ a = TRUE
               /\ con.sig > 0 => b
               /\ c = "read" => Len(con.buf) + 1 # BufMax
  <2>1. CASE Kind(k) = "sig"
    <3>1. PICK m \in Nat : m = con.sig + 1
      BY <1>3
    <3>2. con' = [con EXCEPT !.sig = @ + 1] /\ ghost' = [ghost EXCEPT !.blurred = @ \/ con.any]
      BY <1>5, <2>1 DEF Lee
    <3>3. PICK b \in BOOLEAN : b = (ghost.blurred \/ con.any)
      BY Zenon
    <3>4. con.any \in BOOLEAN /\ con' = [con EXCEPT !.buf = con.buf, !.pc = "read", !.sig = m, !.any = con.any]
      <4>1. PICK d : d = [con EXCEPT !.buf = con.buf, !.pc = "read", !.sig = m, !.any = con.any]
        OBVIOUS
      <4>2. con' = [con EXCEPT !.sig = m]
        BY <3>1, <3>2
      <4>3. d = con'
        BY <1>1, <1>3, <4>1, <4>2 DEF Drivers
      <4>4. QED
        BY <1>3, <4>1, <4>3 DEF Drivers
    <3>5. ghost' = [ghost EXCEPT !.blurred = b] /\ (ghost.blurred => b) /\ (con.any => b)
      BY <3>2, <3>3
    <3>6. QED
      BY <1>3, <2>1, <3>1, <3>4, <3>5
  <2>2. CASE Kind(k) # "sig"
    <3>1. PICK s \in Seq(Keys) : s = Append(con.buf, k)
      <4>1. Append(con.buf, k) \in Seq(Keys)
        BY <1>3, <1>7, Appended
      <4>2. QED
        BY <4>1
    <3>2. PICK c \in {"read", "push"} : c = IF Len(con.buf) + 1 = BufMax THEN "push" ELSE "read"
      OBVIOUS
    <3>3. PICK b \in BOOLEAN : b = (ghost.blurred \/ con.sig > 0)
      BY Zenon
    <3>4. /\ con' = [con EXCEPT !.buf = s, !.any = TRUE, !.pc = c]
          /\ ghost' = [ghost EXCEPT !.blurred = @ \/ con.sig > 0]
      BY <1>5, <2>2, <3>1, <3>2 DEF Lee
    <3>5. con' = [con EXCEPT !.buf = s, !.pc = c, !.sig = con.sig, !.any = TRUE]
      <4>1. PICK d : d = [con EXCEPT !.buf = s, !.pc = c, !.sig = con.sig, !.any = TRUE]
        OBVIOUS
      <4>2. d = con'
        BY <1>3, <3>4, <4>1 DEF Drivers
      <4>3. QED
        BY <4>1, <4>2
    <3>6. ghost' = [ghost EXCEPT !.blurred = b] /\ (ghost.blurred => b) /\ (con.sig > 0 => b)
      BY <3>3, <3>4
    <3>7. c = "read" => Len(con.buf) + 1 # BufMax
      BY <3>2
    <3>8. QED
      BY <1>3, <2>2, <3>1, <3>5, <3>6, <3>7
  <2>3. QED
    BY <2>1, <2>2
<1>11. /\ con' \in Drivers /\ con'.pc = c /\ con'.buf = s /\ con'.sig = m /\ con'.any = a
       /\ con'.irq = con.irq
  <2>1. PICK d : d = [con EXCEPT !.buf = s, !.pc = c]
    OBVIOUS
  <2>2. d \in Drivers /\ d.pc = c /\ d.buf = s /\ d.irq = con.irq
    BY <1>3, <2>1 DEF Drivers, ConPcs
  <2>3. con' = [d EXCEPT !.sig = m, !.any = a]
    BY <1>10, <2>1
  <2>4. QED
    BY <2>2, <2>3 DEF Drivers
<1>12. /\ ghost' \in Ghosts /\ ghost'.late = ghost.late /\ ghost'.crossed = ghost.crossed
       /\ ghost'.done = ghost.done /\ ghost'.mixed = ghost.mixed /\ ghost'.blurred = b
  BY <1>3, <1>10 DEF Ghosts
<1>13. /\ Sorted(s) /\ Len(s) <= BufMax /\ (c = "read" => Len(s) < BufMax)
       /\ \A i \in DOMAIN s : (i \in DOMAIN con.buf /\ s[i] = con.buf[i]) \/ (s[i] = k /\ Kind(k) # "sig")
       /\ s # <<>> => a
  <2>1. CASE s = con.buf /\ a = con.any
    BY <1>3, <2>1, Sizes DEF Order, ConsoleInv, Hands
  <2>2. CASE s = Append(con.buf, k) /\ a = TRUE /\ Kind(k) # "sig" /\ (c = "read" => Len(con.buf) + 1 # BufMax)
    <3>1. /\ Sorted(s) /\ Len(s) = Len(con.buf) + 1
          /\ \A i \in DOMAIN s : (i \in DOMAIN con.buf /\ s[i] = con.buf[i]) \/ s[i] = k
      BY <1>3, <1>7, <2>2, Appended DEF Order
    <3>2. Len(con.buf) \in Nat
      BY <1>3
    <3>3. QED
      BY <1>3, <2>2, <3>1, <3>2, Sizes
  <2>3. QED
    BY <1>10, <2>1, <2>2
<1>14. KeysTyped' /\ Limits'
  BY <1>1, <1>6, <1>7, <1>11, <1>12, <1>13 DEF ConsoleInv, KeysTyped, Limits
<1>15. Hands'
  <2>1. con.pc # "boot" /\ uart.owned
    BY <1>1 DEF ConsoleInv, Hands
  <2>2. QED
    BY <1>1, <1>2, <1>6, <1>11, <1>13, <2>1 DEF Hands
<1>16. Heard'
  BY <1>1, <1>6, <1>11 DEF ConsoleInv, Heard
<1>17. FromSerial'
  <2>1. Counted' = IF Kind(k) = "sig" THEN Counted + 1 ELSE Counted
    <3>1. Counted' = ghost.done + m
      <4>1. ghost'.done = ghost.done /\ con'.sig = m /\ push'.sig = 0
        BY <1>1, <1>2, <1>11, <1>12
      <4>2. ghost.done + m + 0 = ghost.done + m
        BY <1>3
      <4>3. QED
        BY <4>1, <4>2 DEF Counted
    <3>2. QED
      BY <1>3, <1>8, <1>10, <3>1
  <2>2. uart'.fifo = Tail(uart.fifo) /\ (ghost.blurred => ghost'.blurred)
    BY <1>4, <1>6, <1>10, <1>12
  <2>3. QED
    BY <1>1, <1>2, <2>1, <2>2, FifoGoes
<1>18. Order'
  <2>1. AllNew(push.buf)' /\ AllNew(con.buf)'
    BY <1>1, <1>2, <1>3, <1>7, <1>9, <1>11, <1>13 DEF Order, AllNew
  <2>2. Sorted(push'.buf) /\ Sorted(con'.buf) /\ Below(push'.buf, con'.buf) /\ Below(push'.buf, usb.keys)
        /\ Below(push'.buf, uart'.fifo)
    BY <1>1, <1>2, <1>11, <1>13 DEF Sorted, Below
  <2>3. Below(con'.buf, uart'.fifo)
    BY <1>7, <1>11, <1>13 DEF Below
  <2>4. QED
    BY <1>1, <1>7, <2>1, <2>2, <2>3, OrderOfRest
<1>19. Interrupts'
  <2>1. \A x : Fresh(x) => Fresh(x)'
    BY <1>9, <1>10, <1>12 DEF Fresh
  <2>2. PICK x \in Keys : x = k
    BY <1>7
  <2>3. Kind(k) # "sig" => Fresh(x)'
    <3>1. Epoch(x) \in Nat
      BY EpochIs
    <3>2. Epoch(x) >= ghost.done
      BY <1>3, <1>7, <1>8, <2>2, <3>1
    <3>3. Kind(k) # "sig" /\ ~ghost'.blurred => con.sig = 0
      BY <1>3, <1>10, <1>12
    <3>4. Kind(k) # "sig" /\ ~ghost'.blurred => Epoch(x) = ghost.done
      BY <1>3, <1>7, <1>8, <1>10, <1>12, <2>2, <3>3
    <3>5. QED
      BY <1>9, <1>12, <3>2, <3>4 DEF Fresh
  <2>4. AllFresh(con.buf)'
    BY <1>3, <1>11, <1>13, <2>1, <2>2, <2>3 DEF Interrupts, AllFresh
  <2>5. con'.any /\ con'.sig > 0 => ghost'.blurred
    BY <1>3, <1>10, <1>11, <1>12 DEF Interrupts
  <2>6. QED
    BY <1>1, <1>2, <1>3, <1>9, <1>10, <1>12, <2>1, <2>4, <2>5 DEF Interrupts, AllFresh
<1>20. KeysInOrder'
  BY <1>1, <1>2, <1>17, <1>18, <1>19 DEF KeysInOrder, FromUsb
<1>21. Coming' /\ con'.pc # "told"
  BY <1>11 DEF Coming, Busy
<1>22. QED
  BY <1>1, <1>3, <1>12, <1>14, <1>15, <1>16, <1>20, <1>21, ConOther

\* drenar(), in all its steps.
LEMMA DrenarKeeps == ASSUME ConsoleInv, Drenar PROVE ConsoleInv'
BY LeeKeeps, DrainStepKeeps DEF Drenar

\* buf[] goes to uart_push(), and the driver waits for it.
LEMMA EmpujaKeeps == ASSUME ConsoleInv, Empuja PROVE ConsoleInv'
<1>1. /\ con.pc \in {"push", "last"}
      /\ UNCHANGED <<board, uart, mail, usb, tty, reader, klog, avisado, perdidos, avisar, lock, writer,
                     ghost, left>>
  BY DEF Empuja, keyVars, textVars
<1>2. /\ con \in Drivers /\ con.buf \in Seq(Keys) /\ push \in Pushed
      /\ mail \in Seq({"klog", "irq", "print"}) /\ Len(mail) <= Room /\ writer \in [Writers -> Pens]
      /\ ~push.irq /\ push.sig = 0 /\ ~push.any /\ KeysInOrder
  BY <1>1 DEF ConsoleInv, KeysTyped, TextTyped, Hands, Drivers, KeysInOrder
<1>3. CASE con.buf # <<>> /\ Pushes(con.buf) /\ con' = [con EXCEPT !.buf = <<>>]
  <2>1. board.on = "serial" /\ usb.keys = <<>> /\ push.pc = "no" /\ push.buf = <<>>
    <3>1. board.on \in {"serial", "usb"}
      BY DEF ConsoleInv, KeysTyped, Scripts
    <3>2. board.on = "serial"
      BY <1>3, <3>1 DEF ConsoleInv, Hands
    <3>3. push.pc = "no"
      BY <1>2, <1>3, <3>2 DEF ConsoleInv, Hands
    <3>4. QED
      BY <3>2, <3>3 DEF ConsoleInv, Hands
  <2>2. PICK e \in Seq(Keys) : e = <<>>
    <3>1. <<>> \in Seq(Keys)
      OBVIOUS
    <3>2. QED
      BY <3>1
  <2>3. con' = [con EXCEPT !.buf = e]
    BY <1>3, <2>2
  <2>4. /\ con' \in Drivers /\ con'.pc = con.pc /\ con'.buf = <<>> /\ con'.sig = con.sig
        /\ con'.any = con.any /\ con'.irq = con.irq /\ con'.n = con.n
    BY <1>2, <2>2, <2>3 DEF Drivers
  <2>5. /\ push' \in Pushed /\ push'.pc = "key" /\ push'.buf = con.buf /\ ~push'.irq /\ push'.sig = 0
        /\ ~push'.any /\ push'.n = push.n
    BY <1>2, <1>3 DEF Pushes, Pushed, PushPcs
  <2>6. KeysTyped' /\ Limits'
    <3>1. Len(con'.buf) = 0
      BY <2>4
    <3>2. QED
      BY <1>1, <2>4, <2>5, <3>1, Sizes DEF ConsoleInv, KeysTyped, Limits
  <2>7. Hands'
    BY <1>1, <2>1, <2>4, <2>5 DEF ConsoleInv, Hands
  <2>8. Heard'
    BY <1>1, <2>4, <2>5 DEF ConsoleInv, Heard
  <2>9. Order'
    <3>1. Order
      BY DEF ConsoleInv
    <3>2. AllNew(push.buf)' /\ AllNew(con.buf)' /\ AllNew(uart.fifo)'
      BY <1>1, <2>4, <2>5, <3>1 DEF Order, AllNew, New
    <3>3. /\ Sorted(push'.buf) /\ Sorted(con'.buf) /\ Sorted(uart'.fifo)
          /\ Below(push'.buf, con'.buf) /\ Below(push'.buf, usb.keys) /\ Below(push'.buf, uart'.fifo)
          /\ Below(con'.buf, uart'.fifo)
      BY <1>1, <2>1, <2>4, <2>5, <3>1 DEF Order, Sorted, Below
    <3>4. QED
      BY <1>1, <2>1, <2>5, <3>2, <3>3, OrderOfRest
  <2>10. Interrupts'
    <3>1. \A x : Fresh(x)' <=> Fresh(x)
      BY <1>1 DEF Fresh, Epoch, Kind
    <3>2. InLine' = InLine /\ (Valid' <=> Valid)
      BY <1>1, <2>1, <2>5 DEF InLine, Valid
    <3>3. QED
      BY <1>1, <1>2, <2>4, <2>5, <3>1, <3>2 DEF KeysInOrder, Interrupts, AllFresh
  <2>11. KeysInOrder'
    <3>1. Counted' = Counted
      BY <1>1, <1>2, <2>4, <2>5 DEF Counted
    <3>2. \A x : Epoch(x)' = Epoch(x)
      BY <1>1 DEF Epoch, Kind
    <3>3. FromSerial' /\ FromUsb'
      BY <1>1, <1>2, <3>1, <3>2 DEF KeysInOrder, FromSerial, FromUsb
    <3>4. QED
      BY <2>9, <2>10, <3>3 DEF KeysInOrder
  <2>12. Coming' /\ con'.pc # "told"
    BY <1>1, <2>4 DEF Coming, Busy
  <2>13. QED
    BY <1>1, <1>2, <2>6, <2>7, <2>8, <2>11, <2>12, ConOther
<1>4. CASE /\ con.buf = <<>> /\ push.pc = "no" /\ UNCHANGED push
           /\ con' = [con EXCEPT !.pc = IF @ = "push" THEN "read" ELSE "sig"]
  <2>1. PICK c \in {"read", "sig"} :
          /\ con' = [con EXCEPT !.pc = c]
          /\ con.pc = "push" <=> c = "read"
    BY <1>1, <1>4
  <2>2. /\ con' \in Drivers /\ con'.pc = c /\ con'.buf = <<>> /\ con'.sig = con.sig
        /\ con'.any = con.any /\ con'.irq = con.irq
    BY <1>2, <1>4, <2>1 DEF Drivers, ConPcs
  <2>3. KeysTyped' /\ Limits'
    <3>1. Len(con'.buf) = 0
      BY <2>2
    <3>2. QED
      BY <1>1, <1>4, <2>2, <3>1, Sizes DEF ConsoleInv, KeysTyped, Limits
  <2>4. Hands'
    BY <1>1, <1>2, <1>4, <2>2 DEF ConsoleInv, Hands
  <2>5. Heard'
    BY <1>1, <1>4, <2>1, <2>2 DEF ConsoleInv, Heard
  <2>6. KeysInOrder'
    BY <1>1, <1>2, <1>4, <2>2, KeysStand DEF Held
  <2>7. Coming' /\ con'.pc # "told"
    BY <2>2 DEF Coming, Busy
  <2>8. QED
    BY <1>1, <1>2, <2>3, <2>4, <2>5, <2>6, <2>7, ConOther
<1>5. QED
  BY <1>3, <1>4 DEF Empuja

\* The driver asks for the signals of the ^C it has met.
LEMMA SenyalaKeeps == ASSUME ConsoleInv, Senyala PROVE ConsoleInv'
<1>1. /\ con.pc = "sig" /\ con' = [con EXCEPT !.pc = "saca", !.sig = 0, !.any = FALSE]
      /\ IF con.sig > 0 THEN Interrupt(con.sig) ELSE UNCHANGED <<tty, reader, writer, ghost>>
      /\ UNCHANGED <<board, uart, mail, usb, push, klog, avisado, perdidos, avisar, lock, left>>
  BY DEF Senyala
<1>2. /\ con \in Drivers /\ con.buf = <<>> /\ con.sig \in Nat
      /\ mail \in Seq({"klog", "irq", "print"}) /\ Len(mail) <= Room /\ writer \in [Writers -> Pens]
      /\ KeysInOrder /\ ghost.done \in Nat /\ uart.owned /\ ~push.irq /\ push.sig = 0 /\ ~push.any
  BY <1>1 DEF ConsoleInv, KeysTyped, TextTyped, Hands, Drivers, Ghosts, KeysInOrder
<1>3. /\ con' \in Drivers /\ con'.pc = "saca" /\ con'.buf = <<>> /\ con'.sig = 0 /\ ~con'.any
      /\ con'.irq = con.irq
  BY <1>1, <1>2 DEF Drivers, ConPcs
<1>4. Coming' /\ con'.pc # "told"
  BY <1>3 DEF Coming, Busy
<1>5. Hands'
  BY <1>1, <1>2, <1>3 DEF ConsoleInv, Hands
<1>6. CASE con.sig > 0
  <2>1. Interrupt(con.sig)
    BY <1>1, <1>6
  <2>2. /\ tty' \in Ttys /\ tty'.rx = <<>> /\ ~tty'.eof /\ Len(tty'.rx) <= RxMax
        /\ reader' \in Readers /\ reader'.pc # "asleep" /\ (reader'.pc # "out" => reader'.n # 0)
        /\ writer' \in [Writers -> Pens] /\ \A w \in Writers : writer'[w].i = writer[w].i
        /\ ghost' \in Ghosts /\ ghost'.late = ghost.late /\ ghost'.crossed = ghost.crossed
        /\ ghost'.done = ghost.done + con.sig /\ ghost'.blurred = ghost.blurred
    BY <1>2, <2>1, InterruptTyped
  <2>3. board.on = "serial" /\ push.pc = "no" /\ push.buf = <<>>
    <3>1. board.on \in {"serial", "usb"}
      BY DEF ConsoleInv, KeysTyped, Scripts
    <3>2. board.on = "serial"
      BY <1>2, <1>6, <3>1 DEF ConsoleInv, Hands
    <3>3. QED
      BY <1>1, <1>2, <3>2 DEF ConsoleInv, Hands
  <2>4. Order' /\ Interrupts'
    <3>1. usb.keys \in Seq(Keys) /\ usb'.keys = usb.keys
      BY <1>1 DEF ConsoleInv, KeysTyped, Usbs
    <3>2. PieceOf(usb.keys, usb.keys)
      BY <3>1, PiecesOf
    <3>3. QED
      BY <1>1, <1>2, <1>3, <2>1, <2>3, <3>1, <3>2, InterruptKeys
  <2>5. Counted' = Counted
    BY <1>1, <1>2, <1>3, <2>2 DEF Counted
  <2>6. \A x : Epoch(x)' = Epoch(x)
    BY <1>1 DEF Epoch, Kind
  <2>7. FromSerial' /\ FromUsb'
    BY <1>1, <1>2, <2>2, <2>3, <2>5, <2>6 DEF KeysInOrder, FromSerial, FromUsb
  <2>8. KeysTyped' /\ Limits'
    BY <1>1, <1>2, <1>3, <2>2, Sizes DEF ConsoleInv, KeysTyped, Limits
  <2>9. Heard'
    BY <1>1, <1>3, <2>2 DEF ConsoleInv, Heard
  <2>10. KeysInOrder'
    BY <2>4, <2>7 DEF KeysInOrder
  <2>11. QED
    BY <1>1, <1>2, <1>4, <1>5, <2>2, <2>8, <2>9, <2>10, ConOther
<1>7. CASE ~(con.sig > 0)
  <2>1. UNCHANGED <<tty, reader, writer, ghost>> /\ con.sig = 0
    BY <1>1, <1>2, <1>7
  <2>2. KeysTyped' /\ Limits'
    BY <1>1, <1>2, <1>3, <2>1, Sizes DEF ConsoleInv, KeysTyped, Limits
  <2>3. Heard'
    BY <1>1, <1>3, <2>1 DEF ConsoleInv, Heard
  <2>4. KeysInOrder'
    BY <1>1, <1>2, <1>3, <2>1, KeysStand DEF Held
  <2>5. QED
    BY <1>1, <1>2, <1>4, <1>5, <2>1, <2>2, <2>3, <2>4, ConOther
<1>8. QED
  BY <1>6, <1>7
-----------------------------------------------------------------------------
\* vaciar_klog(): the keys stand.
LEMMA KlogOther ==
    ASSUME ConsoleInv, con.pc \in {"saca", "told", "wake", "show", "ack"},
           UNCHANGED <<board, mail, usb, push, tty, reader, avisar, lock, left>>,
           con' \in Drivers, con'.pc \in {"saca", "told", "wake", "show", "ack", "recv"},
           con'.buf = con.buf, con'.sig = con.sig, con'.any = con.any, con'.irq = con.irq,
           uart' \in Uarts, uart'.fifo = uart.fifo, uart'.ris = uart.ris, uart'.owned = uart.owned,
           uart'.open \/ (uart'.open = uart.open /\ (con'.pc = "recv" => ~con.irq)),
           ghost' \in Ghosts, ghost'.done = ghost.done, ghost'.blurred = ghost.blurred,
           ghost'.mixed = ghost.mixed,
           klog' \in Seq(Piece), Len(klog') <= KlogMax, avisado' \in BOOLEAN, perdidos' \in BOOLEAN,
           writer' \in [Writers -> Pens], \A w \in Writers : writer'[w].i = writer[w].i,
           Announced'
    PROVE  ConsoleInv'
<1>1. KeysTyped' /\ Limits'
  BY DEF ConsoleInv, KeysTyped, Limits
<1>2. Hands'
  BY DEF ConsoleInv, Hands
<1>3. Heard'
  BY DEF ConsoleInv, Heard
<1>4. KeysInOrder'
  BY KeysStand DEF ConsoleInv, KeysInOrder, Held
<1>5. TextTyped'
  BY DEF ConsoleInv, TextTyped, Texts
<1>6. QED
  BY <1>1, <1>2, <1>3, <1>4, <1>5 DEF ConsoleInv, KeysInOrder

\* klog() takes a piece of the log.
LEMMA SacaKeeps ==
    ASSUME ConsoleInv, Saca, UNCHANGED <<board, mail, usb, push, keyVars, avisar, lock, left>>
    PROVE  ConsoleInv'
<1>1. /\ con.pc = "saca"
      /\ UNCHANGED <<board, mail, usb, push, tty, reader, avisar, lock, left, avisado, perdidos, writer, ghost,
                     uart>>
  BY DEF Saca, keyVars
<1>2. /\ con \in Drivers /\ uart \in Uarts /\ ghost \in Ghosts /\ writer \in [Writers -> Pens]
      /\ klog \in Seq(Piece) /\ Len(klog) <= KlogMax /\ Len(klog) \in Nat
  BY DEF ConsoleInv, KeysTyped, TextTyped
<1>3. PICK n \in 0 .. Len(klog) :
        /\ n = IF Len(klog) < Chunk THEN Len(klog) ELSE Chunk
        /\ n = 0 => n = Len(klog)
  <2>1. CASE Len(klog) < Chunk
    BY <1>2, <2>1
  <2>2. CASE ~(Len(klog) < Chunk)
    BY <1>2, <2>2, Sizes
  <2>3. QED
    BY <2>1, <2>2
<1>4. PICK t, r : t = SubSeq(klog, 1, n) /\ r = SubSeq(klog, n + 1, Len(klog))
  OBVIOUS
<1>5. t \in Seq(Piece) /\ r \in Seq(Piece) /\ Len(r) <= KlogMax
  <2>1. t \in Seq(Piece) /\ r \in Seq(Piece) /\ Len(r) = Len(klog) - n
    BY <1>2, <1>4, PiecesOf
  <2>2. QED
    BY <1>2, <2>1, Sizes
<1>6. PICK b \in BOOLEAN : b = (n = Len(klog))
  BY Zenon
<1>7. klog' = r /\ con' = [con EXCEPT !.pc = "told", !.text = t, !.n = n, !.empty = b]
  BY <1>3, <1>4, <1>6 DEF Saca
<1>8. /\ con' \in Drivers /\ con'.pc = "told" /\ con'.n = n /\ con'.empty = b
      /\ con'.buf = con.buf /\ con'.sig = con.sig /\ con'.any = con.any /\ con'.irq = con.irq
  <2>1. PICK d : d = [con EXCEPT !.pc = "told", !.text = t]
    OBVIOUS
  <2>2. /\ d \in Drivers /\ d.pc = "told" /\ d.buf = con.buf /\ d.sig = con.sig /\ d.any = con.any
        /\ d.irq = con.irq
    BY <1>2, <1>5, <2>1 DEF Drivers, ConPcs
  <2>3. n \in Nat /\ con' = [d EXCEPT !.n = n, !.empty = b]
    BY <1>2, <1>7, <2>1
  <2>4. QED
    BY <2>2, <2>3 DEF Drivers
<1>9. Announced'
  <2>1. Coming'
    BY <1>8 DEF Coming, Busy
  <2>2. con'.n = 0 => con'.empty
    BY <1>3, <1>6, <1>8
  <2>3. QED
    BY <2>1, <2>2 DEF Announced
<1>10. avisado' \in BOOLEAN /\ perdidos' \in BOOLEAN
  BY <1>1, ZenonT(30) DEF ConsoleInv, TextTyped
<1>11. uart'.open \/ uart'.open = uart.open
  BY <1>1
<1>12. QED
  BY <1>1, <1>2, <1>5, <1>7, <1>8, <1>9, <1>10, <1>11, KlogOther

\* klog_entregado(), if nothing was left.
LEMMA EntregaKeeps ==
    ASSUME ConsoleInv, Entrega, UNCHANGED <<board, mail, usb, push, keyVars, avisar, lock, left>>
    PROVE  ConsoleInv'
<1>1. /\ con.pc = "told" /\ con' = [con EXCEPT !.pc = "wake"]
      /\ UNCHANGED <<board, mail, usb, push, tty, reader, avisar, lock, left, klog, perdidos, writer, uart>>
  BY DEF Entrega, keyVars
<1>2. /\ con \in Drivers /\ uart \in Uarts /\ ghost \in Ghosts /\ writer \in [Writers -> Pens]
      /\ klog \in Seq(Piece) /\ Len(klog) <= KlogMax /\ con.n \in Nat
  BY DEF ConsoleInv, KeysTyped, TextTyped, Drivers
<1>3. /\ con' \in Drivers /\ con'.pc = "wake" /\ con'.n = con.n
      /\ con'.buf = con.buf /\ con'.sig = con.sig /\ con'.any = con.any /\ con'.irq = con.irq
  BY <1>1, <1>2 DEF Drivers, ConPcs
<1>4. CASE con.empty
  <2>1. /\ avisado' = FALSE
        /\ ghost' = [ghost EXCEPT !.crossed = FALSE, !.late = {c \in Callers : avisar[c] = "raise"}]
    BY <1>4 DEF Entrega, Entregado
  <2>2. PICK l \in SUBSET Callers : l = {c \in Callers : avisar[c] = "raise"}
    OBVIOUS
  <2>3. ghost' = [ghost EXCEPT !.crossed = FALSE, !.late = l]
    BY <2>1, <2>2
  <2>4. /\ ghost' \in Ghosts /\ ghost'.late = l /\ ghost'.done = ghost.done
        /\ ghost'.blurred = ghost.blurred /\ ghost'.mixed = ghost.mixed
    BY <1>2, <2>3 DEF Ghosts
  <2>5. Announced'
    BY <1>1, <1>3, <2>1, <2>2, <2>4 DEF Announced
  <2>6. avisado' \in BOOLEAN /\ perdidos' \in BOOLEAN
    BY <1>1, <2>1, ZenonT(30) DEF ConsoleInv, TextTyped
  <2>7. uart'.open \/ (uart'.open = uart.open /\ (con'.pc = "recv" => ~con.irq))
    BY <1>1, <1>3
  <2>8. QED
    BY <1>1, <1>2, <1>3, <2>4, <2>5, <2>6, <2>7, KlogOther
<1>5. CASE ~con.empty
  <2>1. UNCHANGED <<avisado, ghost>>
    BY <1>5 DEF Entrega
  <2>2. Announced'
    <3>1. con.n > 0
      BY <1>1, <1>2, <1>5 DEF ConsoleInv, Announced
    <3>2. Coming'
      BY <1>3, <3>1 DEF Coming, Busy
    <3>3. QED
      BY <1>3, <3>2 DEF Announced
  <2>3. avisado' \in BOOLEAN /\ perdidos' \in BOOLEAN
    BY <1>1, <2>1, ZenonT(30) DEF ConsoleInv, TextTyped
  <2>4. uart'.open \/ (uart'.open = uart.open /\ (con'.pc = "recv" => ~con.irq))
    BY <1>1, <1>3
  <2>5. QED
    BY <1>1, <1>2, <1>3, <2>1, <2>2, <2>3, <2>4, KlogOther
<1>6. QED
  BY <1>4, <1>5

\* Those that slept for room go on.
LEMMA DespiertaKeeps ==
    ASSUME ConsoleInv, Despierta, UNCHANGED <<board, mail, usb, push, keyVars, avisar, lock, left>>
    PROVE  ConsoleInv'
<1>1. /\ con.pc = "wake" /\ con' = [con EXCEPT !.pc = "show"]
      /\ writer' = [w \in Writers |->
           [writer[w] EXCEPT !.pc = IF @ = "asleep" /\ con.n > 0 THEN "put" ELSE @]]
      /\ UNCHANGED <<board, mail, usb, push, tty, reader, avisar, lock, left, klog, avisado, perdidos, ghost,
                     uart>>
  BY DEF Despierta, keyVars
<1>2. /\ con \in Drivers /\ uart \in Uarts /\ ghost \in Ghosts /\ writer \in [Writers -> Pens]
      /\ klog \in Seq(Piece) /\ Len(klog) <= KlogMax
  BY DEF ConsoleInv, KeysTyped, TextTyped
<1>3. /\ con' \in Drivers /\ con'.pc = "show" /\ con'.n = con.n
      /\ con'.buf = con.buf /\ con'.sig = con.sig /\ con'.any = con.any /\ con'.irq = con.irq
  BY <1>1, <1>2 DEF Drivers, ConPcs
<1>4. writer' \in [Writers -> Pens] /\ \A w \in Writers : writer'[w].i = writer[w].i
  <2>1. ASSUME NEW w \in Writers
        PROVE  writer'[w] \in Pens /\ writer'[w].i = writer[w].i
    <3>1. writer[w] \in Pens
      BY <1>2
    <3>2. PICK c \in {"call", "begin", "hw", "put", "full", "asleep", "ret", "done"} :
            c = IF writer[w].pc = "asleep" /\ con.n > 0 THEN "put" ELSE writer[w].pc
      BY <3>1 DEF Pens
    <3>3. writer'[w] = [writer[w] EXCEPT !.pc = c]
      BY <1>1, <3>2
    <3>4. QED
      BY <3>1, <3>3 DEF Pens
  <2>2. DOMAIN writer' = Writers /\ writer' = [w \in Writers |-> writer'[w]]
    BY <1>1
  <2>3. QED
    BY <2>1, <2>2
<1>5. Announced'
  <2>1. Coming' <=> Coming
    BY <1>1, <1>3 DEF Coming, Busy
  <2>2. QED
    BY <1>1, <1>3, <2>1 DEF ConsoleInv, Announced
<1>6. avisado' \in BOOLEAN /\ perdidos' \in BOOLEAN
  BY <1>1, ZenonT(30) DEF ConsoleInv, TextTyped
<1>7. uart'.open \/ (uart'.open = uart.open /\ (con'.pc = "recv" => ~con.irq))
  BY <1>1, <1>3
<1>8. QED
  BY <1>1, <1>2, <1>3, <1>4, <1>5, <1>6, <1>7, KlogOther

\* The piece goes to the line, and the driver asks for more if there was any.
LEMMA MuestraKeeps ==
    ASSUME ConsoleInv, Muestra, UNCHANGED <<board, mail, usb, push, keyVars, avisar, lock, left>>
    PROVE  ConsoleInv'
<1>1. /\ con.pc = "show"
      /\ con' = [con EXCEPT !.text = <<>>, !.n = 0,
                            !.pc = IF con.n > 0 THEN "saca" ELSE IF con.irq THEN "ack" ELSE "recv"]
      /\ IF klog = <<>> /\ perdidos
         THEN klog' = <<[by |-> Nobody, i |-> 0]>> /\ perdidos' = FALSE
         ELSE UNCHANGED <<klog, perdidos>>
      /\ UNCHANGED <<board, mail, usb, push, tty, reader, avisar, lock, left, avisado, writer, ghost, uart>>
  BY DEF Muestra, keyVars
<1>2. /\ con \in Drivers /\ uart \in Uarts /\ ghost \in Ghosts /\ writer \in [Writers -> Pens]
      /\ klog \in Seq(Piece) /\ Len(klog) <= KlogMax /\ con.n \in Nat
  BY DEF ConsoleInv, KeysTyped, TextTyped, Drivers
<1>3. PICK c \in {"saca", "ack", "recv"} :
        /\ c = IF con.n > 0 THEN "saca" ELSE IF con.irq THEN "ack" ELSE "recv"
        /\ con.n > 0 <=> c = "saca"
        /\ c = "recv" => ~con.irq
  OBVIOUS
<1>4. PICK e \in Seq(Piece) : e = <<>>
  <2>1. <<>> \in Seq(Piece)
    OBVIOUS
  <2>2. QED
    BY <2>1
<1>5. con' = [con EXCEPT !.text = e, !.n = 0, !.pc = c]
  BY <1>1, <1>3, <1>4
<1>6. /\ con' \in Drivers /\ con'.pc = c
      /\ con'.buf = con.buf /\ con'.sig = con.sig /\ con'.any = con.any /\ con'.irq = con.irq
  BY <1>2, <1>4, <1>5 DEF Drivers, ConPcs
<1>7. Announced'
  <2>1. Coming => Coming'
    BY <1>1, <1>3, <1>6 DEF Coming, Busy
  <2>2. QED
    BY <1>1, <1>6, <2>1 DEF ConsoleInv, Announced
<1>8. klog' \in Seq(Piece) /\ Len(klog') <= KlogMax /\ perdidos' \in BOOLEAN
  <2>1. CASE klog = <<>> /\ perdidos
    <3>1. PICK p \in Piece : p = [by |-> Nobody, i |-> 0]
      BY DEF Piece
    <3>2. klog' = <<p>> /\ perdidos' = FALSE
      BY <1>1, <2>1, <3>1
    <3>3. <<p>> \in Seq(Piece) /\ Len(<<p>>) = 1
      OBVIOUS
    <3>4. 1 <= KlogMax
      BY Sizes
    <3>5. perdidos' \in BOOLEAN
      BY <3>2, Zenon
    <3>6. QED
      BY <3>2, <3>3, <3>4, <3>5
  <2>2. CASE ~(klog = <<>> /\ perdidos)
    <3>1. UNCHANGED <<klog, perdidos>>
      BY <1>1, <2>2
    <3>2. QED
      BY <3>1, ZenonT(30) DEF ConsoleInv, TextTyped
  <2>3. QED
    BY <2>1, <2>2
<1>9. avisado' \in BOOLEAN
  BY <1>1, ZenonT(30) DEF ConsoleInv, TextTyped
<1>10. uart'.open = uart.open /\ (con'.pc = "recv" => ~con.irq)
  BY <1>1, <1>3, <1>6
<1>11. QED
  BY <1>1, <1>2, <1>6, <1>7, <1>8, <1>9, <1>10, KlogOther

\* The driver lets the interrupt in again.
LEMMA AckKeeps ==
    ASSUME ConsoleInv, Ack, UNCHANGED <<board, mail, usb, push, keyVars, avisar, lock, left>>
    PROVE  ConsoleInv'
<1>1. /\ con.pc = "ack" /\ con' = [con EXCEPT !.pc = "recv"] /\ uart' = [uart EXCEPT !.open = TRUE]
      /\ UNCHANGED <<board, mail, usb, push, tty, reader, avisar, lock, left, klog, avisado, perdidos, writer,
                     ghost>>
  BY DEF Ack, keyVars
<1>2. /\ con \in Drivers /\ uart \in Uarts /\ ghost \in Ghosts /\ writer \in [Writers -> Pens]
      /\ klog \in Seq(Piece) /\ Len(klog) <= KlogMax
  BY DEF ConsoleInv, KeysTyped, TextTyped
<1>3. /\ con' \in Drivers /\ con'.pc = "recv"
      /\ con'.buf = con.buf /\ con'.sig = con.sig /\ con'.any = con.any /\ con'.irq = con.irq
  BY <1>1, <1>2 DEF Drivers, ConPcs
<1>4. uart' \in Uarts /\ uart'.fifo = uart.fifo /\ uart'.ris = uart.ris /\ uart'.owned = uart.owned /\ uart'.open
  BY <1>1, <1>2 DEF Uarts
<1>5. Announced'
  <2>1. Coming => Coming'
    BY <1>1, <1>3 DEF Coming, Busy
  <2>2. QED
    BY <1>1, <1>3, <2>1 DEF ConsoleInv, Announced
<1>6. avisado' \in BOOLEAN /\ perdidos' \in BOOLEAN
  BY <1>1, ZenonT(30) DEF ConsoleInv, TextTyped
<1>7. QED
  BY <1>1, <1>2, <1>3, <1>4, <1>5, <1>6, KlogOther

\* vaciar_klog(), in all its steps.
LEMMA VaciarKlogKeeps == ASSUME ConsoleInv, VaciarKlog PROVE ConsoleInv'
BY SacaKeeps, EntregaKeeps, DespiertaKeeps, MuestraKeeps, AckKeeps DEF VaciarKlog
-----------------------------------------------------------------------------
\* A report of the USB keyboard brings keys that are after all the others.
LEMMA InformeKeeps == ASSUME ConsoleInv, NEW n \in 1 .. BufMax, Informe(n) PROVE ConsoleInv'
<1>1. /\ board.on = "usb" /\ usb.pc = "rest" /\ board.typed + n <= Len(board.script)
      /\ board' = [board EXCEPT !.typed = @ + n]
      /\ usb' = [pc |-> "give", keys |-> [i \in 1 .. n |-> board.typed + i]]
      /\ UNCHANGED <<uart, mail, con, push, tty, reader, klog, avisado, perdidos, avisar, lock, writer,
                     ghost, left>>
  BY DEF Informe, keyVars, textVars
<1>2. /\ board \in Scripts /\ board.typed \in Nat /\ Len(board.script) \in Nat /\ n \in Nat \ {0}
      /\ usb.keys = <<>> /\ Order /\ Interrupts /\ FromUsb /\ New(board.typed + 1) /\ uart.fifo = <<>>
      /\ con.buf = <<>> /\ push.buf \in Seq(Keys) /\ mail \in Seq({"klog", "irq", "print"})
      /\ Len(mail) <= Room /\ writer \in [Writers -> Pens]
  BY <1>1, Sizes, SMTT(40) DEF ConsoleInv, KeysTyped, Scripts, Hands, Order, TextTyped, Pushed
<1>3. PICK ks : ks = [i \in 1 .. n |-> board.typed + i]
  OBVIOUS
<1>4. /\ ks \in Seq(Keys) /\ Len(ks) = n /\ DOMAIN ks = 1 .. n
      /\ \A i \in 1 .. n : ks[i] = board.typed + i /\ ks[i] \in Nat /\ board.typed < ks[i]
  <2>1. \A i \in 1 .. n : board.typed + i \in Keys
    BY <1>2 DEF Keys
  <2>2. QED
    BY SMTT(40), <1>2, <1>3, <2>1
<1>5. usb' \in Usbs /\ usb'.pc = "give" /\ usb'.keys = ks
  BY <1>1, <1>3, <1>4 DEF Usbs
<1>6. PICK m \in Nat : m = board.typed + n /\ m <= Len(board.script)
  BY <1>1, <1>2
<1>7. board' \in Scripts /\ board'.typed = m /\ board'.on = "usb" /\ board'.script = board.script
      /\ board'.texts = board.texts
  BY <1>1, <1>2, <1>6 DEF Scripts
<1>8. KeysTyped' /\ Limits'
  BY <1>1, <1>5, <1>6, <1>7 DEF ConsoleInv, KeysTyped, Limits
<1>9. Hands'
  BY <1>1, <1>5, <1>7 DEF ConsoleInv, Hands
<1>10. Heard'
  BY <1>1 DEF ConsoleInv, Heard
<1>11. avisado' \in BOOLEAN /\ perdidos' \in BOOLEAN
  BY <1>1, ZenonT(30) DEF ConsoleInv, TextTyped
<1>12. TextTyped'
  BY <1>1, <1>7, <1>11 DEF ConsoleInv, TextTyped, Texts
<1>13. Announced'
  BY <1>1, NoticesUntouched DEF ConsoleInv
<1>14. /\ \A k \in Nat : board.typed < k => New(k)
       /\ \A i \in DOMAIN push.buf : push.buf[i] <= board.typed /\ push.buf[i] \in Nat
  BY <1>2, LaterIsNew
<1>15. /\ \A x : (New(x)' <=> New(x)) /\ (Fresh(x)' <=> Fresh(x)) /\ Epoch(x)' = Epoch(x)
       /\ InLine' = InLine /\ (Valid' <=> Valid)
  BY <1>1, <1>7 DEF New, Fresh, Epoch, Kind, InLine, Valid
<1>16. Order'
  <2>1. Sorted(ks)
    <3>1. \A i, j \in 1 .. n : i < j => ks[i] < ks[j]
      BY <1>2, <1>4
    <3>2. QED
      BY <1>4, <3>1 DEF Sorted
  <2>2. Below(push.buf, ks)
    <3>1. \A i \in DOMAIN push.buf, j \in 1 .. n : push.buf[i] < ks[j]
      BY <1>2, <1>4, <1>14
    <3>2. QED
      BY <1>4, <3>1 DEF Below
  <2>3. \A i \in 1 .. n : New(ks[i]) /\ ks[i] <= m
    BY <1>2, <1>4, <1>6, <1>14
  <2>4. New(m + 1)
    BY <1>2, <1>6, <1>14
  <2>5. \A i \in DOMAIN push.buf : New(push.buf[i]) /\ push.buf[i] <= m
    BY <1>2, <1>6, <1>14 DEF Order, AllNew
  <2>6. AllNew(push.buf)' /\ AllNew(con.buf)' /\ AllNew(usb.keys)' /\ AllNew(uart.fifo)'
        /\ New(board.typed + 1)'
    BY <1>1, <1>2, <1>4, <1>5, <1>7, <1>15, <2>3, <2>4, <2>5 DEF AllNew
  <2>7. QED
    BY <1>1, <1>2, <1>5, <1>15, <2>1, <2>2, <2>6 DEF Order, Sorted, Below
<1>17. Interrupts'
  BY <1>1, <1>2, <1>15 DEF Interrupts, AllFresh
<1>18. FromSerial'
  BY <1>7 DEF FromSerial
<1>19. FromUsb'
  <2>1. Epoch(board.typed + 1) = ghost.done
    <3>1. board.typed - Len(usb.keys) + 1 = board.typed + 1
      BY <1>2
    <3>2. QED
      BY <1>1, <1>2, <3>1 DEF FromUsb
  <2>2. m - n = board.typed /\ n <= m /\ m - n + 1 = board.typed + 1
    BY <1>2, <1>6
  <2>3. \A i \in 1 .. n : ks[i] = m - n + i
    BY <1>4, <2>2
  <2>4. QED
    BY <1>1, <1>4, <1>5, <1>7, <1>15, <2>1, <2>2, <2>3 DEF FromUsb
<1>20. QED
  BY <1>8, <1>9, <1>10, <1>12, <1>13, <1>16, <1>17, <1>18, <1>19 DEF ConsoleInv

\* The driver of USB with its keys: the driver of the line has none.
LEMMA UsbOther ==
    ASSUME ConsoleInv, usb.pc = "give", push.pc = "no",
           UNCHANGED <<board, uart, mail, con, klog, avisado, perdidos, avisar, lock, left>>,
           usb' \in Usbs, usb'.pc = "rest" => usb'.keys = <<>>,
           usb.keys = <<>> => usb'.keys = <<>>,
           push' \in Pushed, push'.pc \in {"no", "key"}, push'.pc = "no" => push'.buf = <<>>,
           push'.pc = "key" => board.on = "usb",
           push'.irq = push.irq, push'.sig = push.sig, push'.any = push.any,
           tty' \in Ttys, Len(tty'.rx) <= RxMax, reader' \in Readers, reader'.pc # "out" => reader'.n # 0,
           reader'.pc = "asleep" => (tty'.rx = <<>> /\ ~tty'.eof) \/ push'.pc = "key",
           ghost' \in Ghosts, ghost'.late = ghost.late, ghost'.crossed = ghost.crossed,
           writer' \in [Writers -> Pens], \A w \in Writers : writer'[w].i = writer[w].i,
           KeysInOrder'
    PROVE  ConsoleInv'
<1>1. KeysTyped' /\ Limits'
  BY DEF ConsoleInv, KeysTyped, Limits
<1>2. Hands'
  BY DEF ConsoleInv, Hands
<1>3. Heard'
  BY DEF ConsoleInv, Heard
<1>4. Announced'
  BY NoticesUntouched DEF ConsoleInv
<1>5. avisado' \in BOOLEAN /\ perdidos' \in BOOLEAN
  BY ZenonT(30) DEF ConsoleInv, TextTyped
<1>6. TextTyped'
  BY <1>5 DEF ConsoleInv, TextTyped, Texts
<1>7. QED
  BY <1>1, <1>2, <1>3, <1>4, <1>6 DEF ConsoleInv, KeysInOrder

\* The keyboard of USB has keys: nothing is in hand on the way of the serial line.
LEMMA UsbHas ==
    ASSUME ConsoleInv, usb.keys # <<>>, push.pc = "no"
    PROVE  /\ board.on = "usb" /\ uart.fifo = <<>> /\ con.buf = <<>> /\ con.sig = 0
           /\ ~push.irq /\ push.sig = 0 /\ ~push.any /\ push.buf = <<>>
           /\ usb.keys \in Seq(Keys) /\ board.typed \in Nat /\ Len(usb.keys) <= board.typed
           /\ \A i \in DOMAIN usb.keys : usb.keys[i] = board.typed - Len(usb.keys) + i
           /\ Epoch(board.typed - Len(usb.keys) + 1) = ghost.done /\ ghost.done \in Nat
<1>1. board.on = "usb"
  BY DEF ConsoleInv, KeysTyped, Scripts, Hands
<1>2. QED
  BY <1>1 DEF ConsoleInv, KeysTyped, Scripts, Usbs, Ghosts, Hands, FromUsb

\* The keys until the first ^C go to uart_push().
LEMMA TecladoDaKeys ==
    ASSUME ConsoleInv, usb.pc = "give", push.pc = "no", usb.keys # <<>>,
           NEW n \in 1 .. Len(usb.keys), Before(n),
           UNCHANGED <<board, uart, con, tty, reader, ghost>>,
           push'.buf = SubSeq(usb.keys, 1, n), push'.pc = "key", push'.n = push.n,
           push'.sig = push.sig, push'.any = push.any,
           usb'.keys = SubSeq(usb.keys, n + 1, Len(usb.keys))
    PROVE  KeysInOrder'
<1>1. /\ board.on = "usb" /\ uart.fifo = <<>> /\ con.buf = <<>> /\ con.sig = 0
      /\ push.sig = 0 /\ ~push.any
      /\ usb.keys \in Seq(Keys) /\ board.typed \in Nat /\ Len(usb.keys) <= board.typed
      /\ \A i \in DOMAIN usb.keys : usb.keys[i] = board.typed - Len(usb.keys) + i
      /\ Epoch(board.typed - Len(usb.keys) + 1) = ghost.done
  BY UsbHas
<1>2. PICK s \in Seq(Keys) : s = usb.keys
  BY <1>1
<1>3. PICK d \in Nat : d = board.typed - Len(s)
  BY <1>1, <1>2
<1>4. /\ Len(s) \in Nat /\ n \in 1 .. Len(s) /\ n \in 0 .. Len(s) /\ d + Len(s) = board.typed
      /\ \A i \in 1 .. Len(s) : s[i] = d + i
      /\ Epoch(d + 1) = ghost.done
  BY <1>1, <1>2, <1>3, SMTT(30)
<1>5. PICK p, q : p = SubSeq(s, 1, n) /\ q = SubSeq(s, n + 1, Len(s))
  OBVIOUS
<1>6. /\ PieceOf(p, s) /\ PieceOf(q, s) /\ p \in Seq(Keys) /\ q \in Seq(Keys)
      /\ Len(q) = Len(s) - n /\ Len(p) = n
      /\ \A i \in 1 .. n : p[i] = s[i]
      /\ \A i \in 1 .. Len(s) - n : q[i] = s[i + n]
  <2>1. \A m \in 0 .. Len(s) :
          /\ PieceOf(SubSeq(s, m + 1, Len(s)), s) /\ PieceOf(SubSeq(s, 1, m), s)
          /\ SubSeq(s, m + 1, Len(s)) \in Seq(Keys) /\ SubSeq(s, 1, m) \in Seq(Keys)
          /\ Len(SubSeq(s, m + 1, Len(s))) = Len(s) - m /\ Len(SubSeq(s, 1, m)) = m
          /\ \A i \in 1 .. m : SubSeq(s, 1, m)[i] = s[i]
          /\ \A i \in 1 .. Len(s) - m : SubSeq(s, m + 1, Len(s))[i] = s[i + m]
    BY PiecesOf
  <2>2. QED
    BY <1>4, <1>5, <2>1
<1>7. \A i \in 1 .. n : p[i] = d + i
  BY <1>4, <1>6, SMTT(40)
<1>8. \A i \in 1 .. Len(s) - n : q[i] = d + n + i
  <2>1. \A i \in 1 .. Len(s) - n : i + n \in 1 .. Len(s)
    BY <1>4
  <2>2. \A i \in 1 .. Len(s) - n : q[i] = d + (i + n)
    BY <1>4, <1>6, <2>1
  <2>3. QED
    BY <1>4, <2>2
<1>9. push'.buf = p /\ usb'.keys = q /\ uart'.fifo = <<>> /\ con'.buf = <<>>
  BY <1>1, <1>2, <1>5
<1>10. /\ \A x : (New(x)' <=> New(x)) /\ (Fresh(x)' <=> Fresh(x)) /\ Epoch(x)' = Epoch(x)
       /\ InLine' = InLine /\ (Valid' <=> Valid)
  BY DEF New, Fresh, Epoch, Kind, InLine, Valid
<1>11. Order /\ Interrupts
  BY DEF ConsoleInv
<1>12. Sorted(p) /\ Sorted(q) /\ AllNew(p) /\ AllNew(q)
  <2>1. DOMAIN p \subseteq Nat /\ DOMAIN q \subseteq Nat /\ s \in Seq(Nat)
    BY <1>2, <1>6, SMTT(40) DEF Keys
  <2>2. Sorted(s) /\ AllNew(s)
    BY <1>2, <1>11 DEF Order
  <2>3. QED
    BY <1>6, <2>1, <2>2, Inherited
<1>13. Below(p, q)
  <2>1. DOMAIN p = 1 .. n /\ DOMAIN q = 1 .. Len(s) - n
    BY <1>4, <1>6
  <2>2. \A i \in 1 .. n, j \in 1 .. Len(s) - n : d + i < d + n + j
    BY <1>4
  <2>3. QED
    BY <1>7, <1>8, <2>1, <2>2 DEF Below
<1>14. Order'
  <2>1. AllNew(push.buf)' /\ AllNew(con.buf)' /\ AllNew(usb.keys)' /\ AllNew(uart.fifo)'
        /\ New(board.typed + 1)'
    BY <1>9, <1>10, <1>11, <1>12 DEF Order, AllNew
  <2>2. /\ Sorted(push'.buf) /\ Sorted(con'.buf) /\ Sorted(usb'.keys) /\ Sorted(uart'.fifo)
        /\ Below(push'.buf, con'.buf) /\ Below(push'.buf, usb'.keys) /\ Below(push'.buf, uart'.fifo)
        /\ Below(con'.buf, uart'.fifo)
    <3>1. DOMAIN con'.buf = {} /\ DOMAIN uart'.fifo = {}
      BY <1>9
    <3>2. Sorted(con'.buf) /\ Sorted(uart'.fifo)
      BY <3>1 DEF Sorted
    <3>3. Below(push'.buf, con'.buf) /\ Below(push'.buf, uart'.fifo) /\ Below(con'.buf, uart'.fifo)
      BY <3>1 DEF Below
    <3>4. QED
      BY <1>9, <1>12, <1>13, <3>2, <3>3
  <2>3. QED
    BY <1>10, <1>11, <2>1, <2>2 DEF Order, Sorted
<1>15. \A i \in 1 .. n + 1 : Epoch(d + i) = ghost.done
  <2>1. ASSUME NEW i \in 1 .. n + 1 PROVE Epoch(d + i) = ghost.done
    <3>1. d + 1 \in Keys /\ d + i \in Keys /\ d + 1 <= d + i
      BY <1>4 DEF Keys
    <3>2. ASSUME NEW j \in d + 1 .. d + i - 1 PROVE Kind(j) # "sig"
      <4>1. PICK m \in 1 .. n : j = d + m
        <5>1. j - d \in 1 .. n /\ j = d + (j - d)
          BY <1>4
        <5>2. QED
          BY <5>1
      <4>2. Kind(s[m]) # "sig" /\ s[m] = d + m
        BY <1>2, <1>4 DEF Before
      <4>3. QED
        BY <4>1, <4>2
    <3>3. Epoch(d + i) = Epoch(d + 1)
      <4>1. PICK x \in Keys : x = d + 1
        BY <3>1
      <4>2. PICK y \in Keys : y = d + i
        BY <3>1
      <4>3. x <= y /\ \A j \in x .. y - 1 : Kind(j) # "sig"
        BY <3>1, <3>2, <4>1, <4>2
      <4>4. Epoch(y) = Epoch(x)
        BY ONLY <4>3, EpochPlain
      <4>5. QED
        BY <4>1, <4>2, <4>4
    <3>4. QED
      BY <1>4, <3>3
  <2>2. QED
    BY <2>1
<1>16. AllFresh(p)
  <2>1. \A i \in 1 .. n : i \in 1 .. n + 1
    BY <1>4
  <2>2. \A i \in 1 .. n : Epoch(p[i]) = ghost.done
    BY <1>7, <1>15, <2>1
  <2>3. ghost.done \in Nat /\ DOMAIN p = 1 .. n
    BY <1>6 DEF ConsoleInv, KeysTyped, Ghosts
  <2>4. QED
    BY <2>2, <2>3 DEF AllFresh, Fresh
<1>17. Interrupts'
  BY <1>1, <1>9, <1>10, <1>11, <1>16 DEF Interrupts, AllFresh
<1>18. FromUsb'
  <2>1. n + 1 \in 1 .. n + 1 /\ board.typed - Len(q) = d + n /\ Len(q) <= board.typed
    BY <1>4, <1>6
  <2>2. Epoch(board.typed - Len(q) + 1) = ghost.done
    <3>1. board.typed - Len(q) + 1 = d + (n + 1)
      BY <1>4, <2>1
    <3>2. QED
      BY <1>15, <2>1, <3>1
  <2>3. \A i \in DOMAIN q : q[i] = board.typed - Len(q) + i
    <3>1. DOMAIN q = 1 .. Len(s) - n
      BY <1>4, <1>6
    <3>2. QED
      BY <1>8, <2>1, <3>1
  <2>4. QED
    BY <1>9, <1>10, <2>1, <2>2, <2>3 DEF FromUsb
<1>19. FromSerial'
  BY <1>1 DEF FromSerial
<1>20. QED
  BY <1>14, <1>17, <1>18, <1>19 DEF KeysInOrder

\* A ^C of the report goes in its place.
LEMMA TecladoDaSig ==
    ASSUME ConsoleInv, usb.pc = "give", push.pc = "no", usb.keys # <<>>, Kind(usb.keys[1]) = "sig",
           Interrupt(1), UNCHANGED <<board, uart, con, push>>, usb'.keys = Tail(usb.keys)
    PROVE  KeysInOrder'
<1>1. /\ board.on = "usb" /\ uart.fifo = <<>> /\ con.buf = <<>> /\ con.sig = 0
      /\ push.sig = 0 /\ ~push.any /\ push.buf = <<>>
      /\ usb.keys \in Seq(Keys) /\ board.typed \in Nat /\ Len(usb.keys) <= board.typed
      /\ \A i \in DOMAIN usb.keys : usb.keys[i] = board.typed - Len(usb.keys) + i
      /\ Epoch(board.typed - Len(usb.keys) + 1) = ghost.done
  BY UsbHas
<1>2. PICK s \in Seq(Keys) : s = usb.keys
  BY <1>1
<1>3. PICK q : q = Tail(s)
  OBVIOUS
<1>4. /\ PieceOf(q, s) /\ q \in Seq(Keys) /\ Len(q) = Len(s) - 1 /\ 1 \in DOMAIN s
      /\ \A i \in DOMAIN q : i + 1 \in DOMAIN s /\ q[i] = s[i + 1]
  BY <1>2, <1>3, PiecesOf
<1>5. PICK d \in Nat : d = board.typed - Len(s)
  BY <1>1, <1>2
<1>6. /\ d + Len(s) = board.typed /\ Len(s) \in Nat /\ Len(s) > 0
      /\ \A i \in 1 .. Len(s) : s[i] = d + i
      /\ Epoch(d + 1) = ghost.done /\ Kind(d + 1) = "sig"
  BY <1>1, <1>2, <1>4, <1>5
<1>7. Order' /\ Interrupts'
  <2>1. 1 \in Nat /\ push'.buf = <<>> /\ con'.buf = <<>> /\ uart'.fifo = uart.fifo
    BY <1>1
  <2>2. PieceOf(usb'.keys, usb.keys) /\ usb'.keys \in Seq(Keys)
    BY <1>2, <1>3, <1>4
  <2>3. QED
    BY <1>1, <2>1, <2>2, InterruptKeys
<1>8. ghost'.done = ghost.done + 1
  BY InterruptTyped
<1>9. Epoch(d + 2) = ghost.done + 1
  <2>1. d + 1 \in Keys /\ (d + 1) + 1 = d + 2
    BY DEF Keys
  <2>2. Epoch((d + 1) + 1) = Epoch(d + 1) + 1
    BY <1>6, <2>1, EpochNext
  <2>3. QED
    BY <1>6, <2>1, <2>2
<1>10. FromUsb'
  <2>1. board.typed - Len(q) = d + 1 /\ Len(q) <= board.typed /\ Len(q) \in Nat
    BY <1>4, <1>6
  <2>2. board.typed - Len(q) + 1 = d + 2
    BY <2>1
  <2>3. \A i \in DOMAIN q : q[i] = board.typed - Len(q) + i
    <3>1. ASSUME NEW i \in DOMAIN q PROVE q[i] = d + 1 + i
      <4>1. i \in Nat /\ i + 1 \in 1 .. Len(s) /\ q[i] = s[i + 1]
        BY <1>4
      <4>2. s[i + 1] = d + (i + 1)
        BY <1>6, <4>1
      <4>3. QED
        BY <4>1, <4>2
    <3>2. QED
      BY <2>1, <3>1
  <2>4. \A x : Epoch(x)' = Epoch(x)
    BY DEF Epoch, Kind
  <2>5. usb'.keys = q /\ board' = board
    BY <1>2, <1>3
  <2>6. QED
    BY <1>8, <1>9, <2>1, <2>2, <2>3, <2>4, <2>5 DEF FromUsb
<1>11. FromSerial'
  BY <1>1 DEF FromSerial
<1>12. QED
  BY <1>7, <1>10, <1>11 DEF KeysInOrder

\* What the driver of USB does with the keys of its report.
LEMMA TecladoKeeps == ASSUME ConsoleInv, TecladoEntregar PROVE ConsoleInv'
<1>1. /\ usb.pc = "give" /\ push.pc = "no"
      /\ UNCHANGED <<board, uart, mail, con, klog, avisado, perdidos, avisar, lock, left>>
  BY DEF TecladoEntregar
<1>2. /\ usb \in Usbs /\ usb.keys \in Seq(Keys) /\ push \in Pushed /\ push.buf = <<>>
      /\ tty \in Ttys /\ Len(tty.rx) <= RxMax
      /\ reader \in Readers /\ (reader.pc # "out" => reader.n # 0) /\ ghost \in Ghosts
      /\ writer \in [Writers -> Pens] /\ KeysInOrder
      /\ (reader.pc = "asleep" => tty.rx = <<>> /\ ~tty.eof)
  BY <1>1 DEF ConsoleInv, KeysTyped, Limits, TextTyped, Hands, Heard, Usbs, KeysInOrder
<1>3. ASSUME NEW n \in 1 .. Len(usb.keys), Before(n), Pushes(SubSeq(usb.keys, 1, n)),
             usb' = [usb EXCEPT !.keys = SubSeq(@, n + 1, Len(@))],
             UNCHANGED <<keyVars, writer, ghost>>
      PROVE  ConsoleInv'
  <2>1. usb.keys # <<>>
    BY <1>2, <1>3
  <2>2. board.on = "usb" /\ ~push.irq /\ push.sig = 0 /\ ~push.any
    BY <1>1, <2>1, UsbHas
  <2>3. PICK p, q \in Seq(Keys) : p = SubSeq(usb.keys, 1, n) /\ q = SubSeq(usb.keys, n + 1, Len(usb.keys))
    <3>1. \A m \in 0 .. Len(usb.keys) :
            /\ SubSeq(usb.keys, m + 1, Len(usb.keys)) \in Seq(Keys)
            /\ SubSeq(usb.keys, 1, m) \in Seq(Keys)
      BY <1>2, PiecesOf
    <3>2. n \in 0 .. Len(usb.keys)
      BY <1>2, <1>3
    <3>3. QED
      BY <3>1, <3>2
  <2>4. /\ push' \in Pushed /\ push'.pc = "key" /\ push'.buf = p /\ push'.irq = push.irq
        /\ push'.sig = push.sig /\ push'.any = push.any /\ push'.n = push.n
    <3>1. push' = [push EXCEPT !.pc = "key", !.buf = p]
      BY <1>3, <2>3 DEF Pushes
    <3>2. QED
      BY <1>2, <2>3, <3>1 DEF Pushed, PushPcs
  <2>5. usb' \in Usbs /\ usb'.pc = "give" /\ usb'.keys = q
    <3>1. usb' = [usb EXCEPT !.keys = q]
      BY <1>3, <2>3
    <3>2. QED
      BY <1>1, <1>2, <2>3, <3>1 DEF Usbs
  <2>6. UNCHANGED <<tty, reader, writer, ghost>>
    BY <1>3 DEF keyVars
  <2>7. KeysInOrder'
    BY <1>1, <1>3, <2>1, <2>3, <2>4, <2>5, <2>6, TecladoDaKeys
  <2>8. QED
    BY <1>1, <1>2, <2>1, <2>2, <2>4, <2>5, <2>6, <2>7, UsbOther
<1>4. CASE /\ usb.keys # <<>> /\ Kind(usb.keys[1]) = "sig" /\ Interrupt(1)
           /\ usb' = [usb EXCEPT !.keys = Tail(@)] /\ UNCHANGED push
  <2>1. PICK q \in Seq(Keys) : q = Tail(usb.keys)
    <3>1. Tail(usb.keys) \in Seq(Keys)
      BY <1>2, <1>4, PiecesOf
    <3>2. QED
      BY <3>1
  <2>2. usb' \in Usbs /\ usb'.pc = "give" /\ usb'.keys = q
    BY <1>1, <1>2, <1>4, <2>1 DEF Usbs
  <2>3. /\ tty' \in Ttys /\ tty'.rx = <<>> /\ ~tty'.eof /\ Len(tty'.rx) <= RxMax
        /\ reader' \in Readers /\ reader'.pc # "asleep" /\ (reader'.pc # "out" => reader'.n # 0)
        /\ writer' \in [Writers -> Pens] /\ \A w \in Writers : writer'[w].i = writer[w].i
        /\ ghost' \in Ghosts /\ ghost'.late = ghost.late /\ ghost'.crossed = ghost.crossed
    BY <1>4, InterruptTyped
  <2>4. KeysInOrder'
    BY <1>1, <1>4, <2>1, <2>2, TecladoDaSig
  <2>5. QED
    BY <1>1, <1>2, <1>4, <2>2, <2>3, <2>4, UsbOther
<1>5. CASE /\ usb.keys = <<>> /\ usb' = [usb EXCEPT !.pc = "rest"]
           /\ UNCHANGED <<push, keyVars, writer, ghost>>
  <2>1. usb' \in Usbs /\ usb'.keys = usb.keys
    BY <1>2, <1>5 DEF Usbs
  <2>2. UNCHANGED <<push, tty, reader, writer, ghost>>
    BY <1>5 DEF keyVars
  <2>3. KeysInOrder'
    BY <1>1, <1>2, <2>1, <2>2, KeysStand DEF Held
  <2>4. QED
    BY <1>1, <1>2, <1>5, <2>1, <2>2, <2>3, UsbOther
<1>6. QED
  BY <1>3, <1>4, <1>5 DEF TecladoEntregar

\* A step that changes nothing.
LEMMA StutterKeeps == ASSUME ConsoleInv, UNCHANGED vars PROVE ConsoleInv'
<1>1. UNCHANGED <<board, uart, mail, con, usb, push, tty, reader, klog, avisado, perdidos, avisar,
                  lock, writer, ghost, left>>
  BY DEF vars
<1>2. KeysTyped' /\ Limits' /\ Hands' /\ Heard' /\ KeysInOrder'
  BY <1>1, KeysUntouched DEF ConsoleInv, KeysTyped
<1>3. Announced'
  BY <1>1, NoticesUntouched DEF ConsoleInv
<1>4. avisado' \in BOOLEAN /\ perdidos' \in BOOLEAN
  BY <1>1, ZenonT(30) DEF ConsoleInv, TextTyped
<1>5. TextTyped'
  BY <1>1, <1>4 DEF ConsoleInv, TextTyped, Texts
<1>6. QED
  BY <1>2, <1>3, <1>5 DEF ConsoleInv, KeysInOrder

\* No step of the console breaks the invariant.
LEMMA ConsoleSteps == ASSUME ConsoleInv, [Next]_vars PROVE ConsoleInv'
<1>1. ASSUME NEW w \in Writers,
             \/ Escribe(w) \/ Elige(w) \/ Directo(w) \/ DirectoTarde(w)
           \/ Mete(w) \/ Espera(w) \/ Vuelve(w)
      PROVE  ConsoleInv'
  BY <1>1, WriterKeeps
<1>2. ASSUME KernelWrites PROVE ConsoleInv'
  BY <1>2, KernelWritesKeeps
<1>3. ASSUME NEW c \in Cores, Tick(c) PROVE ConsoleInv'
  BY <1>3, TickKeeps
<1>4. ASSUME Push \/ Reader \/ Typed \/ IrqHandle \/ Imprime PROVE ConsoleInv'
  BY <1>4, PushKeeps, ReaderKeeps, TypedKeeps, IrqHandleKeeps, ImprimeKeeps
<1>5. ASSUME UartIrq \/ Registra \/ Recv \/ Drenar \/ Empuja \/ Senyala \/ VaciarKlog PROVE ConsoleInv'
  BY <1>5, UartIrqKeeps, RegistraKeeps, RecvKeeps, DrenarKeeps, EmpujaKeeps, SenyalaKeeps,
     VaciarKlogKeeps
<1>6. ASSUME NEW n \in 1 .. BufMax, Informe(n) PROVE ConsoleInv'
  BY <1>6, InformeKeeps
<1>7. ASSUME TecladoEntregar PROVE ConsoleInv'
  BY <1>7, TecladoKeeps
<1>8. ASSUME UNCHANGED vars PROVE ConsoleInv'
  BY <1>8, StutterKeeps
<1>9. QED
  BY <1>1, <1>2, <1>3, <1>4, <1>5, <1>6, <1>7, <1>8 DEF Next

\* The console keeps its invariant, whatever is typed, written and asked for.
THEOREM ConsoleInvariant == Spec => []ConsoleInv
<1>1. Init => ConsoleInv
  BY InitConsole
<1>2. ConsoleInv /\ [Next]_vars => ConsoleInv'
  BY ConsoleSteps
<1>3. QED
  BY <1>1, <1>2, PTL DEF Spec

\* No queue of the console holds more than its place: the FIFO, the port, the
\* line, what can be read, the log and what each writer has put of its text.
THEOREM ConsoleTyped == Spec => []TypeOK
<1>1. ConsoleInv => TypeOK
  <2> SUFFICES ASSUME ConsoleInv PROVE TypeOK
    OBVIOUS
  <2>1. avisado \in BOOLEAN /\ perdidos \in BOOLEAN
    BY ZenonT(30) DEF ConsoleInv, TextTyped
  <2>2. QED
    BY <2>1 DEF ConsoleInv, KeysTyped, Limits, TextTyped, Ttys, TypeOK
<1>2. QED
  BY <1>1, ConsoleInvariant, PTL

\* Text that waits in the log is announced to the driver, unless
\* klog_entregado() came between a notice and its flag (klog_avisar()).
THEOREM TextComesOut == Spec => []TextIsAnnounced
<1>1. ConsoleInv => TextIsAnnounced
  BY DEF ConsoleInv, Announced, Coming, Busy, TextIsAnnounced
<1>2. QED
  BY <1>1, ConsoleInvariant, PTL

\* A key that has come has its interrupt up and let in when the driver waits
\* (drenar()), and nobody sleeps in uart_leer() with something to read.
THEOREM KeysComeIn == Spec => []KeysAreHeard
<1>1. ConsoleInv => KeysAreHeard
  BY DEF ConsoleInv, Heard, KeysAreHeard
<1>2. QED
  BY <1>1, ConsoleInvariant, PTL

\* What can be read and what is in the line: each key after the one before it,
\* and none typed before the last ^C that was dealt with.
LEMMA AllInOrder ==
    ASSUME ConsoleInv
    PROVE  InterruptForgets
<1> DEFINE line == IF tty.canon THEN Linea(tty) ELSE <<>>
           all  == tty.rx \o line
<1>1. /\ tty \in Ttys /\ tty.rx \in Seq(Nat) /\ tty.n \in 0 .. LineMax
      /\ tty.cells \in [1 .. LineMax -> Nat] /\ LineMax \in Nat /\ Order /\ Interrupts /\ KeysTyped
      /\ reader.last \in Nat
  BY Sizes DEF ConsoleInv, KeysTyped, Ttys, Readers
<1>2. /\ line \in Seq(Nat)
      /\ \A i \in DOMAIN line : tty.canon /\ i \in 1 .. tty.n /\ line[i] = tty.cells[i]
  <2>1. CASE tty.canon
    <3>1. \A i \in 1 .. tty.n : i \in 1 .. LineMax /\ tty.cells[i] \in Nat
      BY <1>1
    <3>2. PICK r : r = [i \in 1 .. tty.n |-> tty.cells[i]]
      OBVIOUS
    <3>3. r \in Seq(Nat) /\ DOMAIN r = 1 .. tty.n /\ \A i \in 1 .. tty.n : r[i] = tty.cells[i]
      <4>1. tty.n \in Nat
        BY <1>1
      <4>2. QED
        BY <3>1, <3>2, <4>1
    <3>4. line = r
      BY <2>1, <3>2 DEF Linea
    <3>5. QED
      BY <2>1, <3>3, <3>4
  <2>2. CASE ~tty.canon
    BY <2>2
  <2>3. QED
    BY <2>1, <2>2
<1>3. tty.n <= InLine /\ InLine \in Nat /\ (tty.canon => Valid)
  <2>1. push.pc = "store" => tty.n <= push.n /\ push.n \in Nat
    BY <1>1 DEF Order, KeysTyped, Pushed
  <2>2. QED
    BY <1>1, <2>1 DEF InLine, Valid
<1>4. \A i \in DOMAIN line : /\ \A j \in DOMAIN line : i < j => line[i] < line[j]
                             /\ \A j \in DOMAIN tty.rx : tty.rx[j] < line[i]
                             /\ reader.last < line[i]
                             /\ Fresh(line[i])
  <2>1. \A i \in DOMAIN line : i \in 1 .. InLine /\ Valid /\ line[i] = tty.cells[i]
    BY <1>1, <1>2, <1>3
  <2>2. QED
    BY <1>1, <2>1 DEF Order, Interrupts
<1>5. \A i \in DOMAIN tty.rx : /\ \A j \in DOMAIN tty.rx : i < j => tty.rx[i] < tty.rx[j]
                               /\ reader.last < tty.rx[i]
                               /\ Fresh(tty.rx[i])
  BY <1>1 DEF Order, Interrupts, Sorted, AllFresh
<1> HIDE DEF line
<1>6. /\ Len(all) = Len(tty.rx) + Len(line) /\ Len(tty.rx) \in Nat /\ Len(line) \in Nat
      /\ \A i \in 1 .. Len(all) :
           \/ i \in DOMAIN tty.rx /\ all[i] = tty.rx[i]
           \/ i > Len(tty.rx) /\ i - Len(tty.rx) \in DOMAIN line /\ all[i] = line[i - Len(tty.rx)]
  BY <1>1, <1>2
<1> HIDE DEF all
<1>7. \A i \in 1 .. Len(all) : reader.last < all[i] /\ Fresh(all[i])
  BY <1>4, <1>5, <1>6
<1>8. ASSUME NEW i \in 1 .. Len(all), i # 1
      PROVE  all[i - 1] < all[i]
  <2>1. i - 1 \in 1 .. Len(all) /\ i - 1 < i
    BY <1>6, <1>8
  <2>2. CASE i \in DOMAIN tty.rx /\ all[i] = tty.rx[i]
    <3>1. i - 1 \in DOMAIN tty.rx /\ ~(i - 1 > Len(tty.rx))
      BY <1>6, <2>1, <2>2
    <3>2. all[i - 1] = tty.rx[i - 1]
      BY <1>6, <2>1, <3>1
    <3>3. QED
      BY <1>5, <2>1, <2>2, <3>1, <3>2
  <2>3. CASE i > Len(tty.rx) /\ i - Len(tty.rx) \in DOMAIN line /\ all[i] = line[i - Len(tty.rx)]
    <3>1. CASE i - 1 \in DOMAIN tty.rx /\ all[i - 1] = tty.rx[i - 1]
      BY <1>4, <2>3, <3>1
    <3>2. CASE /\ i - 1 > Len(tty.rx) /\ i - 1 - Len(tty.rx) \in DOMAIN line
               /\ all[i - 1] = line[i - 1 - Len(tty.rx)]
      <4>1. i - 1 - Len(tty.rx) < i - Len(tty.rx)
        <5>1. i \in Nat /\ Len(tty.rx) \in Nat
          BY <1>6, <1>8
        <5>2. \A x, y \in Nat : x - 1 - y < x - y
          OBVIOUS
        <5>3. QED
          BY <5>1, <5>2
      <4>2. QED
        BY <1>4, <2>3, <3>2, <4>1
    <3>3. QED
      BY <1>6, <2>1, <3>1, <3>2
  <2>4. QED
    BY <1>6, <1>8, <2>2, <2>3
<1>9. \A i \in 1 .. Len(all) : all[i] > (IF i = 1 THEN reader.last ELSE all[i - 1])
  <2>1. \A i \in 1 .. Len(all) : all[i] \in Nat
    <3>1. \A i \in DOMAIN tty.rx : tty.rx[i] \in Nat
      BY <1>1
    <3>2. \A i \in DOMAIN line : line[i] \in Nat
      BY <1>2
    <3>3. QED
      BY <1>6, <3>1, <3>2
  <2>2. ASSUME NEW i \in 1 .. Len(all)
        PROVE  all[i] > (IF i = 1 THEN reader.last ELSE all[i - 1])
    <3>1. i # 1 => i - 1 \in 1 .. Len(all)
      BY <1>6
    <3>2. QED
      BY <1>1, <1>7, <1>8, <2>1, <3>1
  <2>3. QED
    BY <2>2
<1>10. \A i \in 1 .. Len(all) : Epoch(all[i]) >= ghost.done
  BY <1>7 DEF Fresh
<1>11. ghost.mixed => ghost.blurred
  BY <1>1 DEF Interrupts
<1>12. QED
  BY <1>9, <1>10, <1>11 DEF InterruptForgets, all, line

\* What is read is what was typed, in its order and once; nothing typed before
\* a ^C outlives it (task_console_interrupt()), and no read joins two lines
\* across it unless the driver met both together or the ^C was lost.
THEOREM ReadsInOrder == Spec => []InterruptForgets
<1>1. ConsoleInv => InterruptForgets
  BY AllInOrder
<1>2. QED
  BY <1>1, ConsoleInvariant, PTL
-----------------------------------------------------------------------------
(* The text of the processes: what the line has shown, what the driver has *)
(* in its hands and what the log holds are one sequence.                   *)
Kernel(t) == \A i \in DOMAIN t : t[i].by = Nobody

\* What there is of a process is of the first n places of its text, in their
\* order, and no text of another process is between.
Kept(s, w, n) ==
  /\ Put(s, w) \subseteq 1 .. n
  /\ \A p, q \in Of(s, w) : p < q => /\ s[p].i < s[q].i
                                     /\ \A r \in p .. q : s[r].by \in {w, Nobody}

\* Nobody else has put text after a process began to.
Ends(s, w) == \A p, r \in DOMAIN s : p <= r /\ s[p].by = w => s[r].by \in {w, Nobody}

TextInv ==
  /\ shown \in Seq(Piece)
  /\ con.pc \notin {"told", "wake", "show"} => con.text = <<>>
  /\ \A w \in Writers :
       /\ Kept(All, w, writer[w].i)
       /\ writer[w].torn \/ Put(All, w) = 1 .. writer[w].i
       /\ writer[w].pc \notin {"call", "done"} <=> lock = w
       /\ writer[w].pc \in {"call", "begin"} \/ (writer[w].pc = "hw" /\ ~uart.desviar) => writer[w].i = 0
       /\ writer[w].pc \in {"put", "full", "asleep"} => uart.desviar
       /\ ~uart.desviar \/ writer[w].pc = "hw" => Kernel(con.text) /\ Kernel(klog)
       /\ lock = w => Ends(All, w)

\* Text of the kernel at the end disturbs nobody's.
LEMMA KernelAdds ==
    ASSUME NEW w \in Writers, NEW n \in Nat, NEW s \in Seq(Piece), NEW t \in Seq(Piece), Kernel(t)
    PROVE  /\ Put(s \o t, w) = Put(s, w)
           /\ Kept(s, w, n) => Kept(s \o t, w, n)
           /\ Ends(s, w) => Ends(s \o t, w)
<1> DEFINE a == s \o t
<1>1. /\ a \in Seq(Piece) /\ Len(a) = Len(s) + Len(t) /\ Len(s) \in Nat /\ Len(t) \in Nat
      /\ \A i \in 1 .. Len(s) + Len(t) : a[i] = IF i <= Len(s) THEN s[i] ELSE t[i - Len(s)]
  BY ConcatProperties
<1>2. DOMAIN a = 1 .. Len(s) + Len(t) /\ DOMAIN s = 1 .. Len(s) /\ DOMAIN t = 1 .. Len(t)
  BY <1>1
<1> HIDE DEF a
<1>3. /\ \A p \in DOMAIN s : p \in DOMAIN a /\ a[p] = s[p]
      /\ \A p \in DOMAIN a : p > Len(s) => a[p].by = Nobody
  <2>1. \A p \in DOMAIN s : p \in DOMAIN a /\ a[p] = s[p]
    BY <1>1, <1>2
  <2>2. ASSUME NEW p \in DOMAIN a, p > Len(s) PROVE a[p].by = Nobody
    <3>1. p - Len(s) \in DOMAIN t /\ a[p] = t[p - Len(s)]
      BY <1>1, <1>2, <2>2
    <3>2. QED
      BY <3>1 DEF Kernel
  <2>3. QED
    BY <2>1, <2>2
<1>4. Nobody # w
  BY ConsoleAssumption DEF Nobody
<1>5. Of(a, w) = Of(s, w)
  BY <1>1, <1>2, <1>3, <1>4 DEF Of
<1>9. \A p \in Of(s, w) : a[p] = s[p]
  BY <1>3 DEF Of
<1>10. Put(a, w) = Put(s, w)
  BY <1>5, <1>9 DEF Put
<1>6. Kept(s, w, n) => Kept(a, w, n)
  <2> SUFFICES ASSUME Kept(s, w, n) PROVE Kept(a, w, n)
    OBVIOUS
  <2>3. ASSUME NEW p \in Of(s, w), NEW q \in Of(s, w), p < q
        PROVE  a[p].i < a[q].i /\ \A r \in p .. q : a[r].by \in {w, Nobody}
    <3>1. p .. q \subseteq DOMAIN s
      BY <1>2 DEF Of
    <3>2. QED
      BY <1>3, <1>9, <2>3, <3>1 DEF Kept
  <2>4. QED
    BY <1>5, <1>10, <2>3 DEF Kept
<1>7. Ends(s, w) => Ends(a, w)
  BY <1>1, <1>2, <1>3, <1>4 DEF Ends
<1>8. QED
  BY <1>6, <1>7, <1>10 DEF a

\* What a process puts, before text of the kernel, follows what it had put.
LEMMA PiecesAdd ==
    ASSUME NEW w \in Writers, NEW i \in Nat, NEW j \in Nat, i <= j,
           NEW s \in Seq(Piece), NEW t \in Seq(Piece), Kernel(t), Ends(s \o t, w), Kept(s \o t, w, i)
    PROVE  /\ Kept((s \o Pieces(w, i, j)) \o t, w, j) /\ Ends((s \o Pieces(w, i, j)) \o t, w)
           /\ Put((s \o Pieces(w, i, j)) \o t, w) = Put(s \o t, w) \cup (i + 1 .. j)
           /\ \A v \in Writers \ {w}, n \in Nat :
                 /\ Put((s \o Pieces(w, i, j)) \o t, v) = Put(s \o t, v)
                 /\ Kept(s \o t, v, n) => Kept((s \o Pieces(w, i, j)) \o t, v, n)
<1>1. PICK b : b = Pieces(w, i, j)
  OBVIOUS
<1>2. /\ b \in Seq(Piece) /\ Len(b) = j - i /\ DOMAIN b = 1 .. j - i
      /\ \A x \in 1 .. j - i : b[x].by = w /\ b[x].i = i + x
  BY <1>1 DEF Pieces, Piece
<1>3. PICK l, m, k \in Nat : l = Len(s) /\ m = Len(b) /\ k = Len(t)
  <2>1. Len(s) \in Nat /\ Len(b) \in Nat /\ Len(t) \in Nat
    BY <1>2, LenProperties
  <2>2. QED
    BY <2>1
<1>4. PICK o : o = s \o t
  OBVIOUS
<1>5. PICK c : c = (s \o b) \o t
  OBVIOUS
<1>6. DOMAIN o = 1 .. l + k /\ \A p \in 1 .. l + k : o[p] = IF p <= l THEN s[p] ELSE t[p - l]
  BY <1>3, <1>4, ConcatProperties
<1>7. /\ DOMAIN c = 1 .. l + m + k
      /\ \A p \in 1 .. l + m + k :
            c[p] = IF p <= l THEN s[p] ELSE IF p <= l + m THEN b[p - l] ELSE t[p - (l + m)]
  <2>1. PICK sb : sb = s \o b
    OBVIOUS
  <2>2. sb \in Seq(Piece) /\ Len(sb) = l + m
        /\ \A p \in 1 .. l + m : sb[p] = IF p <= l THEN s[p] ELSE b[p - l]
    BY <1>2, <1>3, <2>1, ConcatProperties
  <2>3. /\ DOMAIN (sb \o t) = 1 .. (l + m) + k
        /\ \A p \in 1 .. (l + m) + k : (sb \o t)[p] = IF p <= l + m THEN sb[p] ELSE t[p - (l + m)]
    <3>1. /\ sb \o t \in Seq(Piece) /\ Len(sb \o t) = Len(sb) + Len(t)
          /\ \A p \in 1 .. Len(sb) + Len(t) :
                (sb \o t)[p] = IF p <= Len(sb) THEN sb[p] ELSE t[p - Len(sb)]
      BY <2>2, ConcatProperties
    <3>2. DOMAIN (sb \o t) = 1 .. Len(sb \o t)
      BY <3>1, LenProperties
    <3>3. Len(sb) = l + m /\ Len(t) = k
      BY <1>3, <2>2
    <3>4. QED
      BY <3>1, <3>2, <3>3
  <2>4. c = sb \o t
    BY <1>5, <2>1
  <2>5. ASSUME NEW p \in 1 .. l + m + k
        PROVE  c[p] = IF p <= l THEN s[p] ELSE IF p <= l + m THEN b[p - l] ELSE t[p - (l + m)]
    <3>1. p \in Nat /\ p \in 1 .. (l + m) + k
      BY <1>3
    <3>2. CASE p <= l + m
      <4>1. p \in 1 .. l + m /\ c[p] = sb[p]
        BY <2>3, <2>4, <3>1, <3>2
      <4>2. QED
        BY <2>2, <3>2, <4>1
    <3>3. CASE ~(p <= l + m)
      <4>1. ~(p <= l) /\ c[p] = t[p - (l + m)]
        BY <1>3, <2>3, <2>4, <3>1, <3>3
      <4>2. QED
        BY <3>3, <4>1
    <3>4. QED
      BY <3>2, <3>3
  <2>6. QED
    BY <2>3, <2>4, <2>5
<1>8. Nobody # w /\ \A v \in Writers : v # Nobody
  BY ConsoleAssumption DEF Nobody
<1>9. \A x \in 1 .. k : t[x].by = Nobody
  BY <1>3 DEF Kernel
<1>10. /\ \A p \in 1 .. l : p \in DOMAIN o /\ p \in DOMAIN c /\ c[p] = o[p]
       /\ \A p \in DOMAIN o : p \notin 1 .. l => o[p].by = Nobody
       /\ \A p \in DOMAIN c : \/ p \in 1 .. l
                              \/ c[p].by = Nobody
                              \/ p > l /\ p <= l + m /\ c[p].by = w /\ c[p].i = i + (p - l)
  <2>1. ASSUME NEW p \in 1 .. l PROVE p \in DOMAIN o /\ p \in DOMAIN c /\ c[p] = o[p]
    <3>1. p \in 1 .. l + k /\ p \in 1 .. l + m + k /\ p <= l
      BY <1>3
    <3>2. QED
      BY <1>6, <1>7, <3>1
  <2>2. ASSUME NEW p \in DOMAIN o, p \notin 1 .. l PROVE o[p].by = Nobody
    <3>1. p - l \in 1 .. k /\ ~(p <= l) /\ p \in 1 .. l + k
      BY <1>6, <2>2
    <3>2. o[p] = t[p - l]
      BY <1>6, <3>1
    <3>3. QED
      BY <1>9, <3>1, <3>2
  <2>3. ASSUME NEW p \in DOMAIN c, p \notin 1 .. l, ~(p > l /\ p <= l + m) PROVE c[p].by = Nobody
    <3>1. p - (l + m) \in 1 .. k /\ ~(p <= l) /\ ~(p <= l + m) /\ p \in 1 .. l + m + k
      BY <1>7, <2>3
    <3>2. c[p] = t[p - (l + m)]
      BY <1>7, <3>1
    <3>3. QED
      BY <1>9, <3>1, <3>2
  <2>4. ASSUME NEW p \in DOMAIN c, p > l, p <= l + m
        PROVE  c[p].by = w /\ c[p].i = i + (p - l)
    <3>1. p - l \in 1 .. j - i /\ ~(p <= l) /\ p \in 1 .. l + m + k
      BY <1>2, <1>3, <1>7, <2>4
    <3>2. c[p] = b[p - l]
      BY <1>7, <2>4, <3>1
    <3>3. QED
      BY <1>2, <3>1, <3>2
  <2>5. QED
    BY <2>1, <2>2, <2>3, <2>4
<1>11. \A x \in 1 .. m : l + x \in DOMAIN c /\ c[l + x].by = w /\ c[l + x].i = i + x
  <2>1. ASSUME NEW x \in 1 .. m
        PROVE  l + x \in DOMAIN c /\ c[l + x].by = w /\ c[l + x].i = i + x
    <3>1. /\ l + x \in 1 .. l + m + k /\ l + x <= l + m /\ ~(l + x <= l) /\ (l + x) - l = x
          /\ x \in 1 .. j - i
      BY <1>2, <1>3
    <3>2. c[l + x] = b[(l + x) - l]
      BY <1>7, <3>1
    <3>3. c[l + x] = b[x]
      BY <3>1, <3>2
    <3>4. QED
      BY <1>2, <1>7, <3>1, <3>3
  <2>2. QED
    BY <2>1
<1>12. Ends(o, w) /\ Kept(o, w, i)
  BY <1>4
<1>13. /\ \A p \in Of(o, w) : p \in 1 .. l
       /\ \A p \in Of(c, w) : p \in 1 .. l \/ (p > l /\ p <= l + m /\ c[p].i = i + (p - l))
       /\ \A p \in 1 .. l : p \in Of(o, w) <=> p \in Of(c, w)
  BY <1>8, <1>10 DEF Of
<1>18. Put(c, w) = Put(o, w) \cup (i + 1 .. j)
  <2>1. ASSUME NEW p \in Of(c, w) PROVE c[p].i \in Put(o, w) \cup (i + 1 .. j)
    <3>1. CASE p \in 1 .. l
      <4>1. p \in Of(o, w) /\ c[p].i = o[p].i
        BY <1>10, <1>13, <3>1
      <4>2. QED
        BY <4>1 DEF Put
    <3>2. CASE p \notin 1 .. l
      <4>1. p \in Nat /\ p > l /\ p <= l + m /\ c[p].i = i + (p - l) /\ m = j - i
        BY <1>2, <1>3, <1>7, <1>13, <3>2 DEF Of
      <4>2. QED
        BY <4>1
    <3>3. QED
      BY <3>1, <3>2
  <2>2. ASSUME NEW x \in Put(o, w) PROVE x \in Put(c, w)
    <3>1. PICK p \in Of(o, w) : o[p].i = x
      BY <2>2 DEF Put
    <3>2. p \in Of(c, w) /\ c[p].i = x
      BY <1>10, <1>13, <3>1
    <3>3. QED
      BY <3>2 DEF Put
  <2>3. ASSUME NEW x \in i + 1 .. j PROVE x \in Put(c, w)
    <3>1. x - i \in 1 .. m /\ i + (x - i) = x
      BY <1>2, <1>3, <2>3
    <3>2. l + (x - i) \in Of(c, w) /\ c[l + (x - i)].i = x
      BY <1>11, <3>1 DEF Of
    <3>3. QED
      BY <3>2 DEF Put
  <2>4. QED
    BY <2>1, <2>2, <2>3 DEF Put
<1>14. Kept(c, w, j)
  <2>1. \A p \in Of(o, w) : o[p].i \in 1 .. i
    BY <1>12 DEF Kept, Put
  <2>4. Put(c, w) \subseteq 1 .. j
    <3>1. Put(o, w) \subseteq 1 .. i
      BY <1>12 DEF Kept
    <3>2. QED
      BY <1>18, <3>1
  <2>5. ASSUME NEW p \in Of(c, w), NEW q \in Of(c, w), p < q
        PROVE  c[p].i < c[q].i /\ \A r \in p .. q : c[r].by \in {w, Nobody}
    <3>1. p \in Nat /\ q \in Nat /\ p \in DOMAIN c /\ q \in DOMAIN c /\ p .. q \subseteq DOMAIN c
      BY <1>7 DEF Of
    <3>2. CASE q \in 1 .. l
      <4>1. p \in 1 .. l
        BY <1>7, <2>5, <3>1, <3>2
      <4>2. p \in Of(o, w) /\ q \in Of(o, w) /\ c[p] = o[p] /\ c[q] = o[q]
        BY <1>10, <1>13, <3>2, <4>1
      <4>3. \A r \in p .. q : r \in 1 .. l /\ c[r] = o[r]
        <5>1. \A r \in p .. q : r \in 1 .. l
          BY <3>1, <3>2, <4>1
        <5>2. QED
          BY <1>10, <5>1
      <4>4. QED
        BY <1>12, <2>5, <4>2, <4>3 DEF Kept
    <3>3. CASE q \notin 1 .. l
      <4>1. c[q].i = i + (q - l) /\ q > l
        BY <1>13, <3>3
      <4>2. c[p].i < c[q].i
        <5>1. CASE p \in 1 .. l
          <6>1. p \in Of(o, w) /\ c[p] = o[p]
            BY <1>10, <1>13, <5>1
          <6>2. c[p].i \in 1 .. i
            BY <2>1, <6>1
          <6>3. QED
            BY <3>1, <4>1, <6>2
        <5>2. CASE p \notin 1 .. l
          BY <1>13, <2>5, <3>1, <4>1, <5>2
        <5>3. QED
          BY <5>1, <5>2
      <4>3. ASSUME NEW r \in p .. q PROVE c[r].by \in {w, Nobody}
        <5>1. CASE r \in 1 .. l
          <6>1. p \in 1 .. l /\ p <= r
            BY <1>7, <3>1, <4>3, <5>1
          <6>2. o[p].by = w /\ p \in DOMAIN o /\ r \in DOMAIN o /\ c[r] = o[r]
            BY <1>10, <1>13, <5>1, <6>1 DEF Of
          <6>3. QED
            BY <1>12, <6>1, <6>2 DEF Ends
        <5>2. CASE r \notin 1 .. l
          BY <1>10, <3>1, <5>2
        <5>3. QED
          BY <5>1, <5>2
      <4>4. QED
        BY <4>2, <4>3
    <3>4. QED
      BY <3>2, <3>3
  <2>6. QED
    BY <2>4, <2>5 DEF Kept
<1>15. Ends(c, w)
  <2>1. ASSUME NEW p \in DOMAIN c, NEW r \in DOMAIN c, p <= r, c[p].by = w
        PROVE  c[r].by \in {w, Nobody}
    <3>1. CASE r \in 1 .. l
      <4>1. p \in 1 .. l
        BY <1>7, <2>1, <3>1
      <4>2. QED
        BY <1>10, <1>12, <2>1, <3>1, <4>1 DEF Ends
    <3>2. CASE r \notin 1 .. l
      BY <1>10, <3>2
    <3>3. QED
      BY <3>1, <3>2
  <2>2. QED
    BY <2>1 DEF Ends
<1>16. ASSUME NEW v \in Writers \ {w}
       PROVE  Put(c, v) = Put(o, v) /\ \A n \in Nat : Kept(o, v, n) => Kept(c, v, n)
  <2>1. \A p \in Of(o, v) : p \in 1 .. l
    BY <1>8, <1>10 DEF Of
  <2>2. \A p \in Of(c, v) : p \in 1 .. l
    BY <1>8, <1>10 DEF Of
  <2>3. Of(c, v) = Of(o, v)
    BY <1>10, <2>1, <2>2 DEF Of
  <2>4. \A p \in Of(o, v) : c[p] = o[p]
    BY <1>10, <2>1
  <2>5. Put(c, v) = Put(o, v)
    BY <2>3, <2>4 DEF Put
  <2>6. ASSUME NEW n \in Nat, Kept(o, v, n), NEW p \in Of(o, v), NEW q \in Of(o, v), p < q
        PROVE  c[p].i < c[q].i /\ \A r \in p .. q : c[r].by \in {v, Nobody}
    <3>1. \A r \in p .. q : r \in 1 .. l /\ c[r] = o[r]
      BY <1>10, <2>1
    <3>2. QED
      BY <2>4, <2>6, <3>1 DEF Kept
  <2>7. QED
    BY <2>3, <2>5, <2>6 DEF Kept
<1>17. QED
  BY <1>1, <1>4, <1>5, <1>14, <1>15, <1>16, <1>18

\* The three parts are sequences of pieces, and so is the whole.
LEMMA AllIs ==
    ASSUME ConsoleInv, TextInv
    PROVE  /\ shown \in Seq(Piece) /\ con.text \in Seq(Piece) /\ klog \in Seq(Piece)
           /\ shown \o con.text \in Seq(Piece) /\ All \in Seq(Piece)
           /\ All = shown \o (con.text \o klog) /\ con.text \o klog \in Seq(Piece)
<1>1. shown \in Seq(Piece) /\ con.text \in Seq(Piece) /\ klog \in Seq(Piece)
  BY DEF ConsoleInv, KeysTyped, TextTyped, Drivers, TextInv
<1>2. shown \o con.text \in Seq(Piece) /\ con.text \o klog \in Seq(Piece)
  BY <1>1, ConcatProperties
<1>3. (shown \o con.text) \o klog \in Seq(Piece)
  BY <1>1, <1>2, ConcatProperties
<1>4. (shown \o con.text) \o klog = shown \o (con.text \o klog)
  <2>1. \A a, b, c \in Seq(Piece) : (a \o b) \o c = a \o (b \o c)
    BY ConcatAssociative
  <2>2. QED
    BY <1>1, <2>1
<1>5. QED
  BY <1>1, <1>2, <1>3, <1>4 DEF All

\* Where a sleeping writer may be found after a step of somebody else.
Stirred == \A w \in Writers :
  /\ writer'[w].i = writer[w].i /\ writer'[w].torn = writer[w].torn
  /\ \/ writer'[w].pc = writer[w].pc
     \/ writer[w].pc = "asleep" /\ writer'[w].pc \in {"ret", "put"}

\* A step of whoever does not write adds at most text of the kernel.
LEMMA TextGrows ==
    ASSUME ConsoleInv, TextInv, lock' = lock, shown' \in Seq(Piece), Stirred,
           con'.pc \notin {"told", "wake", "show"} => con'.text = <<>>,
           uart.desviar => uart'.desviar,
           Kernel(con.text) /\ Kernel(klog) => Kernel(con'.text) /\ Kernel(klog'),
           NEW t \in Seq(Piece), Kernel(t), All' = All \o t
    PROVE  TextInv'
<1>1. All \in Seq(Piece)
  BY AllIs
<1>2. ASSUME NEW w \in Writers
      PROVE  /\ Kept(All', w, writer'[w].i)
             /\ writer'[w].torn \/ Put(All', w) = 1 .. writer'[w].i
             /\ writer'[w].pc \notin {"call", "done"} <=> lock' = w
             /\ writer'[w].pc \in {"call", "begin"} \/ (writer'[w].pc = "hw" /\ ~uart'.desviar) => writer'[w].i = 0
             /\ writer'[w].pc \in {"put", "full", "asleep"} => uart'.desviar
             /\ ~uart'.desviar \/ writer'[w].pc = "hw" => Kernel(con'.text) /\ Kernel(klog')
             /\ lock' = w => Ends(All', w)
  <2>1. /\ Kept(All, w, writer[w].i) /\ (lock = w => Ends(All, w))
        /\ writer[w].torn \/ Put(All, w) = 1 .. writer[w].i
        /\ writer[w].pc \notin {"call", "done"} <=> lock = w
        /\ writer[w].pc \in {"call", "begin"} \/ (writer[w].pc = "hw" /\ ~uart.desviar) => writer[w].i = 0
        /\ writer[w].pc \in {"put", "full", "asleep"} => uart.desviar
        /\ ~uart.desviar \/ writer[w].pc = "hw" => Kernel(con.text) /\ Kernel(klog)
    BY DEF TextInv
  <2>2. /\ writer'[w].i = writer[w].i /\ writer'[w].torn = writer[w].torn
        /\ \/ writer'[w].pc = writer[w].pc
           \/ writer[w].pc = "asleep" /\ writer'[w].pc \in {"ret", "put"}
    BY DEF Stirred
  <2>3. writer[w].i \in Nat
    BY DEF ConsoleInv, TextTyped, Pens
  <2>4. /\ Kept(All', w, writer'[w].i) /\ (lock' = w => Ends(All', w))
        /\ writer'[w].torn \/ Put(All', w) = 1 .. writer'[w].i
    BY <1>1, <2>1, <2>2, <2>3, KernelAdds
  <2>5. writer'[w].pc \notin {"call", "done"} <=> lock' = w
    BY <2>1, <2>2
  <2>6. /\ writer'[w].pc \in {"call", "begin"} \/ (writer'[w].pc = "hw" /\ ~uart'.desviar) => writer'[w].i = 0
        /\ writer'[w].pc \in {"put", "full", "asleep"} => uart'.desviar
        /\ ~uart'.desviar \/ writer'[w].pc = "hw" => Kernel(con'.text) /\ Kernel(klog')
    BY <2>1, <2>2
  <2>7. QED
    BY <2>4, <2>5, <2>6
<1>3. QED
  BY <1>2 DEF TextInv, Kept, Put, Of, Ends, Kernel

\* A step that has to do with no text.
LEMMA TextStands ==
    ASSUME ConsoleInv, TextInv, UNCHANGED <<shown, klog, lock>>, Stirred, con'.text = con.text,
           con.pc \in {"told", "wake", "show"} <=> con'.pc \in {"told", "wake", "show"},
           uart.desviar => uart'.desviar
    PROVE  TextInv'
<1>1. PICK t \in Seq(Piece) : t = <<>>
  <2>1. <<>> \in Seq(Piece)
    OBVIOUS
  <2>2. QED
    BY <2>1
<1>2. All' = All \o t
  <2>1. All' = All
    BY DEF All
  <2>2. QED
    BY <1>1, <2>1, AllIs, ConcatEmptySeq
<1>3. Kernel(t)
  BY <1>1 DEF Kernel
<1>4. shown' \in Seq(Piece) /\ (con'.pc \notin {"told", "wake", "show"} => con'.text = <<>>)
  BY DEF TextInv
<1>5. Kernel(con.text) /\ Kernel(klog) => Kernel(con'.text) /\ Kernel(klog')
  OBVIOUS
<1>6. QED
  BY <1>2, <1>3, <1>4, <1>5, TextGrows

\* A text of the kernel goes to the log, as much of it as finds room.
LEMMA KernelTextIs ==
    ASSUME TextTyped, NEW n \in Nat, KernelText(n)
    PROVE  \E t \in Seq(Piece) : Kernel(t) /\ klog' = klog \o t
<1> DEFINE es == [j \in 1 .. n |-> [by |-> Nobody, i |-> 0]]
<1>1. PICK e : e = es
  OBVIOUS
<1>2. e \in Seq(Piece) /\ Len(e) = n /\ \A j \in 1 .. n : e[j].by = Nobody
  BY <1>1 DEF Piece
<1>3. Said(e)
  BY <1>1 DEF KernelText
<1>4. CASE uart.desviar
  <2>1. PICK m \in Nat : klog' = klog \o SubSeq(e, 1, m) /\ m <= n
    <3>1. Len(klog) \in Nat /\ Len(klog) <= KlogMax
      BY DEF TextTyped
    <3>2. PICK k \in Nat : k = KlogMax - Len(klog)
      BY <3>1, Sizes
    <3>3. klog' = klog \o SubSeq(e, 1, IF Len(e) < k THEN Len(e) ELSE k)
      BY <1>3, <1>4, <3>2 DEF Said
    <3>4. CASE n < k
      BY <1>2, <3>3, <3>4
    <3>5. CASE ~(n < k)
      <4>1. klog' = klog \o SubSeq(e, 1, k)
        BY <1>2, <3>3, <3>5
      <4>2. k <= n
        BY <3>5
      <4>3. QED
        BY <4>1, <4>2
    <3>6. QED
      BY <3>4, <3>5
  <2>2. /\ SubSeq(e, 1, m) \in Seq(Piece) /\ Len(SubSeq(e, 1, m)) = m
        /\ \A j \in 1 .. m : SubSeq(e, 1, m)[j] = e[j]
    <3>1. m \in 0 .. Len(e)
      BY <1>2, <2>1
    <3>2. \A x \in 0 .. Len(e) : /\ SubSeq(e, 1, x) \in Seq(Piece) /\ Len(SubSeq(e, 1, x)) = x
                                 /\ \A j \in 1 .. x : SubSeq(e, 1, x)[j] = e[j]
      BY <1>2, PiecesOf
    <3>3. QED
      BY <3>1, <3>2
  <2>3. Kernel(SubSeq(e, 1, m))
    BY <1>2, <2>1, <2>2 DEF Kernel
  <2>4. QED
    BY <2>1, <2>2, <2>3
<1>5. CASE ~uart.desviar
  <2>1. klog' = klog \o <<>>
    <3>1. klog' = klog
      BY <1>3, <1>5 DEF Said
    <3>2. klog \in Seq(Piece)
      BY DEF TextTyped
    <3>3. QED
      BY <3>1, <3>2, ConcatEmptySeq
  <2>2. <<>> \in Seq(Piece) /\ Kernel(<<>>)
    BY DEF Kernel
  <2>3. QED
    BY <2>1, <2>2
<1>6. QED
  BY <1>4, <1>5

\* A step that puts no text but the kernel's.
LEMMA KernelTextStands ==
    ASSUME ConsoleInv, TextInv, UNCHANGED <<shown, lock, con>>, Stirred, uart'.desviar = uart.desviar,
           klog' = klog \/ \E n \in Nat : KernelText(n)
    PROVE  TextInv'
<1>1. CASE klog' = klog
  BY <1>1, TextStands
<1>2. ASSUME NEW n \in Nat, KernelText(n) PROVE TextInv'
  <2>1. PICK t \in Seq(Piece) : Kernel(t) /\ klog' = klog \o t
    BY <1>2, KernelTextIs DEF ConsoleInv
  <2>2. klog \in Seq(Piece) /\ shown \o con.text \in Seq(Piece) /\ shown \in Seq(Piece)
    BY AllIs
  <2>3. All' = All \o t
    <3>1. ((shown \o con.text) \o klog) \o t = (shown \o con.text) \o (klog \o t)
      <4>1. \A a, b, c \in Seq(Piece) : (a \o b) \o c = a \o (b \o c)
        BY ConcatAssociative
      <4>2. QED
        BY <2>2, <4>1
    <3>2. All' = (shown \o con.text) \o (klog \o t)
      BY <2>1 DEF All
    <3>3. QED
      BY <3>1, <3>2 DEF All
  <2>4. Kernel(klog) => Kernel(klog')
    <3>1. ASSUME Kernel(klog), NEW i \in DOMAIN klog' PROVE klog'[i].by = Nobody
      <4>1. /\ Len(klog \o t) = Len(klog) + Len(t) /\ klog \o t \in Seq(Piece)
            /\ \A x \in 1 .. Len(klog) + Len(t) :
                  (klog \o t)[x] = IF x <= Len(klog) THEN klog[x] ELSE t[x - Len(klog)]
        BY <2>2, ConcatProperties
      <4>2. i \in 1 .. Len(klog) + Len(t) /\ Len(klog) \in Nat /\ Len(t) \in Nat
        BY <2>1, <2>2, <3>1, <4>1
      <4>3. i <= Len(klog) => i \in DOMAIN klog
        BY <2>2, <4>2
      <4>4. ~(i <= Len(klog)) => i - Len(klog) \in DOMAIN t
        BY <4>2
      <4>5. QED
        BY <2>1, <3>1, <4>1, <4>2, <4>3, <4>4 DEF Kernel
    <3>2. QED
      BY <3>1 DEF Kernel
  <2>5. con'.pc \notin {"told", "wake", "show"} => con'.text = <<>>
    BY DEF TextInv
  <2>6. QED
    BY <2>1, <2>2, <2>3, <2>4, <2>5, TextGrows
<1>3. QED
  BY <1>1, <1>2

\* Nothing has been put.
LEMMA InitText == Init => TextInv
<1> SUFFICES ASSUME Init PROVE TextInv
  OBVIOUS
<1>1. /\ shown = <<>> /\ klog = <<>> /\ con.text = <<>> /\ lock = Nobody
      /\ writer = [w \in Writers |-> [pc |-> IF Texts[w] = <<>> THEN "done" ELSE "call", i |-> 0,
                                      torn |-> FALSE]]
  BY DEF Init
<1>2. DOMAIN All = {}
  BY <1>1 DEF All
<1>3. \A w \in Writers : Kept(All, w, 0) /\ Ends(All, w) /\ w # Nobody /\ Put(All, w) = 1 .. 0
  <2>1. \A w : Of(All, w) = {} /\ Put(All, w) = {}
    BY <1>2 DEF Of, Put
  <2>2. 1 .. 0 = {}
    OBVIOUS
  <2>3. QED
    BY <1>2, <2>1, <2>2, ConsoleAssumption DEF Kept, Ends, Nobody
<1>4. \A w \in Writers : writer[w].pc \in {"call", "done"} /\ writer[w].i = 0
  BY <1>1
<1>5. Kernel(con.text) /\ Kernel(klog) /\ shown \in Seq(Piece)
  BY <1>1 DEF Kernel
<1>6. QED
  BY <1>1, <1>3, <1>4, <1>5 DEF TextInv

\* A step of a writer that puts nothing.
LEMMA WriterWalks ==
    ASSUME ConsoleInv, TextInv, NEW w \in Writers, UNCHANGED <<shown, klog, con, uart>>,
           writer'[w].i = writer[w].i, writer'[w].torn = writer[w].torn,
           \A v \in Writers \ {w} : writer'[v] = writer[v],
           \A v \in Writers \ {w} : lock' = v <=> lock = v,
           writer'[w].pc \notin {"call", "done"} <=> lock' = w,
           writer'[w].pc \in {"call", "begin"} \/ (writer'[w].pc = "hw" /\ ~uart'.desviar) => writer'[w].i = 0,
           writer'[w].pc \in {"put", "full", "asleep"} => uart.desviar,
           writer'[w].pc = "hw" => ~uart.desviar,
           lock' = w => lock = w \/ writer[w].i = 0
    PROVE  TextInv'
<1>1. All' = All
  BY DEF All
<1>2. ASSUME NEW v \in Writers
      PROVE  /\ Kept(All', v, writer'[v].i)
             /\ writer'[v].torn \/ Put(All', v) = 1 .. writer'[v].i
             /\ writer'[v].pc \notin {"call", "done"} <=> lock' = v
             /\ writer'[v].pc \in {"call", "begin"} \/ (writer'[v].pc = "hw" /\ ~uart'.desviar) => writer'[v].i = 0
             /\ writer'[v].pc \in {"put", "full", "asleep"} => uart'.desviar
             /\ ~uart'.desviar \/ writer'[v].pc = "hw" => Kernel(con'.text) /\ Kernel(klog')
             /\ lock' = v => Ends(All', v)
  <2>1. /\ Kept(All, v, writer[v].i) /\ (lock = v => Ends(All, v))
        /\ writer[v].torn \/ Put(All, v) = 1 .. writer[v].i
        /\ writer[v].pc \notin {"call", "done"} <=> lock = v
        /\ writer[v].pc \in {"call", "begin"} \/ (writer[v].pc = "hw" /\ ~uart.desviar) => writer[v].i = 0
        /\ writer[v].pc \in {"put", "full", "asleep"} => uart.desviar
        /\ ~uart.desviar \/ writer[v].pc = "hw" => Kernel(con.text) /\ Kernel(klog)
    BY DEF TextInv
  <2>2. CASE v # w
    BY <1>1, <2>1, <2>2
  <2>3. CASE v = w
    <3>1. writer[v].i = 0 => Ends(All, v)
      <4>1. writer[v].i = 0 => Of(All, v) = {}
        BY <2>1 DEF Kept, Put
      <4>2. QED
        BY <4>1 DEF Ends, Of
    <3>2. QED
      BY <1>1, <2>1, <2>3, <3>1
  <2>4. QED
    BY <2>2, <2>3
<1>3. shown' \in Seq(Piece) /\ (con'.pc \notin {"told", "wake", "show"} => con'.text = <<>>)
  BY DEF TextInv
<1>4. QED
  BY <1>2, <1>3 DEF TextInv, Kept, Put, Of, Ends, Kernel

\* A writer puts places of its text, before text of the kernel or at the end.
LEMMA WriterPuts ==
    ASSUME ConsoleInv, TextInv, NEW w \in Writers, UNCHANGED <<con, uart, lock>>, lock = w,
           NEW j \in Nat, writer[w].i <= j, writer'[w].i = j,
           NEW s \in Seq(Piece), NEW t \in Seq(Piece), Kernel(t), All = s \o t,
           All' = (s \o Pieces(w, writer[w].i, j)) \o t, shown' \in Seq(Piece),
           \A v \in Writers \ {w} : writer'[v] = writer[v],
           writer[w].torn => writer'[w].torn,
           writer'[w].pc \in {"full", "ret", "hw"}, writer'[w].pc # "ret" => uart.desviar,
           klog' = klog \/ uart.desviar, writer'[w].pc = "hw" => writer[w].pc = "hw" /\ klog' = klog
    PROVE  TextInv'
<1>1. writer[w].i \in Nat /\ \A v \in Writers : writer[v].i \in Nat
  BY DEF ConsoleInv, TextTyped, Pens
<1>2. Kept(s \o t, w, writer[w].i) /\ Ends(s \o t, w)
  BY DEF TextInv
<1>3. /\ Kept(All', w, j) /\ Ends(All', w) /\ Put(All', w) = Put(All, w) \cup (writer[w].i + 1 .. j)
      /\ \A v \in Writers \ {w}, n \in Nat :
            Put(All', v) = Put(All, v) /\ (Kept(All, v, n) => Kept(All', v, n))
  BY <1>1, <1>2, PiecesAdd
<1>4. ASSUME NEW v \in Writers
      PROVE  /\ Kept(All', v, writer'[v].i)
             /\ writer'[v].torn \/ Put(All', v) = 1 .. writer'[v].i
             /\ writer'[v].pc \notin {"call", "done"} <=> lock' = v
             /\ writer'[v].pc \in {"call", "begin"} \/ (writer'[v].pc = "hw" /\ ~uart'.desviar) => writer'[v].i = 0
             /\ writer'[v].pc \in {"put", "full", "asleep"} => uart'.desviar
             /\ ~uart'.desviar \/ writer'[v].pc = "hw" => Kernel(con'.text) /\ Kernel(klog')
             /\ lock' = v => Ends(All', v)
  <2>1. /\ Kept(All, v, writer[v].i) /\ (lock = v => Ends(All, v))
        /\ writer[v].torn \/ Put(All, v) = 1 .. writer[v].i
        /\ writer[v].pc \notin {"call", "done"} <=> lock = v
        /\ writer[v].pc \in {"call", "begin"} \/ (writer[v].pc = "hw" /\ ~uart.desviar) => writer[v].i = 0
        /\ writer[v].pc \in {"put", "full", "asleep"} => uart.desviar
        /\ ~uart.desviar \/ writer[v].pc = "hw" => Kernel(con.text) /\ Kernel(klog)
    BY DEF TextInv
  <2>2. CASE v # w
    BY <1>1, <1>3, <2>1, <2>2
  <2>3. CASE v = w
    <3>1. Put(All, w) = 1 .. writer[w].i => Put(All', w) = 1 .. j
      BY <1>1, <1>3
    <3>2. QED
      BY <1>3, <2>1, <2>3, <3>1
  <2>4. QED
    BY <2>2, <2>3
<1>5. con'.pc \notin {"told", "wake", "show"} => con'.text = <<>>
  BY DEF TextInv
<1>6. QED
  BY <1>4, <1>5 DEF TextInv, Kept, Put, Of, Ends, Kernel

\* A place of a text that went to the line of somebody else is lost.
LEMMA WriterLoses ==
    ASSUME ConsoleInv, TextInv, NEW w \in Writers, UNCHANGED <<shown, klog, con, uart, lock>>, lock = w,
           writer'[w].i = writer[w].i + 1, writer'[w].torn, writer[w].pc = "hw", uart.desviar,
           writer'[w].pc \in {"hw", "ret"}, \A v \in Writers \ {w} : writer'[v] = writer[v]
    PROVE  TextInv'
<1>1. All' = All /\ \A v \in Writers : writer[v].i \in Nat
  BY DEF All, ConsoleInv, TextTyped, Pens
<1>2. ASSUME NEW v \in Writers
      PROVE  /\ Kept(All', v, writer'[v].i)
             /\ writer'[v].torn \/ Put(All', v) = 1 .. writer'[v].i
             /\ writer'[v].pc \notin {"call", "done"} <=> lock' = v
             /\ writer'[v].pc \in {"call", "begin"} \/ (writer'[v].pc = "hw" /\ ~uart'.desviar) => writer'[v].i = 0
             /\ writer'[v].pc \in {"put", "full", "asleep"} => uart'.desviar
             /\ ~uart'.desviar \/ writer'[v].pc = "hw" => Kernel(con'.text) /\ Kernel(klog')
             /\ lock' = v => Ends(All', v)
  <2>1. /\ Kept(All, v, writer[v].i) /\ (lock = v => Ends(All, v))
        /\ writer[v].torn \/ Put(All, v) = 1 .. writer[v].i
        /\ writer[v].pc \notin {"call", "done"} <=> lock = v
        /\ writer[v].pc \in {"call", "begin"} \/ (writer[v].pc = "hw" /\ ~uart.desviar) => writer[v].i = 0
        /\ writer[v].pc \in {"put", "full", "asleep"} => uart.desviar
        /\ ~uart.desviar \/ writer[v].pc = "hw" => Kernel(con.text) /\ Kernel(klog)
    BY DEF TextInv
  <2>2. CASE v # w
    BY <1>1, <2>1, <2>2
  <2>3. CASE v = w
    <3>1. 1 .. writer[v].i \subseteq 1 .. writer'[v].i
      BY <1>1, <2>3
    <3>2. Kept(All, v, writer'[v].i)
      BY <2>1, <3>1 DEF Kept
    <3>3. QED
      BY <1>1, <2>1, <2>3, <3>2
  <2>4. QED
    BY <2>2, <2>3
<1>3. shown' \in Seq(Piece) /\ (con'.pc \notin {"told", "wake", "show"} => con'.text = <<>>)
  BY DEF TextInv
<1>4. QED
  BY <1>2, <1>3 DEF TextInv, Kept, Put, Of, Ends, Kernel

\* Text of the kernel and text of the kernel.
LEMMA KernelBoth ==
    ASSUME NEW a \in Seq(Piece), NEW b \in Seq(Piece), Kernel(a), Kernel(b)
    PROVE  Kernel(a \o b)
<1>1. /\ Len(a \o b) = Len(a) + Len(b) /\ a \o b \in Seq(Piece)
      /\ \A x \in 1 .. Len(a) + Len(b) : (a \o b)[x] = IF x <= Len(a) THEN a[x] ELSE b[x - Len(a)]
  BY ConcatProperties
<1>2. ASSUME NEW i \in DOMAIN (a \o b) PROVE (a \o b)[i].by = Nobody
  <2>1. i \in 1 .. Len(a) + Len(b)
    BY <1>1
  <2>2. CASE i <= Len(a)
    <3>1. i \in DOMAIN a /\ (a \o b)[i] = a[i]
      BY <1>1, <2>1, <2>2
    <3>2. QED
      BY <3>1 DEF Kernel
  <2>3. CASE ~(i <= Len(a))
    <3>1. i - Len(a) \in DOMAIN b /\ (a \o b)[i] = b[i - Len(a)]
      BY <1>1, <2>1, <2>3
    <3>2. QED
      BY <3>1 DEF Kernel
  <2>4. QED
    BY <2>2, <2>3
<1>3. QED
  BY <1>2 DEF Kernel

\* A writer puts places of its text straight on the line.
LEMMA WriterShows ==
    ASSUME ConsoleInv, TextInv, NEW w \in Writers, UNCHANGED <<con, uart, lock, klog>>, writer[w].pc = "hw",
           NEW j \in Nat, writer[w].i <= j, writer'[w].i = j,
           shown' = shown \o Pieces(w, writer[w].i, j),
           \A v \in Writers \ {w} : writer'[v] = writer[v],
           writer[w].torn => writer'[w].torn,
           writer'[w].pc \in {"ret", "hw"}, writer'[w].pc = "hw" => uart.desviar
    PROVE  TextInv'
<1>1. /\ lock = w /\ Kernel(con.text) /\ Kernel(klog) /\ writer[w].i \in Nat
      /\ shown \in Seq(Piece) /\ con.text \in Seq(Piece) /\ klog \in Seq(Piece)
      /\ All = shown \o (con.text \o klog) /\ con.text \o klog \in Seq(Piece)
  BY AllIs DEF TextInv, ConsoleInv, TextTyped, Pens
<1>2. Kernel(con.text \o klog)
  BY <1>1, KernelBoth
<1>3. PICK b : b = Pieces(w, writer[w].i, j)
  OBVIOUS
<1>4. b \in Seq(Piece)
  <2>1. PICK d \in Nat : d = j - writer[w].i
    BY <1>1
  <2>2. PICK e : e = [x \in 1 .. d |-> [by |-> w, i |-> writer[w].i + x]]
    OBVIOUS
  <2>3. e \in Seq(Piece)
    BY <1>1, <2>2 DEF Piece
  <2>4. QED
    BY <1>3, <2>1, <2>2, <2>3 DEF Pieces
<1>5. shown' \in Seq(Piece) /\ All' = (shown \o b) \o (con.text \o klog)
  <2>1. PICK h \in Seq(Piece) : h = shown \o b
    <3>1. shown \o b \in Seq(Piece)
      BY <1>1, <1>4, ConcatProperties
    <3>2. QED
      BY <3>1
  <2>2. \A x, y, z \in Seq(Piece) : (x \o y) \o z = x \o (y \o z)
    BY ConcatAssociative
  <2>3. (h \o con.text) \o klog = h \o (con.text \o klog)
    BY <1>1, <2>2
  <2>4. shown' = h /\ All' = (h \o con.text) \o klog
    BY <1>3, <2>1 DEF All
  <2>5. QED
    BY <2>1, <2>3, <2>4
<1>6. QED
  BY <1>1, <1>2, <1>3, <1>5, WriterPuts

\* uart_escribir_texto(), with the UART of the kernel and without.
LEMMA WriterText ==
    ASSUME ConsoleInv, TextInv, NEW w \in Writers,
           \/ Escribe(w) \/ Elige(w) \/ Directo(w) \/ DirectoTarde(w)
           \/ Mete(w) \/ Espera(w) \/ Vuelve(w)
    PROVE  TextInv'
<1>1. /\ UNCHANGED <<con, uart>> /\ writer \in [Writers -> Pens] /\ writer[w] \in Pens
      /\ writer[w].i \in 0 .. Len(Texts[w]) /\ writer[w].i \in Nat /\ Texts[w] \in Seq(Nat)
      /\ \A v \in Writers : v # Nobody
  BY ConsoleAssumption DEF ConsoleInv, TextTyped, KeysTyped, Scripts, Texts, Pens, Nobody,
     Escribe, Elige, Directo, DirectoTarde, Mete, Espera, Vuelve
<1>2. /\ writer[w].pc \notin {"call", "done"} <=> lock = w
      /\ writer[w].pc \in {"call", "begin"} \/ (writer[w].pc = "hw" /\ ~uart.desviar) => writer[w].i = 0
      /\ writer[w].pc \in {"put", "full", "asleep"} => uart.desviar
      /\ ~uart.desviar \/ writer[w].pc = "hw" => Kernel(con.text) /\ Kernel(klog)
  BY DEF TextInv
<1>3. CASE Escribe(w) \/ Elige(w) \/ Espera(w) \/ Vuelve(w)
  <2>1. PICK c \in {"begin", "put", "hw", "asleep", "done"} :
          /\ writer' = [writer EXCEPT ![w].pc = c]
          /\ \/ writer[w].pc = "call" /\ lock = Nobody /\ lock' = w /\ c = "begin"
             \/ writer[w].pc = "begin" /\ lock' = lock /\ c = (IF uart.desviar THEN "put" ELSE "hw")
             \/ writer[w].pc = "full" /\ lock' = lock /\ c \in {"put", "asleep"}
             \/ writer[w].pc = "ret" /\ lock' = Nobody /\ c = "done"
    BY <1>3 DEF Escribe, Elige, Espera, Vuelve
  <2>2. writer'[w].pc = c /\ writer'[w].i = writer[w].i /\ writer'[w].torn = writer[w].torn /\ \A v \in Writers \ {w} : writer'[v] = writer[v]
    BY <1>1, <2>1 DEF Pens
  <2>3. shown' = shown /\ klog' = klog
    BY <1>3 DEF Escribe, Elige, Espera, Vuelve
  <2>4. \A v \in Writers \ {w} : lock' = v <=> lock = v
    BY <1>1, <1>2, <2>1
  <2>5. writer'[w].pc \notin {"call", "done"} <=> lock' = w
    BY <1>1, <1>2, <2>1, <2>2
  <2>6. /\ writer'[w].pc \in {"call", "begin"} \/ (writer'[w].pc = "hw" /\ ~uart'.desviar) => writer'[w].i = 0
        /\ writer'[w].pc \in {"put", "full", "asleep"} => uart.desviar
        /\ writer'[w].pc = "hw" => ~uart.desviar
        /\ lock' = w => lock = w \/ writer[w].i = 0
    BY <1>2, <2>1, <2>2
  <2>7. QED
    BY <1>1, <2>2, <2>3, <2>4, <2>5, <2>6, WriterWalks
<1>4. CASE Directo(w)
  <2>1. /\ writer[w].pc = "hw" /\ ~uart.desviar /\ klog' = klog /\ lock' = lock
        /\ shown' = shown \o Pieces(w, 0, Len(Texts[w]))
        /\ writer' = [writer EXCEPT ![w].pc = "ret", ![w].i = Len(Texts[w])]
    BY <1>4 DEF Directo
  <2>2. PICK j \in Nat : j = Len(Texts[w])
    BY <1>1
  <2>3. /\ writer'[w].pc = "ret" /\ writer'[w].i = j /\ writer'[w].torn = writer[w].torn
        /\ \A v \in Writers \ {w} : writer'[v] = writer[v]
    BY <1>1, <2>1, <2>2 DEF Pens
  <2>4. writer[w].i = 0
    BY <1>2, <2>1
  <2>5. writer[w].i <= j /\ shown' = shown \o Pieces(w, writer[w].i, j)
    BY <2>1, <2>2, <2>4
  <2>6. QED
    BY <1>1, <2>1, <2>3, <2>5, WriterShows
<1>7. CASE DirectoTarde(w)
  <2>1. PICK c \in {"ret", "hw"} :
          /\ writer[w].pc = "hw" /\ uart.desviar /\ klog' = klog /\ lock' = lock
          /\ shown' = shown \/ shown' = shown \o Pieces(w, writer[w].i, writer[w].i + 1)
          /\ writer' = [writer EXCEPT ![w].pc = c, ![w].i = writer[w].i + 1, ![w].torn = TRUE]
    BY <1>7 DEF DirectoTarde
  <2>2. PICK j \in Nat : j = writer[w].i + 1
    BY <1>1
  <2>3. /\ writer'[w].pc = c /\ writer'[w].i = j /\ writer'[w].torn
        /\ \A v \in Writers \ {w} : writer'[v] = writer[v]
    BY <1>1, <2>1, <2>2 DEF Pens
  <2>4. CASE shown' = shown
    <3>1. lock = w
      BY <1>2, <2>1
    <3>2. QED
      BY <1>1, <2>1, <2>2, <2>3, <2>4, <3>1, WriterLoses
  <2>5. CASE shown' = shown \o Pieces(w, writer[w].i, writer[w].i + 1)
    <3>1. writer[w].i <= j /\ shown' = shown \o Pieces(w, writer[w].i, j)
      BY <1>1, <2>2, <2>5
    <3>2. QED
      BY <1>1, <2>1, <2>3, <3>1, WriterShows
  <2>6. QED
    BY <2>1, <2>4, <2>5
<1>5. CASE Mete(w)
  <2>1. PICK i \in Nat : i = writer[w].i
    BY <1>1
  <2>2. PICK j \in Whole(w) :
          /\ j = i \/ (j > i /\ Hueco(j - i))
          /\ Said(Pieces(w, i, j))
          /\ writer' = [writer EXCEPT ![w].pc = IF j = Len(Texts[w]) THEN "ret" ELSE "full",
                                      ![w].i = j]
    BY <1>5, <2>1 DEF Mete
  <2>3. writer[w].pc = "put" /\ UNCHANGED <<shown, lock>>
    BY <1>5 DEF Mete
  <2>4. j \in Nat /\ i <= j
    <3>1. j \in 0 .. Len(Texts[w])
      BY <2>2 DEF Whole
    <3>2. QED
      BY <1>1, <2>1, <2>2, <3>1
  <2>5. uart.desviar /\ lock = w
    BY <1>2, <2>3
  <2>6. PICK e \in Seq(Piece) : e = Pieces(w, i, j) /\ Len(e) = j - i
    <3>1. PICK d \in Nat : d = j - i
      BY <2>4
    <3>2. PICK e : e = [x \in 1 .. d |-> [by |-> w, i |-> i + x]]
      OBVIOUS
    <3>3. e \in Seq(Piece) /\ Len(e) = d
      BY <3>2 DEF Piece
    <3>4. QED
      BY <3>1, <3>2, <3>3 DEF Pieces
  <2>7. klog' = klog \o e
    <3>1. klog \in Seq(Piece) /\ Len(klog) \in Nat /\ Len(klog) <= KlogMax
      BY DEF ConsoleInv, TextTyped
    <3>2. Len(e) <= KlogMax - Len(klog)
      BY <2>2, <2>4, <2>6, <3>1, Sizes, SMTT(30) DEF Hueco
    <3>3. PICK m : m = IF Len(e) < KlogMax - Len(klog) THEN Len(e) ELSE KlogMax - Len(klog)
      OBVIOUS
    <3>4. m = Len(e)
      BY <2>4, <2>6, <3>1, <3>2, <3>3, Sizes
    <3>5. klog' = klog \o SubSeq(e, 1, m)
      BY <2>2, <2>5, <2>6, <3>3 DEF Said
    <3>6. SubSeq(e, 1, Len(e)) = e
      BY <2>6, SubSeqFull
    <3>7. QED
      BY <3>4, <3>5, <3>6
  <2>8. All' = (All \o e) \o <<>>
    <3>1. /\ shown \o con.text \in Seq(Piece) /\ klog \in Seq(Piece) /\ All \in Seq(Piece)
      BY AllIs
    <3>2. \A a, b, c \in Seq(Piece) : (a \o b) \o c = a \o (b \o c)
      BY ConcatAssociative
    <3>3. ((shown \o con.text) \o klog) \o e = (shown \o con.text) \o (klog \o e)
      BY <2>6, <3>1, <3>2
    <3>4. All \o e \in Seq(Piece)
      BY <2>6, <3>1, ConcatProperties
    <3>5. (All \o e) \o <<>> = All \o e
      BY <3>4, ConcatEmptySeq
    <3>6. All' = (shown \o con.text) \o (klog \o e)
      BY <1>1, <2>3, <2>7 DEF All
    <3>7. QED
      BY <3>3, <3>5, <3>6 DEF All
  <2>9. PICK t \in Seq(Piece) : t = <<>>
    <3>1. <<>> \in Seq(Piece)
      OBVIOUS
    <3>2. QED
      BY <3>1
  <2>10. Kernel(t) /\ All = All \o t /\ All \in Seq(Piece) /\ shown \in Seq(Piece)
    <3>1. All \in Seq(Piece) /\ shown \in Seq(Piece)
      BY AllIs
    <3>2. Kernel(t)
      BY <2>9 DEF Kernel
    <3>3. QED
      BY <2>9, <3>1, <3>2, ConcatEmptySeq
  <2>11. /\ writer'[w].i = j /\ writer'[w].pc \in {"full", "ret"} /\ writer'[w].torn = writer[w].torn
         /\ \A v \in Writers \ {w} : writer'[v] = writer[v]
    BY <1>1, <2>2 DEF Pens
  <2>12. QED
    BY <1>1, <2>1, <2>3, <2>4, <2>5, <2>6, <2>8, <2>9, <2>10, <2>11, WriterPuts
<1>6. QED
  BY <1>3, <1>4, <1>5, <1>7

\* Who neither writes nor takes from the log.
LEMMA QuietText ==
    ASSUME ConsoleInv, TextInv,
           \/ \E c \in Cores : Tick(c)
           \/ Reader \/ Typed \/ IrqHandle \/ Imprime \/ UartIrq \/ Registra \/ Recv \/ Drenar \/ Empuja
           \/ Senyala \/ TecladoEntregar \/ UNCHANGED vars
           \/ \E n \in 1 .. BufMax : Informe(n)
    PROVE  TextInv'
<1>1. con \in Drivers
  BY DEF ConsoleInv, KeysTyped
<1>2. ASSUME NEW n \in Nat, Interrupt(n) PROVE Stirred
  <2>1. writer' = [w \in Writers |-> [writer[w] EXCEPT !.pc = IF @ = "asleep" THEN "ret" ELSE @]]
    BY <1>2 DEF Interrupt
  <2>2. \A w \in Writers : writer[w] \in Pens
    BY DEF ConsoleInv, TextTyped
  <2>3. ASSUME NEW w \in Writers
        PROVE  /\ writer'[w].i = writer[w].i /\ writer'[w].torn = writer[w].torn
               /\ \/ writer'[w].pc = writer[w].pc
                  \/ writer[w].pc = "asleep" /\ writer'[w].pc \in {"ret", "put"}
    <3>1. writer[w] \in Pens /\ writer'[w] = [writer[w] EXCEPT !.pc = IF @ = "asleep" THEN "ret" ELSE @]
      BY <2>1, <2>2
    <3>2. CASE writer[w].pc = "asleep"
      <4>1. writer'[w] = [writer[w] EXCEPT !.pc = "ret"]
        BY <3>1, <3>2
      <4>2. QED
        BY <3>1, <3>2, <4>1 DEF Pens
    <3>3. CASE writer[w].pc # "asleep"
      <4>1. writer'[w] = [writer[w] EXCEPT !.pc = @]
        BY <3>1, <3>3
      <4>2. QED
        BY <3>1, <4>1 DEF Pens
    <3>4. QED
      BY <3>2, <3>3
  <2>4. QED
    BY <2>3 DEF Stirred
<1>3. UNCHANGED writer => Stirred
  BY DEF Stirred
<1>4. CASE \/ \E c \in Cores : Tick(c)
           \/ Reader \/ Typed \/ IrqHandle \/ Imprime \/ UNCHANGED vars \/ \E n \in 1 .. BufMax : Informe(n)
  <2>1. UNCHANGED <<shown, klog, lock, con, writer>> /\ uart'.desviar = uart.desviar
    <3>1. CASE \E c \in Cores : Tick(c)
      BY <3>1 DEF Tick
    <3>2. CASE Reader \/ IrqHandle \/ Imprime \/ UNCHANGED vars \/ \E n \in 1 .. BufMax : Informe(n)
      <4>1. uart \in Uarts
        BY DEF ConsoleInv, KeysTyped
      <4>2. QED
        BY <3>2, <4>1 DEF Reader, IrqHandle, Imprime, Informe, vars, textVars, Uarts
    <3>3. CASE Typed
      <4>1. PICK f : uart' = [uart EXCEPT !.fifo = f, !.ris = TRUE]
        BY <3>3 DEF Typed
      <4>2. uart'.desviar = uart.desviar
        BY <4>1 DEF ConsoleInv, KeysTyped, Uarts
      <4>3. QED
        BY <3>3, <4>2 DEF Typed, textVars
    <3>4. QED
      BY <1>4, <3>1, <3>2, <3>3
  <2>2. QED
    BY <1>3, <2>1, TextStands
<1>5. CASE UartIrq
  <2>1. UNCHANGED <<shown, klog, lock, con>>
    BY <1>5 DEF UartIrq
  <2>2. uart'.desviar = uart.desviar
    <3>1. uart \in Uarts
      BY DEF ConsoleInv, KeysTyped
    <3>2. QED
      BY <1>5, <3>1 DEF UartIrq, UartIrqReads, UartIrqAcks, Uarts
  <2>3. Stirred
    <3>1. UNCHANGED writer \/ Interrupt(push.sig)
      BY <1>5 DEF UartIrq, UartIrqReads, UartIrqAcks
    <3>2. push.sig \in Nat
      BY DEF ConsoleInv, KeysTyped, Pushed
    <3>3. QED
      BY <1>2, <1>3, <3>1, <3>2
  <2>4. QED
    BY <2>1, <2>2, <2>3, TextStands
<1>6. CASE Registra \/ Recv \/ Drenar \/ Empuja
  <2>1. UNCHANGED <<shown, klog, lock, writer>>
    BY <1>6 DEF Registra, Recv, Drenar, Empuja, textVars
  <2>2. uart.desviar => uart'.desviar
    <3>1. uart \in Uarts
      BY DEF ConsoleInv, KeysTyped
    <3>2. QED
      BY <1>6, <3>1 DEF Registra, Recv, Drenar, Reconoce, Lee, Vacia, OtraVez, Empuja, Uarts
  <2>3. con'.text = con.text /\ con.pc \notin {"told", "wake", "show"} /\ con'.pc \notin {"told", "wake", "show"}
    <3>1. CASE Registra
      BY <1>1, <3>1 DEF Registra, Drivers
    <3>2. CASE Recv
      <4>1. PICK c, b : con' = [con EXCEPT !.irq = b, !.pc = c] /\ c \in {"icr", "saca", "recv"}
        <5>1. PICK c : c = CASE Head(mail) = "irq" -> "icr" [] Head(mail) = "klog" -> "saca"
                             [] OTHER -> "recv"
          OBVIOUS
        <5>2. c \in {"icr", "saca", "recv"}
          BY <5>1
        <5>3. con' = [con EXCEPT !.irq = Head(mail) = "irq", !.pc = c]
          BY <3>2, <5>1 DEF Recv
        <5>4. QED
          BY <5>2, <5>3
      <4>2. con.pc = "recv"
        BY <3>2 DEF Recv
      <4>3. QED
        BY <1>1, <4>1, <4>2 DEF Drivers
    <3>3. CASE Drenar
      <4>1. CASE Lee
        <5>1. con.pc = "read"
          BY <4>1 DEF Lee
        <5>2. \/ \E n : con' = [con EXCEPT !.sig = n]
              \/ \E b, c : con' = [con EXCEPT !.buf = b, !.any = TRUE, !.pc = c] /\ c \in {"push", "read"}
          <6>1. CASE Kind(Head(uart.fifo)) = "sig"
            BY <4>1, <6>1 DEF Lee
          <6>2. CASE Kind(Head(uart.fifo)) # "sig"
            <7>1. PICK c : c = IF Len(con.buf) + 1 = BufMax THEN "push" ELSE "read"
              OBVIOUS
            <7>2. c \in {"push", "read"}
              BY <7>1
            <7>3. con' = [con EXCEPT !.buf = Append(@, Head(uart.fifo)), !.any = TRUE, !.pc = c]
              BY <4>1, <6>2, <7>1 DEF Lee
            <7>4. QED
              BY <7>2, <7>3
          <6>3. QED
            BY <6>1, <6>2
        <5>3. QED
          BY <1>1, <5>1, <5>2 DEF Drivers
      <4>2. CASE (Reconoce /\ UNCHANGED ghost) \/ Vacia \/ OtraVez
        BY <1>1, <4>2 DEF Reconoce, Vacia, OtraVez, Drivers
      <4>3. QED
        BY <3>3, <4>1, <4>2 DEF Drenar
    <3>4. CASE Empuja
      BY <1>1, <3>4 DEF Empuja, Drivers
    <3>5. QED
      BY <1>6, <3>1, <3>2, <3>3, <3>4
  <2>4. QED
    BY <1>3, <2>1, <2>2, <2>3, TextStands
<1>7. CASE Senyala
  <2>1. /\ UNCHANGED <<shown, klog, lock, uart>>
        /\ con.pc = "sig" /\ con' = [con EXCEPT !.pc = "saca", !.sig = 0, !.any = FALSE]
        /\ UNCHANGED writer \/ Interrupt(con.sig)
    BY <1>7 DEF Senyala
  <2>2. con'.pc = "saca" /\ con'.text = con.text /\ con.sig \in Nat
    BY <1>1, <2>1 DEF Drivers
  <2>3. Stirred
    BY <1>2, <1>3, <2>1, <2>2
  <2>4. QED
    BY <2>1, <2>2, <2>3, TextStands
<1>8. CASE TecladoEntregar
  <2>1. UNCHANGED <<shown, klog, lock, con, uart>> /\ (UNCHANGED writer \/ Interrupt(1))
    BY <1>8 DEF TecladoEntregar
  <2>2. Stirred
    BY <1>2, <1>3, <2>1
  <2>3. QED
    BY <2>1, <2>2, TextStands
<1>9. QED
  BY <1>4, <1>5, <1>6, <1>7, <1>8

\* uart_push() and whoever speaks for the kernel put text of the kernel.
LEMMA KernelSpeaks == ASSUME ConsoleInv, TextInv, Push \/ KernelWrites PROVE TextInv'
<1>1. UNCHANGED <<shown, lock, con, uart, writer>>
  BY DEF Push, KernelWrites
<1>2. klog' = klog \/ \E n \in Nat : KernelText(n)
  <2>1. tty.n \in Nat /\ 3 * tty.n \in Nat
    BY Sizes DEF ConsoleInv, KeysTyped, Ttys
  <2>2. ASSUME NEW k, Disciplina(k) PROVE klog' = klog \/ \E n \in Nat : KernelText(n)
    BY <2>1, <2>2 DEF Disciplina
  <2>3. CASE Push
    <3>1. CASE PushKey
      BY <2>2, <3>1 DEF PushKey
    <3>2. CASE PushStore \/ PushWake \/ PushTell
      BY <3>2 DEF PushStore, PushWake, PushTell
    <3>3. QED
      BY <2>3, <3>1, <3>2 DEF Push
  <2>4. CASE KernelWrites
    BY <2>4 DEF KernelWrites
  <2>5. QED
    BY <2>3, <2>4
<1>3. Stirred
  BY <1>1 DEF Stirred
<1>4. QED
  BY <1>1, <1>2, <1>3, KernelTextStands

\* The driver takes text from the log and shows it.
LEMMA KlogText == ASSUME ConsoleInv, TextInv, VaciarKlog PROVE TextInv'
<1>1. /\ lock' = lock /\ con \in Drivers /\ uart \in Uarts /\ \A w \in Writers : writer[w] \in Pens
      /\ shown \in Seq(Piece) /\ con.text \in Seq(Piece) /\ klog \in Seq(Piece) /\ All \in Seq(Piece)
      /\ shown \o con.text \in Seq(Piece)
  BY AllIs DEF VaciarKlog, ConsoleInv, KeysTyped, TextTyped
<1>2. UNCHANGED writer => Stirred
  BY DEF Stirred
<1>3. PICK e \in Seq(Piece) : e = <<>>
  <2>1. <<>> \in Seq(Piece)
    OBVIOUS
  <2>2. QED
    BY <2>1
<1>4. Kernel(e) /\ All = All \o e /\ \A s \in Seq(Piece) : s \o e = s /\ e \o s = s
  BY <1>1, <1>3, ConcatEmptySeq DEF Kernel
<1>5. CASE Saca
  <2>1. con.pc = "saca" /\ con.text = e /\ UNCHANGED <<writer, shown, uart>>
    BY <1>3, <1>5 DEF Saca, TextInv
  <2>2. PICK n \in 0 .. Len(klog) :
          /\ con' = [con EXCEPT !.pc = "told", !.text = SubSeq(klog, 1, n), !.n = n,
                                !.empty = n = Len(klog)]
          /\ klog' = SubSeq(klog, n + 1, Len(klog))
    <3>1. PICK n : n = IF Len(klog) < Chunk THEN Len(klog) ELSE Chunk
      OBVIOUS
    <3>2. n \in 0 .. Len(klog)
      BY <1>1, <3>1, Sizes
    <3>3. QED
      BY <1>5, <3>1, <3>2 DEF Saca
  <2>4. con'.pc = "told" /\ con'.text = SubSeq(klog, 1, n)
    BY <1>1, <2>2 DEF Drivers
  <2>5. /\ SubSeq(klog, 1, n) \in Seq(Piece) /\ SubSeq(klog, n + 1, Len(klog)) \in Seq(Piece)
        /\ Len(SubSeq(klog, 1, n)) = n /\ Len(SubSeq(klog, n + 1, Len(klog))) = Len(klog) - n
        /\ \A i \in 1 .. n : SubSeq(klog, 1, n)[i] = klog[i]
        /\ \A i \in 1 .. Len(klog) - n : SubSeq(klog, n + 1, Len(klog))[i] = klog[i + n]
    <3>1. \A m \in 0 .. Len(klog) :
            /\ SubSeq(klog, 1, m) \in Seq(Piece) /\ SubSeq(klog, m + 1, Len(klog)) \in Seq(Piece)
            /\ Len(SubSeq(klog, 1, m)) = m /\ Len(SubSeq(klog, m + 1, Len(klog))) = Len(klog) - m
            /\ \A i \in 1 .. m : SubSeq(klog, 1, m)[i] = klog[i]
            /\ \A i \in 1 .. Len(klog) - m : SubSeq(klog, m + 1, Len(klog))[i] = klog[i + m]
      BY <1>1, PiecesOf
    <3>2. QED
      BY <3>1
  <2>6. SubSeq(klog, 1, n) \o SubSeq(klog, n + 1, Len(klog)) = klog
    <3>1. PICK k, a, b1 \in Seq(Piece) : k = klog /\ a = SubSeq(klog, 1, n) /\ b1 = SubSeq(klog, n + 1, Len(klog))
      BY <1>1, <2>5
    <3>2. /\ Len(a) = n /\ Len(b1) = Len(k) - n /\ n \in 0 .. Len(k)
          /\ \A i \in 1 .. n : a[i] = k[i]
          /\ \A i \in 1 .. Len(k) - n : b1[i] = k[i + n]
      BY <2>5, <3>1
    <3>3. /\ a \o b1 \in Seq(Piece) /\ Len(a \o b1) = Len(a) + Len(b1)
          /\ \A i \in 1 .. Len(a) + Len(b1) : (a \o b1)[i] = IF i <= Len(a) THEN a[i] ELSE b1[i - Len(a)]
      BY ConcatProperties
    <3>4. Len(a \o b1) = Len(k)
      BY <3>2, <3>3
    <3>5. ASSUME NEW i \in 1 .. Len(k) PROVE (a \o b1)[i] = k[i]
      <4>1. CASE i <= n
        BY <3>2, <3>3, <4>1
      <4>2. CASE ~(i <= n)
        <5>1. i - n \in 1 .. Len(k) - n /\ (i - n) + n = i
          BY <3>2, <4>2
        <5>2. (a \o b1)[i] = b1[i - n]
          BY <3>2, <3>3, <4>2
        <5>3. QED
          BY <3>2, <5>1, <5>2
      <4>3. QED
        BY <4>1, <4>2
    <3>6. a \o b1 = k
      BY <3>3, <3>4, <3>5, SeqEqual
    <3>7. QED
      BY <3>1, <3>6
  <2>7. All' = All \o e
    <3>1. \A a, b1, c \in Seq(Piece) : (a \o b1) \o c = a \o (b1 \o c)
      BY ConcatAssociative, SMTT(40)
    <3>2. (shown \o SubSeq(klog, 1, n)) \o SubSeq(klog, n + 1, Len(klog)) = shown \o klog
      <4>1. PICK a, b : a = SubSeq(klog, 1, n) /\ b = SubSeq(klog, n + 1, Len(klog))
        OBVIOUS
      <4>2. a \in Seq(Piece) /\ b \in Seq(Piece) /\ a \o b = klog
        BY <2>5, <2>6, <4>1
      <4>3. (shown \o a) \o b = shown \o (a \o b)
        <5>1. shown \in Seq(Piece)
          BY <1>1
        <5>2. QED
          BY <3>1, <4>2, <5>1, Zenon
      <4>4. QED
        BY <4>1, <4>2, <4>3
    <3>3. All = shown \o klog
      BY <1>1, <1>4, <2>1 DEF All
    <3>4. All' = (shown \o SubSeq(klog, 1, n)) \o SubSeq(klog, n + 1, Len(klog))
      BY <2>1, <2>2, <2>4 DEF All
    <3>5. QED
      BY <1>4, <3>2, <3>3, <3>4
  <2>8. Kernel(con.text) /\ Kernel(klog) => Kernel(con'.text) /\ Kernel(klog')
    <3>1. ASSUME Kernel(klog) PROVE Kernel(con'.text)
      BY <2>2, <2>4, <2>5, <3>1 DEF Kernel
    <3>2. ASSUME Kernel(klog), NEW i \in DOMAIN klog' PROVE klog'[i].by = Nobody
      <4>1. i \in 1 .. Len(klog) - n /\ klog'[i] = klog[i + n]
        BY <2>2, <2>5, <3>2
      <4>2. i + n \in DOMAIN klog
        BY <1>1, <2>2, <4>1
      <4>3. QED
        BY <3>2, <4>1, <4>2 DEF Kernel
    <3>3. QED
      BY <3>1, <3>2 DEF Kernel
  <2>9. QED
    BY <1>1, <1>2, <1>3, <1>4, <2>1, <2>4, <2>7, <2>8, TextGrows
<1>6. CASE Entrega
  <2>1. UNCHANGED <<writer, shown, klog, uart>> /\ con.pc = "told" /\ con' = [con EXCEPT !.pc = "wake"]
    BY <1>6 DEF Entrega
  <2>2. con'.pc = "wake" /\ con'.text = con.text
    BY <1>1, <2>1 DEF Drivers
  <2>3. QED
    BY <1>1, <1>2, <2>1, <2>2, TextStands
<1>7. CASE Despierta
  <2>1. /\ UNCHANGED <<shown, klog, uart>> /\ con.pc = "wake" /\ con' = [con EXCEPT !.pc = "show"]
        /\ writer' = [w \in Writers |->
             [writer[w] EXCEPT !.pc = IF @ = "asleep" /\ con.n > 0 THEN "put" ELSE @]]
    BY <1>7 DEF Despierta
  <2>2. con'.pc = "show" /\ con'.text = con.text
    BY <1>1, <2>1 DEF Drivers
  <2>3. Stirred
    <3>1. ASSUME NEW w \in Writers
          PROVE  /\ writer'[w].i = writer[w].i /\ writer'[w].torn = writer[w].torn
                 /\ \/ writer'[w].pc = writer[w].pc
                    \/ writer[w].pc = "asleep" /\ writer'[w].pc \in {"ret", "put"}
      <4>1. /\ writer[w] \in Pens
            /\ writer'[w] = [writer[w] EXCEPT !.pc = IF @ = "asleep" /\ con.n > 0 THEN "put" ELSE @]
        BY <1>1, <2>1
      <4>2. CASE writer[w].pc = "asleep" /\ con.n > 0
        <5>1. writer'[w] = [writer[w] EXCEPT !.pc = "put"]
          BY <4>1, <4>2
        <5>2. QED
          BY <4>1, <4>2, <5>1 DEF Pens
      <4>3. CASE ~(writer[w].pc = "asleep" /\ con.n > 0)
        <5>1. writer'[w] = [writer[w] EXCEPT !.pc = @]
          BY <4>1, <4>3
        <5>2. QED
          BY <4>1, <5>1 DEF Pens
      <4>4. QED
        BY <4>2, <4>3
    <3>2. QED
      BY <3>1 DEF Stirred
  <2>4. QED
    BY <1>1, <2>1, <2>2, <2>3, TextStands
<1>8. CASE Muestra
  <2>1. con.pc = "show" /\ shown' = shown \o con.text /\ UNCHANGED <<writer, uart>>
    BY <1>8 DEF Muestra
  <2>2. con'.text = e
    <3>1. PICK c : con' = [con EXCEPT !.text = e, !.n = 0, !.pc = c]
      BY <1>3, <1>8 DEF Muestra
    <3>2. QED
      BY <1>1, <3>1 DEF Drivers
  <2>3. PICK t \in Seq(Piece) : Kernel(t) /\ klog' = klog \o t
    <3>1. CASE klog = <<>> /\ perdidos
      <4>1. PICK l : l = <<[by |-> Nobody, i |-> 0]>>
        OBVIOUS
      <4>2. l \in Seq(Piece) /\ Kernel(l)
        BY <4>1 DEF Piece, Kernel
      <4>3. klog' = l /\ klog = e
        BY <1>3, <1>8, <3>1, <4>1 DEF Muestra
      <4>4. e \o l = l
        BY <1>4, <4>2
      <4>5. QED
        BY <4>2, <4>3, <4>4
    <3>2. CASE ~(klog = <<>> /\ perdidos)
      <4>1. klog' = klog
        BY <1>8, <3>2 DEF Muestra
      <4>2. QED
        BY <1>1, <1>4, <4>1
    <3>3. QED
      BY <3>1, <3>2
  <2>4. All' = All \o t
    <3>1. PICK h \in Seq(Piece) : h = shown \o con.text
      BY <1>1
    <3>2. \A a, b, c \in Seq(Piece) : (a \o b) \o c = a \o (b \o c)
      BY ConcatAssociative, SMTT(40)
    <3>3. (h \o klog) \o t = h \o (klog \o t) /\ h \o e = h
      BY <1>1, <1>4, <3>2
    <3>4. All' = (h \o e) \o (klog \o t)
      BY <2>1, <2>2, <2>3, <3>1 DEF All
    <3>5. QED
      BY <3>1, <3>3, <3>4 DEF All
  <2>5. Kernel(con.text) /\ Kernel(klog) => Kernel(con'.text) /\ Kernel(klog')
    <3>1. ASSUME Kernel(klog), NEW i \in DOMAIN klog' PROVE klog'[i].by = Nobody
      <4>1. /\ Len(klog \o t) = Len(klog) + Len(t) /\ klog \o t \in Seq(Piece)
            /\ \A x \in 1 .. Len(klog) + Len(t) :
                  (klog \o t)[x] = IF x <= Len(klog) THEN klog[x] ELSE t[x - Len(klog)]
        BY <1>1, ConcatProperties
      <4>2. i \in 1 .. Len(klog) + Len(t) /\ Len(klog) \in Nat /\ Len(t) \in Nat
        BY <1>1, <2>3, <3>1, <4>1
      <4>3. i <= Len(klog) => i \in DOMAIN klog
        BY <1>1, <4>2
      <4>4. ~(i <= Len(klog)) => i - Len(klog) \in DOMAIN t
        BY <4>2
      <4>5. QED
        BY <2>3, <3>1, <4>1, <4>2, <4>3, <4>4 DEF Kernel
    <3>2. QED
      BY <1>4, <2>2, <3>1 DEF Kernel
  <2>6. shown' \in Seq(Piece) /\ con'.text = <<>>
    BY <1>1, <1>3, <2>1, <2>2
  <2>7. QED
    BY <1>1, <1>2, <2>1, <2>3, <2>4, <2>5, <2>6, TextGrows
<1>9. CASE Ack
  <2>1. /\ UNCHANGED <<writer, shown, klog>> /\ con.pc = "ack" /\ con' = [con EXCEPT !.pc = "recv"]
        /\ uart' = [uart EXCEPT !.open = TRUE]
    BY <1>9 DEF Ack
  <2>2. con'.pc = "recv" /\ con'.text = con.text /\ uart'.desviar = uart.desviar
    BY <1>1, <2>1 DEF Drivers, Uarts
  <2>3. QED
    BY <1>1, <1>2, <2>1, <2>2, TextStands
<1>10. QED
  BY <1>5, <1>6, <1>7, <1>8, <1>9 DEF VaciarKlog

\* No step disturbs the text of the processes.
LEMMA TextSteps == ASSUME ConsoleInv, TextInv, [Next]_vars PROVE TextInv'
BY WriterText, QuietText, KernelSpeaks, KlogText DEF Next

\* What the processes write reaches the line in order, once, and with no call's
\* text inside another's, and whole but for a call that chose to write to the line
\* before the kernel gave it up and did so after (uart_escribir_texto(),
\* consola_write()).
THEOREM TextComesOutWhole == Spec => []TextIsKept
<1>1. Init => ConsoleInv /\ TextInv
  BY InitConsole, InitText
<1>2. ConsoleInv /\ TextInv /\ [Next]_vars => ConsoleInv' /\ TextInv'
  BY ConsoleSteps, TextSteps
<1>3. TextInv => TextIsKept
  BY DEF TextInv, TextIsKept, Kept, Of, All, Put
<1>4. QED
  BY <1>1, <1>2, <1>3, PTL DEF Spec

=============================================================================
