------------------------------- MODULE Memory -------------------------------
(***************************************************************************)
(* The memory of processes, src/vmm.c, src/pmm.c and the calls of          *)
(* src/sched.c that use them: frames with a count of users, translation    *)
(* tables, copy on write after a fork, pages that come when they are       *)
(* touched, exec, and the tables of the dead.                              *)
(*                                                                         *)
(* pmm.c works with its own lock: each of its calls is atomic and nothing  *)
(* else is.  The table of a process is only touched by its own core, or by *)
(* the reaper when it is dead, so what matters is where the count of a     *)
(* frame is read or moved.  The TLB may keep any translation that was ever *)
(* in the table until it is told to forget it; a space has a tag of its    *)
(* own (asid_alloc() has no lock: README).                                 *)
(* The tables themselves take no frames here: that they can run out is a   *)
(* vmm_map_in() that fails at any time.  Pages of registers and of DMA,    *)
(* which nobody counts, are not here.                                      *)
(***************************************************************************)
EXTENDS Naturals, FiniteSets

CONSTANTS Procs, First,      \* places of tasks[], and the first process
          Frames, NoFrame,   \* physical pages
          Pages,             \* virtual pages, in the order of the tables
          Image,             \* those of the program: the rest is heap, stack, mmap
          MaxRefs,           \* where the count of a frame stops, 255
          Values, Zero, File,
          Unmapped, Gone     \* see AddressSpaces

ASSUME MemoryAssumption ==
    /\ First \in Procs /\ IsFiniteSet(Procs)
    /\ NoFrame \notin Frames /\ IsFiniteSet(Frames)
    \* Nobody maps a frame twice: a fork holds the parent's table and the child's.
    /\ MaxRefs \in Nat /\ 2 * Cardinality(Procs) < MaxRefs
    /\ Pages \subseteq Nat /\ IsFiniteSet(Pages) /\ Image \subseteq Pages
    /\ {Zero, File} \subseteq Values /\ Unmapped \notin Values
    /\ Gone \notin [Pages -> Values \cup {Unmapped}]

VARIABLES
    refs,        \* bitmap and refs[] of pmm.c: 0 is free
    mem,         \* what each frame holds
    pgd,         \* the table of each process
    other,       \* the table it is building or destroying
    lost,        \* frames that nobody has and nobody gave back
    stale,       \* what the TLB may still believe and pgd no longer says
    at           \* where each process is

vars == <<refs, mem, pgd, other, lost, stale, at>>

Invalid == [pa |-> NoFrame, ap |-> "none"]
Entry   == {Invalid} \cup [pa : Frames, ap : {"RW", "RO", "COW"}]
Empty   == [va \in Pages |-> Invalid]
Mapped(t) == {va \in Pages : t[va] # Invalid}

Cached == [va : Pages, pa : Frames, w : BOOLEAN]

\* A page fault has a frame in its hands: new, and old while it has not
\* given it back.
At == [op : {"unused", "reserved", "user", "undo", "dead", "reap"}]
      \cup [op : {"fork"}, kid : Procs, left : SUBSET Pages]
      \cup [op : {"load"}, kid : Procs]
      \cup [op : {"cow", "copied"}, va : Pages, new : Frames, old : Frames]
      \cup [op : {"fetch"}, va : Pages, new : Frames]

Is(p, op) == at[p].op = op

TypeOK ==
    /\ refs \in [Frames -> 0 .. MaxRefs]
    /\ mem \in [Frames -> Values]
    /\ pgd \in [Procs -> [Pages -> Entry]]
    /\ other \in [Procs -> [Pages -> Entry]]
    /\ lost \in SUBSET Frames
    /\ stale \in [Procs -> SUBSET Cached]
    /\ at \in [Procs -> At]
    /\ \A p \in Procs : at[p].op \in {"unused", "reserved", "reap"} => pgd[p] = Empty
    /\ \A p \in Procs : at[p].op \notin {"fork", "load", "undo", "reap"} => other[p] = Empty

\* The first process has been loaded.
Init ==
    \E at0 \in [Image -> Frames] :
        /\ \A a, b \in Image : a # b => at0[a] # at0[b]
        /\ refs = [f \in Frames |-> IF \E va \in Image : at0[va] = f THEN 1 ELSE 0]
        /\ mem = [f \in Frames |-> IF \E va \in Image : at0[va] = f THEN File ELSE Zero]
        /\ pgd = [p \in Procs |-> [va \in Pages |->
                     IF p = First /\ va \in Image THEN [pa |-> at0[va], ap |-> "RW"] ELSE Invalid]]
        /\ other = [p \in Procs |-> Empty]
        /\ lost = {}
        /\ stale = [p \in Procs |-> {}]
        /\ at = [p \in Procs |-> [op |-> IF p = First THEN "user" ELSE "unused"]]
-----------------------------------------------------------------------------
Least(S) == CHOOSE n \in S : \A m \in S : n <= m

Go(p, where) == at' = [at EXCEPT ![p] = where]
User == [op |-> "user"]

\* pmm_alloc(): a frame with one user, full of zeros.
Alloc(f) == /\ refs[f] = 0
            /\ refs' = [refs EXCEPT ![f] = 1]

\* Mutant: the page of the child is not noted.
NoMore(n) == n

\* pmm_ref(): one user more, if there is room to count it.
OneMore(n) == IF n < MaxRefs THEN n + 1 ELSE n

\* pmm_free(): one user less.  What a free frame holds is forgotten here, since
\* it is cleared before it is given again.
UsersAfter(f) == refs[f] - 1

Release(f) ==
    /\ refs' = [refs EXCEPT ![f] = UsersAfter(f)]
    /\ mem' = IF UsersAfter(f) = 0 THEN [mem EXCEPT ![f] = Zero] ELSE mem

\* tlbi vaae1is and vae1is: this page is forgotten, of this process.  That
\* vaae1is does it for all of them changes nothing: the others keep theirs.
Forget(p, va) == [stale EXCEPT ![p] = {e \in @ : e.va # va}]

\* Mutant: the TLB is not told.
ForgetNothing(p) == stale

\* tlbi aside1is: everything of this process.
ForgetAll(p) == [stale EXCEPT ![p] = {}]

\* The table changes and the TLB is not told.
Stale(p, va) == [stale EXCEPT ![p] = @ \cup {[va |-> va, pa |-> pgd[p][va].pa,
                                              w |-> pgd[p][va].ap = "RW"]}]

\* The process writes, or the kernel in its name, where the table or the TLB
\* say that it may.
Write(p, va, v) ==
    /\ Is(p, "user")
    /\ \E f \in Frames : /\ \/ pgd[p][va] = [pa |-> f, ap |-> "RW"]
                            \/ [va |-> va, pa |-> f, w |-> TRUE] \in stale[p]
                         /\ mem' = [mem EXCEPT ![f] = v]
    /\ UNCHANGED <<refs, pgd, other, lost, stale, at>>
-----------------------------------------------------------------------------
\* sbrk that grows, a stack that does, a page of anonymous memory that is
\* touched: one frame with zeros.
Grow(p, va) ==
    /\ Is(p, "user") /\ va \notin Image /\ pgd[p][va] = Invalid
    /\ \E f \in Frames :
          /\ Alloc(f)
          /\ mem' = [mem EXCEPT ![f] = Zero]
          /\ pgd' = [pgd EXCEPT ![p][va] = [pa |-> f, ap |-> "RW"]]
    /\ stale' = Forget(p, va)
    /\ UNCHANGED <<other, lost, at>>

\* task_mmap_fault() on a page of a file: the frame is filled by the server,
\* and the process waits for it...
MmapFault(p, va) ==
    /\ Is(p, "user") /\ va \notin Image /\ pgd[p][va] = Invalid
    /\ \E f \in Frames :
          /\ Alloc(f)
          /\ mem' = [mem EXCEPT ![f] = Zero]
          /\ Go(p, [op |-> "fetch", va |-> va, new |-> f])
    /\ UNCHANGED <<pgd, other, lost, stale>>

\* ... and then it is mapped, only to be read...
MmapFilled(p) ==
    /\ Is(p, "fetch")
    /\ mem' = [mem EXCEPT ![at[p].new] = File]
    /\ pgd' = [pgd EXCEPT ![p][at[p].va] = [pa |-> at[p].new, ap |-> "RO"]]
    /\ stale' = Forget(p, at[p].va)
    /\ Go(p, User)
    /\ UNCHANGED <<refs, other, lost>>

\* ... or there is no answer, or no table to map it, and the process dies of it
\* unless it was the kernel who was copying.
MmapFails(p) ==
    /\ Is(p, "fetch")
    /\ Release(at[p].new)
    /\ \E op \in {"user", "dead"} : Go(p, [op |-> op])
    /\ UNCHANGED <<pgd, other, lost, stale>>

\* vmm_unmap_in(), for sbrk that shrinks and for munmap.
Unmap(p, va) ==
    /\ Is(p, "user") /\ va \notin Image /\ pgd[p][va] # Invalid
    /\ Release(pgd[p][va].pa)
    /\ pgd' = [pgd EXCEPT ![p][va] = Invalid]
    /\ stale' = Forget(p, va)
    /\ UNCHANGED <<other, lost, at>>
-----------------------------------------------------------------------------
\* vmm_cow_fault(): it is asked how many use the frame...
Shared(f) == refs[f] > 1

\* ... if nobody else does, it is given back to be written...
CowAlone(p, va) ==
    /\ Is(p, "user") /\ pgd[p][va].ap = "COW"
    /\ ~Shared(pgd[p][va].pa)
    /\ pgd' = [pgd EXCEPT ![p][va].ap = "RW"]
    /\ stale' = Forget(p, va)
    /\ UNCHANGED <<refs, mem, other, lost, at>>

\* ... and otherwise it takes a new one; if there is none it dies, as in Exit...
CowFault(p, va) ==
    /\ Is(p, "user") /\ pgd[p][va].ap = "COW"
    /\ Shared(pgd[p][va].pa)
    /\ \E f \in Frames :
          /\ Alloc(f)
          /\ mem' = [mem EXCEPT ![f] = Zero]
          /\ Go(p, [op |-> "cow", va |-> va, new |-> f, old |-> pgd[p][va].pa])
    /\ UNCHANGED <<pgd, other, lost, stale>>

\* ... which is copied and mapped without a lock...
CowCopy(p) ==
    /\ Is(p, "cow")
    /\ mem' = [mem EXCEPT ![at[p].new] = mem[at[p].old]]
    /\ pgd' = [pgd EXCEPT ![p][at[p].va] = [pa |-> at[p].new, ap |-> "RW"]]
    /\ stale' = Stale(p, at[p].va)
    /\ at' = [at EXCEPT ![p].op = "copied"]
    /\ UNCHANGED <<refs, other, lost>>

\* ... before the old one is let go.
CowDone(p) ==
    /\ Is(p, "copied")
    /\ Release(at[p].old)
    /\ stale' = Forget(p, at[p].va)
    /\ Go(p, User)
    /\ UNCHANGED <<pgd, other, lost>>
-----------------------------------------------------------------------------
\* If something fails, what there is is destroyed, and the place is free again.
GiveUp(p) ==
    at' = [x \in Procs |-> CASE x = p -> [op |-> "undo"]
                            [] x = at[p].kid /\ x # p -> [op |-> "unused"]
                            [] OTHER -> at[x]]

\* task_fork(): a slot, and vmm_fork() a page at a time.
Fork(p) ==
    /\ Is(p, "user")
    /\ \E q \in Procs :
          /\ Is(q, "unused")
          /\ at' = [at EXCEPT ![p] = [op |-> "fork", kid |-> q, left |-> Mapped(pgd[p])],
                              ![q] = [op |-> "reserved"]]
    /\ UNCHANGED <<refs, mem, pgd, other, lost, stale>>

\* Mutant: the parent keeps its permission to write.
SharedEntryLax(e) == e

\* What the parent is left with.
SharedEntry(e) == IF e.ap = "RW" THEN [e EXCEPT !.ap = "COW"] ELSE e

ForkPage(p) ==
    /\ Is(p, "fork") /\ at[p].left # {}
    /\ LET va == Least(at[p].left)
           e  == SharedEntry(pgd[p][va])
       IN  /\ pgd' = [pgd EXCEPT ![p][va] = e]
           /\ refs' = [refs EXCEPT ![e.pa] = OneMore(@)]
           /\ other' = [other EXCEPT ![p][va] = e]
           /\ stale' = IF e = pgd[p][va] THEN stale ELSE Stale(p, va)
           /\ at' = [at EXCEPT ![p].left = @ \ {va}]
    /\ UNCHANGED <<mem, lost>>

\* There was no room for a table when the page had been marked and noted, and is
\* given back: what the child has is destroyed, and the TLB of the parent is left
\* as it is.
ForkFails(p) ==
    /\ Is(p, "fork") /\ at[p].left # {}
    /\ LET va == Least(at[p].left)
           e  == SharedEntry(pgd[p][va])
       IN  /\ pgd' = [pgd EXCEPT ![p][va] = e]
           /\ stale' = IF e = pgd[p][va] THEN stale ELSE Stale(p, va)
    /\ GiveUp(p)
    /\ UNCHANGED <<refs, mem, other, lost>>

\* The child is born, or there was no stack for it.
Born(p) ==
    /\ Is(p, "fork") /\ at[p].left = {}
    /\ stale' = ForgetAll(p)
    /\ \/ /\ pgd' = [pgd EXCEPT ![at[p].kid] = other[p]]
          /\ other' = [other EXCEPT ![p] = Empty]
          /\ at' = [at EXCEPT ![p] = User, ![at[p].kid] = User]
       \/ /\ GiveUp(p)
          /\ UNCHANGED <<pgd, other>>
    /\ UNCHANGED <<refs, mem, lost>>
-----------------------------------------------------------------------------
\* task_exec(), and task_create_user() for a place that is free: the space of
\* the program is built a page at a time.  What it is read from is still there;
\* a page of it that has to be fetched is one that was fetched before.
Load(p) ==
    /\ Is(p, "user")
    /\ \E q \in Procs :
          /\ q = p \/ Is(q, "unused")
          /\ at' = [x \in Procs |-> CASE x = p -> [op |-> "load", kid |-> q]
                                      [] x = q /\ x # p -> [op |-> "reserved"]
                                      [] OTHER -> at[x]]
    /\ UNCHANGED <<refs, mem, pgd, other, lost, stale>>

Missing(p) == Image \ Mapped(other[p])

LoadPage(p) ==
    /\ Is(p, "load") /\ Missing(p) # {}
    /\ \E f \in Frames :
          /\ Alloc(f)
          /\ mem' = [mem EXCEPT ![f] = File]
          /\ other' = [other EXCEPT ![p][Least(Missing(p))] = [pa |-> f, ap |-> "RW"]]
    /\ UNCHANGED <<pgd, lost, stale, at>>

LoadFails(p) ==
    /\ Is(p, "load")
    /\ GiveUp(p)
    /\ UNCHANGED <<refs, mem, pgd, other, lost, stale>>

\* A file that ends too soon, or a page that could not be mapped: the frame that
\* was for it is in no table and is not given back.
LoadLosesPage(p) ==
    /\ Is(p, "load") /\ Missing(p) # {}
    /\ \E f \in Frames : Alloc(f) /\ lost' = lost \cup {f}
    /\ GiveUp(p)
    /\ UNCHANGED <<mem, pgd, other, stale>>

\* exec destroys the old space once the new one is active, with its own tag...
ExecSwitch(p) ==
    /\ Is(p, "load") /\ Missing(p) = {} /\ at[p].kid = p
    /\ pgd' = [pgd EXCEPT ![p] = other[p]]
    /\ other' = [other EXCEPT ![p] = pgd[p]]
    /\ stale' = ForgetAll(p)
    /\ Go(p, [op |-> "undo"])
    /\ UNCHANGED <<refs, mem, lost>>

\* ... and the space of a new process is its own.
Spawned(p) ==
    /\ Is(p, "load") /\ Missing(p) = {} /\ at[p].kid # p
    /\ pgd' = [pgd EXCEPT ![at[p].kid] = other[p]]
    /\ other' = [other EXCEPT ![p] = Empty]
    /\ at' = [at EXCEPT ![p] = User, ![at[p].kid] = User]
    /\ UNCHANGED <<refs, mem, lost, stale>>

Exit(p) ==
    /\ Is(p, "user")
    /\ Go(p, [op |-> "dead"])
    /\ UNCHANGED <<refs, mem, pgd, other, lost, stale>>

\* reap(): any of the dead, the parents are in Procs.  There is one reaper.
Reap(p) ==
    /\ Is(p, "dead") /\ \A q \in Procs : ~Is(q, "reap")
    /\ pgd' = [pgd EXCEPT ![p] = Empty]
    /\ other' = [other EXCEPT ![p] = pgd[p]]
    /\ stale' = ForgetAll(p)
    /\ Go(p, [op |-> "reap"])
    /\ UNCHANGED <<refs, mem, lost>>

\* vmm_destroy_pgd(), a page at a time.
DestroyPage(p) ==
    /\ at[p].op \in {"undo", "reap"} /\ Mapped(other[p]) # {}
    /\ LET va == Least(Mapped(other[p]))
       IN  /\ Release(other[p][va].pa)
           /\ other' = [other EXCEPT ![p][va] = Invalid]
    /\ UNCHANGED <<pgd, lost, stale, at>>

Destroyed(p) ==
    /\ at[p].op \in {"undo", "reap"} /\ Mapped(other[p]) = {}
    /\ Go(p, IF Is(p, "undo") THEN User ELSE [op |-> "unused"])
    /\ UNCHANGED <<refs, mem, pgd, other, lost, stale>>
-----------------------------------------------------------------------------
Next == \E p \in Procs :
            \/ MmapFilled(p) \/ MmapFails(p) \/ CowCopy(p) \/ CowDone(p)
            \/ Fork(p) \/ ForkPage(p) \/ ForkFails(p) \/ Born(p)
            \/ Load(p) \/ LoadPage(p) \/ LoadFails(p) \/ LoadLosesPage(p)
            \/ ExecSwitch(p) \/ Spawned(p)
            \/ Exit(p) \/ Reap(p) \/ DestroyPage(p) \/ Destroyed(p)
            \/ \E va \in Pages : \/ Grow(p, va) \/ MmapFault(p, va)
                                 \/ Unmap(p, va) \/ CowAlone(p, va) \/ CowFault(p, va)
                                 \/ \E v \in Values : Write(p, va, v)

Spec == Init /\ [][Next]_vars
-----------------------------------------------------------------------------
\* What uses a frame: an entry of a table, one of a table that is being built or
\* destroyed, and a page fault that has it in its hands.
Kinds == {"pgd", "other", "hand"}
Uses  == Kinds \X Procs \X Pages

UsedAt(kind, p, va) ==
    CASE kind = "pgd" -> pgd[p][va].pa
      [] kind = "other" -> other[p][va].pa
      [] kind = "hand" /\ at[p].op \in {"cow", "fetch"} /\ at[p].va = va -> at[p].new
      [] kind = "hand" /\ at[p].op = "copied" /\ at[p].va = va -> at[p].old
      [] OTHER -> NoFrame

UsesOf(f) == {u \in Uses : UsedAt(u[1], u[2], u[3]) = f}

\* A frame has as many users as its count says: it is free when, and only when,
\* nobody can reach it any more, but for those that a program which could not be
\* loaded has lost.
Users(f) == Cardinality(UsesOf(f)) + (IF f \in lost THEN 1 ELSE 0)

RefsAreUsers == \A f \in Frames : refs[f] = Users(f)

\* What the TLB still believes of a process that runs leads to the frame its
\* table says, and where it believes that it may write nobody else looks.
StaleIsHarmless ==
    \A p \in Procs : Is(p, "user") =>
        \A e \in stale[p] : /\ pgd[p][e.va].pa = e.pa
                            /\ e.w => refs[e.pa] = 1 /\ pgd[p][e.va].ap # "RO"

\* Each process has a memory of its own, through every way of sharing frames.
Lives(p) == at[p].op \notin {"unused", "reserved", "dead", "reap"}

Contents(p) ==
    IF Lives(p) THEN [va \in Pages |-> IF pgd[p][va] = Invalid THEN Unmapped
                                       ELSE mem[pgd[p][va].pa]]
    ELSE Gone

Space == INSTANCE AddressSpaces WITH space <- [p \in Procs |-> Contents(p)]

IsAddressSpaces == Space!Spec
=============================================================================
