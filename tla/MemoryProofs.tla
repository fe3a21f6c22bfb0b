---------------------------- MODULE MemoryProofs ----------------------------
(***************************************************************************)
(* Proofs about Memory.tla, for any number of processes, frames and pages: *)
(* the types, that the count of a frame is right, that what a late TLB     *)
(* believes is harmless, and that each process has a memory of its own.    *)
(***************************************************************************)
EXTENDS Memory, FiniteSetTheorems, TLAPS

\* Nobody else uses the frame of an entry that may be written, or one that a
\* page fault has taken and not yet mapped.
Private(kind, p, va) ==
    \/ kind = "pgd" /\ pgd[p][va].ap = "RW"
    \/ kind = "other" /\ other[p][va].ap = "RW"
    \/ kind = "hand" /\ at[p].op \in {"cow", "fetch"}

Same(k, p, va, j, q, vb) == k = j /\ p = q /\ va = vb

Exclusive ==
    \A k, j \in Kinds, p, q \in Procs, va, vb \in Pages :
        Private(k, p, va) /\ UsedAt(k, p, va) # NoFrame /\ UsedAt(j, q, vb) = UsedAt(k, p, va)
            => Same(k, p, va, j, q, vb)

\* A table has a frame in one place, so that it takes few users of it to count
\* them all.
OncePerTable ==
    \A k \in Kinds, p \in Procs, va, vb \in Pages :
        UsedAt(k, p, va) # NoFrame /\ UsedAt(k, p, va) = UsedAt(k, p, vb) => va = vb

LostAlone ==
    \A k \in Kinds, p \in Procs, va \in Pages : UsedAt(k, p, va) \notin lost

\* The place that is being filled belongs to one process.
Kids ==
    \A p \in Procs : at[p].op \in {"fork", "load"} =>
        /\ Is(at[p].kid, "reserved") \/ (Is(p, "load") /\ at[p].kid = p)
        /\ \A q \in Procs : at[q].op \in {"fork", "load"} /\ at[q].kid = at[p].kid => q = p

\* The child has what has been gone through of its parent.
Copied ==
    \A p \in Procs : Is(p, "fork") =>
        /\ at[p].left \subseteq Mapped(pgd[p])
        /\ \A va \in Pages : other[p][va] = IF va \in at[p].left THEN Invalid ELSE pgd[p][va]

\* The new program has pages of its file, each in a frame of its own.
Loaded ==
    \A p \in Procs, va \in Pages : Is(p, "load") /\ other[p][va] # Invalid =>
        va \in Image /\ other[p][va].ap = "RW" /\ mem[other[p][va].pa] = File

\* What a page fault found is still there.
Faults ==
    \A p \in Procs :
        /\ Is(p, "cow") => pgd[p][at[p].va] = [pa |-> at[p].old, ap |-> "COW"]
        /\ Is(p, "fetch") => pgd[p][at[p].va] = Invalid

\* The TLB believes of a page what the table says, but for the one that is being
\* copied; and where it believes that it may write, the frame is of that page,
\* or of its copy in the child that is being made or unmade.
BelievedOf(p, e) ==
    /\ pgd[p][e.va].pa = e.pa \/ (at[p].op = "copied" /\ at[p].va = e.va)
    /\ e.w => /\ pgd[p][e.va].ap # "RO"
              /\ at[p].op \in {"cow", "copied"} => at[p].va # e.va
              /\ \A k \in Kinds, q \in Procs, va \in Pages :
                    UsedAt(k, q, va) = e.pa => k # "hand" /\ q = p /\ va = e.va

Believed == \A p \in Procs : \A e \in stale[p] : BelievedOf(p, e)

Sharing == Exclusive /\ OncePerTable /\ LostAlone

MemInv ==
    /\ TypeOK /\ RefsAreUsers /\ Sharing
    /\ Kids /\ Copied /\ Loaded /\ Faults /\ Believed
-----------------------------------------------------------------------------
\* Tables are finite, so that what uses a frame can be counted.
LEMMA Finite == IsFiniteSet(Procs) /\ IsFiniteSet(Pages) /\ IsFiniteSet(Kinds) /\ IsFiniteSet(Uses)
<1>1. IsFiniteSet(Procs) /\ IsFiniteSet(Pages)
  BY MemoryAssumption
<1>2. IsFiniteSet(Kinds)
  <2>1. Kinds = (({} \cup {"pgd"}) \cup {"other"}) \cup {"hand"}
    BY DEF Kinds
  <2>2. IsFiniteSet({} \cup {"pgd"})
    BY FS_EmptySet, FS_AddElement
  <2>3. IsFiniteSet(({} \cup {"pgd"}) \cup {"other"})
    BY <2>2, FS_AddElement
  <2>4. QED
    BY <2>1, <2>3, FS_AddElement
<1>3. IsFiniteSet(Procs \X Pages) /\ IsFiniteSet(Kinds \X Procs)
  BY <1>1, <1>2, FS_Product
<1>4. IsFiniteSet((Kinds \X Procs) \X Pages)
  BY <1>1, <1>3, FS_Product
<1>5. IsFiniteSet(Uses)
  <2> DEFINE flat == [x \in (Kinds \X Procs) \X Pages |-> <<x[1][1], x[1][2], x[2]>>]
  <2>1. flat \in Surjection((Kinds \X Procs) \X Pages, Uses)
    <3>1. flat \in [(Kinds \X Procs) \X Pages -> Uses]
      BY DEF Uses
    <3>2. ASSUME NEW u \in Uses
          PROVE  \E x \in (Kinds \X Procs) \X Pages : flat[x] = u
      <4>1. <<<<u[1], u[2]>>, u[3]>> \in (Kinds \X Procs) \X Pages
        BY DEF Uses
      <4>2. flat[<<<<u[1], u[2]>>, u[3]>>] = u
        BY <4>1 DEF Uses
      <4>3. QED
        BY <4>1, <4>2
    <3>3. QED
      BY <3>1, <3>2 DEF Surjection
  <2>2. QED
    BY <1>4, <2>1, FS_Surjection
<1>6. QED
  BY <1>1, <1>2, <1>5

\* Who uses f, in this state and in the next one.
LEMMA UsesFacts ==
    ASSUME NEW f
    PROVE  /\ UsesOf(f) \in SUBSET Uses /\ IsFiniteSet(UsesOf(f))
           /\ Cardinality(UsesOf(f)) \in Nat
           /\ \A k \in Kinds, p \in Procs, va \in Pages :
                 <<k, p, va>> \in UsesOf(f) <=> UsedAt(k, p, va) = f
<1>1. UsesOf(f) \in SUBSET Uses
  BY DEF UsesOf
<1>2. IsFiniteSet(UsesOf(f))
  BY <1>1, Finite, FS_Subset
<1>3. Cardinality(UsesOf(f)) \in Nat
  BY <1>2, FS_CardinalityType
<1>4. ASSUME NEW k \in Kinds, NEW p \in Procs, NEW va \in Pages
      PROVE  <<k, p, va>> \in UsesOf(f) <=> UsedAt(k, p, va) = f
  <2>1. <<k, p, va>> \in Uses
    BY DEF Uses
  <2>2. QED
    BY <2>1 DEF UsesOf
<1>5. QED
  BY <1>1, <1>2, <1>3, <1>4

\* The same in the next state.
LEMMA UsesFactsNext ==
    ASSUME NEW f
    PROVE  /\ UsesOf(f)' \in SUBSET Uses /\ IsFiniteSet(UsesOf(f)')
           /\ Cardinality(UsesOf(f)') \in Nat
           /\ \A k \in Kinds, p \in Procs, va \in Pages :
                 <<k, p, va>> \in UsesOf(f)' <=> UsedAt(k, p, va)' = f
<1>1. UsesOf(f)' \in SUBSET Uses
  BY DEF UsesOf
<1>2. IsFiniteSet(UsesOf(f)')
  BY <1>1, Finite, FS_Subset
<1>3. Cardinality(UsesOf(f)') \in Nat
  BY <1>2, FS_CardinalityType
<1>4. ASSUME NEW k \in Kinds, NEW p \in Procs, NEW va \in Pages
      PROVE  <<k, p, va>> \in UsesOf(f)' <=> UsedAt(k, p, va)' = f
  <2>1. <<k, p, va>> \in Uses
    BY DEF Uses
  <2>2. QED
    BY <2>1 DEF UsesOf
<1>5. QED
  BY <1>1, <1>2, <1>3, <1>4

\* Two sets of uses are one if they have the same triples.
LEMMA SameUses ==
    ASSUME NEW S \in SUBSET Uses, NEW T \in SUBSET Uses,
           \A k \in Kinds, p \in Procs, va \in Pages : <<k, p, va>> \in S <=> <<k, p, va>> \in T
    PROVE  S = T
<1>1. ASSUME NEW u \in Uses PROVE u \in S <=> u \in T
  <2>1. PICK k \in Kinds, p \in Procs, va \in Pages : u = <<k, p, va>>
    BY DEF Uses
  <2>2. QED
    BY <2>1
<1>2. QED
  BY <1>1
-----------------------------------------------------------------------------
\* How a step can move what is used where: not at all, one use more, one less,
\* or two tables, or two entries, exchanged.
UseKept == \A k \in Kinds, p \in Procs, va \in Pages : UsedAt(k, p, va)' = UsedAt(k, p, va)

Elsewhere(k, p, va) ==
    \A j \in Kinds, q \in Procs, vb \in Pages :
        ~Same(j, q, vb, k, p, va) => UsedAt(j, q, vb)' = UsedAt(j, q, vb)

UseGained(k, p, va, f) ==
    UsedAt(k, p, va) = NoFrame /\ UsedAt(k, p, va)' = f /\ Elsewhere(k, p, va)

UseDropped(k, p, va, f) ==
    UsedAt(k, p, va) = f /\ UsedAt(k, p, va)' = NoFrame /\ Elsewhere(k, p, va)

\* Where what is used here was before.
Swap(k, p, j, q, V, u) ==
    IF u[1] = k /\ u[2] = p /\ u[3] \in V THEN <<j, q, u[3]>>
    ELSE IF u[1] = j /\ u[2] = q /\ u[3] \in V THEN <<k, p, u[3]>>
    ELSE u

OneOfBoth(i, r, va, k, p, j, q, V) == va \in V /\ ((i = k /\ r = p) \/ (i = j /\ r = q))

UseSwapped(k, p, j, q, V) ==
    /\ \A va \in V : /\ UsedAt(k, p, va)' = UsedAt(j, q, va)
                     /\ UsedAt(j, q, va)' = UsedAt(k, p, va)
    /\ \A i \in Kinds, r \in Procs, va \in Pages :
          UsedAt(i, r, va)' = UsedAt(i, r, va)
             \/ OneOfBoth(i, r, va, k, p, j, q, V)

\* Nothing moved: the same users.
LEMMA KeptCount == ASSUME UseKept, NEW f PROVE UsesOf(f)' = UsesOf(f)
<1>1. ASSUME NEW k \in Kinds, NEW p \in Procs, NEW va \in Pages
      PROVE  <<k, p, va>> \in UsesOf(f)' <=> <<k, p, va>> \in UsesOf(f)
  <2>1. UsedAt(k, p, va)' = UsedAt(k, p, va)
    BY DEF UseKept
  <2>2. QED
    BY <2>1, UsesFacts, UsesFactsNext
<1>2. QED
  BY <1>1, UsesFacts, UsesFactsNext, SameUses

\* One user more of f, and the other frames do not see it.
LEMMA GainedCount ==
    ASSUME NEW k \in Kinds, NEW p \in Procs, NEW va \in Pages, NEW f \in Frames,
           UseGained(k, p, va, f)
    PROVE  /\ Cardinality(UsesOf(f)') = Cardinality(UsesOf(f)) + 1
           /\ \A g \in Frames : g # f => UsesOf(g)' = UsesOf(g)
<1>1. f # NoFrame
  BY MemoryAssumption
<1>2. ASSUME NEW j \in Kinds, NEW q \in Procs, NEW vb \in Pages, NEW g \in Frames
      PROVE  <<j, q, vb>> \in UsesOf(g)' <=> \/ <<j, q, vb>> \in UsesOf(g)
                                             \/ g = f /\ <<j, q, vb>> = <<k, p, va>>
  <2>1. g # NoFrame
    BY MemoryAssumption
  <2>2. /\ <<j, q, vb>> \in UsesOf(g)' <=> UsedAt(j, q, vb)' = g
        /\ <<j, q, vb>> \in UsesOf(g) <=> UsedAt(j, q, vb) = g
    BY UsesFacts, UsesFactsNext
  <2>3. CASE Same(j, q, vb, k, p, va)
    BY <2>1, <2>2, <2>3 DEF Same, UseGained
  <2>4. CASE ~Same(j, q, vb, k, p, va)
    BY <2>2, <2>4 DEF Same, UseGained, Elsewhere
  <2>5. QED
    BY <2>3, <2>4
<1>3. <<k, p, va>> \notin UsesOf(f) /\ <<k, p, va>> \in Uses
  BY <1>1, UsesFacts DEF UseGained, Uses
<1>4. UsesOf(f)' = UsesOf(f) \cup {<<k, p, va>>}
  <2>1. UsesOf(f) \cup {<<k, p, va>>} \in SUBSET Uses
    BY <1>3, UsesFacts
  <2>2. QED
    BY <1>2, <2>1, UsesFactsNext, SameUses
<1>5. Cardinality(UsesOf(f)') = Cardinality(UsesOf(f)) + 1
  BY <1>3, <1>4, UsesFacts, FS_AddElement
<1>6. ASSUME NEW g \in Frames, g # f PROVE UsesOf(g)' = UsesOf(g)
  BY <1>2, <1>6, UsesFacts, UsesFactsNext, SameUses
<1>7. QED
  BY <1>5, <1>6

\* One user less.
LEMMA DroppedCount ==
    ASSUME NEW k \in Kinds, NEW p \in Procs, NEW va \in Pages, NEW f \in Frames,
           UseDropped(k, p, va, f)
    PROVE  /\ Cardinality(UsesOf(f)') = Cardinality(UsesOf(f)) - 1
           /\ \A g \in Frames : g # f => UsesOf(g)' = UsesOf(g)
<1>1. ASSUME NEW j \in Kinds, NEW q \in Procs, NEW vb \in Pages, NEW g \in Frames
      PROVE  <<j, q, vb>> \in UsesOf(g)' <=> /\ <<j, q, vb>> \in UsesOf(g)
                                             /\ ~(g = f /\ <<j, q, vb>> = <<k, p, va>>)
  <2>1. g # NoFrame
    BY MemoryAssumption
  <2>2. /\ <<j, q, vb>> \in UsesOf(g)' <=> UsedAt(j, q, vb)' = g
        /\ <<j, q, vb>> \in UsesOf(g) <=> UsedAt(j, q, vb) = g
    BY UsesFacts, UsesFactsNext
  <2>3. CASE Same(j, q, vb, k, p, va)
    BY <2>1, <2>2, <2>3 DEF Same, UseDropped
  <2>4. CASE ~Same(j, q, vb, k, p, va)
    BY <2>2, <2>4 DEF Same, UseDropped, Elsewhere
  <2>5. QED
    BY <2>3, <2>4
<1>2. <<k, p, va>> \in UsesOf(f)
  BY UsesFacts DEF UseDropped
<1>3. UsesOf(f)' = UsesOf(f) \ {<<k, p, va>>}
  <2> DEFINE rest == UsesOf(f) \ {<<k, p, va>>}
  <2>1. rest \in SUBSET Uses /\ UsesOf(f)' \in SUBSET Uses
    BY UsesFacts, UsesFactsNext
  <2>2. ASSUME NEW j \in Kinds, NEW q \in Procs, NEW vb \in Pages
        PROVE  <<j, q, vb>> \in UsesOf(f)' <=> <<j, q, vb>> \in rest
    BY <1>1
  <2> HIDE DEF rest
  <2>3. UsesOf(f)' = rest
    BY <2>1, <2>2, SameUses
  <2>4. QED
    BY <2>3 DEF rest
<1>4. Cardinality(UsesOf(f)') = Cardinality(UsesOf(f)) - 1
  <2>1. IsFiniteSet(UsesOf(f))
    BY UsesFacts
  <2>2. QED
    BY <1>2, <1>3, <2>1, FS_RemoveElement
<1>5. ASSUME NEW g \in Frames, g # f PROVE UsesOf(g)' = UsesOf(g)
  BY <1>1, <1>5, UsesFacts, UsesFactsNext, SameUses
<1>6. QED
  BY <1>4, <1>5

\* What moves from one table to another is used as often.
LEMMA SwappedCount ==
    ASSUME NEW k \in Kinds, NEW p \in Procs, NEW j \in Kinds, NEW q \in Procs,
           NEW V \in SUBSET Pages, UseSwapped(k, p, j, q, V), NEW f
    PROVE  Cardinality(UsesOf(f)') = Cardinality(UsesOf(f))
<1> DEFINE s(u) == Swap(k, p, j, q, V, u)
           g == [u \in UsesOf(f) |-> s(u)]
<1>1. ASSUME NEW u \in Uses
      PROVE  /\ s(u) \in Uses /\ s(s(u)) = u
             /\ u \in UsesOf(f) <=> s(u) \in UsesOf(f)'
  <2>1. PICK i \in Kinds, r \in Procs, va \in Pages : u = <<i, r, va>>
    BY DEF Uses
  <2>2. s(u) \in Uses /\ s(s(u)) = u
    BY <2>1 DEF Swap, Uses
  <2>3. PICK i2 \in Kinds, r2 \in Procs, va2 \in Pages : s(u) = <<i2, r2, va2>>
    BY <2>2 DEF Uses
  <2>4. UsedAt(i2, r2, va2)' = UsedAt(i, r, va)
    <3>1. CASE va \in V /\ i = k /\ r = p
      BY <2>1, <2>3, <3>1 DEF Swap, UseSwapped, OneOfBoth
    <3>2. CASE va \in V /\ i = j /\ r = q
      BY <2>1, <2>3, <3>2 DEF Swap, UseSwapped, OneOfBoth
    <3>3. CASE ~OneOfBoth(i, r, va, k, p, j, q, V)
      BY <2>1, <2>3, <3>3 DEF Swap, UseSwapped, OneOfBoth
    <3>4. QED
      BY <3>1, <3>2, <3>3 DEF OneOfBoth
  <2>5. QED
    BY <2>1, <2>2, <2>3, <2>4, UsesFacts, UsesFactsNext
<1> HIDE DEF s
<1>2. g \in Bijection(UsesOf(f), UsesOf(f)')
  <2>1. g \in [UsesOf(f) -> UsesOf(f)']
    BY <1>1, UsesFacts
  <2>2. ASSUME NEW u \in UsesOf(f), NEW v \in UsesOf(f), g[u] = g[v] PROVE u = v
    BY <1>1, <2>2, UsesFacts
  <2>3. ASSUME NEW w \in UsesOf(f)' PROVE \E u \in UsesOf(f) : g[u] = w
    <3>1. w \in Uses
      BY UsesFactsNext
    <3>2. s(w) \in Uses /\ s(s(w)) = w
      BY <1>1, <3>1
    <3>3. s(w) \in UsesOf(f)
      BY <1>1, <3>2
    <3>4. QED
      BY <3>2, <3>3
  <2>4. QED
    BY <2>1, <2>2, <2>3 DEF Bijection, Injection, Surjection, IsInjective
<1>3. QED
  BY <1>2, UsesFacts, FS_Bijection DEF ExistsBijection
-----------------------------------------------------------------------------
\* What an entry of a table can be.
LEMMA EntryFacts ==
    ASSUME NEW e \in Entry
    PROVE  /\ e.pa \in Frames \cup {NoFrame}
           /\ e.pa = NoFrame <=> e = Invalid
           /\ e.ap \in {"none", "RW", "RO", "COW"}
           /\ e.ap = "none" <=> e = Invalid
<1>1. CASE e = Invalid
  BY <1>1 DEF Invalid
<1>2. CASE e \in [pa : Frames, ap : {"RW", "RO", "COW"}]
  BY <1>2, MemoryAssumption DEF Invalid
<1>3. QED
  BY <1>1, <1>2 DEF Entry

\* The tables of a process.
LEMMA TableFacts ==
    ASSUME TypeOK, NEW p \in Procs
    PROVE  /\ pgd[p] \in [Pages -> Entry] /\ other[p] \in [Pages -> Entry]
           /\ \A va \in Pages :
                /\ pgd[p][va] \in Entry /\ other[p][va] \in Entry
                /\ pgd[p][va].pa \in Frames \cup {NoFrame}
                /\ other[p][va].pa \in Frames \cup {NoFrame}
                /\ pgd[p][va].pa = NoFrame <=> pgd[p][va] = Invalid
                /\ other[p][va].pa = NoFrame <=> other[p][va] = Invalid
                /\ pgd[p][va].ap = "none" <=> pgd[p][va] = Invalid
                /\ other[p][va].ap = "none" <=> other[p][va] = Invalid
                /\ pgd[p][va].ap \in {"none", "RW", "RO", "COW"}
                /\ other[p][va].ap \in {"none", "RW", "RO", "COW"}
<1>1. pgd[p] \in [Pages -> Entry] /\ other[p] \in [Pages -> Entry]
  BY DEF TypeOK
<1>2. \A va \in Pages : pgd[p][va] \in Entry /\ other[p][va] \in Entry
  BY <1>1
<1>3. QED
  BY <1>1, <1>2, EntryFacts

\* What a process is at.
LEMMA AtFacts ==
    ASSUME NEW a \in At
    PROVE  /\ a.op = "fork" => a = [op |-> "fork", kid |-> a.kid, left |-> a.left]
           /\ a.op = "load" => a = [op |-> "load", kid |-> a.kid]
           /\ a.op \in {"fork", "load"} => a.kid \in Procs
           /\ a.op = "fork" => a.left \in SUBSET Pages
           /\ a.op \in {"cow", "copied"} =>
                a = [op |-> a.op, va |-> a.va, new |-> a.new, old |-> a.old]
           /\ a.op = "fetch" => a = [op |-> "fetch", va |-> a.va, new |-> a.new]
           /\ a.op \in {"cow", "copied", "fetch"} => a.va \in Pages /\ a.new \in Frames
           /\ a.op \in {"cow", "copied"} => a.old \in Frames
           /\ a.op \in {"unused", "reserved", "user", "undo", "dead", "reap", "fork", "load",
                        "cow", "copied", "fetch"}
<1>1. CASE a \in [op : {"unused", "reserved", "user", "undo", "dead", "reap"}]
  BY <1>1
<1>2. CASE a \in [op : {"fork"}, kid : Procs, left : SUBSET Pages]
  BY <1>2
<1>3. CASE a \in [op : {"load"}, kid : Procs]
  BY <1>3
<1>4. CASE a \in [op : {"cow", "copied"}, va : Pages, new : Frames, old : Frames]
  BY <1>4
<1>5. CASE a \in [op : {"fetch"}, va : Pages, new : Frames]
  BY <1>5
<1>6. QED
  BY <1>1, <1>2, <1>3, <1>4, <1>5 DEF At

\* The same of the state.
LEMMA WhereFacts ==
    ASSUME TypeOK, NEW p \in Procs
    PROVE  /\ at[p] \in At
           /\ at[p].op \in {"fork", "load"} => at[p].kid \in Procs
           /\ at[p].op = "fork" => at[p].left \in SUBSET Pages
           /\ at[p].op \in {"cow", "copied", "fetch"} => at[p].va \in Pages /\ at[p].new \in Frames
           /\ at[p].op \in {"cow", "copied"} => at[p].old \in Frames
           /\ at[p].op \notin {"fork", "load", "undo", "reap"} => other[p] = Empty
           /\ at[p].op \in {"unused", "reserved", "reap"} => pgd[p] = Empty
<1>1. at[p] \in At
  BY DEF TypeOK
<1>2. QED
  BY <1>1, AtFacts DEF TypeOK

\* Where a process can be put.
LEMMA AtMembers ==
    /\ \A op \in {"unused", "reserved", "user", "undo", "dead", "reap"} : [op |-> op] \in At
    /\ User \in At /\ User.op = "user"
    /\ \A q \in Procs, S \in SUBSET Pages : [op |-> "fork", kid |-> q, left |-> S] \in At
    /\ \A q \in Procs : [op |-> "load", kid |-> q] \in At
    /\ \A va \in Pages, f, g \in Frames, op \in {"cow", "copied"} :
          [op |-> op, va |-> va, new |-> f, old |-> g] \in At
    /\ \A va \in Pages, f \in Frames : [op |-> "fetch", va |-> va, new |-> f] \in At
  BY DEF At, User

\* The first of some pages is one of them.
LEMMA LeastFacts == ASSUME NEW S \in SUBSET Pages, S # {} PROVE Least(S) \in S
<1>1. S \subseteq Nat
  BY MemoryAssumption
<1> DEFINE less == OpToRel(<, Nat)
<1>2. IsWellFoundedOn(less, Nat)
  BY NatLessThanWellFounded
<1>3. less = {ss \in Nat \X Nat : ss[1] < ss[2]}
  BY DEF OpToRel
<1> HIDE DEF less
<1>4. PICK n \in S : \A m \in S : ~(<<m, n>> \in less)
  BY <1>1, <1>2, WFMin
<1>5. \A m \in S : n <= m
  <2> SUFFICES ASSUME NEW m \in S PROVE n <= m
    OBVIOUS
  <2>1. <<m, n>> \in Nat \X Nat /\ ~(m < n)
    BY <1>1, <1>3, <1>4
  <2>2. QED
    BY <1>1, <2>1
<1>6. QED
  BY <1>5 DEF Least

\* What is used where, one kind at a time.
LEMMA UsedFacts ==
    ASSUME TypeOK, NEW p \in Procs, NEW va \in Pages
    PROVE  /\ UsedAt("pgd", p, va) = pgd[p][va].pa
           /\ UsedAt("other", p, va) = other[p][va].pa
           /\ \A k \in Kinds : UsedAt(k, p, va) \in Frames \cup {NoFrame}
           /\ UsedAt("hand", p, va) # NoFrame =>
                at[p].op \in {"cow", "fetch", "copied"} /\ at[p].va = va
<1>1. UsedAt("pgd", p, va) = pgd[p][va].pa /\ UsedAt("other", p, va) = other[p][va].pa
  BY DEF UsedAt
<1>2. /\ UsedAt("hand", p, va) \in Frames \cup {NoFrame}
      /\ UsedAt("hand", p, va) # NoFrame =>
           at[p].op \in {"cow", "fetch", "copied"} /\ at[p].va = va
  BY WhereFacts DEF UsedAt
<1>3. QED
  BY <1>1, <1>2, TableFacts DEF Kinds
-----------------------------------------------------------------------------
\* Nobody but this use has the frame.
Alone(k, p, va) ==
    \A j \in Kinds, q \in Procs, vb \in Pages :
        UsedAt(j, q, vb) = UsedAt(k, p, va) => Same(k, p, va, j, q, vb)

\* What is used is counted; what is not counted nobody uses; and what is counted
\* once is used in one place.
LEMMA CountFacts ==
    ASSUME TypeOK, RefsAreUsers, NEW f \in Frames
    PROVE  /\ \A k \in Kinds, p \in Procs, va \in Pages :
                UsedAt(k, p, va) = f => refs[f] >= 1
           /\ refs[f] = 0 =>
                f \notin lost /\ \A k \in Kinds, p \in Procs, va \in Pages : UsedAt(k, p, va) # f
           /\ \A k \in Kinds, p \in Procs, va \in Pages :
                UsedAt(k, p, va) = f /\ refs[f] = 1 => Alone(k, p, va) /\ f \notin lost
<1>1. /\ refs[f] \in Nat /\ refs[f] = Cardinality(UsesOf(f)) + (IF f \in lost THEN 1 ELSE 0)
      /\ IsFiniteSet(UsesOf(f)) /\ Cardinality(UsesOf(f)) \in Nat
  BY UsesFacts DEF TypeOK, RefsAreUsers, Users
<1>2. Cardinality(UsesOf(f)) = 0 <=> UsesOf(f) = {}
  BY <1>1, FS_EmptySet
<1>3. ASSUME NEW k \in Kinds, NEW p \in Procs, NEW va \in Pages, UsedAt(k, p, va) = f
      PROVE  refs[f] >= 1
  <2>1. <<k, p, va>> \in UsesOf(f)
    BY <1>3, UsesFacts
  <2>2. QED
    BY <1>1, <1>2, <2>1
<1>4. ASSUME refs[f] = 0 PROVE f \notin lost
  BY <1>1, <1>4
<1>5. ASSUME NEW k \in Kinds, NEW p \in Procs, NEW va \in Pages,
             UsedAt(k, p, va) = f, refs[f] = 1
      PROVE  Alone(k, p, va) /\ f \notin lost
  <2>1. <<k, p, va>> \in UsesOf(f)
    BY <1>5, UsesFacts
  <2>2. Cardinality(UsesOf(f)) = 1 /\ f \notin lost
    BY <1>1, <1>2, <1>5, <2>1
  <2>3. PICK u : UsesOf(f) = {u}
    BY <1>1, <2>2, FS_Singleton
  <2>4. ASSUME NEW j \in Kinds, NEW q \in Procs, NEW vb \in Pages, UsedAt(j, q, vb) = f
        PROVE  Same(k, p, va, j, q, vb)
    <3>1. <<j, q, vb>> \in UsesOf(f)
      BY <2>4, UsesFacts
    <3>2. <<j, q, vb>> = <<k, p, va>>
      BY <2>1, <2>3, <3>1
    <3>3. QED
      BY <3>2 DEF Same
  <2>5. QED
    BY <1>5, <2>2, <2>4 DEF Alone
<1>6. QED
  BY <1>3, <1>4, <1>5

\* The counts follow each way of moving what is used.
LEMMA RefsKept ==
    ASSUME RefsAreUsers, UseKept, refs' = refs, lost' = lost
    PROVE  RefsAreUsers'
<1> SUFFICES ASSUME NEW f \in Frames PROVE refs'[f] = Users(f)'
  BY DEF RefsAreUsers
<1>1. UsesOf(f)' = UsesOf(f)
  BY KeptCount
<1>2. QED
  BY <1>1 DEF RefsAreUsers, Users

\* pmm.c is not called: what some frames were used for has changed hands.
LEMMA RefsSwapped ==
    ASSUME RefsAreUsers, NEW k \in Kinds, NEW p \in Procs, NEW j \in Kinds, NEW q \in Procs,
           NEW V \in SUBSET Pages, UseSwapped(k, p, j, q, V), refs' = refs, lost' = lost
    PROVE  RefsAreUsers'
<1> SUFFICES ASSUME NEW f \in Frames PROVE refs'[f] = Users(f)'
  BY DEF RefsAreUsers
<1>1. Cardinality(UsesOf(f)') = Cardinality(UsesOf(f))
  BY SwappedCount
<1>2. QED
  BY <1>1 DEF RefsAreUsers, Users

\* pmm_ref() and pmm_alloc(): one use more, and one more counted.
LEMMA RefsGained ==
    ASSUME TypeOK, RefsAreUsers, NEW k \in Kinds, NEW p \in Procs, NEW va \in Pages, NEW f \in Frames,
           UseGained(k, p, va, f), refs' = [refs EXCEPT ![f] = refs[f] + 1], lost' = lost
    PROVE  RefsAreUsers'
<1> SUFFICES ASSUME NEW g \in Frames PROVE refs'[g] = Users(g)'
  BY DEF RefsAreUsers
<1>1. /\ refs[g] = Users(g) /\ refs'[g] = IF g = f THEN refs[f] + 1 ELSE refs[g]
      /\ Cardinality(UsesOf(g)) \in Nat
  BY UsesFacts DEF RefsAreUsers, TypeOK
<1>2. CASE g = f
  <2>1. Cardinality(UsesOf(f)') = Cardinality(UsesOf(f)) + 1
    BY GainedCount
  <2>2. QED
    BY <1>1, <1>2, <2>1 DEF Users
<1>3. CASE g # f
  <2>1. UsesOf(g)' = UsesOf(g)
    BY <1>3, GainedCount
  <2>2. QED
    BY <1>1, <1>3, <2>1 DEF Users
<1>4. QED
  BY <1>2, <1>3

\* pmm_free(): one use less, and one less counted.
LEMMA RefsDropped ==
    ASSUME TypeOK, RefsAreUsers, NEW k \in Kinds, NEW p \in Procs, NEW va \in Pages, NEW f \in Frames,
           UseDropped(k, p, va, f), refs' = [refs EXCEPT ![f] = refs[f] - 1], lost' = lost
    PROVE  RefsAreUsers'
<1> SUFFICES ASSUME NEW g \in Frames PROVE refs'[g] = Users(g)'
  BY DEF RefsAreUsers
<1>1. /\ refs[g] = Users(g) /\ refs'[g] = IF g = f THEN refs[f] - 1 ELSE refs[g]
      /\ Cardinality(UsesOf(g)) \in Nat
  BY UsesFacts DEF RefsAreUsers, TypeOK
<1>2. CASE g = f
  <2>1. Cardinality(UsesOf(f)') = Cardinality(UsesOf(f)) - 1
    BY DroppedCount
  <2>2. QED
    BY <1>1, <1>2, <2>1 DEF Users
<1>3. CASE g # f
  <2>1. UsesOf(g)' = UsesOf(g)
    BY <1>3, DroppedCount
  <2>2. QED
    BY <1>1, <1>3, <2>1 DEF Users
<1>4. QED
  BY <1>2, <1>3
-----------------------------------------------------------------------------
\* Who shares a frame with whom, after each way of moving what is used.
Used(k, p, va) == UsedAt(k, p, va) # NoFrame

\* Nothing moves, and whoever may write now is alone.
LEMMA SharingKept ==
    ASSUME Sharing, UseKept,
           lost' \ lost \subseteq {f \in Frames : \A k \in Kinds, p \in Procs, va \in Pages :
                                                      UsedAt(k, p, va) # f},
           \A k \in Kinds, p \in Procs, va \in Pages :
               Used(k, p, va) /\ Private(k, p, va)' => Private(k, p, va) \/ Alone(k, p, va)
    PROVE  Sharing'
<1>1. Exclusive'
  <2> SUFFICES ASSUME NEW k \in Kinds, NEW j \in Kinds, NEW p \in Procs, NEW q \in Procs,
                      NEW va \in Pages, NEW vb \in Pages, Private(k, p, va)',
                      UsedAt(k, p, va)' # NoFrame, UsedAt(j, q, vb)' = UsedAt(k, p, va)'
               PROVE  Same(k, p, va, j, q, vb)
    BY DEF Exclusive, Same
  <2>1. UsedAt(k, p, va)' = UsedAt(k, p, va) /\ UsedAt(j, q, vb)' = UsedAt(j, q, vb)
    BY DEF UseKept
  <2>2. Private(k, p, va) \/ Alone(k, p, va)
    BY <2>1 DEF Used
  <2>3. CASE Private(k, p, va)
    BY <2>1, <2>3 DEF Sharing, Exclusive
  <2>4. CASE Alone(k, p, va)
    BY <2>1, <2>4 DEF Alone
  <2>5. QED
    BY <2>2, <2>3, <2>4
<1>2. OncePerTable'
  BY DEF Sharing, OncePerTable, UseKept
<1>3. LostAlone'
  BY DEF Sharing, LostAlone, UseKept
<1>4. QED
  BY <1>1, <1>2, <1>3 DEF Sharing

\* A frame has a use more: whoever had it may not write, nor may the new one
\* unless it was free.
LEMMA SharingGained ==
    ASSUME Sharing, NEW k \in Kinds, NEW p \in Procs, NEW va \in Pages, NEW f \in Frames,
           UseGained(k, p, va, f), lost' = lost, f \notin lost,
           \A vb \in Pages : UsedAt(k, p, vb) # f,
           \A j \in Kinds, q \in Procs, vb \in Pages :
               Used(j, q, vb) /\ Private(j, q, vb)' /\ ~Same(j, q, vb, k, p, va)
                   => Private(j, q, vb) /\ UsedAt(j, q, vb) # f,
           Private(k, p, va)' =>
               \A j \in Kinds, q \in Procs, vb \in Pages : UsedAt(j, q, vb) # f
    PROVE  Sharing'
<1>1. Exclusive'
  <2> SUFFICES ASSUME NEW i \in Kinds, NEW j \in Kinds, NEW r \in Procs, NEW q \in Procs,
                      NEW vc \in Pages, NEW vb \in Pages, Private(i, r, vc)',
                      UsedAt(i, r, vc)' # NoFrame, UsedAt(j, q, vb)' = UsedAt(i, r, vc)',
                      ~Same(i, r, vc, j, q, vb)
               PROVE  FALSE
    BY DEF Exclusive, Same
  <2>1. CASE Same(i, r, vc, k, p, va)
    <3>1. ~Same(j, q, vb, k, p, va)
      BY <2>1 DEF Same
    <3>2. UsedAt(j, q, vb)' = UsedAt(j, q, vb)
      BY <3>1 DEF UseGained, Elsewhere
    <3>3. UsedAt(j, q, vb) = f /\ Private(k, p, va)'
      BY <2>1, <3>2 DEF Same, UseGained
    <3>4. QED
      BY <3>3
  <2>2. CASE ~Same(i, r, vc, k, p, va)
    <3>1. UsedAt(i, r, vc)' = UsedAt(i, r, vc)
      BY <2>2 DEF UseGained, Elsewhere
    <3>2. Private(i, r, vc) /\ UsedAt(i, r, vc) # f
      BY <2>2, <3>1 DEF Used
    <3>3. CASE Same(j, q, vb, k, p, va)
      BY <3>1, <3>2, <3>3 DEF Same, UseGained
    <3>4. CASE ~Same(j, q, vb, k, p, va)
      <4>1. UsedAt(j, q, vb)' = UsedAt(j, q, vb)
        BY <3>4 DEF UseGained, Elsewhere
      <4>2. QED
        BY <3>1, <3>2, <4>1 DEF Sharing, Exclusive
    <3>5. QED
      BY <3>3, <3>4
  <2>3. QED
    BY <2>1, <2>2
<1>2. ASSUME NEW j \in Kinds, NEW q \in Procs, NEW vb \in Pages
      PROVE  UsedAt(j, q, vb)' = IF Same(j, q, vb, k, p, va) THEN f ELSE UsedAt(j, q, vb)
  BY DEF UseGained, Elsewhere, Same
<1>3. OncePerTable'
  <2> SUFFICES ASSUME NEW j \in Kinds, NEW q \in Procs, NEW vb \in Pages, NEW vc \in Pages,
                      UsedAt(j, q, vb)' # NoFrame, UsedAt(j, q, vb)' = UsedAt(j, q, vc)', vb # vc
               PROVE  FALSE
    BY DEF OncePerTable
  <2>1. CASE Same(j, q, vb, k, p, va) \/ Same(j, q, vc, k, p, va)
    BY <1>2, <2>1 DEF Same
  <2>2. CASE ~Same(j, q, vb, k, p, va) /\ ~Same(j, q, vc, k, p, va)
    BY <1>2, <2>2 DEF Sharing, OncePerTable
  <2>3. QED
    BY <2>1, <2>2
<1>4. LostAlone'
  BY <1>2 DEF Sharing, LostAlone
<1>5. QED
  BY <1>1, <1>3, <1>4 DEF Sharing

\* A frame has a use less.
LEMMA SharingDropped ==
    ASSUME Sharing, NEW k \in Kinds, NEW p \in Procs, NEW va \in Pages, NEW f \in Frames,
           UseDropped(k, p, va, f), lost' = lost, NoFrame \notin lost,
           \A j \in Kinds, q \in Procs, vb \in Pages :
               Used(j, q, vb) /\ Private(j, q, vb)' /\ ~Same(j, q, vb, k, p, va)
                   => Private(j, q, vb)
    PROVE  Sharing'
<1>1. ASSUME NEW j \in Kinds, NEW q \in Procs, NEW vb \in Pages
      PROVE  UsedAt(j, q, vb)' = IF Same(j, q, vb, k, p, va) THEN NoFrame ELSE UsedAt(j, q, vb)
  BY DEF UseDropped, Elsewhere, Same
<1>2. Exclusive'
  <2> SUFFICES ASSUME NEW i \in Kinds, NEW j \in Kinds, NEW r \in Procs, NEW q \in Procs,
                      NEW vc \in Pages, NEW vb \in Pages, Private(i, r, vc)',
                      UsedAt(i, r, vc)' # NoFrame, UsedAt(j, q, vb)' = UsedAt(i, r, vc)'
               PROVE  Same(i, r, vc, j, q, vb)
    BY DEF Exclusive, Same
  <2>1. ~Same(i, r, vc, k, p, va) /\ ~Same(j, q, vb, k, p, va)
    BY <1>1
  <2>2. UsedAt(i, r, vc)' = UsedAt(i, r, vc) /\ UsedAt(j, q, vb)' = UsedAt(j, q, vb)
    BY <1>1, <2>1
  <2>3. Private(i, r, vc)
    BY <2>1, <2>2 DEF Used
  <2>4. QED
    BY <2>2, <2>3 DEF Sharing, Exclusive
<1>3. OncePerTable'
  <2> SUFFICES ASSUME NEW j \in Kinds, NEW q \in Procs, NEW vb \in Pages, NEW vc \in Pages,
                      UsedAt(j, q, vb)' # NoFrame, UsedAt(j, q, vb)' = UsedAt(j, q, vc)'
               PROVE  vb = vc
    BY DEF OncePerTable
  <2>1. UsedAt(j, q, vb)' = UsedAt(j, q, vb) /\ UsedAt(j, q, vc)' = UsedAt(j, q, vc)
    BY <1>1
  <2>2. QED
    BY <2>1 DEF Sharing, OncePerTable
<1>4. LostAlone'
  BY <1>1 DEF Sharing, LostAlone
<1>5. QED
  BY <1>2, <1>3, <1>4 DEF Sharing

\* Two tables, or an entry of each, are exchanged, with what may be done there.
LEMMA SharingSwapped ==
    ASSUME Sharing, NEW k \in Kinds, NEW p \in Procs, NEW j \in Kinds, NEW q \in Procs,
           NEW V \in SUBSET Pages, UseSwapped(k, p, j, q, V), lost' = lost,
           \A va \in V :
               /\ Used(j, q, va) /\ Private(k, p, va)' => Private(j, q, va)
               /\ Used(k, p, va) /\ Private(j, q, va)' => Private(k, p, va)
               /\ \A vb \in Pages \ V :
                     /\ Used(j, q, va) => UsedAt(j, q, va) # UsedAt(k, p, vb)
                     /\ Used(k, p, va) => UsedAt(k, p, va) # UsedAt(j, q, vb),
           \A i \in Kinds, r \in Procs, va \in Pages :
               Used(i, r, va) /\ Private(i, r, va)'
                   => Private(i, r, va) \/ OneOfBoth(i, r, va, k, p, j, q, V)
    PROVE  Sharing'
<1>1. ASSUME NEW i \in Kinds, NEW r \in Procs, NEW vc \in Pages
      PROVE  \E i2 \in Kinds, r2 \in Procs :
               /\ UsedAt(i, r, vc)' = UsedAt(i2, r2, vc)
               /\ Used(i2, r2, vc) /\ Private(i, r, vc)' => Private(i2, r2, vc)
               /\ \/ vc \in V /\ i = k /\ r = p /\ i2 = j /\ r2 = q
                  \/ vc \in V /\ i = j /\ r = q /\ i2 = k /\ r2 = p
                  \/ ~OneOfBoth(i, r, vc, k, p, j, q, V) /\ i2 = i /\ r2 = r
  <2>1. CASE vc \in V /\ i = k /\ r = p
    BY <2>1 DEF UseSwapped, OneOfBoth
  <2>2. CASE vc \in V /\ i = j /\ r = q
    BY <2>2 DEF UseSwapped, OneOfBoth
  <2>3. CASE ~OneOfBoth(i, r, vc, k, p, j, q, V)
    BY <2>3 DEF UseSwapped
  <2>4. QED
    BY <2>1, <2>2, <2>3 DEF OneOfBoth
<1>2. Exclusive'
  <2> SUFFICES ASSUME NEW i \in Kinds, NEW m \in Kinds, NEW r \in Procs, NEW s \in Procs,
                      NEW vc \in Pages, NEW vb \in Pages, Private(i, r, vc)',
                      UsedAt(i, r, vc)' # NoFrame, UsedAt(m, s, vb)' = UsedAt(i, r, vc)'
               PROVE  Same(i, r, vc, m, s, vb)
    BY DEF Exclusive, Same
  <2>1. PICK i2 \in Kinds, r2 \in Procs :
               /\ UsedAt(i, r, vc)' = UsedAt(i2, r2, vc)
               /\ Used(i2, r2, vc) /\ Private(i, r, vc)' => Private(i2, r2, vc)
               /\ \/ vc \in V /\ i = k /\ r = p /\ i2 = j /\ r2 = q
                  \/ vc \in V /\ i = j /\ r = q /\ i2 = k /\ r2 = p
                  \/ ~OneOfBoth(i, r, vc, k, p, j, q, V) /\ i2 = i /\ r2 = r
    BY <1>1
  <2>2. PICK m2 \in Kinds, s2 \in Procs :
               /\ UsedAt(m, s, vb)' = UsedAt(m2, s2, vb)
               /\ \/ vb \in V /\ m = k /\ s = p /\ m2 = j /\ s2 = q
                  \/ vb \in V /\ m = j /\ s = q /\ m2 = k /\ s2 = p
                  \/ ~OneOfBoth(m, s, vb, k, p, j, q, V) /\ m2 = m /\ s2 = s
    BY <1>1
  <2>3. Private(i2, r2, vc) /\ UsedAt(m2, s2, vb) = UsedAt(i2, r2, vc) /\ UsedAt(i2, r2, vc) # NoFrame
    BY <2>1, <2>2 DEF Used
  <2>4. i2 = m2 /\ r2 = s2 /\ vc = vb
    BY <2>3 DEF Sharing, Exclusive, Same
  <2>5. i = m /\ r = s
    BY <2>1, <2>2, <2>4 DEF OneOfBoth
  <2>6. QED
    BY <2>4, <2>5 DEF Same
<1>3. OncePerTable'
  <2> SUFFICES ASSUME NEW i \in Kinds, NEW r \in Procs, NEW vb \in Pages, NEW vc \in Pages,
                      UsedAt(i, r, vc)' # NoFrame, UsedAt(i, r, vc)' = UsedAt(i, r, vb)'
               PROVE  vb = vc
    BY DEF OncePerTable
  <2>1. PICK i2 \in Kinds, r2 \in Procs :
               /\ UsedAt(i, r, vc)' = UsedAt(i2, r2, vc)
               /\ \/ vc \in V /\ i = k /\ r = p /\ i2 = j /\ r2 = q
                  \/ vc \in V /\ i = j /\ r = q /\ i2 = k /\ r2 = p
                  \/ ~OneOfBoth(i, r, vc, k, p, j, q, V) /\ i2 = i /\ r2 = r
    BY <1>1
  <2>2. PICK m2 \in Kinds, s2 \in Procs :
               /\ UsedAt(i, r, vb)' = UsedAt(m2, s2, vb)
               /\ \/ vb \in V /\ i = k /\ r = p /\ m2 = j /\ s2 = q
                  \/ vb \in V /\ i = j /\ r = q /\ m2 = k /\ s2 = p
                  \/ ~OneOfBoth(i, r, vb, k, p, j, q, V) /\ m2 = i /\ s2 = r
    BY <1>1
  <2>3. CASE i2 = m2 /\ r2 = s2
    BY <2>1, <2>2, <2>3 DEF Sharing, OncePerTable, OneOfBoth
  <2>4. CASE ~(i2 = m2 /\ r2 = s2)
    BY <2>1, <2>2, <2>4 DEF Used, OneOfBoth
  <2>5. QED
    BY <2>3, <2>4
<1>4. LostAlone'
  <2> SUFFICES ASSUME NEW i \in Kinds, NEW r \in Procs, NEW vc \in Pages
               PROVE  UsedAt(i, r, vc)' \notin lost
    BY DEF LostAlone
  <2>1. QED
    BY <1>1 DEF Sharing, LostAlone
<1>5. QED
  BY <1>2, <1>3, <1>4 DEF Sharing
-----------------------------------------------------------------------------
\* One entry of one table changes.
LEMMA EntrySet ==
    ASSUME NEW t \in [Procs -> [Pages -> Entry]], NEW p \in Procs, NEW va \in Pages,
           NEW e \in Entry, NEW t2, t2 = [t EXCEPT ![p][va] = e]
    PROVE  /\ t2 \in [Procs -> [Pages -> Entry]]
           /\ \A q \in Procs, vb \in Pages :
                t2[q][vb] = IF q = p /\ vb = va THEN e ELSE t[q][vb]
           /\ \A q \in Procs : q # p => t2[q] = t[q]
  OBVIOUS

\* The TLB of one process learns or forgets.
LEMMA StaleSet ==
    ASSUME NEW t \in [Procs -> SUBSET Cached], NEW p \in Procs, NEW S \in SUBSET Cached,
           NEW t2, t2 = [t EXCEPT ![p] = S]
    PROVE  /\ t2 \in [Procs -> SUBSET Cached]
           /\ \A q \in Procs : t2[q] = IF q = p THEN S ELSE t[q]
  OBVIOUS

\* What the TLB holds.
LEMMA StaleFacts ==
    ASSUME TypeOK, NEW p \in Procs, NEW e \in stale[p]
    PROVE  e.va \in Pages /\ e.pa \in Frames /\ e.w \in BOOLEAN /\ e.pa # NoFrame
<1>1. e \in Cached
  BY DEF TypeOK
<1>2. QED
  BY <1>1, MemoryAssumption DEF Cached

\* What is left in the TLB of each process when one page is forgotten.
LEMMA StaleForgets ==
    ASSUME TypeOK, NEW p \in Procs, NEW va, stale' = Forget(p, va)
    PROVE  /\ stale' \in [Procs -> SUBSET Cached]
           /\ \A q \in Procs : \A e : e \in stale'[q] <=> e \in stale[q] /\ (q = p => e.va # va)
<1> DEFINE S == {e \in stale[p] : e.va # va}
<1>1. S \in SUBSET Cached /\ stale \in [Procs -> SUBSET Cached]
  BY DEF TypeOK
<1>2. stale' = [stale EXCEPT ![p] = S]
  BY DEF Forget
<1>3. stale' \in [Procs -> SUBSET Cached] /\ \A q \in Procs : stale'[q] = IF q = p THEN S ELSE stale[q]
  BY <1>1, <1>2, StaleSet
<1>4. QED
  BY <1>3

\* Where the TLB believes that it may write is a page of the table.
LEMMA BelievedIsUsed ==
    ASSUME TypeOK, NEW p \in Procs, NEW e \in stale[p], BelievedOf(p, e), e.w
    PROVE  UsedAt("pgd", p, e.va) = e.pa
  BY StaleFacts DEF BelievedOf, UsedAt

\* What a step leaves alone is believed with as much right as before.
LEMMA BelievedStays ==
    ASSUME NEW p, NEW e, BelievedOf(p, e),
           pgd'[p][e.va].pa = pgd[p][e.va].pa,
           pgd'[p][e.va].ap # "RO" \/ pgd'[p][e.va].ap = pgd[p][e.va].ap,
           at'[p] = at[p] \/ (/\ at[p].op = "copied" => at[p].va # e.va
                              /\ at'[p].op \notin {"cow", "copied"}),
           e.w => \A k \in Kinds, q \in Procs, va \in Pages : UsedAt(k, q, va)' = e.pa =>
                     UsedAt(k, q, va) = e.pa \/ (k # "hand" /\ q = p /\ va = e.va)
    PROVE  BelievedOf(p, e)'
<1>1. pgd'[p][e.va].pa = e.pa \/ (at'[p].op = "copied" /\ at'[p].va = e.va)
  BY DEF BelievedOf
<1>2. ASSUME e.w
      PROVE  /\ pgd'[p][e.va].ap # "RO"
             /\ at'[p].op \in {"cow", "copied"} => at'[p].va # e.va
             /\ \A k \in Kinds, q \in Procs, va \in Pages :
                   UsedAt(k, q, va)' = e.pa => k # "hand" /\ q = p /\ va = e.va
  BY <1>2 DEF BelievedOf
<1>3. QED
  BY <1>1, <1>2 DEF BelievedOf

\* The constants.
LEMMA ConstFacts ==
    /\ MaxRefs \in Nat /\ MaxRefs >= 1 /\ Zero \in Values /\ File \in Values
    /\ NoFrame \notin Frames
<1>1. Cardinality(Procs) \in Nat
  BY Finite, FS_CardinalityType
<1>2. QED
  BY <1>1, MemoryAssumption

\* pmm_alloc(): a frame that nobody had.
LEMMA AllocFacts ==
    ASSUME TypeOK, RefsAreUsers, NEW f \in Frames, Alloc(f)
    PROVE  /\ refs' = [refs EXCEPT ![f] = refs[f] + 1] /\ refs' \in [Frames -> 0 .. MaxRefs]
           /\ f \notin lost /\ f # NoFrame
           /\ \A k \in Kinds, p \in Procs, va \in Pages : UsedAt(k, p, va) # f
<1>1. refs[f] = 0 /\ refs' = [refs EXCEPT ![f] = 1]
  BY DEF Alloc
<1>2. refs' = [refs EXCEPT ![f] = refs[f] + 1]
  BY <1>1
<1>3. refs' \in [Frames -> 0 .. MaxRefs]
  BY <1>1, ConstFacts DEF TypeOK
<1>4. QED
  BY <1>1, <1>2, <1>3, CountFacts, ConstFacts
-----------------------------------------------------------------------------
\* What a process sees.
memory == [p \in Procs |-> Contents(p)]

Maps == Space!Next \/ memory' = memory

\* A process that lives sees, page by page, what its frames hold.
LEMMA ContentsFacts ==
    ASSUME TypeOK, NEW p \in Procs, Lives(p)
    PROVE  /\ Contents(p) \in [Pages -> Values \cup {Unmapped}] /\ Contents(p) # Gone
           /\ \A va \in Pages : Contents(p)[va] = IF pgd[p][va] = Invalid THEN Unmapped
                                                  ELSE mem[pgd[p][va].pa]
<1>1. \A va \in Pages : pgd[p][va] # Invalid => mem[pgd[p][va].pa] \in Values
  <2> SUFFICES ASSUME NEW va \in Pages, pgd[p][va] # Invalid PROVE mem[pgd[p][va].pa] \in Values
    OBVIOUS
  <2>1. pgd[p][va].pa \in Frames
    BY TableFacts
  <2>2. QED
    BY <2>1 DEF TypeOK
<1>2. Contents(p) \in [Pages -> Values \cup {Unmapped}]
  BY <1>1 DEF Contents
<1>3. QED
  BY <1>2, MemoryAssumption DEF Contents

\* A process that sees the same as before: its pages are in the same frames, and
\* nobody has written there.
LEMMA ContentsKept ==
    ASSUME NEW p \in Procs, Lives(p)' <=> Lives(p),
           Lives(p) => \A va \in Pages :
               /\ pgd'[p][va] = Invalid <=> pgd[p][va] = Invalid
               /\ pgd'[p][va].pa = pgd[p][va].pa
               /\ pgd[p][va] # Invalid => mem'[pgd[p][va].pa] = mem[pgd[p][va].pa]
    PROVE  Contents(p)' = Contents(p)
<1>1. CASE Lives(p)
  BY <1>1 DEF Contents
<1>2. CASE ~Lives(p)
  BY <1>2 DEF Contents
<1>3. QED
  BY <1>1, <1>2

\* Nobody sees a change.
LEMMA MapsStutter ==
    ASSUME \A p \in Procs : Contents(p)' = Contents(p)
    PROVE  Maps
  BY DEF Maps, memory

\* One process sees a change.
LEMMA OneChange ==
    ASSUME NEW p \in Procs, \A q \in Procs : q # p => Contents(q)' = Contents(q)
    PROVE  memory' = [memory EXCEPT ![p] = Contents(p)']
  BY DEF memory

\* One process sees a change in one page.
LEMMA OnePage ==
    ASSUME TypeOK, TypeOK', NEW p \in Procs, NEW va \in Pages, NEW v,
           Lives(p), Lives(p)', Contents(p)'[va] = v,
           \A vb \in Pages : vb # va => Contents(p)'[vb] = Contents(p)[vb],
           \A q \in Procs : q # p => Contents(q)' = Contents(q)
    PROVE  memory' = [memory EXCEPT ![p][va] = v]
<1>1. Contents(p) \in [Pages -> Values \cup {Unmapped}]
  BY ContentsFacts
<1>2. Contents(p)' = [vb \in Pages |-> Contents(p)'[vb]]
  BY DEF Contents
<1>3. Contents(p)' = [Contents(p) EXCEPT ![va] = v]
  BY <1>1, <1>2
<1>4. QED
  BY <1>3, OneChange DEF memory

\* What a process sees does not depend on a frame that it does not use.
LEMMA UnusedIsUnseen ==
    ASSUME TypeOK, NEW q \in Procs, NEW f \in Frames,
           mem' = mem \/ \A va \in Pages : UsedAt("pgd", q, va) # f,
           \A g \in Frames : g # f => mem'[g] = mem[g],
           pgd'[q] = pgd[q], Lives(q)' <=> Lives(q)
    PROVE  Contents(q)' = Contents(q)
<1>1. ASSUME NEW va \in Pages, pgd[q][va] # Invalid
      PROVE  mem'[pgd[q][va].pa] = mem[pgd[q][va].pa]
  <2>1. pgd[q][va].pa \in Frames /\ UsedAt("pgd", q, va) = pgd[q][va].pa
    BY <1>1, TableFacts, UsedFacts
  <2>2. CASE mem' = mem
    BY <2>2
  <2>3. CASE \A vb \in Pages : UsedAt("pgd", q, vb) # f
    <3>1. pgd[q][va].pa # f
      BY <2>1, <2>3
    <3>2. QED
      BY <2>1, <3>1
  <2>4. QED
    BY <2>2, <2>3
<1>2. \A va \in Pages : pgd[q][va] # Invalid => mem'[pgd[q][va].pa] = mem[pgd[q][va].pa]
  BY <1>1
<1>3. QED
  BY <1>2, ContentsKept
-----------------------------------------------------------------------------
\* Memory that grows.
LEMMA GrowKeeps ==
    ASSUME MemInv, NEW p \in Procs, NEW va \in Pages, Grow(p, va)
    PROVE  MemInv' /\ Maps
<1>1. TypeOK /\ RefsAreUsers /\ Sharing /\ at[p].op = "user"
  BY DEF MemInv, Grow, Is
<1>2. PICK f \in Frames :
        /\ Alloc(f) /\ mem' = [mem EXCEPT ![f] = Zero]
        /\ pgd' = [pgd EXCEPT ![p][va] = [pa |-> f, ap |-> "RW"]]
  BY DEF Grow
<1>3. /\ other' = other /\ lost' = lost /\ at' = at /\ stale' = Forget(p, va)
      /\ pgd[p][va] = Invalid
  BY DEF Grow
<1>4. /\ refs' = [refs EXCEPT ![f] = refs[f] + 1] /\ refs' \in [Frames -> 0 .. MaxRefs]
      /\ f \notin lost /\ f # NoFrame
      /\ \A k \in Kinds, q \in Procs, vb \in Pages : UsedAt(k, q, vb) # f
  BY <1>1, <1>2, AllocFacts
<1>5. /\ pgd' \in [Procs -> [Pages -> Entry]]
      /\ \A q \in Procs, vb \in Pages :
           pgd'[q][vb] = IF q = p /\ vb = va THEN [pa |-> f, ap |-> "RW"] ELSE pgd[q][vb]
      /\ \A q \in Procs : q # p => pgd'[q] = pgd[q]
  <2>1. [pa |-> f, ap |-> "RW"] \in Entry
    BY DEF Entry
  <2>2. QED
    BY <1>1, <1>2, <2>1, EntrySet DEF TypeOK
<1>6. /\ stale' \in [Procs -> SUBSET Cached]
      /\ \A q \in Procs : \A e : e \in stale'[q] <=> e \in stale[q] /\ (q = p => e.va # va)
  BY <1>1, <1>3, StaleForgets
<1>7. /\ mem' \in [Frames -> Values] /\ mem'[f] = Zero
      /\ \A g \in Frames : g # f => mem'[g] = mem[g]
  BY <1>1, <1>2, ConstFacts DEF TypeOK
<1>8. TypeOK'
  BY <1>1, <1>3, <1>4, <1>5, <1>6, <1>7 DEF TypeOK
<1>9. UseGained("pgd", p, va, f)
  BY <1>3, <1>5 DEF UseGained, Elsewhere, Same, UsedAt, Invalid
<1>10. RefsAreUsers'
  BY <1>1, <1>3, <1>4, <1>9, RefsGained DEF Kinds
<1>11. Sharing'
  <2>1. ASSUME NEW k \in Kinds, NEW q \in Procs, NEW vb \in Pages, Private(k, q, vb)',
               ~Same(k, q, vb, "pgd", p, va)
        PROVE  Private(k, q, vb)
    BY <1>3, <1>5, <2>1 DEF Private, Same
  <2>2. QED
    BY <1>1, <1>3, <1>4, <1>9, <2>1, SharingGained DEF Kinds
<1>12. Kids'
  BY <1>3 DEF MemInv, Kids, Is
<1>13. Copied'
  BY <1>1, <1>3, <1>5 DEF MemInv, Copied, Is, Mapped
<1>14. Loaded'
  <2> SUFFICES ASSUME NEW q \in Procs, NEW vb \in Pages, Is(q, "load"), other[q][vb] # Invalid
               PROVE  vb \in Image /\ other[q][vb].ap = "RW" /\ mem'[other[q][vb].pa] = File
    BY <1>3 DEF Loaded, Is
  <2>1. other[q][vb].pa \in Frames /\ other[q][vb].pa # f
    BY <1>1, <1>4, TableFacts, UsedFacts DEF Kinds
  <2>2. QED
    BY <1>7, <2>1 DEF MemInv, Loaded
<1>15. Faults'
  BY <1>1, <1>3, <1>5, WhereFacts DEF MemInv, Faults, Is
<1>16. Believed'
  <2> SUFFICES ASSUME NEW q \in Procs, NEW e \in stale'[q] PROVE BelievedOf(q, e)'
    BY DEF Believed
  <2>1. e \in stale[q] /\ BelievedOf(q, e) /\ e.va \in Pages /\ (q = p => e.va # va)
    BY <1>1, <1>6, StaleFacts DEF MemInv, Believed
  <2>2. e.w => e.pa # f
    BY <1>1, <1>4, <2>1, BelievedIsUsed DEF Kinds
  <2>3. QED
    BY <1>3, <1>5, <1>9, <2>1, <2>2, BelievedStays DEF UseGained, Elsewhere, Same
<1>17. Maps
  <2>1. Lives(p) /\ Lives(p)' /\ \A q \in Procs : Lives(q)' <=> Lives(q)
    BY <1>1, <1>3 DEF Lives
  <2>2. \A q \in Procs : q # p => Contents(q)' = Contents(q)
    BY <1>1, <1>4, <1>5, <1>7, <2>1, UnusedIsUnseen DEF Kinds
  <2>3. Contents(p)'[va] = Zero
    BY <1>4, <1>5, <1>7, <2>1 DEF Contents, Invalid
  <2>4. ASSUME NEW vb \in Pages, vb # va PROVE Contents(p)'[vb] = Contents(p)[vb]
    <3>1. pgd[p][vb] # Invalid => pgd[p][vb].pa \in Frames /\ pgd[p][vb].pa # f
      BY <1>1, <1>4, TableFacts, UsedFacts DEF Kinds
    <3>2. QED
      BY <1>5, <1>7, <2>1, <2>4, <3>1 DEF Contents
  <2>5. memory' = [memory EXCEPT ![p][va] = Zero]
    BY <1>1, <1>8, <2>1, <2>2, <2>3, <2>4, OnePage
  <2>6. memory[p] # Gone /\ memory[p][va] = Unmapped
    BY <1>1, <1>3, <2>1, ContentsFacts DEF memory
  <2>7. Space!Grow(p, va)
    BY <2>5, <2>6 DEF Space!Grow, Space!Lives, memory
  <2>8. QED
    BY <2>7 DEF Maps, Space!Next
<1>18. QED
  BY <1>8, <1>10, <1>11, <1>12, <1>13, <1>14, <1>15, <1>16, <1>17 DEF MemInv

\* A process goes somewhere else.
LEMMA AtSet ==
    ASSUME TypeOK, NEW p \in Procs, NEW w \in At, at' = [at EXCEPT ![p] = w]
    PROVE  /\ at' \in [Procs -> At] /\ at'[p] = w
           /\ \A q \in Procs : q # p => at'[q] = at[q]
  BY DEF TypeOK

\* Who does not fill a place, nor is one, changes nothing for the others.
LEMMA KidsStay ==
    ASSUME TypeOK, Kids, NEW p \in Procs, at[p].op # "reserved", at'[p].op \notin {"fork", "load"},
           \A q \in Procs : q # p => at'[q] = at[q]
    PROVE  Kids'
<1> SUFFICES ASSUME NEW q \in Procs, at'[q].op \in {"fork", "load"}
             PROVE  /\ at'[at'[q].kid].op = "reserved" \/ (at'[q].op = "load" /\ at'[q].kid = q)
                    /\ \A r \in Procs : at'[r].op \in {"fork", "load"} /\ at'[r].kid = at'[q].kid
                                            => r = q
  BY DEF Kids, Is
<1>1. q # p /\ at'[q] = at[q] /\ at[q].kid \in Procs
  BY WhereFacts
<1>2. /\ at[at[q].kid].op = "reserved" \/ (at[q].op = "load" /\ at[q].kid = q)
      /\ \A r \in Procs : at[r].op \in {"fork", "load"} /\ at[r].kid = at[q].kid => r = q
  BY <1>1 DEF Kids, Is
<1>3. at[at[q].kid].op = "reserved" => at'[at[q].kid] = at[at[q].kid]
  BY <1>1
<1>4. QED
  BY <1>1, <1>2, <1>3

\* Where a process may write nobody else looks.
LEMMA WritesAlone ==
    ASSUME MemInv, NEW p \in Procs, NEW va \in Pages, NEW f \in Frames, at[p].op = "user",
           pgd[p][va] = [pa |-> f, ap |-> "RW"] \/ [va |-> va, pa |-> f, w |-> TRUE] \in stale[p]
    PROVE  UsedAt("pgd", p, va) = f /\ Alone("pgd", p, va)
<1>1. TypeOK /\ f # NoFrame /\ "pgd" \in Kinds
  BY ConstFacts DEF MemInv, Kinds
<1>2. CASE pgd[p][va] = [pa |-> f, ap |-> "RW"]
  <2>1. UsedAt("pgd", p, va) = f /\ Private("pgd", p, va)
    BY <1>2 DEF UsedAt, Private
  <2>2. QED
    BY <1>1, <2>1 DEF MemInv, Sharing, Exclusive, Alone
<1>3. CASE [va |-> va, pa |-> f, w |-> TRUE] \in stale[p]
  <2> DEFINE e == [va |-> va, pa |-> f, w |-> TRUE]
  <2>1. e \in stale[p] /\ e.va = va /\ e.pa = f /\ e.w /\ BelievedOf(p, e)
    BY <1>3 DEF MemInv, Believed
  <2> HIDE DEF e
  <2>2. UsedAt("pgd", p, va) = f
    BY <1>1, <2>1, BelievedIsUsed
  <2>3. ASSUME NEW k \in Kinds, NEW q \in Procs, NEW vb \in Pages, UsedAt(k, q, vb) = f
        PROVE  Same("pgd", p, va, k, q, vb)
    <3>1. k # "hand" /\ q = p /\ vb = va
      BY <2>1, <2>3 DEF BelievedOf
    <3>2. UsedAt("other", p, va) = NoFrame
      BY <1>1, WhereFacts DEF UsedAt, Empty, Invalid
    <3>3. k # "other"
      BY <1>1, <2>3, <3>1, <3>2
    <3>4. QED
      BY <3>1, <3>3 DEF Same, Kinds
  <2>4. QED
    BY <2>2, <2>3 DEF Alone
<1>4. QED
  BY <1>2, <1>3
-----------------------------------------------------------------------------
\* A process writes.
LEMMA WriteKeeps ==
    ASSUME MemInv, NEW p \in Procs, NEW va \in Pages, NEW v \in Values, Write(p, va, v)
    PROVE  MemInv' /\ Maps
<1>1. /\ TypeOK /\ RefsAreUsers /\ Sharing /\ at[p].op = "user"
      /\ UNCHANGED <<refs, pgd, other, lost, stale, at>>
  BY DEF MemInv, Write, Is
<1>2. PICK f \in Frames : /\ UsedAt("pgd", p, va) = f /\ Alone("pgd", p, va)
                          /\ mem' = [mem EXCEPT ![f] = v]
  BY <1>1, WritesAlone DEF Write
<1>3. /\ mem' \in [Frames -> Values] /\ mem'[f] = v
      /\ \A g \in Frames : g # f => mem'[g] = mem[g]
  BY <1>1, <1>2 DEF TypeOK
<1>4. TypeOK'
  BY <1>1, <1>3 DEF TypeOK
<1>5. UseKept
  BY <1>1 DEF UseKept, UsedAt
<1>6. RefsAreUsers'
  BY <1>1, <1>5, RefsKept
<1>7. Sharing'
  BY <1>1, <1>5, SharingKept DEF Private
<1>8. Kids' /\ Copied' /\ Faults'
  BY <1>1 DEF MemInv, Kids, Copied, Faults, Is, Mapped
<1>9. Loaded'
  <2> SUFFICES ASSUME NEW q \in Procs, NEW vb \in Pages, Is(q, "load"), other[q][vb] # Invalid
               PROVE  vb \in Image /\ other[q][vb].ap = "RW" /\ mem'[other[q][vb].pa] = File
    BY <1>1 DEF Loaded, Is
  <2>1. other[q][vb].pa \in Frames /\ other[q][vb].pa # f
    BY <1>1, <1>2, TableFacts, UsedFacts DEF Kinds, Alone, Same
  <2>2. QED
    BY <1>3, <2>1 DEF MemInv, Loaded
<1>10. Believed'
  BY <1>1, <1>5 DEF MemInv, Believed, BelievedOf, UseKept
<1>11. Maps
  <2>1. Lives(p) /\ Lives(p)' /\ \A q \in Procs : Lives(q)' <=> Lives(q)
    BY <1>1 DEF Lives
  <2>2. ASSUME NEW q \in Procs, q # p PROVE Contents(q)' = Contents(q)
    <3>1. \A vb \in Pages : UsedAt("pgd", q, vb) # f
      BY <1>2, <2>2 DEF Alone, Same, Kinds
    <3>2. QED
      BY <1>1, <1>3, <2>1, <3>1, UnusedIsUnseen
  <2>3. pgd[p][va].pa = f /\ pgd[p][va] # Invalid
    BY <1>1, <1>2, TableFacts, ConstFacts DEF UsedAt
  <2>4. Contents(p)'[va] = v
    BY <1>1, <1>3, <2>1, <2>3 DEF Contents
  <2>5. ASSUME NEW vb \in Pages, vb # va PROVE Contents(p)'[vb] = Contents(p)[vb]
    <3>1. UsedAt("pgd", p, vb) # f
      BY <1>2, <2>5 DEF Alone, Same, Kinds
    <3>2. pgd[p][vb] # Invalid => pgd[p][vb].pa \in Frames /\ pgd[p][vb].pa # f
      BY <1>1, <3>1, TableFacts, UsedFacts
    <3>3. QED
      BY <1>1, <1>3, <2>1, <3>2 DEF Contents
  <2>6. memory' = [memory EXCEPT ![p][va] = v]
    BY <1>1, <1>4, <2>1, <2>2, <2>4, <2>5, OnePage
  <2>7. memory[p] # Gone /\ memory[p][va] # Unmapped
    <3>1. mem[f] \in Values
      BY <1>1 DEF TypeOK
    <3>2. QED
      BY <1>1, <2>1, <2>3, <3>1, ContentsFacts, MemoryAssumption DEF memory
  <2>8. Space!Write(p, va)
    BY <2>6, <2>7 DEF Space!Write, Space!Lives, memory
  <2>9. QED
    BY <2>8 DEF Maps, Space!Next
<1>12. QED
  BY <1>4, <1>6, <1>7, <1>8, <1>9, <1>10, <1>11 DEF MemInv

\* A page of a file is asked for.
LEMMA MmapFaultKeeps ==
    ASSUME MemInv, NEW p \in Procs, NEW va \in Pages, MmapFault(p, va)
    PROVE  MemInv' /\ Maps
<1>1. /\ TypeOK /\ RefsAreUsers /\ Sharing /\ at[p].op = "user" /\ other[p] = Empty
      /\ pgd[p][va] = Invalid /\ pgd' = pgd /\ other' = other /\ lost' = lost /\ stale' = stale
  BY WhereFacts DEF MemInv, MmapFault, Is
<1>2. PICK f \in Frames :
        /\ Alloc(f) /\ mem' = [mem EXCEPT ![f] = Zero]
        /\ at' = [at EXCEPT ![p] = [op |-> "fetch", va |-> va, new |-> f]]
  BY DEF MmapFault, Go
<1>3. /\ refs' = [refs EXCEPT ![f] = refs[f] + 1] /\ refs' \in [Frames -> 0 .. MaxRefs]
      /\ f \notin lost /\ f # NoFrame
      /\ \A k \in Kinds, q \in Procs, vb \in Pages : UsedAt(k, q, vb) # f
  BY <1>1, <1>2, AllocFacts
<1>4. /\ at' \in [Procs -> At] /\ at'[p] = [op |-> "fetch", va |-> va, new |-> f]
      /\ at'[p].op = "fetch" /\ at'[p].va = va /\ at'[p].new = f
      /\ \A q \in Procs : q # p => at'[q] = at[q]
  BY <1>1, <1>2, AtMembers, AtSet
<1>5. /\ mem' \in [Frames -> Values] /\ \A g \in Frames : g # f => mem'[g] = mem[g]
  BY <1>1, <1>2, ConstFacts DEF TypeOK
<1>6. TypeOK'
  <2>1. \A q \in Procs : /\ at'[q].op \in {"unused", "reserved", "reap"} => pgd'[q] = Empty
                         /\ at'[q].op \notin {"fork", "load", "undo", "reap"} => other'[q] = Empty
    BY <1>1, <1>4 DEF TypeOK
  <2>2. QED
    BY <1>1, <1>3, <1>4, <1>5, <2>1 DEF TypeOK
<1>7. UseGained("hand", p, va, f)
  BY <1>1, <1>4 DEF UseGained, Elsewhere, Same, UsedAt, Kinds
<1>8. RefsAreUsers'
  BY <1>1, <1>3, <1>7, RefsGained DEF Kinds
<1>9. Sharing'
  <2>1. ASSUME NEW k \in Kinds, NEW q \in Procs, NEW vb \in Pages, Private(k, q, vb)', Used(k, q, vb),
               ~Same(k, q, vb, "hand", p, va)
        PROVE  Private(k, q, vb)
    BY <1>1, <1>4, <2>1, UsedFacts DEF Private, Same, Used, Kinds
  <2>2. QED
    BY <1>1, <1>3, <1>7, <2>1, SharingGained DEF Kinds
<1>10. Kids' /\ Copied'
  <2>1. Kids'
    BY <1>1, <1>4, KidsStay DEF MemInv
  <2>2. Copied'
    BY <1>1, <1>4 DEF MemInv, Copied, Is, Mapped
  <2>3. QED
    BY <2>1, <2>2
<1>11. Loaded'
  <2> SUFFICES ASSUME NEW q \in Procs, NEW vb \in Pages, Is(q, "load"), other[q][vb] # Invalid
               PROVE  vb \in Image /\ other[q][vb].ap = "RW" /\ mem'[other[q][vb].pa] = File
    BY <1>1, <1>4 DEF Loaded, Is
  <2>1. other[q][vb].pa \in Frames /\ other[q][vb].pa # f
    BY <1>1, <1>3, TableFacts, UsedFacts DEF Kinds
  <2>2. QED
    BY <1>5, <2>1 DEF MemInv, Loaded
<1>12. Faults'
  BY <1>1, <1>4 DEF MemInv, Faults, Is
<1>13. Believed'
  <2> SUFFICES ASSUME NEW q \in Procs, NEW e \in stale[q] PROVE BelievedOf(q, e)'
    BY <1>1 DEF Believed
  <2>1. BelievedOf(q, e) /\ e.va \in Pages
    BY <1>1, StaleFacts DEF MemInv, Believed
  <2>2. e.w => e.pa # f
    BY <1>1, <1>3, <2>1, BelievedIsUsed DEF Kinds
  <2>3. QED
    BY <1>1, <1>4, <1>7, <2>1, <2>2, BelievedStays DEF UseGained, Elsewhere, Same
<1>14. Maps
  <2>1. ASSUME NEW q \in Procs PROVE Contents(q)' = Contents(q)
    <3>1. Lives(q)' <=> Lives(q)
      BY <1>1, <1>4 DEF Lives
    <3>2. QED
      BY <1>1, <1>3, <1>5, <3>1, UnusedIsUnseen DEF Kinds
  <2>2. QED
    BY <2>1, MapsStutter
<1>15. QED
  BY <1>6, <1>8, <1>9, <1>10, <1>11, <1>12, <1>13, <1>14 DEF MemInv

\* What is loaded stays, if nobody writes there.
LEMMA LoadedStays ==
    ASSUME TypeOK, Loaded, NEW f,
           \A q \in Procs : at'[q].op = "load" => at[q].op = "load" /\ other'[q] = other[q],
           \A g \in Frames : g # f => mem'[g] = mem[g],
           mem' = mem \/ \A q \in Procs, vb \in Pages : at[q].op = "load" => UsedAt("other", q, vb) # f
    PROVE  Loaded'
<1> SUFFICES ASSUME NEW q \in Procs, NEW vb \in Pages, at'[q].op = "load", other'[q][vb] # Invalid
             PROVE  vb \in Image /\ other'[q][vb].ap = "RW" /\ mem'[other'[q][vb].pa] = File
  BY DEF Loaded, Is
<1>0. other'[q] = other[q] /\ other[q][vb] # Invalid
  OBVIOUS
<1>1. other[q][vb].pa \in Frames /\ UsedAt("other", q, vb) = other[q][vb].pa /\ at[q].op = "load"
  BY <1>0, TableFacts, UsedFacts
<1>2. vb \in Image /\ other[q][vb].ap = "RW" /\ mem[other[q][vb].pa] = File
  BY <1>0, <1>1 DEF Loaded, Is
<1>3. QED
  BY <1>0, <1>1, <1>2

\* pmm_free(): what it held is only forgotten if nobody else uses it.
LEMMA ReleaseFacts ==
    ASSUME TypeOK, RefsAreUsers, NEW f \in Frames, NEW k \in Kinds, NEW p \in Procs, NEW va \in Pages,
           UsedAt(k, p, va) = f, Release(f)
    PROVE  /\ refs' = [refs EXCEPT ![f] = refs[f] - 1] /\ refs' \in [Frames -> 0 .. MaxRefs]
           /\ mem' \in [Frames -> Values] /\ \A g \in Frames : g # f => mem'[g] = mem[g]
           /\ mem' = mem \/ Alone(k, p, va)
<1>1. refs[f] >= 1 /\ refs[f] \in 0 .. MaxRefs
  BY CountFacts DEF TypeOK
<1>2. refs' = [refs EXCEPT ![f] = refs[f] - 1]
  BY DEF Release, UsersAfter
<1>3. refs' \in [Frames -> 0 .. MaxRefs]
  BY <1>1, <1>2, ConstFacts DEF TypeOK
<1>4. mem' \in [Frames -> Values] /\ \A g \in Frames : g # f => mem'[g] = mem[g]
  BY ConstFacts DEF Release, TypeOK
<1>5. ASSUME mem' # mem PROVE Alone(k, p, va)
  <2>1. refs[f] = 1
    BY <1>1, <1>5, ConstFacts DEF Release, UsersAfter
  <2>2. QED
    BY <2>1, CountFacts
<1>6. QED
  BY <1>2, <1>3, <1>4, <1>5

\* The page of the file is mapped.
LEMMA MmapFilledKeeps ==
    ASSUME MemInv, NEW p \in Procs, MmapFilled(p)
    PROVE  MemInv' /\ Maps
<1>0. PICK f \in Frames, va \in Pages : f = at[p].new /\ va = at[p].va
  BY WhereFacts DEF MemInv, MmapFilled, Is
<1>1. /\ TypeOK /\ RefsAreUsers /\ Sharing /\ at[p].op = "fetch" /\ other[p] = Empty
      /\ refs' = refs /\ other' = other /\ lost' = lost /\ stale' = Forget(p, va)
      /\ f \in Frames /\ va \in Pages /\ pgd[p][va] = Invalid
  BY <1>0, WhereFacts DEF MemInv, MmapFilled, Is, Faults
<1>2. /\ mem' = [mem EXCEPT ![f] = File] /\ at' = [at EXCEPT ![p] = User]
      /\ pgd' = [pgd EXCEPT ![p][va] = [pa |-> f, ap |-> "RO"]]
  BY <1>0 DEF MmapFilled, Go
<1>3. UsedAt("hand", p, va) = f /\ Private("hand", p, va) /\ f # NoFrame
  BY <1>0, <1>1, ConstFacts DEF UsedAt, Private
<1>4. Alone("hand", p, va)
  BY <1>1, <1>3 DEF Sharing, Exclusive, Alone, Kinds
<1>5. /\ pgd' \in [Procs -> [Pages -> Entry]]
      /\ \A q \in Procs, vb \in Pages :
           pgd'[q][vb] = IF q = p /\ vb = va THEN [pa |-> f, ap |-> "RO"] ELSE pgd[q][vb]
      /\ \A q \in Procs : q # p => pgd'[q] = pgd[q]
  <2>1. [pa |-> f, ap |-> "RO"] \in Entry
    BY <1>1 DEF Entry
  <2>2. QED
    BY <1>1, <1>2, <2>1, EntrySet DEF TypeOK
<1>6. /\ at' \in [Procs -> At] /\ at'[p] = User /\ at'[p].op = "user"
      /\ \A q \in Procs : q # p => at'[q] = at[q]
  BY <1>1, <1>2, AtMembers, AtSet
<1>7. /\ stale' \in [Procs -> SUBSET Cached]
      /\ \A q \in Procs : \A e : e \in stale'[q] <=> e \in stale[q] /\ (q = p => e.va # va)
  BY <1>1, StaleForgets
<1>8. /\ mem' \in [Frames -> Values] /\ mem'[f] = File
      /\ \A g \in Frames : g # f => mem'[g] = mem[g]
  BY <1>1, <1>2, ConstFacts DEF TypeOK
<1>9. TypeOK'
  <2>1. \A q \in Procs : /\ at'[q].op \in {"unused", "reserved", "reap"} => pgd'[q] = Empty
                         /\ at'[q].op \notin {"fork", "load", "undo", "reap"} => other'[q] = Empty
    BY <1>1, <1>5, <1>6 DEF TypeOK
  <2>2. QED
    BY <1>1, <1>5, <1>6, <1>7, <1>8, <2>1 DEF TypeOK
<1>10. UseSwapped("pgd", p, "hand", p, {va})
  BY <1>1, <1>3, <1>5, <1>6, UsedFacts DEF UseSwapped, OneOfBoth, UsedAt, Invalid, Kinds, User
<1>11. RefsAreUsers'
  BY <1>1, <1>10, RefsSwapped DEF Kinds
<1>12. Sharing'
  <2>1. ~Used("pgd", p, va) /\ pgd'[p][va].ap # "RW"
    BY <1>1, <1>5 DEF Used, UsedAt, Invalid
  <2>2. \A vb \in Pages \ {va} : f # UsedAt("pgd", p, vb)
    BY <1>1, <1>3, <1>4 DEF Alone, Same, Kinds
  <2>3. ASSUME NEW k \in Kinds, NEW q \in Procs, NEW vb \in Pages, Private(k, q, vb)'
        PROVE  Private(k, q, vb) /\ ~(k = "pgd" /\ q = p /\ vb = va)
    BY <1>1, <1>5, <1>6, <2>1, <2>3 DEF Private
  <2>4. QED
    BY <1>1, <1>3, <1>10, <2>1, <2>2, <2>3, SharingSwapped DEF Kinds
<1>13. Kids'
  BY <1>1, <1>6, KidsStay DEF MemInv
<1>14. Copied'
  BY <1>1, <1>5, <1>6 DEF MemInv, Copied, Is, Mapped
<1>15. Loaded'
  BY <1>1, <1>3, <1>4, <1>6, <1>8, LoadedStays DEF MemInv, Alone, Same, Kinds
<1>16. Faults'
  BY <1>1, <1>5, <1>6 DEF MemInv, Faults, Is
<1>17. Believed'
  <2> SUFFICES ASSUME NEW q \in Procs, NEW e \in stale'[q] PROVE BelievedOf(q, e)'
    BY DEF Believed
  <2>1. e \in stale[q] /\ BelievedOf(q, e) /\ e.va \in Pages /\ (q = p => e.va # va)
    BY <1>1, <1>7, StaleFacts DEF MemInv, Believed
  <2>2. e.w => e.pa # f
    BY <1>1, <1>3, <2>1 DEF Kinds, BelievedOf
  <2>3. /\ pgd'[q][e.va] = pgd[q][e.va]
        /\ at'[q] = at[q] \/ (at[q].op \notin {"cow", "copied"} /\ at'[q].op \notin {"cow", "copied"})
    BY <1>1, <1>5, <1>6, <2>1
  <2>4. ASSUME e.w, NEW k \in Kinds, NEW r \in Procs, NEW vb \in Pages, UsedAt(k, r, vb)' = e.pa
        PROVE  UsedAt(k, r, vb) = e.pa
    <3>1. e.pa # NoFrame
      BY <1>1, <2>1, StaleFacts
    <3>2. QED
      BY <1>1, <1>3, <1>10, <2>2, <2>4, <3>1 DEF UseSwapped, OneOfBoth, UsedAt, Invalid
  <2>5. QED
    BY <2>1, <2>3, <2>4, BelievedStays
<1>18. Maps
  <2>1. Lives(p) /\ Lives(p)' /\ \A q \in Procs : Lives(q)' <=> Lives(q)
    BY <1>1, <1>6 DEF Lives
  <2>2. \A q \in Procs, vb \in Pages : UsedAt("pgd", q, vb) # f
    BY <1>3, <1>4 DEF Alone, Same, Kinds
  <2>3. \A q \in Procs : q # p => Contents(q)' = Contents(q)
    BY <1>1, <1>5, <1>8, <2>1, <2>2, UnusedIsUnseen
  <2>4. Contents(p)'[va] = File
    BY <1>1, <1>3, <1>5, <1>8, <2>1 DEF Contents, Invalid
  <2>5. ASSUME NEW vb \in Pages, vb # va PROVE Contents(p)'[vb] = Contents(p)[vb]
    <3>1. pgd[p][vb] # Invalid => pgd[p][vb].pa \in Frames /\ pgd[p][vb].pa # f
      BY <1>1, <2>2, TableFacts, UsedFacts
    <3>2. QED
      BY <1>5, <1>8, <2>1, <2>5, <3>1 DEF Contents
  <2>6. memory' = [memory EXCEPT ![p][va] = File]
    BY <1>1, <1>9, <2>1, <2>3, <2>4, <2>5, OnePage
  <2>7. memory[p] # Gone /\ memory[p][va] = Unmapped
    BY <1>1, <2>1, ContentsFacts DEF memory
  <2>8. Space!Grow(p, va)
    BY <2>6, <2>7 DEF Space!Grow, Space!Lives, memory
  <2>9. QED
    BY <1>1, <2>8 DEF Maps, Space!Next
<1>19. QED
  BY <1>9, <1>11, <1>12, <1>13, <1>14, <1>15, <1>16, <1>17, <1>18 DEF MemInv

\* The page of the file does not come.
LEMMA MmapFailsKeeps ==
    ASSUME MemInv, NEW p \in Procs, MmapFails(p)
    PROVE  MemInv' /\ Maps
<1>0. PICK f \in Frames, va \in Pages : f = at[p].new /\ va = at[p].va
  BY WhereFacts DEF MemInv, MmapFails, Is
<1>1. /\ TypeOK /\ RefsAreUsers /\ Sharing /\ at[p].op = "fetch" /\ other[p] = Empty
      /\ pgd' = pgd /\ other' = other /\ lost' = lost /\ stale' = stale
      /\ f \in Frames /\ va \in Pages /\ pgd[p][va] = Invalid
  BY <1>0, WhereFacts DEF MemInv, MmapFails, Is, Faults
<1>2. PICK op \in {"user", "dead"} : Release(f) /\ at' = [at EXCEPT ![p] = [op |-> op]]
  BY <1>0 DEF MmapFails, Go
<1>3. UsedAt("hand", p, va) = f /\ f # NoFrame /\ Private("hand", p, va)
  BY <1>0, <1>1, ConstFacts DEF UsedAt, Private
<1>4. Alone("hand", p, va)
  BY <1>1, <1>3 DEF Sharing, Exclusive, Alone, Kinds
<1>5. /\ refs' = [refs EXCEPT ![f] = refs[f] - 1] /\ refs' \in [Frames -> 0 .. MaxRefs]
      /\ mem' \in [Frames -> Values] /\ \A g \in Frames : g # f => mem'[g] = mem[g]
  BY <1>1, <1>2, <1>3, ReleaseFacts DEF Kinds
<1>6. /\ at' \in [Procs -> At] /\ at'[p].op = op
      /\ \A q \in Procs : q # p => at'[q] = at[q]
  <2>1. [op |-> op] \in At
    BY AtMembers
  <2>2. QED
    BY <1>1, <1>2, <2>1, AtSet
<1>7. TypeOK'
  <2>1. \A q \in Procs : /\ at'[q].op \in {"unused", "reserved", "reap"} => pgd'[q] = Empty
                         /\ at'[q].op \notin {"fork", "load", "undo", "reap"} => other'[q] = Empty
    BY <1>1, <1>6 DEF TypeOK
  <2>2. QED
    BY <1>1, <1>5, <1>6, <2>1 DEF TypeOK
<1>8. UseDropped("hand", p, va, f)
  BY <1>1, <1>3, <1>6 DEF UseDropped, Elsewhere, Same, UsedAt, Kinds
<1>9. RefsAreUsers'
  BY <1>1, <1>5, <1>8, RefsDropped DEF Kinds
<1>10. Sharing'
  <2>1. ASSUME NEW k \in Kinds, NEW q \in Procs, NEW vb \in Pages, Private(k, q, vb)'
        PROVE  Private(k, q, vb)
    BY <1>1, <1>6, <2>1 DEF Private
  <2>2. NoFrame \notin lost
    BY <1>1, ConstFacts DEF TypeOK
  <2>3. QED
    BY <1>1, <1>8, <2>1, <2>2, SharingDropped DEF Kinds
<1>11. Kids'
  BY <1>1, <1>6, KidsStay DEF MemInv
<1>12. Copied' /\ Faults'
  <2>1. Copied'
    BY <1>1, <1>6 DEF MemInv, Copied, Is, Mapped
  <2>2. Faults'
    BY <1>1, <1>6 DEF MemInv, Faults, Is
  <2>3. QED
    BY <2>1, <2>2
<1>13. Loaded'
  BY <1>1, <1>3, <1>4, <1>5, <1>6, LoadedStays DEF MemInv, Alone, Same, Kinds
<1>14. Believed'
  <2> SUFFICES ASSUME NEW q \in Procs, NEW e \in stale[q] PROVE BelievedOf(q, e)'
    BY <1>1 DEF Believed
  <2>1. BelievedOf(q, e) /\ e.va \in Pages /\ e.pa # NoFrame
    BY <1>1, StaleFacts DEF MemInv, Believed
  <2>2. at'[q] = at[q] \/ (at[q].op \notin {"cow", "copied"} /\ at'[q].op \notin {"cow", "copied"})
    BY <1>1, <1>6
  <2>3. ASSUME NEW k \in Kinds, NEW r \in Procs, NEW vb \in Pages, UsedAt(k, r, vb)' = e.pa
        PROVE  UsedAt(k, r, vb) = e.pa
    <3>1. UsedAt(k, r, vb)' = IF Same(k, r, vb, "hand", p, va) THEN NoFrame ELSE UsedAt(k, r, vb)
      BY <1>8 DEF UseDropped, Elsewhere, Same
    <3>2. QED
      BY <2>1, <2>3, <3>1
  <2>4. QED
    BY <1>1, <2>1, <2>2, <2>3, BelievedStays
<1>15. Maps
  <2>1. \A q \in Procs, vb \in Pages : UsedAt("pgd", q, vb) # f
    BY <1>3, <1>4 DEF Alone, Same, Kinds
  <2>2. \A q \in Procs : q # p => Contents(q)' = Contents(q)
    BY <1>1, <1>5, <1>6, <2>1, UnusedIsUnseen DEF Lives
  <2>3. Lives(p) /\ (Lives(p)' <=> op = "user")
    BY <1>1, <1>6 DEF Lives
  <2>4. CASE op = "user"
    <3>1. Contents(p)' = Contents(p)
      BY <1>1, <1>5, <2>1, <2>3, <2>4, UnusedIsUnseen
    <3>2. QED
      BY <2>2, <3>1, MapsStutter
  <2>5. CASE op = "dead"
    <3>1. memory' = [memory EXCEPT ![p] = Gone]
      BY <2>2, <2>3, <2>5, OneChange DEF Contents
    <3>2. memory[p] # Gone
      BY <1>1, <2>3, ContentsFacts DEF memory
    <3>3. Space!Exit(p)
      BY <3>1, <3>2 DEF Space!Exit, Space!Lives, memory
    <3>4. QED
      BY <3>3 DEF Maps, Space!Next
  <2>6. QED
    BY <2>4, <2>5
<1>16. QED
  BY <1>7, <1>9, <1>10, <1>11, <1>12, <1>13, <1>14, <1>15 DEF MemInv

\* A frame that one use has is counted once.
LEMMA AloneCount ==
    ASSUME TypeOK, RefsAreUsers, LostAlone, NEW k \in Kinds, NEW p \in Procs, NEW va \in Pages,
           NEW f \in Frames, UsedAt(k, p, va) = f, Alone(k, p, va)
    PROVE  refs[f] = 1
<1>1. <<k, p, va>> \in UsesOf(f)
  BY UsesFacts
<1>2. ASSUME NEW j \in Kinds, NEW q \in Procs, NEW vb \in Pages
      PROVE  <<j, q, vb>> \in UsesOf(f) <=> <<j, q, vb>> \in {<<k, p, va>>}
  <2>1. <<j, q, vb>> \in UsesOf(f) <=> UsedAt(j, q, vb) = f
    BY UsesFacts
  <2>2. UsedAt(j, q, vb) = f => Same(k, p, va, j, q, vb)
    BY DEF Alone
  <2>3. Same(k, p, va, j, q, vb) => <<j, q, vb>> = <<k, p, va>>
    BY DEF Same
  <2>4. <<j, q, vb>> = <<k, p, va>> => UsedAt(j, q, vb) = f
    BY <1>1, <2>1
  <2>5. QED
    BY <2>1, <2>2, <2>3, <2>4
<1>3. UsesOf(f) = {<<k, p, va>>}
  <2>1. UsesOf(f) \in SUBSET Uses /\ {<<k, p, va>>} \in SUBSET Uses
    BY <1>1, UsesFacts
  <2>2. QED
    BY <1>2, <2>1, SameUses
<1>4. Cardinality(UsesOf(f)) = 1
  BY <1>3, FS_Singleton
<1>5. f \notin lost
  BY DEF LostAlone
<1>6. QED
  BY <1>4, <1>5 DEF RefsAreUsers, Users

\* Memory that is given back.
LEMMA UnmapKeeps ==
    ASSUME MemInv, NEW p \in Procs, NEW va \in Pages, Unmap(p, va)
    PROVE  MemInv' /\ Maps
<1>0. PICK f \in Frames : f = pgd[p][va].pa
  BY TableFacts DEF MemInv, Unmap
<1>1. /\ TypeOK /\ RefsAreUsers /\ Sharing /\ at[p].op = "user" /\ va \notin Image
      /\ pgd[p][va] # Invalid /\ at' = at /\ other' = other /\ lost' = lost
      /\ stale' = Forget(p, va) /\ f # NoFrame /\ UsedAt("pgd", p, va) = f
  BY <1>0, ConstFacts DEF MemInv, Unmap, Is, UsedAt
<1>2. Release(f) /\ pgd' = [pgd EXCEPT ![p][va] = Invalid]
  BY <1>0 DEF Unmap
<1>3. /\ refs' = [refs EXCEPT ![f] = refs[f] - 1] /\ refs' \in [Frames -> 0 .. MaxRefs]
      /\ mem' \in [Frames -> Values] /\ \A g \in Frames : g # f => mem'[g] = mem[g]
      /\ mem' = mem \/ Alone("pgd", p, va)
  BY <1>1, <1>2, ReleaseFacts DEF Kinds
<1>4. /\ pgd' \in [Procs -> [Pages -> Entry]]
      /\ \A q \in Procs, vb \in Pages :
           pgd'[q][vb] = IF q = p /\ vb = va THEN Invalid ELSE pgd[q][vb]
      /\ \A q \in Procs : q # p => pgd'[q] = pgd[q]
  BY <1>1, <1>2, EntrySet DEF TypeOK, Entry
<1>5. /\ stale' \in [Procs -> SUBSET Cached]
      /\ \A q \in Procs : \A e : e \in stale'[q] <=> e \in stale[q] /\ (q = p => e.va # va)
  BY <1>1, StaleForgets
<1>6. TypeOK'
  BY <1>1, <1>3, <1>4, <1>5 DEF TypeOK
<1>7. UseDropped("pgd", p, va, f)
  BY <1>1, <1>4 DEF UseDropped, Elsewhere, Same, UsedAt, Invalid
<1>8. RefsAreUsers'
  BY <1>1, <1>3, <1>7, RefsDropped DEF Kinds
<1>9. Sharing'
  <2>1. ASSUME NEW k \in Kinds, NEW q \in Procs, NEW vb \in Pages, Private(k, q, vb)',
               ~Same(k, q, vb, "pgd", p, va)
        PROVE  Private(k, q, vb)
    BY <1>1, <1>4, <2>1 DEF Private, Same
  <2>2. NoFrame \notin lost
    BY <1>1, ConstFacts DEF TypeOK
  <2>3. QED
    BY <1>1, <1>7, <2>1, <2>2, SharingDropped DEF Kinds
<1>10. Kids'
  BY <1>1 DEF MemInv, Kids, Is
<1>11. Copied'
  BY <1>1, <1>4 DEF MemInv, Copied, Is, Mapped
<1>12. Loaded'
  BY <1>1, <1>3, LoadedStays DEF MemInv, Alone, Same, Kinds
<1>13. Faults'
  BY <1>1, <1>4, WhereFacts DEF MemInv, Faults, Is
<1>14. ASSUME NEW k \in Kinds, NEW r \in Procs, NEW vb \in Pages
       PROVE  UsedAt(k, r, vb)' = IF Same(k, r, vb, "pgd", p, va) THEN NoFrame ELSE UsedAt(k, r, vb)
  BY <1>7 DEF UseDropped, Elsewhere, Same
<1>15. Believed'
  <2> SUFFICES ASSUME NEW q \in Procs, NEW e \in stale'[q] PROVE BelievedOf(q, e)'
    BY DEF Believed
  <2>1. /\ e \in stale[q] /\ BelievedOf(q, e) /\ e.va \in Pages /\ (q = p => e.va # va)
        /\ e.pa # NoFrame
    BY <1>1, <1>5, StaleFacts DEF MemInv, Believed
  <2>2. QED
    BY <1>1, <1>4, <1>14, <2>1, BelievedStays
<1>16. Maps
  <2>1. Lives(p) /\ Lives(p)' /\ \A q \in Procs : Lives(q)' <=> Lives(q)
    BY <1>1 DEF Lives
  <2>2. mem' = mem \/ \A q \in Procs, vb \in Pages :
                          UsedAt("pgd", q, vb) = f => q = p /\ vb = va
    BY <1>1, <1>3 DEF Alone, Same, Kinds
  <2>3. ASSUME NEW q \in Procs, q # p PROVE Contents(q)' = Contents(q)
    BY <1>1, <1>3, <1>4, <2>1, <2>2, <2>3, UnusedIsUnseen
  <2>4. Contents(p)'[va] = Unmapped
    BY <1>4, <2>1 DEF Contents
  <2>5. ASSUME NEW vb \in Pages, vb # va PROVE Contents(p)'[vb] = Contents(p)[vb]
    <3>1. pgd[p][vb] # Invalid => /\ pgd[p][vb].pa \in Frames
                                  /\ mem' = mem \/ pgd[p][vb].pa # f
      BY <1>1, <2>2, <2>5, TableFacts, UsedFacts
    <3>2. QED
      BY <1>3, <1>4, <2>1, <2>5, <3>1 DEF Contents
  <2>6. memory' = [memory EXCEPT ![p][va] = Unmapped]
    BY <1>1, <1>6, <2>1, <2>3, <2>4, <2>5, OnePage
  <2>7. memory[p] # Gone
    BY <1>1, <2>1, ContentsFacts DEF memory
  <2>8. Space!Shrink(p, va)
    BY <1>1, <2>6, <2>7 DEF Space!Shrink, Space!Lives, memory
  <2>9. QED
    BY <2>8 DEF Maps, Space!Next
<1>17. QED
  BY <1>6, <1>8, <1>9, <1>10, <1>11, <1>12, <1>13, <1>15, <1>16 DEF MemInv
-----------------------------------------------------------------------------
\* Copy on write: nobody else uses the frame.
LEMMA CowAloneKeeps ==
    ASSUME MemInv, NEW p \in Procs, NEW va \in Pages, CowAlone(p, va)
    PROVE  MemInv' /\ Maps
<1>0. PICK f \in Frames : pgd[p][va] = [pa |-> f, ap |-> "COW"]
  <2>1. pgd[p][va] \in Entry /\ pgd[p][va].ap = "COW"
    BY TableFacts DEF MemInv, CowAlone
  <2>2. QED
    BY <2>1 DEF Entry, Invalid
<1>1. /\ TypeOK /\ RefsAreUsers /\ Sharing /\ at[p].op = "user"
      /\ at' = at /\ refs' = refs /\ mem' = mem /\ other' = other /\ lost' = lost
      /\ stale' = Forget(p, va) /\ f # NoFrame /\ UsedAt("pgd", p, va) = f
  BY <1>0, ConstFacts DEF MemInv, CowAlone, Is, UsedAt
<1>2. pgd' = [pgd EXCEPT ![p][va] = [pa |-> f, ap |-> "RW"]]
  <2>1. pgd' = [pgd EXCEPT ![p][va].ap = "RW"] /\ pgd \in [Procs -> [Pages -> Entry]]
    BY <1>1 DEF CowAlone, TypeOK
  <2>2. [pgd[p][va] EXCEPT !.ap = "RW"] = [pa |-> f, ap |-> "RW"]
    BY <1>0
  <2>3. QED
    BY <2>1, <2>2
<1>3. Alone("pgd", p, va)
  <2>1. refs[f] = 1
    <3>1. refs[f] >= 1 /\ refs[f] \in 0 .. MaxRefs
      BY <1>1, CountFacts DEF TypeOK, Kinds
    <3>2. ~(refs[f] > 1)
      BY <1>0 DEF CowAlone, Shared
    <3>3. QED
      BY <3>1, <3>2, ConstFacts
  <2>2. QED
    BY <1>1, <2>1, CountFacts DEF Kinds
<1>4. /\ pgd' \in [Procs -> [Pages -> Entry]]
      /\ \A q \in Procs, vb \in Pages :
           pgd'[q][vb] = IF q = p /\ vb = va THEN [pa |-> f, ap |-> "RW"] ELSE pgd[q][vb]
      /\ \A q \in Procs : q # p => pgd'[q] = pgd[q]
  <2>1. [pa |-> f, ap |-> "RW"] \in Entry
    BY DEF Entry
  <2>2. QED
    BY <1>1, <1>2, <2>1, EntrySet DEF TypeOK
<1>5. /\ stale' \in [Procs -> SUBSET Cached]
      /\ \A q \in Procs : \A e : e \in stale'[q] <=> e \in stale[q] /\ (q = p => e.va # va)
  BY <1>1, StaleForgets
<1>6. TypeOK'
  BY <1>1, <1>4, <1>5 DEF TypeOK
<1>7. UseKept
  BY <1>0, <1>1, <1>4 DEF UseKept, UsedAt
<1>8. RefsAreUsers'
  BY <1>1, <1>7, RefsKept
<1>9. Sharing'
  <2>1. ASSUME NEW k \in Kinds, NEW q \in Procs, NEW vb \in Pages, Private(k, q, vb)'
        PROVE  Private(k, q, vb) \/ Alone(k, q, vb)
    BY <1>1, <1>3, <1>4, <2>1 DEF Private
  <2>2. QED
    BY <1>1, <1>7, <2>1, SharingKept
<1>10. Kids'
  BY <1>1 DEF MemInv, Kids, Is
<1>11. Copied'
  BY <1>1, <1>4 DEF MemInv, Copied, Is, Mapped
<1>12. Loaded'
  BY <1>1 DEF MemInv, Loaded, Is
<1>13. Faults'
  BY <1>1, <1>4, WhereFacts DEF MemInv, Faults, Is
<1>14. Believed'
  <2> SUFFICES ASSUME NEW q \in Procs, NEW e \in stale'[q] PROVE BelievedOf(q, e)'
    BY DEF Believed
  <2>1. e \in stale[q] /\ BelievedOf(q, e) /\ e.va \in Pages /\ (q = p => e.va # va)
    BY <1>1, <1>5, StaleFacts DEF MemInv, Believed
  <2>2. QED
    BY <1>1, <1>4, <1>7, <2>1, BelievedStays DEF UseKept
<1>15. Maps
  <2>1. ASSUME NEW q \in Procs PROVE Contents(q)' = Contents(q)
    BY <1>0, <1>1, <1>4, ContentsKept DEF Lives, Invalid
  <2>2. QED
    BY <2>1, MapsStutter
<1>16. QED
  BY <1>6, <1>8, <1>9, <1>10, <1>11, <1>12, <1>13, <1>14, <1>15 DEF MemInv

\* Copy on write: a frame for the copy.
LEMMA CowFaultKeeps ==
    ASSUME MemInv, NEW p \in Procs, NEW va \in Pages, CowFault(p, va)
    PROVE  MemInv' /\ Maps
<1>0. PICK old \in Frames : pgd[p][va] = [pa |-> old, ap |-> "COW"]
  <2>1. pgd[p][va] \in Entry /\ pgd[p][va].ap = "COW"
    BY TableFacts DEF MemInv, CowFault
  <2>2. QED
    BY <2>1 DEF Entry, Invalid
<1>1. /\ TypeOK /\ RefsAreUsers /\ Sharing /\ at[p].op = "user" /\ other[p] = Empty
      /\ pgd' = pgd /\ other' = other /\ lost' = lost /\ stale' = stale
      /\ refs[old] > 1 /\ UsedAt("pgd", p, va) = old
  <2>1. /\ TypeOK /\ RefsAreUsers /\ Sharing /\ at[p].op = "user"
        /\ pgd' = pgd /\ other' = other /\ lost' = lost /\ stale' = stale
    BY DEF MemInv, CowFault, Is
  <2>2. refs[old] > 1
    BY <1>0 DEF CowFault, Shared
  <2>3. UsedAt("pgd", p, va) = old /\ other[p] = Empty
    BY <1>0, <2>1, WhereFacts DEF UsedAt
  <2>4. QED
    BY <2>1, <2>2, <2>3
<1>2. PICK f \in Frames :
        /\ Alloc(f) /\ mem' = [mem EXCEPT ![f] = Zero]
        /\ at' = [at EXCEPT ![p] = [op |-> "cow", va |-> va, new |-> f, old |-> old]]
  <2>1. pgd[p][va].pa = old
    BY <1>0
  <2>2. QED
    BY <2>1 DEF CowFault, Go
<1>3. /\ refs' = [refs EXCEPT ![f] = refs[f] + 1] /\ refs' \in [Frames -> 0 .. MaxRefs]
      /\ f \notin lost /\ f # NoFrame
      /\ \A k \in Kinds, q \in Procs, vb \in Pages : UsedAt(k, q, vb) # f
  BY <1>1, <1>2, AllocFacts
<1>4. /\ at' \in [Procs -> At] /\ at'[p].op = "cow" /\ at'[p].va = va /\ at'[p].new = f
      /\ at'[p].old = old /\ \A q \in Procs : q # p => at'[q] = at[q]
  <2>1. [op |-> "cow", va |-> va, new |-> f, old |-> old] \in At
    BY AtMembers
  <2>2. QED
    BY <1>1, <1>2, <2>1, AtSet
<1>5. /\ mem' \in [Frames -> Values] /\ \A g \in Frames : g # f => mem'[g] = mem[g]
  BY <1>1, <1>2, ConstFacts DEF TypeOK
<1>6. TypeOK'
  <2>1. \A q \in Procs : /\ at'[q].op \in {"unused", "reserved", "reap"} => pgd'[q] = Empty
                         /\ at'[q].op \notin {"fork", "load", "undo", "reap"} => other'[q] = Empty
    BY <1>1, <1>4 DEF TypeOK
  <2>2. QED
    BY <1>1, <1>3, <1>4, <1>5, <2>1 DEF TypeOK
<1>7. UseGained("hand", p, va, f)
  BY <1>1, <1>4 DEF UseGained, Elsewhere, Same, UsedAt, Kinds
<1>8. RefsAreUsers'
  BY <1>1, <1>3, <1>7, RefsGained DEF Kinds
<1>9. Sharing'
  <2>1. ASSUME NEW k \in Kinds, NEW q \in Procs, NEW vb \in Pages, Private(k, q, vb)', Used(k, q, vb),
               ~Same(k, q, vb, "hand", p, va)
        PROVE  Private(k, q, vb)
    BY <1>1, <1>4, <2>1, UsedFacts DEF Private, Same, Used, Kinds
  <2>2. QED
    BY <1>1, <1>3, <1>7, <2>1, SharingGained DEF Kinds
<1>10. Kids'
  BY <1>1, <1>4, KidsStay DEF MemInv
<1>11. Copied'
  BY <1>1, <1>4 DEF MemInv, Copied, Is, Mapped
<1>12. Loaded'
  BY <1>1, <1>3, <1>4, <1>5, LoadedStays DEF MemInv, Kinds
<1>13. Faults'
  BY <1>0, <1>1, <1>4 DEF MemInv, Faults, Is
<1>14. Believed'
  <2> SUFFICES ASSUME NEW q \in Procs, NEW e \in stale[q] PROVE BelievedOf(q, e)'
    BY <1>1 DEF Believed
  <2>1. BelievedOf(q, e) /\ e.va \in Pages /\ e.pa \in Frames
    BY <1>1, StaleFacts DEF MemInv, Believed
  <2>2. e.w => e.pa # f
    BY <1>1, <1>3, <2>1, BelievedIsUsed DEF Kinds
  <2>3. CASE q # p
    BY <1>1, <1>4, <1>7, <2>1, <2>2, <2>3, BelievedStays DEF UseGained, Elsewhere, Same
  <2>4. CASE q = p
    <3>1. pgd[p][e.va].pa = e.pa
      BY <1>1, <2>1, <2>4 DEF BelievedOf
    <3>2. e.w => e.va # va
      <4> SUFFICES ASSUME e.w, e.va = va PROVE FALSE
        OBVIOUS
      <4>1. e.pa = old
        BY <1>0, <3>1
      <4>2. Alone("pgd", p, va)
        <5>1. e = [va |-> va, pa |-> old, w |-> TRUE]
          BY <1>1, <4>1, <2>4 DEF TypeOK, Cached
        <5>2. QED
          BY <1>1, <2>4, <5>1, WritesAlone
      <4>3. refs[old] = 1
        BY <1>1, <4>2, AloneCount DEF Kinds, Sharing
      <4>4. QED
        BY <1>1, <4>3
    <3>3. ASSUME e.w, NEW k \in Kinds, NEW r \in Procs, NEW vb \in Pages, UsedAt(k, r, vb)' = e.pa
          PROVE  UsedAt(k, r, vb) = e.pa
      BY <1>7, <2>2, <3>3 DEF UseGained, Elsewhere, Same
    <3>4. QED
      BY <1>1, <1>4, <2>1, <2>4, <3>1, <3>2, <3>3 DEF BelievedOf
  <2>5. QED
    BY <2>3, <2>4
<1>15. Maps
  <2>1. ASSUME NEW q \in Procs PROVE Contents(q)' = Contents(q)
    <3>1. Lives(q)' <=> Lives(q)
      BY <1>1, <1>4 DEF Lives
    <3>2. QED
      BY <1>1, <1>3, <1>5, <3>1, UnusedIsUnseen DEF Kinds
  <2>2. QED
    BY <2>1, MapsStutter
<1>16. QED
  BY <1>6, <1>8, <1>9, <1>10, <1>11, <1>12, <1>13, <1>14, <1>15 DEF MemInv

\* What the TLB has not been told of the table.
LEMMA StaleLearns ==
    ASSUME TypeOK, NEW p \in Procs, NEW e \in Cached,
           stale' = [stale EXCEPT ![p] = stale[p] \cup {e}]
    PROVE  /\ stale' \in [Procs -> SUBSET Cached]
           /\ \A q \in Procs : \A x : x \in stale'[q] <=> x \in stale[q] \/ (q = p /\ x = e)
<1>1. stale[p] \cup {e} \in SUBSET Cached /\ stale \in [Procs -> SUBSET Cached]
  BY DEF TypeOK
<1>2. /\ stale' \in [Procs -> SUBSET Cached]
      /\ \A q \in Procs : stale'[q] = IF q = p THEN stale[p] \cup {e} ELSE stale[q]
  BY <1>1, StaleSet
<1>3. QED
  BY <1>2

\* Copy on write: the copy takes the place of the frame.
LEMMA CowCopyKeeps ==
    ASSUME MemInv, NEW p \in Procs, CowCopy(p)
    PROVE  MemInv' /\ Maps
<1>0. PICK f \in Frames, old \in Frames, va \in Pages :
         f = at[p].new /\ old = at[p].old /\ va = at[p].va
  BY WhereFacts DEF MemInv, CowCopy, Is
<1>1. /\ TypeOK /\ RefsAreUsers /\ Sharing /\ at[p].op = "cow"
      /\ refs' = refs /\ other' = other /\ lost' = lost
      /\ pgd[p][va] = [pa |-> old, ap |-> "COW"]
  BY <1>0 DEF MemInv, CowCopy, Is, Faults
<1>2. /\ mem' = [mem EXCEPT ![f] = mem[old]]
      /\ pgd' = [pgd EXCEPT ![p][va] = [pa |-> f, ap |-> "RW"]]
      /\ stale' = Stale(p, va)
  BY <1>0 DEF CowCopy
<1>3. /\ UsedAt("hand", p, va) = f /\ Private("hand", p, va) /\ f # NoFrame /\ old # NoFrame
      /\ UsedAt("pgd", p, va) = old /\ other[p] = Empty
  BY <1>0, <1>1, ConstFacts, WhereFacts DEF UsedAt, Private
<1>4. Alone("hand", p, va) /\ f # old
  BY <1>1, <1>3 DEF Sharing, Exclusive, Alone, Kinds, Same
<1>5. /\ pgd' \in [Procs -> [Pages -> Entry]]
      /\ \A q \in Procs, vb \in Pages :
           pgd'[q][vb] = IF q = p /\ vb = va THEN [pa |-> f, ap |-> "RW"] ELSE pgd[q][vb]
      /\ \A q \in Procs : q # p => pgd'[q] = pgd[q]
  <2>1. [pa |-> f, ap |-> "RW"] \in Entry
    BY DEF Entry
  <2>2. QED
    BY <1>1, <1>2, <2>1, EntrySet DEF TypeOK
<1>6. /\ at' \in [Procs -> At] /\ at'[p].op = "copied" /\ at'[p].va = va /\ at'[p].old = old
      /\ \A q \in Procs : q # p => at'[q] = at[q]
  <2> DEFINE w == [op |-> "copied", va |-> va, new |-> f, old |-> old]
  <2>1. w \in At
    BY AtMembers
  <2>2. at[p] = [op |-> "cow", va |-> va, new |-> f, old |-> old]
    BY <1>0, <1>1, WhereFacts, AtFacts
  <2>3. at' = [at EXCEPT ![p].op = "copied"]
    BY DEF CowCopy
  <2>4. at' = [at EXCEPT ![p] = w]
    <3>1. [at[p] EXCEPT !.op = "copied"] = w
      BY <2>2
    <3>2. at' = [at EXCEPT ![p] = [at[p] EXCEPT !.op = "copied"]]
      BY <1>1, <2>3 DEF TypeOK
    <3>3. QED
      BY <3>1, <3>2
  <2>5. at' \in [Procs -> At] /\ at'[p] = w /\ \A q \in Procs : q # p => at'[q] = at[q]
    BY <1>1, <2>1, <2>4, AtSet
  <2>6. QED
    BY <2>5
<1>7. /\ stale' \in [Procs -> SUBSET Cached]
      /\ \A q \in Procs : \A x : x \in stale'[q] <=>
            x \in stale[q] \/ (q = p /\ x = [va |-> va, pa |-> old, w |-> FALSE])
  <2> DEFINE e == [va |-> va, pa |-> old, w |-> FALSE]
  <2>1. e \in Cached
    BY DEF Cached
  <2>2. pgd[p][va].pa = old /\ (pgd[p][va].ap = "RW") = FALSE
    BY <1>1
  <2>3. stale' = [stale EXCEPT ![p] = stale[p] \cup {e}]
    BY <1>2, <2>2 DEF Stale
  <2> HIDE DEF e
  <2>4. /\ stale' \in [Procs -> SUBSET Cached]
        /\ \A q \in Procs : \A x : x \in stale'[q] <=> x \in stale[q] \/ (q = p /\ x = e)
    BY <1>1, <2>1, <2>3, StaleLearns
  <2>5. QED
    BY <2>4 DEF e
<1>8. /\ mem' \in [Frames -> Values] /\ mem'[f] = mem[old]
      /\ \A g \in Frames : g # f => mem'[g] = mem[g]
  BY <1>1, <1>2 DEF TypeOK
<1>9. TypeOK'
  <2>1. \A q \in Procs : /\ at'[q].op \in {"unused", "reserved", "reap"} => pgd'[q] = Empty
                         /\ at'[q].op \notin {"fork", "load", "undo", "reap"} => other'[q] = Empty
    BY <1>1, <1>3, <1>5, <1>6 DEF TypeOK
  <2>2. QED
    BY <1>1, <1>5, <1>6, <1>7, <1>8, <2>1 DEF TypeOK
<1>10. UseSwapped("pgd", p, "hand", p, {va})
  BY <1>1, <1>3, <1>5, <1>6, UsedFacts DEF UseSwapped, OneOfBoth, UsedAt, Kinds
<1>11. RefsAreUsers'
  BY <1>1, <1>10, RefsSwapped DEF Kinds
<1>12. Sharing'
  <2>1. \A vb \in Pages \ {va} : f # UsedAt("pgd", p, vb) /\ UsedAt("hand", p, vb) = NoFrame
    BY <1>0, <1>1, <1>3, <1>4, UsedFacts DEF Alone, Same, Kinds
  <2>2. ~Private("hand", p, va)'
    BY <1>6 DEF Private
  <2>3. ASSUME NEW k \in Kinds, NEW q \in Procs, NEW vb \in Pages, Private(k, q, vb)'
        PROVE  Private(k, q, vb) \/ (k = "pgd" /\ q = p /\ vb = va)
    BY <1>1, <1>5, <1>6, <2>3 DEF Private
  <2>4. QED
    BY <1>1, <1>3, <1>10, <2>1, <2>2, <2>3, SharingSwapped DEF Kinds, OneOfBoth
<1>13. Kids'
  BY <1>1, <1>6, KidsStay DEF MemInv
<1>14. Copied' /\ Faults'
  <2>1. Copied'
    BY <1>1, <1>5, <1>6 DEF MemInv, Copied, Is, Mapped
  <2>2. Faults'
    BY <1>1, <1>5, <1>6 DEF MemInv, Faults, Is
  <2>3. QED
    BY <2>1, <2>2
<1>15. Loaded'
  BY <1>1, <1>3, <1>4, <1>6, <1>8, LoadedStays DEF MemInv, Alone, Same, Kinds
<1>16. Believed'
  <2> SUFFICES ASSUME NEW q \in Procs, NEW e \in stale'[q] PROVE BelievedOf(q, e)'
    BY DEF Believed
  <2>1. CASE q = p /\ e = [va |-> va, pa |-> old, w |-> FALSE]
    BY <1>6, <2>1 DEF BelievedOf
  <2>2. CASE e \in stale[q]
    <3>1. BelievedOf(q, e) /\ e.va \in Pages /\ e.pa # NoFrame
      BY <1>1, <2>2, StaleFacts DEF MemInv, Believed
    <3>2. e.w => e.pa # f /\ e.pa # old
      <4>1. e.w => e.pa # f
        BY <1>3, <3>1 DEF BelievedOf, Kinds
      <4>2. e.w /\ e.pa = old => q = p /\ e.va = va
        BY <1>3, <3>1 DEF BelievedOf, Kinds
      <4>3. e.w /\ q = p => e.va # va
        BY <1>0, <1>1, <3>1 DEF BelievedOf
      <4>4. QED
        BY <4>1, <4>2, <4>3
    <3>3. ASSUME e.w, NEW k \in Kinds, NEW r \in Procs, NEW vb \in Pages, UsedAt(k, r, vb)' = e.pa
          PROVE  UsedAt(k, r, vb) = e.pa
      BY <1>3, <1>10, <3>2, <3>3 DEF UseSwapped, OneOfBoth
    <3>4. CASE q = p
      <4>1. pgd[p][e.va].pa = e.pa /\ (e.w => e.va # va)
        BY <1>0, <1>1, <3>1, <3>4 DEF BelievedOf
      <4>2. e.va # va => pgd'[p][e.va] = pgd[p][e.va]
        BY <1>5, <3>1
      <4>3. QED
        BY <1>6, <3>1, <3>3, <3>4, <4>1, <4>2 DEF BelievedOf
    <3>5. CASE q # p
      BY <1>5, <1>6, <3>1, <3>3, <3>5, BelievedStays
    <3>6. QED
      BY <3>4, <3>5
  <2>3. QED
    BY <1>7, <2>1, <2>2
<1>17. Maps
  <2>1. Lives(p) /\ Lives(p)' /\ \A q \in Procs : Lives(q)' <=> Lives(q)
    BY <1>1, <1>6 DEF Lives
  <2>2. \A q \in Procs, vb \in Pages : UsedAt("pgd", q, vb) # f
    BY <1>3, <1>4 DEF Alone, Same, Kinds
  <2>3. \A q \in Procs : q # p => Contents(q)' = Contents(q)
    BY <1>1, <1>5, <1>8, <2>1, <2>2, UnusedIsUnseen
  <2>4. ASSUME NEW vb \in Pages
        PROVE  (IF pgd'[p][vb] = Invalid THEN Unmapped ELSE mem'[pgd'[p][vb].pa])
                  = (IF pgd[p][vb] = Invalid THEN Unmapped ELSE mem[pgd[p][vb].pa])
    <3>1. CASE vb = va
      BY <1>1, <1>3, <1>5, <1>8, <3>1 DEF Invalid
    <3>2. CASE vb # va
      <4>1. pgd[p][vb] # Invalid => pgd[p][vb].pa \in Frames /\ pgd[p][vb].pa # f
        BY <1>1, <2>2, TableFacts, UsedFacts
      <4>2. QED
        BY <1>5, <1>8, <3>2, <4>1
    <3>3. QED
      BY <3>1, <3>2
  <2>5. Contents(p)' = Contents(p)
    BY <2>1, <2>4 DEF Contents
  <2>6. QED
    BY <2>3, <2>5, MapsStutter
<1>18. QED
  BY <1>9, <1>11, <1>12, <1>13, <1>14, <1>15, <1>16, <1>17 DEF MemInv

\* Copy on write: the old frame is let go.
LEMMA CowDoneKeeps ==
    ASSUME MemInv, NEW p \in Procs, CowDone(p)
    PROVE  MemInv' /\ Maps
<1>0. PICK f \in Frames, va \in Pages : f = at[p].old /\ va = at[p].va
  BY WhereFacts DEF MemInv, CowDone, Is
<1>1. /\ TypeOK /\ RefsAreUsers /\ Sharing /\ at[p].op = "copied" /\ other[p] = Empty
      /\ pgd' = pgd /\ other' = other /\ lost' = lost /\ stale' = Forget(p, va)
      /\ Release(f) /\ at' = [at EXCEPT ![p] = User]
  BY <1>0, WhereFacts DEF MemInv, CowDone, Is, Go
<1>2. UsedAt("hand", p, va) = f /\ f # NoFrame
  BY <1>0, <1>1, ConstFacts DEF UsedAt
<1>3. /\ refs' = [refs EXCEPT ![f] = refs[f] - 1] /\ refs' \in [Frames -> 0 .. MaxRefs]
      /\ mem' \in [Frames -> Values] /\ \A g \in Frames : g # f => mem'[g] = mem[g]
      /\ mem' = mem \/ Alone("hand", p, va)
  BY <1>1, <1>2, ReleaseFacts DEF Kinds
<1>4. /\ at' \in [Procs -> At] /\ at'[p].op = "user"
      /\ \A q \in Procs : q # p => at'[q] = at[q]
  BY <1>1, AtMembers, AtSet
<1>5. /\ stale' \in [Procs -> SUBSET Cached]
      /\ \A q \in Procs : \A e : e \in stale'[q] <=> e \in stale[q] /\ (q = p => e.va # va)
  BY <1>1, StaleForgets
<1>6. TypeOK'
  <2>1. \A q \in Procs : /\ at'[q].op \in {"unused", "reserved", "reap"} => pgd'[q] = Empty
                         /\ at'[q].op \notin {"fork", "load", "undo", "reap"} => other'[q] = Empty
    BY <1>1, <1>4 DEF TypeOK
  <2>2. QED
    BY <1>1, <1>3, <1>4, <1>5, <2>1 DEF TypeOK
<1>7. UseDropped("hand", p, va, f)
  BY <1>1, <1>2, <1>4, UsedFacts DEF UseDropped, Elsewhere, Same, UsedAt, Kinds
<1>8. RefsAreUsers'
  BY <1>1, <1>3, <1>7, RefsDropped DEF Kinds
<1>9. Sharing'
  <2>1. ASSUME NEW k \in Kinds, NEW q \in Procs, NEW vb \in Pages, Private(k, q, vb)'
        PROVE  Private(k, q, vb)
    BY <1>1, <1>4, <2>1 DEF Private
  <2>2. NoFrame \notin lost
    BY <1>1, ConstFacts DEF TypeOK
  <2>3. QED
    BY <1>1, <1>7, <2>1, <2>2, SharingDropped DEF Kinds
<1>10. Kids'
  BY <1>1, <1>4, KidsStay DEF MemInv
<1>11. Copied' /\ Faults'
  <2>1. Copied'
    BY <1>1, <1>4 DEF MemInv, Copied, Is, Mapped
  <2>2. Faults'
    BY <1>1, <1>4 DEF MemInv, Faults, Is
  <2>3. QED
    BY <2>1, <2>2
<1>12. Loaded'
  BY <1>1, <1>2, <1>3, <1>4, LoadedStays DEF MemInv, Alone, Same, Kinds
<1>13. Believed'
  <2> SUFFICES ASSUME NEW q \in Procs, NEW e \in stale'[q] PROVE BelievedOf(q, e)'
    BY DEF Believed
  <2>1. /\ e \in stale[q] /\ BelievedOf(q, e) /\ e.va \in Pages /\ e.pa # NoFrame
        /\ (q = p => e.va # va)
    BY <1>1, <1>5, StaleFacts DEF MemInv, Believed
  <2>2. at'[q] = at[q] \/ (/\ at[q].op = "copied" => at[q].va # e.va
                           /\ at'[q].op \notin {"cow", "copied"})
    BY <1>0, <1>4, <2>1
  <2>3. ASSUME NEW k \in Kinds, NEW r \in Procs, NEW vb \in Pages, UsedAt(k, r, vb)' = e.pa
        PROVE  UsedAt(k, r, vb) = e.pa
    <3>1. UsedAt(k, r, vb)' = IF Same(k, r, vb, "hand", p, va) THEN NoFrame ELSE UsedAt(k, r, vb)
      BY <1>7 DEF UseDropped, Elsewhere, Same
    <3>2. QED
      BY <2>1, <2>3, <3>1
  <2>4. QED
    BY <1>1, <2>1, <2>2, <2>3, BelievedStays
<1>14. Maps
  <2>1. mem' = mem \/ \A q \in Procs, vb \in Pages : UsedAt("pgd", q, vb) # f
    BY <1>2, <1>3 DEF Alone, Same, Kinds
  <2>2. ASSUME NEW q \in Procs PROVE Contents(q)' = Contents(q)
    <3>1. Lives(q)' <=> Lives(q)
      BY <1>1, <1>4 DEF Lives
    <3>2. QED
      BY <1>1, <1>3, <2>1, <3>1, UnusedIsUnseen
  <2>3. QED
    BY <2>2, MapsStutter
<1>15. QED
  BY <1>6, <1>8, <1>9, <1>10, <1>11, <1>12, <1>13, <1>14 DEF MemInv
-----------------------------------------------------------------------------
\* A step that moves no frame, where nobody goes in or out of a page fault, and
\* the TLB learns nothing.
LEMMA WhereMoves ==
    ASSUME MemInv, at' \in [Procs -> At], stale' \in [Procs -> SUBSET Cached],
           UNCHANGED <<pgd, other>>, \A q \in Procs : stale'[q] \subseteq stale[q],
           \A q \in Procs :
              \/ at'[q] = at[q]
              \/ /\ at[q].op \notin {"cow", "copied", "fetch"}
                 /\ at'[q].op \notin {"cow", "copied", "fetch"}
                 /\ at'[q].op \in {"unused", "reserved", "reap"} => pgd[q] = Empty
                 /\ at'[q].op \notin {"fork", "load", "undo", "reap"} => other[q] = Empty
    PROVE  /\ \A q \in Procs : /\ at'[q].op \in {"unused", "reserved", "reap"} => pgd'[q] = Empty
                               /\ at'[q].op \notin {"fork", "load", "undo", "reap"} => other'[q] = Empty
           /\ UseKept
           /\ \A k \in Kinds, q \in Procs, va \in Pages : Private(k, q, va)' = Private(k, q, va)
           /\ Faults' /\ Believed'
<1>1. TypeOK /\ Sharing /\ Believed
  BY DEF MemInv
<1>2. \A q \in Procs : /\ at'[q].op \in {"unused", "reserved", "reap"} => pgd'[q] = Empty
                       /\ at'[q].op \notin {"fork", "load", "undo", "reap"} => other'[q] = Empty
  BY <1>1 DEF TypeOK
<1>3. UseKept
  <2> SUFFICES ASSUME NEW k \in Kinds, NEW q \in Procs, NEW va \in Pages
               PROVE  UsedAt(k, q, va)' = UsedAt(k, q, va)
    BY DEF UseKept
  <2>1. CASE at'[q] = at[q]
    BY <2>1 DEF UsedAt
  <2>2. CASE at[q].op \notin {"cow", "copied", "fetch"} /\ at'[q].op \notin {"cow", "copied", "fetch"}
    BY <2>2 DEF UsedAt
  <2>3. QED
    BY <2>1, <2>2
<1>4. \A k \in Kinds, q \in Procs, va \in Pages : Private(k, q, va)' = Private(k, q, va)
  <2> SUFFICES ASSUME NEW k \in Kinds, NEW q \in Procs, NEW va \in Pages
               PROVE  Private(k, q, va)' = Private(k, q, va)
    OBVIOUS
  <2>1. at'[q].op \in {"cow", "fetch"} <=> at[q].op \in {"cow", "fetch"}
    OBVIOUS
  <2>2. QED
    BY <2>1 DEF Private
<1>5. Faults'
  <2> SUFFICES ASSUME NEW q \in Procs
               PROVE  /\ at'[q].op = "cow" => pgd[q][at'[q].va] = [pa |-> at'[q].old, ap |-> "COW"]
                      /\ at'[q].op = "fetch" => pgd[q][at'[q].va] = Invalid
    BY DEF Faults, Is
  <2>1. QED
    BY DEF MemInv, Faults, Is
<1>6. Believed'
  <2> SUFFICES ASSUME NEW q \in Procs, NEW e \in stale'[q] PROVE BelievedOf(q, e)'
    BY DEF Believed
  <2>1. e \in stale[q]
    OBVIOUS
  <2>2. BelievedOf(q, e)
    BY <1>1, <2>1 DEF Believed
  <2>3. \A k \in Kinds, r \in Procs, va \in Pages : UsedAt(k, r, va)' = e.pa => UsedAt(k, r, va) = e.pa
    BY <1>3 DEF UseKept
  <2>4. QED
    BY <2>2, <2>3, BelievedStays
<1>7. QED
  BY <1>2, <1>3, <1>4, <1>5, <1>6

\* The same when no count and no content changes either.
LEMMA OnlyWhere ==
    ASSUME MemInv, at' \in [Procs -> At], stale' \in [Procs -> SUBSET Cached],
           UNCHANGED <<refs, mem, pgd, other, lost>>, \A q \in Procs : stale'[q] \subseteq stale[q],
           \A q \in Procs :
              \/ at'[q] = at[q]
              \/ /\ at[q].op \notin {"cow", "copied", "fetch"}
                 /\ at'[q].op \notin {"cow", "copied", "fetch"}
                 /\ at'[q].op \in {"unused", "reserved", "reap"} => pgd[q] = Empty
                 /\ at'[q].op \notin {"fork", "load", "undo", "reap"} => other[q] = Empty
    PROVE  TypeOK' /\ RefsAreUsers' /\ Sharing' /\ Faults' /\ Believed'
<1>1. TypeOK /\ RefsAreUsers /\ Sharing
  BY DEF MemInv
<1>2. /\ \A q \in Procs : /\ at'[q].op \in {"unused", "reserved", "reap"} => pgd'[q] = Empty
                          /\ at'[q].op \notin {"fork", "load", "undo", "reap"} => other'[q] = Empty
      /\ UseKept
      /\ \A k \in Kinds, q \in Procs, va \in Pages : Private(k, q, va)' = Private(k, q, va)
      /\ Faults' /\ Believed'
  BY WhereMoves
<1>3. TypeOK'
  BY <1>1, <1>2 DEF TypeOK
<1>4. RefsAreUsers'
  BY <1>1, <1>2, RefsKept
<1>5. Sharing'
  BY <1>1, <1>2, SharingKept
<1>6. QED
  BY <1>2, <1>3, <1>4, <1>5

\* Who filled a place is done with it.
LEMMA KidsDone ==
    ASSUME TypeOK, Kids, NEW p \in Procs, at[p].op \in {"fork", "load"},
           at'[p].op \notin {"fork", "load"}, at'[at[p].kid].op \notin {"fork", "load"},
           \A q \in Procs : q # p /\ q # at[p].kid => at'[q] = at[q]
    PROVE  Kids'
<1> SUFFICES ASSUME NEW q \in Procs, at'[q].op \in {"fork", "load"}
             PROVE  /\ at'[at'[q].kid].op = "reserved" \/ (at'[q].op = "load" /\ at'[q].kid = q)
                    /\ \A r \in Procs : at'[r].op \in {"fork", "load"} /\ at'[r].kid = at'[q].kid
                                            => r = q
  BY DEF Kids, Is
<1>1. q # p /\ q # at[p].kid /\ at'[q] = at[q] /\ at[q].kid \in Procs
  BY WhereFacts
<1>2. /\ at[at[q].kid].op = "reserved" \/ (at[q].op = "load" /\ at[q].kid = q)
      /\ \A r \in Procs : at[r].op \in {"fork", "load"} /\ at[r].kid = at[q].kid => r = q
  BY <1>1 DEF Kids, Is
<1>3. at[q].kid # at[p].kid
  BY <1>1, <1>2
<1>4. at[at[q].kid].op = "reserved" => at'[at[q].kid] = at[at[q].kid]
  BY <1>1, <1>3
<1>5. ASSUME NEW r \in Procs, at'[r].op \in {"fork", "load"}, at'[r].kid = at'[q].kid
      PROVE  r = q
  <2>1. at'[r] = at[r]
    BY <1>5
  <2>2. QED
    BY <1>1, <1>2, <1>5, <2>1
<1>6. QED
  BY <1>1, <1>2, <1>4, <1>5

\* What could not be made is destroyed, and the place is free.
LEMMA GiveUpFacts ==
    ASSUME MemInv, NEW p \in Procs, at[p].op \in {"fork", "load"}, GiveUp(p)
    PROVE  /\ at' \in [Procs -> At] /\ at'[p] = [op |-> "undo"] /\ at'[p].op = "undo"
           /\ \A q \in Procs : q # p =>
                 \/ at'[q] = at[q]
                 \/ /\ at[q].op = "reserved" /\ at'[q].op = "unused"
                    /\ pgd[q] = Empty /\ other[q] = Empty
           /\ \A q \in Procs : at'[q].op \in {"fork", "load"} => q # p /\ at'[q] = at[q]
           /\ \A q \in Procs : Lives(q)' = Lives(q)
           /\ Kids'
<1> DEFINE c == at[p].kid
<1>1. TypeOK /\ Kids
  BY DEF MemInv
<1>2. c \in Procs /\ (c = p \/ at[c].op = "reserved")
  BY <1>1, WhereFacts DEF Kids, Is
<1>3. /\ at'[p] = [op |-> "undo"]
      /\ \A q \in Procs : q # p => at'[q] = IF q = c THEN [op |-> "unused"] ELSE at[q]
  BY DEF GiveUp
<1>4. at' \in [Procs -> At]
  <2>1. [op |-> "undo"] \in At /\ [op |-> "unused"] \in At /\ at \in [Procs -> At]
    BY <1>1, AtMembers DEF TypeOK
  <2>2. \A q \in Procs : (CASE q = p -> [op |-> "undo"]
                            [] q = c /\ q # p -> [op |-> "unused"]
                            [] OTHER -> at[q]) \in At
    BY <2>1
  <2>3. QED
    BY <2>2 DEF GiveUp
<1>5. \A q \in Procs : q # p =>
         \/ at'[q] = at[q]
         \/ /\ at[q].op = "reserved" /\ at'[q].op = "unused" /\ pgd[q] = Empty /\ other[q] = Empty
  BY <1>1, <1>2, <1>3, WhereFacts
<1>6. at'[p].op = "undo" /\ at'[c].op \notin {"fork", "load"}
  BY <1>2, <1>3
<1>7. Kids'
  BY <1>1, <1>2, <1>3, <1>6, KidsDone
<1>8. \A q \in Procs : Lives(q)' = Lives(q)
  BY <1>5, <1>6 DEF Lives
<1>9. \A q \in Procs : at'[q].op \in {"fork", "load"} => q # p /\ at'[q] = at[q]
  BY <1>5, <1>6
<1>10. QED
  BY <1>3, <1>4, <1>5, <1>6, <1>7, <1>8, <1>9
-----------------------------------------------------------------------------
\* A fork starts.
LEMMA ForkKeeps ==
    ASSUME MemInv, NEW p \in Procs, Fork(p)
    PROVE  MemInv' /\ Maps
<1>1. /\ TypeOK /\ Kids /\ at[p].op = "user" /\ UNCHANGED <<refs, mem, pgd, other, lost, stale>>
      /\ other[p] = Empty
  BY WhereFacts DEF MemInv, Fork, Is
<1>2. PICK c \in Procs :
        /\ at[c].op = "unused"
        /\ at' = [at EXCEPT ![p] = [op |-> "fork", kid |-> c, left |-> Mapped(pgd[p])],
                            ![c] = [op |-> "reserved"]]
  BY DEF Fork, Is
<1>3. /\ at' \in [Procs -> At] /\ at'[p].op = "fork" /\ at'[p].kid = c
      /\ at'[p].left = Mapped(pgd[p]) /\ c # p /\ at'[c].op = "reserved"
      /\ \A q \in Procs : q # p /\ q # c => at'[q] = at[q]
  <2> DEFINE w == [op |-> "fork", kid |-> c, left |-> Mapped(pgd[p])]
             v == [op |-> "reserved"]
  <2>1. Mapped(pgd[p]) \in SUBSET Pages
    BY DEF Mapped
  <2>2. w \in At /\ v \in At
    BY <2>1, AtMembers
  <2>3. w.op = "fork" /\ w.kid = c /\ w.left = Mapped(pgd[p]) /\ v.op = "reserved"
    OBVIOUS
  <2> HIDE DEF w, v
  <2>4. c # p /\ at' = [at EXCEPT ![p] = w, ![c] = v]
    BY <1>1, <1>2 DEF w, v
  <2>5. at' \in [Procs -> At] /\ at'[p] = w /\ at'[c] = v
    BY <1>1, <2>2, <2>4 DEF TypeOK
  <2>6. \A q \in Procs : q # p /\ q # c => at'[q] = at[q]
    BY <1>1, <2>4 DEF TypeOK
  <2>7. QED
    BY <2>3, <2>4, <2>5, <2>6
<1>4. TypeOK' /\ RefsAreUsers' /\ Sharing' /\ Faults' /\ Believed'
  <2>1. pgd[c] = Empty
    BY <1>1, <1>2, WhereFacts
  <2>2. \A q \in Procs :
              \/ at'[q] = at[q]
              \/ /\ at[q].op \notin {"cow", "copied", "fetch"}
                 /\ at'[q].op \notin {"cow", "copied", "fetch"}
                 /\ at'[q].op \in {"unused", "reserved", "reap"} => pgd[q] = Empty
                 /\ at'[q].op \notin {"fork", "load", "undo", "reap"} => other[q] = Empty
    BY <1>1, <1>2, <1>3, <2>1, WhereFacts
  <2>3. stale' \in [Procs -> SUBSET Cached] /\ \A q \in Procs : stale'[q] \subseteq stale[q]
    BY <1>1 DEF TypeOK
  <2>4. QED
    BY <1>1, <1>3, <2>2, <2>3, OnlyWhere
<1>5. Kids'
  <2> SUFFICES ASSUME NEW q \in Procs, at'[q].op \in {"fork", "load"}
               PROVE  /\ at'[at'[q].kid].op = "reserved" \/ (at'[q].op = "load" /\ at'[q].kid = q)
                      /\ \A r \in Procs : at'[r].op \in {"fork", "load"} /\ at'[r].kid = at'[q].kid
                                              => r = q
    BY DEF Kids, Is
  <2>1. \A r \in Procs : at[r].op \in {"fork", "load"} =>
            /\ at[r].kid \in Procs /\ at[r].kid # c /\ at[r].kid # p
            /\ at[at[r].kid].op = "reserved" \/ (at[r].op = "load" /\ at[r].kid = r)
    BY <1>1, <1>2, WhereFacts DEF Kids, Is
  <2>2. \A r \in Procs : at'[r].op \in {"fork", "load"} /\ r # p =>
            at[r].op \in {"fork", "load"} /\ at'[r] = at[r]
    BY <1>3
  <2>3. CASE q = p
    BY <1>3, <2>1, <2>2, <2>3
  <2>4. CASE q # p
    <3>1. at'[q] = at[q] /\ at[q].op \in {"fork", "load"} /\ at[q].kid # c
      BY <2>1, <2>2, <2>4
    <3>2. at'[at[q].kid] = at[at[q].kid]
      BY <1>3, <2>1, <3>1
    <3>3. ASSUME NEW r \in Procs, at'[r].op \in {"fork", "load"}, at'[r].kid = at[q].kid
          PROVE  r = q
      <4>1. r # p
        BY <1>3, <3>1, <3>3
      <4>2. at'[r] = at[r] /\ at[r].op \in {"fork", "load"}
        BY <2>2, <3>3, <4>1
      <4>3. QED
        BY <1>1, <3>1, <3>3, <4>2 DEF Kids
    <3>4. QED
      BY <2>1, <3>1, <3>2, <3>3
  <2>5. QED
    BY <2>3, <2>4
<1>6. Copied'
  <2> SUFFICES ASSUME NEW q \in Procs, at'[q].op = "fork"
               PROVE  /\ at'[q].left \subseteq Mapped(pgd[q])
                      /\ \A va \in Pages : other[q][va] = IF va \in at'[q].left THEN Invalid ELSE pgd[q][va]
    BY <1>1 DEF Copied, Is, Mapped
  <2>1. CASE q = p
    BY <1>1, <1>3, <2>1 DEF Mapped, Empty
  <2>2. CASE q # p
    BY <1>3, <2>2 DEF MemInv, Copied, Is
  <2>3. QED
    BY <2>1, <2>2
<1>7. Loaded'
  BY <1>1, <1>3, LoadedStays DEF MemInv
<1>8. Maps
  <2>1. \A q \in Procs : Lives(q)' <=> Lives(q)
    BY <1>1, <1>2, <1>3 DEF Lives
  <2>2. \A q \in Procs : Contents(q)' = Contents(q)
    BY <1>1, <2>1, ContentsKept
  <2>3. QED
    BY <2>2, MapsStutter
<1>9. QED
  BY <1>4, <1>5, <1>6, <1>7, <1>8 DEF MemInv
-----------------------------------------------------------------------------
\* A process has a frame at most twice, in its table and in the one it builds or in
\* its hands: there is room to count one use more.
LEMMA RoomToCount ==
    ASSUME TypeOK, RefsAreUsers, OncePerTable, NEW f \in Frames, f \notin lost
    PROVE  refs[f] \in Nat /\ refs[f] < MaxRefs
<1> DEFINE T == Procs \X {"table", "spare"}
           g == [u \in UsesOf(f) |-> <<u[2], IF u[1] = "pgd" THEN "table" ELSE "spare">>]
<1>1. /\ IsFiniteSet(Procs) /\ Cardinality(Procs) \in Nat
      /\ IsFiniteSet({"table", "spare"}) /\ Cardinality({"table", "spare"}) = 2
  <2>1. IsFiniteSet(Procs) /\ Cardinality(Procs) \in Nat
    BY Finite, FS_CardinalityType
  <2>2. IsFiniteSet({"table"}) /\ Cardinality({"table"}) = 1
    BY FS_Singleton
  <2>3. "spare" \notin {"table"} /\ {"table", "spare"} = {"table"} \cup {"spare"}
    OBVIOUS
  <2>4. IsFiniteSet({"table", "spare"}) /\ Cardinality({"table", "spare"}) = 1 + 1
    BY <2>2, <2>3, FS_AddElement
  <2>5. QED
    BY <2>1, <2>4
<1>2. IsFiniteSet(T) /\ Cardinality(T) = Cardinality(Procs) * 2
  BY <1>1, FS_Product
<1>3. g \in Injection(UsesOf(f), T)
  <2>1. g \in [UsesOf(f) -> T]
    <3>1. ASSUME NEW u \in UsesOf(f) PROVE <<u[2], IF u[1] = "pgd" THEN "table" ELSE "spare">> \in T
      BY UsesFacts DEF Uses
    <3>2. QED
      BY <3>1
  <2>2. ASSUME NEW u \in UsesOf(f), NEW v \in UsesOf(f), g[u] = g[v] PROVE u = v
    <3>1. PICK k \in Kinds, p \in Procs, va \in Pages : u = <<k, p, va>>
      BY UsesFacts DEF Uses
    <3>2. PICK j \in Kinds, q \in Procs, vb \in Pages : v = <<j, q, vb>>
      BY UsesFacts DEF Uses
    <3>3. UsedAt(k, p, va) = f /\ UsedAt(j, q, vb) = f /\ f # NoFrame
      BY <3>1, <3>2, UsesFacts, ConstFacts
    <3>4. <<p, IF k = "pgd" THEN "table" ELSE "spare">> = <<q, IF j = "pgd" THEN "table" ELSE "spare">>
      BY <2>2, <3>1, <3>2
    <3>5. p = q /\ (k = "pgd" <=> j = "pgd")
      BY <3>4
    <3>6. UsedAt("hand", p, va) = NoFrame \/ UsedAt("other", p, vb) = NoFrame
      BY UsedFacts, WhereFacts DEF Empty, Invalid
    <3>7. UsedAt("hand", p, vb) = NoFrame \/ UsedAt("other", p, va) = NoFrame
      BY UsedFacts, WhereFacts DEF Empty, Invalid
    <3>8. k = j
      BY <3>3, <3>5, <3>6, <3>7 DEF Kinds
    <3>9. va = vb
      BY <3>3, <3>5, <3>8 DEF OncePerTable
    <3>10. QED
      BY <3>1, <3>2, <3>5, <3>8, <3>9
  <2> HIDE DEF g
  <2>3. QED
    BY <2>1, <2>2 DEF Injection, IsInjective
<1> HIDE DEF g, T
<1>4. Cardinality(UsesOf(f)) <= Cardinality(T) /\ Cardinality(UsesOf(f)) \in Nat
  BY <1>2, <1>3, FS_Injection, UsesFacts
<1>5. refs[f] = Cardinality(UsesOf(f))
  BY <1>4 DEF RefsAreUsers, Users
<1>6. QED
  BY <1>1, <1>2, <1>4, <1>5, MemoryAssumption

\* A page that is marked for a fork...
Marked(p, va, e) ==
    /\ va = Least(at[p].left) /\ e = SharedEntry(pgd[p][va])
    /\ pgd' = [pgd EXCEPT ![p][va] = e]
    /\ stale' = IF e = pgd[p][va] THEN stale ELSE Stale(p, va)

\* ... is where it was, to be read, and the TLB may still believe that it may be
\* written.
LEMMA MarkFacts ==
    ASSUME MemInv, NEW p \in Procs, at[p].op = "fork", at[p].left # {},
           NEW va, NEW e, Marked(p, va, e)
    PROVE  /\ va \in Pages /\ va \in at[p].left /\ pgd[p][va] # Invalid
           /\ e \in Entry /\ e.pa = pgd[p][va].pa /\ e.pa \in Frames /\ e # Invalid
           /\ e.ap # "RW" /\ (e.ap = "RO" => pgd[p][va].ap = "RO")
           /\ pgd' \in [Procs -> [Pages -> Entry]]
           /\ \A q \in Procs, vb \in Pages :
                 pgd'[q][vb] = IF q = p /\ vb = va THEN e ELSE pgd[q][vb]
           /\ \A q \in Procs : q # p => pgd'[q] = pgd[q]
           /\ stale' \in [Procs -> SUBSET Cached]
           /\ \A q \in Procs : \A x : x \in stale'[q] =>
                 \/ x \in stale[q]
                 \/ q = p /\ x = [va |-> va, pa |-> e.pa, w |-> TRUE] /\ pgd[p][va].ap = "RW"
<1>1. TypeOK
  BY DEF MemInv
<1>2. va \in at[p].left /\ va \in Pages /\ pgd[p][va] # Invalid
  <2>1. at[p].left \in SUBSET Pages
    BY <1>1, WhereFacts
  <2>2. va \in at[p].left
    BY <2>1, LeastFacts DEF Marked
  <2>3. at[p].left \subseteq Mapped(pgd[p])
    BY DEF MemInv, Copied, Is
  <2>4. QED
    BY <2>1, <2>2, <2>3 DEF Mapped
<1>3. PICK f \in Frames, ap \in {"RW", "RO", "COW"} : pgd[p][va] = [pa |-> f, ap |-> ap]
  BY <1>1, <1>2, TableFacts DEF Entry
<1>4. e = [pa |-> f, ap |-> IF ap = "RW" THEN "COW" ELSE ap]
  BY <1>3 DEF SharedEntry, Marked
<1>5. e \in Entry /\ e.pa = f /\ e # Invalid /\ e.ap # "RW" /\ (e.ap = "RO" => ap = "RO")
  <2>1. e \in Entry /\ e.pa = f /\ e.ap # "RW" /\ (e.ap = "RO" => ap = "RO")
    BY <1>4 DEF Entry
  <2>2. e # Invalid
    BY <2>1, EntryFacts, ConstFacts
  <2>3. QED
    BY <2>1, <2>2
<1>6. /\ pgd' \in [Procs -> [Pages -> Entry]]
      /\ \A q \in Procs, vb \in Pages :
            pgd'[q][vb] = IF q = p /\ vb = va THEN e ELSE pgd[q][vb]
      /\ \A q \in Procs : q # p => pgd'[q] = pgd[q]
  BY <1>1, <1>2, <1>5, EntrySet DEF TypeOK, Marked
<1>7. /\ stale' \in [Procs -> SUBSET Cached]
      /\ \A q \in Procs : \A x : x \in stale'[q] =>
            \/ x \in stale[q]
            \/ q = p /\ x = [va |-> va, pa |-> e.pa, w |-> TRUE] /\ pgd[p][va].ap = "RW"
  <2>1. CASE ap = "RW"
    <3> DEFINE x == [va |-> va, pa |-> f, w |-> TRUE]
    <3>1. e # pgd[p][va] /\ pgd[p][va].pa = f /\ (pgd[p][va].ap = "RW") = TRUE
      BY <1>3, <1>5, <2>1
    <3>2. x \in Cached
      BY <1>2 DEF Cached
    <3>3. stale' = [stale EXCEPT ![p] = stale[p] \cup {x}]
      BY <3>1 DEF Stale, Marked
    <3> HIDE DEF x
    <3>4. /\ stale' \in [Procs -> SUBSET Cached]
          /\ \A q \in Procs : \A y : y \in stale'[q] <=> y \in stale[q] \/ (q = p /\ y = x)
      BY <1>1, <3>2, <3>3, StaleLearns
    <3>5. QED
      BY <1>5, <3>1, <3>4 DEF x
  <2>2. CASE ap # "RW"
    <3>1. stale' = stale
      BY <1>3, <1>4, <2>2 DEF Marked
    <3>2. QED
      BY <1>1, <3>1 DEF TypeOK
  <2>3. QED
    BY <2>1, <2>2
<1>8. QED
  BY <1>2, <1>3, <1>5, <1>6, <1>7

\* What the TLB believes when a page has been marked, and perhaps noted for the
\* child.
LEMMA MarkBelieved ==
    ASSUME MemInv, NEW p \in Procs, at[p].op = "fork", NEW va \in Pages, NEW e,
           e.pa \in Frames, e.pa = pgd[p][va].pa, e.ap # "RW", e.ap = "RO" => pgd[p][va].ap = "RO",
           \A q \in Procs, vb \in Pages :
                 pgd'[q][vb] = IF q = p /\ vb = va THEN e ELSE pgd[q][vb],
           \A q \in Procs : \A x : x \in stale'[q] =>
                 \/ x \in stale[q]
                 \/ q = p /\ x = [va |-> va, pa |-> e.pa, w |-> TRUE] /\ pgd[p][va].ap = "RW",
           \A q \in Procs : \/ at'[q] = at[q]
                            \/ /\ at[q].op \notin {"cow", "copied"}
                               /\ at'[q].op \notin {"cow", "copied"},
           \A k \in Kinds, q \in Procs, vb \in Pages :
                 \/ UsedAt(k, q, vb)' = UsedAt(k, q, vb)
                 \/ Same(k, q, vb, "other", p, va) /\ UsedAt(k, q, vb)' = e.pa
    PROVE  Believed'
<1> SUFFICES ASSUME NEW q \in Procs, NEW x \in stale'[q] PROVE BelievedOf(q, x)'
  BY DEF Believed
<1>1. TypeOK /\ UsedAt("pgd", p, va) = e.pa /\ e.pa # NoFrame /\ "pgd" \in Kinds
  BY ConstFacts DEF MemInv, UsedAt, Kinds
<1>2. CASE x \in stale[q]
  <2>1. BelievedOf(q, x) /\ x.va \in Pages
    BY <1>1, <1>2, StaleFacts DEF MemInv, Believed
  <2>2. x.w /\ x.pa = e.pa => q = p /\ x.va = va
    BY <1>1, <2>1 DEF BelievedOf
  <2>3. ASSUME x.w, NEW k \in Kinds, NEW r \in Procs, NEW vb \in Pages, UsedAt(k, r, vb)' = x.pa
        PROVE  UsedAt(k, r, vb) = x.pa \/ (k # "hand" /\ r = q /\ vb = x.va)
    BY <2>2, <2>3 DEF Same
  <2>4. /\ pgd'[q][x.va].pa = pgd[q][x.va].pa
        /\ pgd'[q][x.va].ap # "RO" \/ pgd'[q][x.va].ap = pgd[q][x.va].ap
    BY <2>1
  <2>5. at'[q] = at[q] \/ (/\ at[q].op = "copied" => at[q].va # x.va
                           /\ at'[q].op \notin {"cow", "copied"})
    OBVIOUS
  <2>6. QED
    BY <2>1, <2>3, <2>4, <2>5, BelievedStays
<1>3. CASE q = p /\ x = [va |-> va, pa |-> e.pa, w |-> TRUE] /\ pgd[p][va].ap = "RW"
  <2>1. Alone("pgd", p, va)
    BY <1>1, <1>3 DEF MemInv, Sharing, Exclusive, Alone, Private
  <2>2. pgd'[p][va] = e /\ e.ap # "RO" /\ at'[p].op \notin {"cow", "copied"}
    BY <1>3
  <2>3. ASSUME NEW k \in Kinds, NEW r \in Procs, NEW vb \in Pages, UsedAt(k, r, vb)' = e.pa
        PROVE  k # "hand" /\ r = p /\ vb = va
    BY <1>1, <2>1, <2>3 DEF Alone, Same
  <2>4. x.va = va /\ x.pa = e.pa
    BY <1>3
  <2>5. QED
    BY <1>3, <2>2, <2>3, <2>4 DEF BelievedOf
<1>4. QED
  BY <1>2, <1>3

\* A page is shared with the child.
LEMMA ForkPageKeeps ==
    ASSUME MemInv, NEW p \in Procs, ForkPage(p)
    PROVE  MemInv' /\ Maps
<1>0. PICK va, e :
        /\ Marked(p, va, e)
        /\ refs' = [refs EXCEPT ![e.pa] = OneMore(refs[e.pa])]
        /\ other' = [other EXCEPT ![p][va] = e]
        /\ at' = [at EXCEPT ![p].left = at[p].left \ {va}]
  BY DEF ForkPage, Marked
<1>1. /\ TypeOK /\ RefsAreUsers /\ Sharing /\ at[p].op = "fork" /\ at[p].left # {}
      /\ mem' = mem /\ lost' = lost
  BY DEF MemInv, ForkPage, Is
<1>2. /\ va \in Pages /\ va \in at[p].left /\ pgd[p][va] # Invalid
      /\ e \in Entry /\ e.pa = pgd[p][va].pa /\ e.pa \in Frames /\ e # Invalid
      /\ e.ap # "RW" /\ (e.ap = "RO" => pgd[p][va].ap = "RO")
      /\ pgd' \in [Procs -> [Pages -> Entry]]
      /\ \A q \in Procs, vb \in Pages :
            pgd'[q][vb] = IF q = p /\ vb = va THEN e ELSE pgd[q][vb]
      /\ \A q \in Procs : q # p => pgd'[q] = pgd[q]
      /\ stale' \in [Procs -> SUBSET Cached]
      /\ \A q \in Procs : \A x : x \in stale'[q] =>
            \/ x \in stale[q]
            \/ q = p /\ x = [va |-> va, pa |-> e.pa, w |-> TRUE] /\ pgd[p][va].ap = "RW"
  BY <1>0, <1>1, MarkFacts
<1>3. PICK f \in Frames : f = e.pa
  BY <1>2
<1>4. /\ at[p].left \in SUBSET Pages /\ at[p].left \subseteq Mapped(pgd[p])
      /\ \A vb \in Pages : other[p][vb] = IF vb \in at[p].left THEN Invalid ELSE pgd[p][vb]
  BY <1>1, WhereFacts DEF MemInv, Copied, Is
<1>5. /\ at' \in [Procs -> At] /\ at'[p].op = "fork" /\ at'[p].kid = at[p].kid
      /\ at'[p].left = at[p].left \ {va} /\ \A q \in Procs : q # p => at'[q] = at[q]
  <2> DEFINE w == [op |-> "fork", kid |-> at[p].kid, left |-> at[p].left \ {va}]
  <2>1. at[p].kid \in Procs /\ at[p].left \ {va} \in SUBSET Pages
    BY <1>1, <1>4, WhereFacts
  <2>2. w \in At
    BY <2>1, AtMembers
  <2>3. at[p] = [op |-> "fork", kid |-> at[p].kid, left |-> at[p].left]
    BY <1>1, WhereFacts, AtFacts
  <2>4. [at[p] EXCEPT !.left = at[p].left \ {va}] = w
    BY <2>3
  <2>5. at' = [at EXCEPT ![p] = [at[p] EXCEPT !.left = at[p].left \ {va}]]
    BY <1>0, <1>1 DEF TypeOK
  <2>6. at' = [at EXCEPT ![p] = w]
    BY <2>4, <2>5
  <2>7. at' \in [Procs -> At] /\ at'[p] = w /\ \A q \in Procs : q # p => at'[q] = at[q]
    BY <1>1, <2>2, <2>6, AtSet
  <2>8. QED
    BY <2>7
<1>6. /\ other' \in [Procs -> [Pages -> Entry]]
      /\ \A q \in Procs, vb \in Pages :
            other'[q][vb] = IF q = p /\ vb = va THEN e ELSE other[q][vb]
      /\ \A q \in Procs : q # p => other'[q] = other[q]
  BY <1>0, <1>1, <1>2, EntrySet DEF TypeOK
<1>7. /\ UsedAt("pgd", p, va) = f /\ f # NoFrame /\ "pgd" \in Kinds /\ "other" \in Kinds
      /\ f \notin lost
  <2>1. UsedAt("pgd", p, va) = f /\ f # NoFrame /\ "pgd" \in Kinds /\ "other" \in Kinds
    BY <1>2, <1>3, ConstFacts DEF UsedAt, Kinds
  <2>2. UsedAt("pgd", p, va) \notin lost
    BY <1>1, <1>2, <2>1 DEF Sharing, LostAlone
  <2>3. QED
    BY <2>1, <2>2
<1>8. refs' = [refs EXCEPT ![f] = refs[f] + 1] /\ refs' \in [Frames -> 0 .. MaxRefs]
  <2>1. refs[f] \in Nat /\ refs[f] < MaxRefs
    BY <1>1, <1>7, RoomToCount DEF Sharing
  <2>2. refs' = [refs EXCEPT ![f] = refs[f] + 1]
    BY <1>0, <1>3, <2>1 DEF OneMore
  <2>3. QED
    BY <1>1, <2>1, <2>2, ConstFacts DEF TypeOK
<1>9. TypeOK'
  <2>1. \A q \in Procs : /\ at'[q].op \in {"unused", "reserved", "reap"} => pgd'[q] = Empty
                         /\ at'[q].op \notin {"fork", "load", "undo", "reap"} => other'[q] = Empty
    BY <1>1, <1>2, <1>5, <1>6 DEF TypeOK
  <2>2. QED
    BY <1>1, <1>2, <1>5, <1>6, <1>8, <2>1 DEF TypeOK
<1>10. UseGained("other", p, va, f)
  <2>1. UsedAt("other", p, va) = NoFrame /\ UsedAt("other", p, va)' = f
    BY <1>2, <1>3, <1>4, <1>6 DEF UsedAt, Invalid
  <2>2. ASSUME NEW k \in Kinds, NEW q \in Procs, NEW vb \in Pages,
               ~Same(k, q, vb, "other", p, va)
        PROVE  UsedAt(k, q, vb)' = UsedAt(k, q, vb)
    <3>1. CASE k = "pgd"
      BY <1>2, <3>1 DEF UsedAt
    <3>2. CASE k = "other"
      BY <1>6, <2>2, <3>2 DEF UsedAt, Same
    <3>3. CASE k = "hand"
      BY <1>1, <1>5, <3>3 DEF UsedAt
    <3>4. QED
      BY <3>1, <3>2, <3>3 DEF Kinds
  <2>3. QED
    BY <2>1, <2>2 DEF UseGained, Elsewhere
<1>11. RefsAreUsers'
  BY <1>1, <1>2, <1>7, <1>8, <1>10, RefsGained
<1>12. Sharing'
  <2>1. ASSUME NEW vb \in Pages PROVE UsedAt("other", p, vb) # f
    <3>1. CASE vb \in at[p].left
      BY <1>4, <1>7, <3>1 DEF UsedAt, Invalid
    <3>2. CASE vb \notin at[p].left
      <4>1. UsedAt("other", p, vb) = UsedAt("pgd", p, vb)
        BY <1>4, <3>2 DEF UsedAt
      <4>2. vb # va
        BY <1>2, <3>2
      <4>3. QED
        BY <1>1, <1>2, <1>7, <4>1, <4>2 DEF Sharing, OncePerTable
    <3>3. QED
      BY <3>1, <3>2
  <2>2. ASSUME NEW k \in Kinds, NEW q \in Procs, NEW vb \in Pages, Private(k, q, vb)'
        PROVE  Private(k, q, vb) /\ ~(q = p /\ vb = va /\ k \in {"pgd", "other"})
    BY <1>1, <1>2, <1>5, <1>6, <2>2 DEF Private
  <2>3. ASSUME NEW k \in Kinds, NEW q \in Procs, NEW vb \in Pages, Private(k, q, vb)', Used(k, q, vb)
        PROVE  Private(k, q, vb) /\ UsedAt(k, q, vb) # f
    <3>1. Private(k, q, vb)
      BY <2>2, <2>3
    <3>2. UsedAt(k, q, vb) = f => Same(k, q, vb, "pgd", p, va)
      BY <1>1, <1>2, <1>7, <3>1 DEF Sharing, Exclusive
    <3>3. QED
      BY <2>2, <2>3, <3>1, <3>2 DEF Same
  <2>4. ~Private("other", p, va)'
    BY <1>2, <1>6 DEF Private
  <2>5. QED
    BY <1>1, <1>2, <1>7, <1>10, <2>1, <2>3, <2>4, SharingGained
<1>13. Kids'
  <2>1. \A q \in Procs : at'[q].op = at[q].op /\ (at[q].op \in {"fork", "load"} => at'[q].kid = at[q].kid)
    BY <1>1, <1>5
  <2>2. \A q \in Procs : at[q].op \in {"fork", "load"} => at[q].kid \in Procs
    BY <1>1, WhereFacts
  <2>3. QED
    BY <2>1, <2>2 DEF MemInv, Kids, Is
<1>14. Copied'
  <2> SUFFICES ASSUME NEW q \in Procs, at'[q].op = "fork"
               PROVE  /\ at'[q].left \subseteq Mapped(pgd'[q])
                      /\ \A vb \in Pages :
                            other'[q][vb] = IF vb \in at'[q].left THEN Invalid ELSE pgd'[q][vb]
    BY DEF Copied, Is, Mapped
  <2>1. CASE q = p
    <3>1. at'[p].left \subseteq Mapped(pgd'[p])
      BY <1>2, <1>4, <1>5 DEF Mapped
    <3>2. \A vb \in Pages : other'[p][vb] = IF vb \in at'[p].left THEN Invalid ELSE pgd'[p][vb]
      BY <1>2, <1>4, <1>5, <1>6
    <3>3. QED
      BY <2>1, <3>1, <3>2
  <2>2. CASE q # p
    BY <1>2, <1>5, <1>6, <2>2, SMTT(40) DEF MemInv, Copied, Is
  <2>3. QED
    BY <2>1, <2>2
<1>15. Loaded'
  BY <1>1, <1>5, <1>6, LoadedStays DEF MemInv
<1>16. Faults'
  BY <1>2, <1>5 DEF MemInv, Faults, Is
<1>17. Believed'
  <2>1. \A k \in Kinds, q \in Procs, vb \in Pages :
           \/ UsedAt(k, q, vb)' = UsedAt(k, q, vb)
           \/ Same(k, q, vb, "other", p, va) /\ UsedAt(k, q, vb)' = e.pa
    BY <1>3, <1>10 DEF UseGained, Elsewhere, Same
  <2>2. \A q \in Procs : \/ at'[q] = at[q]
                         \/ /\ at[q].op \notin {"cow", "copied"}
                            /\ at'[q].op \notin {"cow", "copied"}
    BY <1>1, <1>5
  <2>3. QED
    BY <1>1, <1>2, <2>1, <2>2, MarkBelieved
<1>18. Maps
  <2>1. \A q \in Procs : Lives(q)' <=> Lives(q)
    BY <1>1, <1>5 DEF Lives
  <2>2. ASSUME NEW q \in Procs, NEW vb \in Pages
        PROVE  (pgd'[q][vb] = Invalid <=> pgd[q][vb] = Invalid) /\ pgd'[q][vb].pa = pgd[q][vb].pa
    BY <1>2
  <2>3. \A q \in Procs : Contents(q)' = Contents(q)
    BY <1>1, <2>1, <2>2, ContentsKept
  <2>4. QED
    BY <2>3, MapsStutter
<1>19. QED
  BY <1>9, <1>11, <1>12, <1>13, <1>14, <1>15, <1>16, <1>17, <1>18 DEF MemInv

\* The child cannot be made.
LEMMA ForkFailsKeeps ==
    ASSUME MemInv, NEW p \in Procs, ForkFails(p)
    PROVE  MemInv' /\ Maps
<1>0. PICK va, e : Marked(p, va, e)
  BY DEF ForkFails, Marked
<1>1. /\ TypeOK /\ RefsAreUsers /\ Sharing /\ at[p].op = "fork" /\ at[p].left # {}
      /\ refs' = refs /\ mem' = mem /\ other' = other /\ lost' = lost /\ GiveUp(p)
  BY DEF MemInv, ForkFails, Is
<1>2. /\ va \in Pages /\ va \in at[p].left /\ pgd[p][va] # Invalid
      /\ e \in Entry /\ e.pa = pgd[p][va].pa /\ e.pa \in Frames /\ e # Invalid
      /\ e.ap # "RW" /\ (e.ap = "RO" => pgd[p][va].ap = "RO")
      /\ pgd' \in [Procs -> [Pages -> Entry]]
      /\ \A q \in Procs, vb \in Pages :
            pgd'[q][vb] = IF q = p /\ vb = va THEN e ELSE pgd[q][vb]
      /\ \A q \in Procs : q # p => pgd'[q] = pgd[q]
      /\ stale' \in [Procs -> SUBSET Cached]
      /\ \A q \in Procs : \A x : x \in stale'[q] =>
            \/ x \in stale[q]
            \/ q = p /\ x = [va |-> va, pa |-> e.pa, w |-> TRUE] /\ pgd[p][va].ap = "RW"
  BY <1>0, <1>1, MarkFacts
<1>3. /\ at' \in [Procs -> At] /\ at'[p].op = "undo"
      /\ \A q \in Procs : q # p =>
            \/ at'[q] = at[q]
            \/ /\ at[q].op = "reserved" /\ at'[q].op = "unused"
               /\ pgd[q] = Empty /\ other[q] = Empty
      /\ \A q \in Procs : at'[q].op \in {"fork", "load"} => q # p /\ at'[q] = at[q]
      /\ \A q \in Procs : Lives(q)' = Lives(q)
      /\ Kids'
  BY <1>1, GiveUpFacts
<1>4. TypeOK'
  <2>1. \A q \in Procs : /\ at'[q].op \in {"unused", "reserved", "reap"} => pgd'[q] = Empty
                         /\ at'[q].op \notin {"fork", "load", "undo", "reap"} => other'[q] = Empty
    BY <1>1, <1>2, <1>3 DEF TypeOK
  <2>2. QED
    BY <1>1, <1>2, <1>3, <2>1 DEF TypeOK
<1>5. UseKept
  <2> SUFFICES ASSUME NEW k \in Kinds, NEW q \in Procs, NEW vb \in Pages
               PROVE  UsedAt(k, q, vb)' = UsedAt(k, q, vb)
    BY DEF UseKept
  <2>1. CASE k = "pgd"
    BY <1>2, <2>1 DEF UsedAt
  <2>2. CASE k = "other"
    BY <1>1, <2>2 DEF UsedAt
  <2>3. CASE k = "hand"
    BY <1>1, <1>3, <2>3 DEF UsedAt
  <2>4. QED
    BY <2>1, <2>2, <2>3 DEF Kinds
<1>6. RefsAreUsers'
  BY <1>1, <1>5, RefsKept
<1>7. Sharing'
  <2>1. ASSUME NEW k \in Kinds, NEW q \in Procs, NEW vb \in Pages, Private(k, q, vb)'
        PROVE  Private(k, q, vb)
    BY <1>1, <1>2, <1>3, <2>1 DEF Private
  <2>2. QED
    BY <1>1, <1>5, <2>1, SharingKept
<1>8. Copied'
  BY <1>1, <1>2, <1>3 DEF MemInv, Copied, Is, Mapped
<1>9. Loaded'
  BY <1>1, <1>3, LoadedStays DEF MemInv
<1>10. Faults'
  <2>1. \A q \in Procs : at'[q].op \in {"cow", "fetch"} => at'[q] = at[q] /\ pgd'[q] = pgd[q]
    BY <1>2, <1>3
  <2>2. QED
    BY <2>1 DEF MemInv, Faults, Is
<1>11. Believed'
  <2>1. \A q \in Procs : \/ at'[q] = at[q]
                         \/ /\ at[q].op \notin {"cow", "copied"}
                            /\ at'[q].op \notin {"cow", "copied"}
    BY <1>1, <1>3
  <2>2. QED
    BY <1>1, <1>2, <1>5, <2>1, MarkBelieved DEF UseKept
<1>12. Maps
  <2>1. ASSUME NEW q \in Procs, NEW vb \in Pages
        PROVE  (pgd'[q][vb] = Invalid <=> pgd[q][vb] = Invalid) /\ pgd'[q][vb].pa = pgd[q][vb].pa
    BY <1>2
  <2>2. \A q \in Procs : Contents(q)' = Contents(q)
    BY <1>1, <1>3, <2>1, ContentsKept
  <2>3. QED
    BY <2>2, MapsStutter
<1>13. QED
  BY <1>3, <1>4, <1>6, <1>7, <1>8, <1>9, <1>10, <1>11, <1>12 DEF MemInv
-----------------------------------------------------------------------------
\* A whole table goes from one place to another, and what was there the other way...
Moved(p, c) ==
    /\ pgd' = [pgd EXCEPT ![c] = other[p]] /\ other' = [other EXCEPT ![p] = pgd[c]]
    /\ UNCHANGED <<refs, mem, lost>>

\* ... which breaks nothing if whoever has them is done with it.
LEMMA TableMoves ==
    ASSUME MemInv, NEW p \in Procs, NEW c \in Procs, Moved(p, c), at' \in [Procs -> At],
           stale' \in [Procs -> SUBSET Cached],
           \A q \in Procs : stale'[q] \subseteq stale[q],
           stale'[c] = {},
           \A e \in stale'[p] : e.w => UsedAt("other", p, e.va) # e.pa,
           \A q \in Procs :
              \/ at'[q] = at[q]
              \/ at[q].op \notin {"cow", "copied", "fetch"} /\ at'[q].op \notin {"cow", "copied", "fetch"},
           \A q \in Procs : /\ at'[q].op \in {"unused", "reserved", "reap"} => pgd'[q] = Empty
                            /\ at'[q].op \notin {"fork", "load", "undo", "reap"} => other'[q] = Empty,
           at'[p].op \notin {"fork", "load", "cow", "fetch"},
           at'[c].op \notin {"fork", "load", "cow", "fetch"},
           \A q \in Procs : at'[q].op \in {"fork", "load"} => at'[q] = at[q]
    PROVE  /\ TypeOK' /\ RefsAreUsers' /\ Sharing'
           /\ Copied' /\ Loaded' /\ Faults' /\ Believed'
           /\ pgd'[c] = other[p] /\ other'[p] = pgd[c]
           /\ \A q \in Procs : q # c => pgd'[q] = pgd[q]
<1>1. TypeOK /\ RefsAreUsers /\ Sharing /\ "pgd" \in Kinds /\ "other" \in Kinds
  BY DEF MemInv, Kinds
<1>2. /\ pgd' \in [Procs -> [Pages -> Entry]] /\ pgd'[c] = other[p]
      /\ other' \in [Procs -> [Pages -> Entry]] /\ other'[p] = pgd[c]
      /\ \A q \in Procs : q # c => pgd'[q] = pgd[q]
      /\ \A q \in Procs : q # p => other'[q] = other[q]
      /\ refs' = refs /\ mem' = mem /\ lost' = lost
  BY <1>1 DEF TypeOK, Moved
<1>3. TypeOK'
  BY <1>1, <1>2 DEF TypeOK
<1>4. UseSwapped("pgd", c, "other", p, Pages)
  <2>1. ASSUME NEW va \in Pages
        PROVE  /\ UsedAt("pgd", c, va)' = UsedAt("other", p, va)
               /\ UsedAt("other", p, va)' = UsedAt("pgd", c, va)
    BY <1>2 DEF UsedAt
  <2>2. ASSUME NEW k \in Kinds, NEW q \in Procs, NEW va \in Pages
        PROVE  \/ UsedAt(k, q, va)' = UsedAt(k, q, va)
               \/ OneOfBoth(k, q, va, "pgd", c, "other", p, Pages)
    <3>1. CASE k = "pgd"
      BY <1>2, <3>1 DEF UsedAt, OneOfBoth
    <3>2. CASE k = "other"
      BY <1>2, <3>2 DEF UsedAt, OneOfBoth
    <3>3. CASE k = "hand"
      <4>1. CASE at'[q] = at[q]
        BY <3>3, <4>1 DEF UsedAt
      <4>2. CASE at[q].op \notin {"cow", "copied", "fetch"} /\ at'[q].op \notin {"cow", "copied", "fetch"}
        BY <3>3, <4>2 DEF UsedAt
      <4>3. QED
        BY <4>1, <4>2
    <3>4. QED
      BY <3>1, <3>2, <3>3 DEF Kinds
  <2>3. QED
    BY <2>1, <2>2 DEF UseSwapped
<1>5. RefsAreUsers'
  BY <1>1, <1>2, <1>4, RefsSwapped
<1>6. Sharing'
  <2>1. ASSUME NEW va \in Pages
        PROVE  /\ Private("pgd", c, va)' => Private("other", p, va)
               /\ Private("other", p, va)' => Private("pgd", c, va)
    BY <1>2 DEF Private
  <2>2. ASSUME NEW k \in Kinds, NEW q \in Procs, NEW va \in Pages, Private(k, q, va)'
        PROVE  Private(k, q, va) \/ OneOfBoth(k, q, va, "pgd", c, "other", p, Pages)
    <3>1. CASE k = "pgd"
      BY <1>2, <2>2, <3>1 DEF Private, OneOfBoth
    <3>2. CASE k = "other"
      BY <1>2, <2>2, <3>2 DEF Private, OneOfBoth
    <3>3. CASE k = "hand"
      BY <2>2, <3>3 DEF Private
    <3>4. QED
      BY <3>1, <3>2, <3>3 DEF Kinds
  <2>3. QED
    BY <1>1, <1>2, <1>4, <2>1, <2>2, SharingSwapped
<1>7. \A q \in Procs : at'[q].op \in {"fork", "load"} =>
         at'[q] = at[q] /\ pgd'[q] = pgd[q] /\ other'[q] = other[q]
  BY <1>2
<1>8. Copied' /\ Loaded'
  <2>1. Copied'
    BY <1>7 DEF MemInv, Copied, Is, Mapped
  <2>2. Loaded'
    BY <1>1, <1>2, <1>7, LoadedStays DEF MemInv
  <2>3. QED
    BY <2>1, <2>2
<1>9. Faults'
  <2>1. \A q \in Procs : at'[q].op \in {"cow", "fetch"} => at'[q] = at[q] /\ pgd'[q] = pgd[q]
    BY <1>2
  <2>2. QED
    BY <2>1 DEF MemInv, Faults, Is
<1>10. Believed'
  <2> SUFFICES ASSUME NEW q \in Procs, NEW e \in stale'[q] PROVE BelievedOf(q, e)'
    BY DEF Believed
  <2>1. /\ e \in stale[q] /\ BelievedOf(q, e) /\ e.va \in Pages /\ e.pa # NoFrame /\ q # c
    BY <1>1, StaleFacts DEF MemInv, Believed
  <2>2. ASSUME e.w, NEW va \in Pages PROVE UsedAt("other", p, va) # e.pa
    <3>1. UsedAt("other", p, va) = e.pa => p = q /\ va = e.va
      BY <1>1, <2>1, <2>2 DEF BelievedOf
    <3>2. QED
      BY <2>2, <3>1
  <2>3. ASSUME e.w, NEW va \in Pages PROVE UsedAt("pgd", c, va) # e.pa
    BY <1>1, <2>1, <2>3 DEF BelievedOf
  <2>4. ASSUME e.w, NEW k \in Kinds, NEW r \in Procs, NEW vb \in Pages, UsedAt(k, r, vb)' = e.pa
        PROVE  UsedAt(k, r, vb) = e.pa
    <3>1. CASE OneOfBoth(k, r, vb, "pgd", c, "other", p, Pages)
      BY <1>4, <2>2, <2>3, <2>4, <3>1 DEF UseSwapped, OneOfBoth
    <3>2. CASE ~OneOfBoth(k, r, vb, "pgd", c, "other", p, Pages)
      BY <1>4, <2>4, <3>2 DEF UseSwapped
    <3>3. QED
      BY <3>1, <3>2
  <2>5. at'[q] = at[q] \/ (/\ at[q].op = "copied" => at[q].va # e.va
                           /\ at'[q].op \notin {"cow", "copied"})
    OBVIOUS
  <2>6. QED
    BY <1>2, <2>1, <2>4, <2>5, BelievedStays
<1>11. QED
  BY <1>2, <1>3, <1>5, <1>6, <1>8, <1>9, <1>10

\* Nothing is believed of a process that is not there.
LEMMA NothingBelieved ==
    ASSUME MemInv, NEW p \in Procs, pgd[p] = Empty, at[p].op # "copied"
    PROVE  stale[p] = {}
<1> SUFFICES ASSUME NEW e \in stale[p] PROVE FALSE
  OBVIOUS
<1>1. BelievedOf(p, e) /\ e.va \in Pages /\ e.pa # NoFrame
  BY StaleFacts DEF MemInv, Believed
<1>2. QED
  BY <1>1 DEF BelievedOf, Empty, Invalid

\* Everything of a process is forgotten.
LEMMA StaleForgotten ==
    ASSUME TypeOK, NEW p \in Procs, stale' = ForgetAll(p)
    PROVE  /\ stale' \in [Procs -> SUBSET Cached] /\ stale'[p] = {}
           /\ \A q \in Procs : stale'[q] \subseteq stale[q]
  BY DEF TypeOK, ForgetAll

\* Where the parent, or whoever loads, and the child go to when it is born.
BothRun(p, c) == c = at[p].kid /\ at' = [at EXCEPT ![p] = User, ![c] = User]

\* The place was free, and is not any more.
LEMMA BornFacts ==
    ASSUME MemInv, NEW p \in Procs, at[p].op \in {"fork", "load"}, NEW c \in Procs, c # p,
           BothRun(p, c)
    PROVE  /\ at[c].op = "reserved" /\ pgd[c] = Empty /\ other[c] = Empty /\ stale[c] = {}
           /\ at' \in [Procs -> At] /\ at'[p].op = "user" /\ at'[c].op = "user"
           /\ \A q \in Procs : q # p /\ q # c => at'[q] = at[q]
           /\ Kids'
<1>1. TypeOK /\ Kids
  BY DEF MemInv
<1>2. at[c].op = "reserved"
  BY <1>1 DEF Kids, Is, BothRun
<1>3. pgd[c] = Empty /\ other[c] = Empty
  BY <1>1, <1>2, WhereFacts
<1>4. stale[c] = {}
  BY <1>2, <1>3, NothingBelieved
<1>5. /\ at' \in [Procs -> At] /\ at'[p] = User /\ at'[c] = User
      /\ \A q \in Procs : q # p /\ q # c => at'[q] = at[q]
  BY <1>1, AtMembers DEF TypeOK, BothRun
<1>6. at'[p].op = "user" /\ at'[c].op = "user"
  BY <1>5, AtMembers
<1>7. Kids'
  BY <1>1, <1>5, <1>6, KidsDone DEF BothRun
<1>8. QED
  BY <1>2, <1>3, <1>4, <1>5, <1>6, <1>7
-----------------------------------------------------------------------------
\* The child is born, or is not.
LEMMA BornKeeps ==
    ASSUME MemInv, NEW p \in Procs, Born(p)
    PROVE  MemInv' /\ Maps
<1>1. /\ TypeOK /\ at[p].op = "fork" /\ at[p].left = {}
      /\ refs' = refs /\ mem' = mem /\ lost' = lost /\ stale' = ForgetAll(p)
  BY DEF MemInv, Born, Is
<1>2. PICK c \in Procs : c = at[p].kid
  BY <1>1, WhereFacts
<1>3. at[c].op = "reserved" /\ c # p
  BY <1>1, <1>2 DEF MemInv, Kids, Is
<1>4. /\ stale' \in [Procs -> SUBSET Cached] /\ stale'[p] = {}
      /\ \A q \in Procs : stale'[q] \subseteq stale[q]
  BY <1>1, StaleForgotten
<1>5. CASE /\ pgd' = [pgd EXCEPT ![c] = other[p]] /\ other' = [other EXCEPT ![p] = Empty]
           /\ at' = [at EXCEPT ![p] = User, ![c] = User]
  <2>1. /\ pgd[c] = Empty /\ other[c] = Empty /\ stale[c] = {}
        /\ at' \in [Procs -> At] /\ at'[p].op = "user" /\ at'[c].op = "user"
        /\ \A q \in Procs : q # p /\ q # c => at'[q] = at[q]
        /\ Kids'
    <3>1. BothRun(p, c) /\ at[p].op \in {"fork", "load"}
      BY <1>1, <1>2, <1>5 DEF BothRun
    <3>2. QED
      BY <1>3, <3>1, BornFacts
  <2>2. other[p] = pgd[p]
    <3>1. \A va \in Pages : other[p][va] = pgd[p][va]
      BY <1>1 DEF MemInv, Copied, Is
    <3>2. other[p] \in [Pages -> Entry] /\ pgd[p] \in [Pages -> Entry]
      BY <1>1 DEF TypeOK
    <3>3. QED
      BY <3>1, <3>2
  <2>3. stale'[c] = {} /\ Moved(p, c)
    BY <1>1, <1>4, <1>5, <2>1 DEF Moved
  <2>4. \A q \in Procs : /\ at'[q].op \in {"unused", "reserved", "reap"} => pgd'[q] = Empty
                         /\ at'[q].op \notin {"fork", "load", "undo", "reap"} => other'[q] = Empty
    BY <1>1, <1>3, <1>5, <2>1 DEF TypeOK
  <2>5. /\ \A q \in Procs :
              \/ at'[q] = at[q]
              \/ at[q].op \notin {"cow", "copied", "fetch"} /\ at'[q].op \notin {"cow", "copied", "fetch"}
        /\ \A q \in Procs : at'[q].op \in {"fork", "load"} => at'[q] = at[q]
    BY <1>1, <1>3, <2>1
  <2>6. /\ TypeOK' /\ RefsAreUsers' /\ Sharing'
        /\ Copied' /\ Loaded' /\ Faults' /\ Believed'
        /\ pgd'[c] = other[p] /\ \A q \in Procs : q # c => pgd'[q] = pgd[q]
    <3>1. /\ \A e \in stale'[p] : e.w => UsedAt("other", p, e.va) # e.pa
          /\ at'[p].op \notin {"fork", "load", "cow", "fetch"}
          /\ at'[c].op \notin {"fork", "load", "cow", "fetch"}
      BY <1>4, <2>1
    <3>2. QED
      BY <1>4, <2>1, <2>3, <2>4, <2>5, <3>1, TableMoves
  <2>7. Maps
    <3>1. /\ Lives(p) /\ ~Lives(c) /\ Lives(c)' /\ \A q \in Procs : q # c => (Lives(q)' <=> Lives(q))
      BY <1>1, <1>3, <2>1 DEF Lives
    <3>2. \A q \in Procs : q # c => Contents(q)' = Contents(q)
      BY <1>1, <2>6, <3>1, ContentsKept
    <3>3. Contents(c)' = Contents(p) /\ Contents(c) = Gone
      BY <1>1, <2>2, <2>6, <3>1 DEF Contents
    <3>4. memory' = [memory EXCEPT ![c] = memory[p]]
      BY <3>2, <3>3, OneChange DEF memory
    <3>5. memory[p] # Gone /\ memory[c] = Gone
      BY <1>1, <3>1, <3>3, ContentsFacts DEF memory
    <3>6. Space!Fork(p, c)
      BY <3>4, <3>5 DEF Space!Fork, Space!Lives, memory
    <3>7. QED
      BY <3>6 DEF Maps, Space!Next
  <2>8. QED
    BY <2>1, <2>6, <2>7 DEF MemInv
<1>6. CASE GiveUp(p) /\ pgd' = pgd /\ other' = other
  <2>1. /\ at' \in [Procs -> At] /\ at'[p].op = "undo"
        /\ \A q \in Procs : q # p =>
              \/ at'[q] = at[q]
              \/ /\ at[q].op = "reserved" /\ at'[q].op = "unused"
                 /\ pgd[q] = Empty /\ other[q] = Empty
        /\ \A q \in Procs : at'[q].op \in {"fork", "load"} => q # p /\ at'[q] = at[q]
        /\ \A q \in Procs : Lives(q)' = Lives(q)
        /\ Kids'
    BY <1>1, <1>6, GiveUpFacts
  <2>2. TypeOK' /\ RefsAreUsers' /\ Sharing' /\ Faults' /\ Believed'
    <3>1. \A q \in Procs :
              \/ at'[q] = at[q]
              \/ /\ at[q].op \notin {"cow", "copied", "fetch"}
                 /\ at'[q].op \notin {"cow", "copied", "fetch"}
                 /\ at'[q].op \in {"unused", "reserved", "reap"} => pgd[q] = Empty
                 /\ at'[q].op \notin {"fork", "load", "undo", "reap"} => other[q] = Empty
      BY <1>1, <2>1
    <3>2. QED
      BY <1>1, <1>4, <1>6, <2>1, <3>1, OnlyWhere
  <2>3. Copied' /\ Loaded'
    <3>1. Copied'
      BY <1>6, <2>1 DEF MemInv, Copied, Is, Mapped
    <3>2. Loaded'
      BY <1>1, <1>6, <2>1, LoadedStays DEF MemInv
    <3>3. QED
      BY <3>1, <3>2
  <2>4. Maps
    <3>1. \A q \in Procs : Contents(q)' = Contents(q)
      BY <1>1, <1>6, <2>1, ContentsKept
    <3>2. QED
      BY <3>1, MapsStutter
  <2>5. QED
    BY <2>1, <2>2, <2>3, <2>4 DEF MemInv
<1>7. QED
  BY <1>2, <1>5, <1>6 DEF Born
-----------------------------------------------------------------------------
\* A program starts to be loaded.
LEMMA LoadKeeps ==
    ASSUME MemInv, NEW p \in Procs, Load(p)
    PROVE  MemInv' /\ Maps
<1>1. /\ TypeOK /\ Kids /\ at[p].op = "user" /\ UNCHANGED <<refs, mem, pgd, other, lost, stale>>
      /\ other[p] = Empty
  BY WhereFacts DEF MemInv, Load, Is
<1>2. PICK c \in Procs :
        /\ c = p \/ at[c].op = "unused"
        /\ at' = [x \in Procs |-> CASE x = p -> [op |-> "load", kid |-> c]
                                    [] x = c /\ x # p -> [op |-> "reserved"]
                                    [] OTHER -> at[x]]
  BY DEF Load, Is
<1>3. /\ at' \in [Procs -> At] /\ at'[p].op = "load" /\ at'[p].kid = c
      /\ c # p => at[c].op = "unused" /\ at'[c].op = "reserved"
      /\ \A q \in Procs : q # p /\ q # c => at'[q] = at[q]
  <2>1. \A x \in Procs : (CASE x = p -> [op |-> "load", kid |-> c]
                            [] x = c /\ x # p -> [op |-> "reserved"]
                            [] OTHER -> at[x]) \in At
    BY <1>1, AtMembers DEF TypeOK
  <2>2. at' \in [Procs -> At]
    BY <1>2, <2>1
  <2>3. /\ at'[p] = [op |-> "load", kid |-> c]
        /\ c # p => at'[c] = [op |-> "reserved"]
        /\ \A q \in Procs : q # p /\ q # c => at'[q] = at[q]
    BY <1>2
  <2>4. QED
    BY <1>2, <2>2, <2>3
<1>4. \A q \in Procs : q # p => at'[q] = at[q] \/ (at[q].op = "unused" /\ at'[q].op = "reserved")
  BY <1>3
<1>5. TypeOK' /\ RefsAreUsers' /\ Sharing' /\ Faults' /\ Believed'
  <2>1. \A q \in Procs :
              \/ at'[q] = at[q]
              \/ /\ at[q].op \notin {"cow", "copied", "fetch"}
                 /\ at'[q].op \notin {"cow", "copied", "fetch"}
                 /\ at'[q].op \in {"unused", "reserved", "reap"} => pgd[q] = Empty
                 /\ at'[q].op \notin {"fork", "load", "undo", "reap"} => other[q] = Empty
    BY <1>1, <1>3, <1>4, WhereFacts
  <2>2. stale' \in [Procs -> SUBSET Cached] /\ \A q \in Procs : stale'[q] \subseteq stale[q]
    BY <1>1 DEF TypeOK
  <2>3. QED
    BY <1>1, <1>3, <2>1, <2>2, OnlyWhere
<1>6. Kids'
  <2> SUFFICES ASSUME NEW q \in Procs, at'[q].op \in {"fork", "load"}
               PROVE  /\ at'[at'[q].kid].op = "reserved" \/ (at'[q].op = "load" /\ at'[q].kid = q)
                      /\ \A r \in Procs : at'[r].op \in {"fork", "load"} /\ at'[r].kid = at'[q].kid
                                              => r = q
    BY DEF Kids, Is
  <2>1. \A r \in Procs : at[r].op \in {"fork", "load"} =>
            /\ at[r].kid \in Procs /\ at[r].kid # c /\ at[r].kid # p
            /\ at[at[r].kid].op = "reserved" \/ (at[r].op = "load" /\ at[r].kid = r)
    BY <1>1, <1>2, WhereFacts DEF Kids, Is
  <2>2. \A r \in Procs : at'[r].op \in {"fork", "load"} /\ r # p =>
            at[r].op \in {"fork", "load"} /\ at'[r] = at[r]
    BY <1>4
  <2>3. CASE q = p
    BY <1>3, <2>1, <2>2, <2>3
  <2>4. CASE q # p
    <3>1. at'[q] = at[q] /\ at[q].op \in {"fork", "load"} /\ at[q].kid # c
      BY <2>1, <2>2, <2>4
    <3>2. at'[at[q].kid] = at[at[q].kid]
      BY <1>3, <2>1, <3>1
    <3>3. ASSUME NEW r \in Procs, at'[r].op \in {"fork", "load"}, at'[r].kid = at[q].kid
          PROVE  r = q
      <4>1. r # p
        BY <1>3, <3>1, <3>3
      <4>2. at'[r] = at[r] /\ at[r].op \in {"fork", "load"}
        BY <2>2, <3>3, <4>1
      <4>3. QED
        BY <1>1, <3>1, <3>3, <4>2 DEF Kids
    <3>4. QED
      BY <2>1, <3>1, <3>2, <3>3
  <2>5. QED
    BY <2>3, <2>4
<1>7. Copied'
  <2>1. \A q \in Procs : at'[q].op = "fork" => at'[q] = at[q]
    BY <1>3, <1>4
  <2>2. QED
    BY <1>1, <2>1 DEF MemInv, Copied, Is, Mapped
<1>8. Loaded'
  <2> SUFFICES ASSUME NEW q \in Procs, NEW va \in Pages, at'[q].op = "load", other[q][va] # Invalid
               PROVE  va \in Image /\ other[q][va].ap = "RW" /\ mem[other[q][va].pa] = File
    BY <1>1 DEF Loaded, Is
  <2>1. q # p
    BY <1>1 DEF Empty
  <2>2. at[q].op = "load"
    BY <1>4, <2>1
  <2>3. QED
    BY <2>2 DEF MemInv, Loaded, Is
<1>9. Maps
  <2>1. \A q \in Procs : Lives(q)' <=> Lives(q)
    BY <1>1, <1>3, <1>4 DEF Lives
  <2>2. \A q \in Procs : Contents(q)' = Contents(q)
    BY <1>1, <2>1, ContentsKept
  <2>3. QED
    BY <2>2, MapsStutter
<1>10. QED
  BY <1>5, <1>6, <1>7, <1>8, <1>9 DEF MemInv

\* The page of the program that comes next is not there yet.
LEMMA MissingFacts ==
    ASSUME TypeOK, NEW p \in Procs, Missing(p) # {}
    PROVE  /\ Least(Missing(p)) \in Pages /\ Least(Missing(p)) \in Image
           /\ other[p][Least(Missing(p))] = Invalid
<1>1. Missing(p) \in SUBSET Pages
  BY MemoryAssumption DEF Missing
<1>2. Least(Missing(p)) \in Missing(p)
  BY <1>1, LeastFacts
<1>3. QED
  BY <1>1, <1>2 DEF Missing, Mapped

\* A page of the program is loaded.
LEMMA LoadPageKeeps ==
    ASSUME MemInv, NEW p \in Procs, LoadPage(p)
    PROVE  MemInv' /\ Maps
<1>1. /\ TypeOK /\ RefsAreUsers /\ Sharing /\ at[p].op = "load" /\ Missing(p) # {}
      /\ pgd' = pgd /\ lost' = lost /\ stale' = stale /\ at' = at
  BY DEF MemInv, LoadPage, Is
<1>2. PICK va \in Pages : va = Least(Missing(p)) /\ va \in Image /\ other[p][va] = Invalid
  BY <1>1, MissingFacts
<1>3. PICK f \in Frames :
        /\ Alloc(f) /\ mem' = [mem EXCEPT ![f] = File]
        /\ other' = [other EXCEPT ![p][va] = [pa |-> f, ap |-> "RW"]]
  BY <1>2 DEF LoadPage
<1>4. /\ refs' = [refs EXCEPT ![f] = refs[f] + 1] /\ refs' \in [Frames -> 0 .. MaxRefs]
      /\ f \notin lost /\ f # NoFrame
      /\ \A k \in Kinds, q \in Procs, vb \in Pages : UsedAt(k, q, vb) # f
  BY <1>1, <1>3, AllocFacts
<1>5. /\ other' \in [Procs -> [Pages -> Entry]]
      /\ \A q \in Procs, vb \in Pages :
           other'[q][vb] = IF q = p /\ vb = va THEN [pa |-> f, ap |-> "RW"] ELSE other[q][vb]
      /\ \A q \in Procs : q # p => other'[q] = other[q]
  <2>1. [pa |-> f, ap |-> "RW"] \in Entry
    BY DEF Entry
  <2>2. QED
    BY <1>1, <1>3, <2>1, EntrySet DEF TypeOK
<1>6. /\ mem' \in [Frames -> Values] /\ mem'[f] = File
      /\ \A g \in Frames : g # f => mem'[g] = mem[g]
  BY <1>1, <1>3, ConstFacts DEF TypeOK
<1>7. TypeOK'
  <2>1. \A q \in Procs : /\ at'[q].op \in {"unused", "reserved", "reap"} => pgd'[q] = Empty
                         /\ at'[q].op \notin {"fork", "load", "undo", "reap"} => other'[q] = Empty
    BY <1>1, <1>5 DEF TypeOK
  <2>2. QED
    BY <1>1, <1>4, <1>5, <1>6, <2>1 DEF TypeOK
<1>8. UseGained("other", p, va, f)
  BY <1>1, <1>2, <1>5 DEF UseGained, Elsewhere, Same, UsedAt, Invalid
<1>9. RefsAreUsers'
  BY <1>1, <1>4, <1>8, RefsGained DEF Kinds
<1>10. Sharing'
  <2>1. ASSUME NEW k \in Kinds, NEW q \in Procs, NEW vb \in Pages, Private(k, q, vb)',
               ~Same(k, q, vb, "other", p, va)
        PROVE  Private(k, q, vb)
    BY <1>1, <1>5, <2>1 DEF Private, Same
  <2>2. QED
    BY <1>1, <1>4, <1>8, <2>1, SharingGained DEF Kinds
<1>11. Kids' /\ Copied' /\ Faults'
  <2>1. Kids' /\ Faults'
    BY <1>1 DEF MemInv, Kids, Faults, Is
  <2>2. Copied'
    BY <1>1, <1>5 DEF MemInv, Copied, Is, Mapped
  <2>3. QED
    BY <2>1, <2>2
<1>12. Loaded'
  <2> SUFFICES ASSUME NEW q \in Procs, NEW vb \in Pages, at[q].op = "load", other'[q][vb] # Invalid
               PROVE  vb \in Image /\ other'[q][vb].ap = "RW" /\ mem'[other'[q][vb].pa] = File
    BY <1>1 DEF Loaded, Is
  <2>1. CASE q = p /\ vb = va
    BY <1>2, <1>5, <1>6, <2>1
  <2>2. CASE ~(q = p /\ vb = va)
    <3>1. other'[q][vb] = other[q][vb] /\ other[q][vb] # Invalid
      BY <1>5, <2>2
    <3>2. other[q][vb].pa \in Frames /\ other[q][vb].pa # f
      BY <1>1, <1>4, <3>1, TableFacts, UsedFacts DEF Kinds
    <3>3. vb \in Image /\ other[q][vb].ap = "RW" /\ mem[other[q][vb].pa] = File
      BY <3>1 DEF MemInv, Loaded, Is
    <3>4. QED
      BY <1>6, <3>1, <3>2, <3>3
  <2>3. QED
    BY <2>1, <2>2
<1>13. Believed'
  <2> SUFFICES ASSUME NEW q \in Procs, NEW e \in stale[q] PROVE BelievedOf(q, e)'
    BY <1>1 DEF Believed
  <2>1. BelievedOf(q, e) /\ e.va \in Pages
    BY <1>1, StaleFacts DEF MemInv, Believed
  <2>2. e.w => e.pa # f
    BY <1>1, <1>4, <2>1, BelievedIsUsed DEF Kinds
  <2>3. ASSUME e.w, NEW k \in Kinds, NEW r \in Procs, NEW vb \in Pages, UsedAt(k, r, vb)' = e.pa
        PROVE  UsedAt(k, r, vb) = e.pa
    BY <1>8, <2>2, <2>3 DEF UseGained, Elsewhere, Same
  <2>4. QED
    BY <1>1, <2>1, <2>3, BelievedStays
<1>14. Maps
  <2>1. ASSUME NEW q \in Procs PROVE Contents(q)' = Contents(q)
    <3>1. Lives(q)' <=> Lives(q)
      BY <1>1 DEF Lives
    <3>2. QED
      BY <1>1, <1>4, <1>6, <3>1, UnusedIsUnseen DEF Kinds
  <2>2. QED
    BY <2>1, MapsStutter
<1>15. QED
  BY <1>7, <1>9, <1>10, <1>11, <1>12, <1>13, <1>14 DEF MemInv

\* The program cannot be loaded.
LEMMA LoadFailsKeeps ==
    ASSUME MemInv, NEW p \in Procs, LoadFails(p)
    PROVE  MemInv' /\ Maps
<1>1. /\ TypeOK /\ at[p].op = "load" /\ GiveUp(p)
      /\ UNCHANGED <<refs, mem, pgd, other, lost, stale>>
  BY DEF MemInv, LoadFails, Is
<1>2. /\ at' \in [Procs -> At] /\ at'[p].op = "undo"
      /\ \A q \in Procs : q # p =>
            \/ at'[q] = at[q]
            \/ /\ at[q].op = "reserved" /\ at'[q].op = "unused"
               /\ pgd[q] = Empty /\ other[q] = Empty
      /\ \A q \in Procs : at'[q].op \in {"fork", "load"} => q # p /\ at'[q] = at[q]
      /\ \A q \in Procs : Lives(q)' = Lives(q)
      /\ Kids'
  BY <1>1, GiveUpFacts
<1>3. TypeOK' /\ RefsAreUsers' /\ Sharing' /\ Faults' /\ Believed'
  <2>1. \A q \in Procs :
            \/ at'[q] = at[q]
            \/ /\ at[q].op \notin {"cow", "copied", "fetch"}
               /\ at'[q].op \notin {"cow", "copied", "fetch"}
               /\ at'[q].op \in {"unused", "reserved", "reap"} => pgd[q] = Empty
               /\ at'[q].op \notin {"fork", "load", "undo", "reap"} => other[q] = Empty
    BY <1>1, <1>2
  <2>2. stale' \in [Procs -> SUBSET Cached] /\ \A q \in Procs : stale'[q] \subseteq stale[q]
    BY <1>1 DEF TypeOK
  <2>3. QED
    BY <1>1, <1>2, <2>1, <2>2, OnlyWhere
<1>4. Copied' /\ Loaded'
  <2>1. Copied'
    BY <1>1, <1>2 DEF MemInv, Copied, Is, Mapped
  <2>2. Loaded'
    BY <1>1, <1>2, LoadedStays DEF MemInv
  <2>3. QED
    BY <2>1, <2>2
<1>5. Maps
  <2>1. \A q \in Procs : Contents(q)' = Contents(q)
    BY <1>1, <1>2, ContentsKept
  <2>2. QED
    BY <2>1, MapsStutter
<1>6. QED
  BY <1>2, <1>3, <1>4, <1>5 DEF MemInv

\* The program cannot be loaded, and a frame is lost.
LEMMA LoadLosesPageKeeps ==
    ASSUME MemInv, NEW p \in Procs, LoadLosesPage(p)
    PROVE  MemInv' /\ Maps
<1>1. /\ TypeOK /\ RefsAreUsers /\ Sharing /\ at[p].op = "load" /\ GiveUp(p)
      /\ UNCHANGED <<mem, pgd, other, stale>>
  BY DEF MemInv, LoadLosesPage, Is
<1>2. PICK f \in Frames : Alloc(f) /\ lost' = lost \cup {f}
  BY DEF LoadLosesPage
<1>3. /\ refs' = [refs EXCEPT ![f] = refs[f] + 1] /\ refs' \in [Frames -> 0 .. MaxRefs]
      /\ f \notin lost /\ f # NoFrame
      /\ \A k \in Kinds, q \in Procs, vb \in Pages : UsedAt(k, q, vb) # f
  BY <1>1, <1>2, AllocFacts
<1>4. /\ at' \in [Procs -> At] /\ at'[p].op = "undo"
      /\ \A q \in Procs : q # p =>
            \/ at'[q] = at[q]
            \/ /\ at[q].op = "reserved" /\ at'[q].op = "unused"
               /\ pgd[q] = Empty /\ other[q] = Empty
      /\ \A q \in Procs : at'[q].op \in {"fork", "load"} => q # p /\ at'[q] = at[q]
      /\ \A q \in Procs : Lives(q)' = Lives(q)
      /\ Kids'
  BY <1>1, GiveUpFacts
<1>5. /\ \A q \in Procs : /\ at'[q].op \in {"unused", "reserved", "reap"} => pgd'[q] = Empty
                          /\ at'[q].op \notin {"fork", "load", "undo", "reap"} => other'[q] = Empty
      /\ UseKept
      /\ \A k \in Kinds, q \in Procs, va \in Pages : Private(k, q, va)' = Private(k, q, va)
      /\ Faults' /\ Believed'
  <2>1. \A q \in Procs :
            \/ at'[q] = at[q]
            \/ /\ at[q].op \notin {"cow", "copied", "fetch"}
               /\ at'[q].op \notin {"cow", "copied", "fetch"}
               /\ at'[q].op \in {"unused", "reserved", "reap"} => pgd[q] = Empty
               /\ at'[q].op \notin {"fork", "load", "undo", "reap"} => other[q] = Empty
    BY <1>1, <1>4
  <2>2. stale' \in [Procs -> SUBSET Cached] /\ \A q \in Procs : stale'[q] \subseteq stale[q]
    BY <1>1 DEF TypeOK
  <2>3. QED
    BY <1>1, <1>4, <2>1, <2>2, WhereMoves
<1>6. TypeOK'
  BY <1>1, <1>2, <1>3, <1>4, <1>5 DEF TypeOK
<1>7. RefsAreUsers'
  <2> SUFFICES ASSUME NEW g \in Frames PROVE refs'[g] = Users(g)'
    BY DEF RefsAreUsers
  <2>1. UsesOf(g)' = UsesOf(g) /\ Cardinality(UsesOf(g)) \in Nat
    BY <1>5, KeptCount, UsesFacts
  <2>2. refs[g] = Users(g) /\ refs'[g] = IF g = f THEN refs[f] + 1 ELSE refs[g]
    BY <1>1, <1>3 DEF RefsAreUsers, TypeOK
  <2>3. QED
    BY <1>2, <1>3, <2>1, <2>2 DEF Users
<1>8. Sharing'
  <2>1. lost' \ lost \subseteq {g \in Frames : \A k \in Kinds, q \in Procs, va \in Pages :
                                                   UsedAt(k, q, va) # g}
    BY <1>2, <1>3
  <2>2. QED
    BY <1>1, <1>5, <2>1, SharingKept
<1>9. Copied' /\ Loaded'
  <2>1. Copied'
    BY <1>1, <1>4 DEF MemInv, Copied, Is, Mapped
  <2>2. Loaded'
    BY <1>1, <1>4, LoadedStays DEF MemInv
  <2>3. QED
    BY <2>1, <2>2
<1>10. Maps
  <2>1. \A q \in Procs : Contents(q)' = Contents(q)
    BY <1>1, <1>4, ContentsKept
  <2>2. QED
    BY <2>1, MapsStutter
<1>11. QED
  BY <1>4, <1>5, <1>6, <1>7, <1>8, <1>9, <1>10 DEF MemInv
-----------------------------------------------------------------------------
\* A program that is loaded is what its file says.
LEMMA ProgramFacts ==
    ASSUME MemInv, NEW p \in Procs, at[p].op = "load", Missing(p) = {}
    PROVE  [va \in Pages |-> IF other[p][va] = Invalid THEN Unmapped ELSE mem[other[p][va].pa]]
              = Space!Program
<1>1. \A va \in Pages : (va \in Image <=> other[p][va] # Invalid)
                        /\ (va \in Image => mem[other[p][va].pa] = File)
  BY MemoryAssumption DEF MemInv, Loaded, Is, Missing, Mapped
<1>2. QED
  BY <1>1 DEF Space!Program

\* exec changes one space for the other.
LEMMA ExecSwitchKeeps ==
    ASSUME MemInv, NEW p \in Procs, ExecSwitch(p)
    PROVE  MemInv' /\ Maps
<1>1. /\ TypeOK /\ Kids /\ at[p].op = "load" /\ at[p].kid = p /\ Missing(p) = {}
      /\ refs' = refs /\ mem' = mem /\ lost' = lost /\ stale' = ForgetAll(p) /\ Moved(p, p)
  BY DEF MemInv, ExecSwitch, Is, Moved
<1>2. /\ stale' \in [Procs -> SUBSET Cached] /\ stale'[p] = {}
      /\ \A q \in Procs : stale'[q] \subseteq stale[q]
  BY <1>1, StaleForgotten
<1>3. /\ at' \in [Procs -> At] /\ at'[p].op = "undo" /\ \A q \in Procs : q # p => at'[q] = at[q]
  <2>1. [op |-> "undo"] \in At /\ at' = [at EXCEPT ![p] = [op |-> "undo"]]
    BY AtMembers DEF ExecSwitch, Go
  <2>2. QED
    BY <1>1, <2>1, AtSet
<1>4. \A q \in Procs : /\ at'[q].op \in {"unused", "reserved", "reap"} => pgd'[q] = Empty
                       /\ at'[q].op \notin {"fork", "load", "undo", "reap"} => other'[q] = Empty
  BY <1>1, <1>3 DEF TypeOK, Moved
<1>5. /\ TypeOK' /\ RefsAreUsers' /\ Sharing'
      /\ Copied' /\ Loaded' /\ Faults' /\ Believed'
      /\ pgd'[p] = other[p] /\ \A q \in Procs : q # p => pgd'[q] = pgd[q]
  <2>1. /\ \A q \in Procs :
              \/ at'[q] = at[q]
              \/ at[q].op \notin {"cow", "copied", "fetch"} /\ at'[q].op \notin {"cow", "copied", "fetch"}
        /\ \A q \in Procs : at'[q].op \in {"fork", "load"} => at'[q] = at[q]
        /\ at'[p].op \notin {"fork", "load", "cow", "fetch"}
    BY <1>1, <1>3
  <2>2. \A e \in stale'[p] : e.w => UsedAt("other", p, e.va) # e.pa
    BY <1>2
  <2>3. QED
    BY <1>1, <1>2, <1>3, <1>4, <2>1, <2>2, TableMoves
<1>6. Kids'
  BY <1>1, <1>3, KidsDone
<1>7. Maps
  <2>1. Lives(p) /\ Lives(p)' /\ \A q \in Procs : Lives(q)' <=> Lives(q)
    BY <1>1, <1>3 DEF Lives
  <2>2. \A q \in Procs : q # p => Contents(q)' = Contents(q)
    BY <1>1, <1>5, <2>1, ContentsKept
  <2>3. Contents(p)' = Space!Program
    BY <1>1, <1>5, <2>1, ProgramFacts DEF Contents
  <2>4. memory' = [memory EXCEPT ![p] = Space!Program]
    BY <2>2, <2>3, OneChange
  <2>5. memory[p] # Gone
    BY <1>1, <2>1, ContentsFacts DEF memory
  <2>6. Space!Exec(p)
    BY <2>4, <2>5 DEF Space!Exec, Space!Lives, memory
  <2>7. QED
    BY <2>6 DEF Maps, Space!Next
<1>8. QED
  BY <1>5, <1>6, <1>7 DEF MemInv

\* A new process starts with its program.
LEMMA SpawnedKeeps ==
    ASSUME MemInv, NEW p \in Procs, Spawned(p)
    PROVE  MemInv' /\ Maps
<1>1. /\ TypeOK /\ at[p].op = "load" /\ Missing(p) = {}
      /\ refs' = refs /\ mem' = mem /\ lost' = lost /\ stale' = stale
  BY DEF MemInv, Spawned, Is
<1>2. PICK c \in Procs : c = at[p].kid
  BY <1>1, WhereFacts
<1>3. c # p /\ BothRun(p, c) /\ at[p].op \in {"fork", "load"}
  BY <1>1, <1>2 DEF Spawned, BothRun
<1>4. /\ at[c].op = "reserved" /\ pgd[c] = Empty /\ other[c] = Empty /\ stale[c] = {}
      /\ at' \in [Procs -> At] /\ at'[p].op = "user" /\ at'[c].op = "user"
      /\ \A q \in Procs : q # p /\ q # c => at'[q] = at[q]
      /\ Kids'
  BY <1>3, BornFacts
<1>5. Moved(p, c)
  BY <1>1, <1>2, <1>4 DEF Moved, Spawned
<1>6. \A q \in Procs : /\ at'[q].op \in {"unused", "reserved", "reap"} => pgd'[q] = Empty
                       /\ at'[q].op \notin {"fork", "load", "undo", "reap"} => other'[q] = Empty
  BY <1>1, <1>4, <1>5 DEF TypeOK, Moved
<1>7. ASSUME NEW e \in stale[p], e.w PROVE UsedAt("other", p, e.va) # e.pa
  <2>1. BelievedOf(p, e) /\ e.va \in Pages /\ e.pa # NoFrame
    BY <1>1, <1>7, StaleFacts DEF MemInv, Believed
  <2>2. UsedAt("pgd", p, e.va) = e.pa
    BY <1>1, <1>7, <2>1, BelievedIsUsed
  <2>3. ASSUME UsedAt("other", p, e.va) = e.pa PROVE FALSE
    <3>1. other[p][e.va] # Invalid
      BY <2>1, <2>3 DEF UsedAt, Invalid
    <3>2. Private("other", p, e.va)
      BY <1>1, <2>1, <3>1 DEF MemInv, Loaded, Is, Private
    <3>3. QED
      BY <2>1, <2>2, <2>3, <3>2 DEF MemInv, Sharing, Exclusive, Same, Kinds
  <2>4. QED
    BY <2>3
<1>8. /\ TypeOK' /\ RefsAreUsers' /\ Sharing'
      /\ Copied' /\ Loaded' /\ Faults' /\ Believed'
      /\ pgd'[c] = other[p] /\ \A q \in Procs : q # c => pgd'[q] = pgd[q]
  <2>1. /\ \A q \in Procs :
              \/ at'[q] = at[q]
              \/ at[q].op \notin {"cow", "copied", "fetch"} /\ at'[q].op \notin {"cow", "copied", "fetch"}
        /\ \A q \in Procs : at'[q].op \in {"fork", "load"} => at'[q] = at[q]
        /\ at'[p].op \notin {"fork", "load", "cow", "fetch"}
        /\ at'[c].op \notin {"fork", "load", "cow", "fetch"}
    BY <1>1, <1>4
  <2>2. /\ stale' \in [Procs -> SUBSET Cached] /\ stale'[c] = {}
        /\ \A q \in Procs : stale'[q] \subseteq stale[q]
        /\ \A e \in stale'[p] : e.w => UsedAt("other", p, e.va) # e.pa
    BY <1>1, <1>4, <1>7 DEF TypeOK
  <2>3. QED
    BY <1>4, <1>5, <1>6, <2>1, <2>2, TableMoves
<1>9. Maps
  <2>1. ~Lives(c) /\ Lives(c)' /\ \A q \in Procs : q # c => (Lives(q)' <=> Lives(q))
    BY <1>1, <1>4 DEF Lives
  <2>2. \A q \in Procs : q # c => Contents(q)' = Contents(q)
    BY <1>1, <1>8, <2>1, ContentsKept
  <2>3. Contents(c)' = Space!Program /\ Contents(c) = Gone
    BY <1>1, <1>8, <2>1, ProgramFacts DEF Contents
  <2>4. memory' = [memory EXCEPT ![c] = Space!Program]
    BY <2>2, <2>3, OneChange
  <2>5. Space!Spawn(c)
    BY <2>3, <2>4 DEF Space!Spawn, Space!Lives, memory
  <2>6. QED
    BY <2>5 DEF Maps, Space!Next
<1>10. QED
  BY <1>4, <1>8, <1>9 DEF MemInv
-----------------------------------------------------------------------------
\* A process dies.
LEMMA ExitKeeps ==
    ASSUME MemInv, NEW p \in Procs, Exit(p)
    PROVE  MemInv' /\ Maps
<1>1. /\ TypeOK /\ at[p].op = "user" /\ other[p] = Empty
      /\ UNCHANGED <<refs, mem, pgd, other, lost, stale>>
  BY WhereFacts DEF MemInv, Exit, Is
<1>2. /\ at' \in [Procs -> At] /\ at'[p].op = "dead" /\ \A q \in Procs : q # p => at'[q] = at[q]
  <2>1. [op |-> "dead"] \in At /\ at' = [at EXCEPT ![p] = [op |-> "dead"]]
    BY AtMembers DEF Exit, Go
  <2>2. QED
    BY <1>1, <2>1, AtSet
<1>3. TypeOK' /\ RefsAreUsers' /\ Sharing' /\ Faults' /\ Believed'
  <2>1. \A q \in Procs :
            \/ at'[q] = at[q]
            \/ /\ at[q].op \notin {"cow", "copied", "fetch"}
               /\ at'[q].op \notin {"cow", "copied", "fetch"}
               /\ at'[q].op \in {"unused", "reserved", "reap"} => pgd[q] = Empty
               /\ at'[q].op \notin {"fork", "load", "undo", "reap"} => other[q] = Empty
    BY <1>1, <1>2
  <2>2. stale' \in [Procs -> SUBSET Cached] /\ \A q \in Procs : stale'[q] \subseteq stale[q]
    BY <1>1 DEF TypeOK
  <2>3. QED
    BY <1>1, <1>2, <2>1, <2>2, OnlyWhere
<1>4. Kids'
  BY <1>1, <1>2, KidsStay DEF MemInv
<1>5. Copied' /\ Loaded'
  <2>1. Copied'
    BY <1>1, <1>2 DEF MemInv, Copied, Is, Mapped
  <2>2. Loaded'
    BY <1>1, <1>2, LoadedStays DEF MemInv
  <2>3. QED
    BY <2>1, <2>2
<1>6. Maps
  <2>1. Lives(p) /\ ~Lives(p)' /\ \A q \in Procs : q # p => (Lives(q)' <=> Lives(q))
    BY <1>1, <1>2 DEF Lives
  <2>2. \A q \in Procs : q # p => Contents(q)' = Contents(q)
    BY <1>1, <2>1, ContentsKept
  <2>3. memory' = [memory EXCEPT ![p] = Gone]
    BY <2>1, <2>2, OneChange DEF Contents
  <2>4. memory[p] # Gone
    BY <1>1, <2>1, ContentsFacts DEF memory
  <2>5. Space!Exit(p)
    BY <2>3, <2>4 DEF Space!Exit, Space!Lives, memory
  <2>6. QED
    BY <2>5 DEF Maps, Space!Next
<1>7. QED
  BY <1>3, <1>4, <1>5, <1>6 DEF MemInv

\* The reaper takes the table of a dead process.
LEMMA ReapKeeps ==
    ASSUME MemInv, NEW p \in Procs, Reap(p)
    PROVE  MemInv' /\ Maps
<1>1. /\ TypeOK /\ at[p].op = "dead" /\ other[p] = Empty
      /\ refs' = refs /\ mem' = mem /\ lost' = lost /\ stale' = ForgetAll(p)
  BY WhereFacts DEF MemInv, Reap, Is
<1>2. Moved(p, p)
  BY <1>1 DEF Reap, Moved
<1>3. /\ stale' \in [Procs -> SUBSET Cached] /\ stale'[p] = {}
      /\ \A q \in Procs : stale'[q] \subseteq stale[q]
  BY <1>1, StaleForgotten
<1>4. /\ at' \in [Procs -> At] /\ at'[p].op = "reap" /\ \A q \in Procs : q # p => at'[q] = at[q]
  <2>1. [op |-> "reap"] \in At /\ at' = [at EXCEPT ![p] = [op |-> "reap"]]
    BY AtMembers DEF Reap, Go
  <2>2. QED
    BY <1>1, <2>1, AtSet
<1>5. \A q \in Procs : /\ at'[q].op \in {"unused", "reserved", "reap"} => pgd'[q] = Empty
                       /\ at'[q].op \notin {"fork", "load", "undo", "reap"} => other'[q] = Empty
  <2>1. /\ pgd'[p] = Empty
        /\ \A q \in Procs : q # p => pgd'[q] = pgd[q] /\ other'[q] = other[q]
    BY <1>1 DEF Reap, TypeOK
  <2>2. QED
    BY <1>1, <1>4, <2>1 DEF TypeOK
<1>6. /\ TypeOK' /\ RefsAreUsers' /\ Sharing'
      /\ Copied' /\ Loaded' /\ Faults' /\ Believed'
      /\ \A q \in Procs : q # p => pgd'[q] = pgd[q]
  <2>1. /\ \A q \in Procs :
              \/ at'[q] = at[q]
              \/ at[q].op \notin {"cow", "copied", "fetch"} /\ at'[q].op \notin {"cow", "copied", "fetch"}
        /\ \A q \in Procs : at'[q].op \in {"fork", "load"} => at'[q] = at[q]
        /\ at'[p].op \notin {"fork", "load", "cow", "fetch"}
    BY <1>1, <1>4
  <2>2. \A e \in stale'[p] : e.w => UsedAt("other", p, e.va) # e.pa
    BY <1>3
  <2>3. QED
    BY <1>2, <1>3, <1>4, <1>5, <2>1, <2>2, TableMoves
<1>7. Kids'
  BY <1>1, <1>4, KidsStay DEF MemInv
<1>8. Maps
  <2>1. ~Lives(p) /\ \A q \in Procs : Lives(q)' <=> Lives(q)
    BY <1>1, <1>4 DEF Lives
  <2>2. \A q \in Procs : Contents(q)' = Contents(q)
    BY <1>1, <1>6, <2>1, ContentsKept
  <2>3. QED
    BY <2>2, MapsStutter
<1>9. QED
  BY <1>6, <1>7, <1>8 DEF MemInv

\* A page of a table that is destroyed.
LEMMA DestroyPageKeeps ==
    ASSUME MemInv, NEW p \in Procs, DestroyPage(p)
    PROVE  MemInv' /\ Maps
<1>1. /\ TypeOK /\ RefsAreUsers /\ Sharing /\ at[p].op \in {"undo", "reap"}
      /\ Mapped(other[p]) # {} /\ pgd' = pgd /\ lost' = lost /\ stale' = stale /\ at' = at
  BY DEF MemInv, DestroyPage
<1>2. PICK va \in Pages : va = Least(Mapped(other[p])) /\ other[p][va] # Invalid
  <2>1. Mapped(other[p]) \in SUBSET Pages
    BY DEF Mapped
  <2>2. Least(Mapped(other[p])) \in Mapped(other[p])
    BY <1>1, <2>1, LeastFacts
  <2>3. QED
    BY <2>2 DEF Mapped
<1>3. PICK f \in Frames : f = other[p][va].pa
  BY <1>1, <1>2, TableFacts
<1>4. Release(f) /\ other' = [other EXCEPT ![p][va] = Invalid]
  BY <1>2, <1>3 DEF DestroyPage
<1>5. UsedAt("other", p, va) = f /\ f # NoFrame
  BY <1>3, ConstFacts DEF UsedAt
<1>6. /\ refs' = [refs EXCEPT ![f] = refs[f] - 1] /\ refs' \in [Frames -> 0 .. MaxRefs]
      /\ mem' \in [Frames -> Values] /\ \A g \in Frames : g # f => mem'[g] = mem[g]
      /\ mem' = mem \/ Alone("other", p, va)
  BY <1>1, <1>4, <1>5, ReleaseFacts DEF Kinds
<1>7. /\ other' \in [Procs -> [Pages -> Entry]]
      /\ \A q \in Procs, vb \in Pages :
           other'[q][vb] = IF q = p /\ vb = va THEN Invalid ELSE other[q][vb]
      /\ \A q \in Procs : q # p => other'[q] = other[q]
  BY <1>1, <1>4, EntrySet DEF TypeOK, Entry
<1>8. TypeOK'
  <2>1. \A q \in Procs : /\ at'[q].op \in {"unused", "reserved", "reap"} => pgd'[q] = Empty
                         /\ at'[q].op \notin {"fork", "load", "undo", "reap"} => other'[q] = Empty
    BY <1>1, <1>7 DEF TypeOK
  <2>2. QED
    BY <1>1, <1>6, <1>7, <2>1 DEF TypeOK
<1>9. UseDropped("other", p, va, f)
  BY <1>1, <1>5, <1>7 DEF UseDropped, Elsewhere, Same, UsedAt, Invalid
<1>10. RefsAreUsers'
  BY <1>1, <1>6, <1>9, RefsDropped DEF Kinds
<1>11. Sharing'
  <2>1. ASSUME NEW k \in Kinds, NEW q \in Procs, NEW vb \in Pages, Private(k, q, vb)',
               ~Same(k, q, vb, "other", p, va)
        PROVE  Private(k, q, vb)
    BY <1>1, <1>7, <2>1 DEF Private, Same
  <2>2. NoFrame \notin lost
    BY <1>1, ConstFacts DEF TypeOK
  <2>3. QED
    BY <1>1, <1>9, <2>1, <2>2, SharingDropped DEF Kinds
<1>12. Kids' /\ Faults'
  BY <1>1 DEF MemInv, Kids, Faults, Is
<1>13. Copied'
  BY <1>1, <1>7 DEF MemInv, Copied, Is, Mapped
<1>14. Loaded'
  <2>1. mem' = mem \/ \A q \in Procs, vb \in Pages : at[q].op = "load" => UsedAt("other", q, vb) # f
    BY <1>1, <1>5, <1>6 DEF Alone, Same, Kinds
  <2>2. \A q \in Procs : at'[q].op = "load" => at[q].op = "load" /\ other'[q] = other[q]
    BY <1>1, <1>7
  <2>3. QED
    BY <1>1, <1>6, <2>1, <2>2, LoadedStays DEF MemInv
<1>15. Believed'
  <2> SUFFICES ASSUME NEW q \in Procs, NEW e \in stale[q] PROVE BelievedOf(q, e)'
    BY <1>1 DEF Believed
  <2>1. BelievedOf(q, e) /\ e.va \in Pages /\ e.pa # NoFrame
    BY <1>1, StaleFacts DEF MemInv, Believed
  <2>2. ASSUME NEW k \in Kinds, NEW r \in Procs, NEW vb \in Pages, UsedAt(k, r, vb)' = e.pa
        PROVE  UsedAt(k, r, vb) = e.pa
    <3>1. UsedAt(k, r, vb)' = IF Same(k, r, vb, "other", p, va) THEN NoFrame ELSE UsedAt(k, r, vb)
      BY <1>9 DEF UseDropped, Elsewhere, Same
    <3>2. QED
      BY <2>1, <2>2, <3>1
  <2>3. QED
    BY <1>1, <2>1, <2>2, BelievedStays
<1>16. Maps
  <2>1. mem' = mem \/ \A q \in Procs, vb \in Pages : UsedAt("pgd", q, vb) # f
    BY <1>5, <1>6 DEF Alone, Same, Kinds
  <2>2. ASSUME NEW q \in Procs PROVE Contents(q)' = Contents(q)
    <3>1. Lives(q)' <=> Lives(q)
      BY <1>1 DEF Lives
    <3>2. QED
      BY <1>1, <1>6, <2>1, <3>1, UnusedIsUnseen
  <2>3. QED
    BY <2>2, MapsStutter
<1>17. QED
  BY <1>8, <1>10, <1>11, <1>12, <1>13, <1>14, <1>15, <1>16 DEF MemInv

\* A table that is destroyed to the end.
LEMMA DestroyedKeeps ==
    ASSUME MemInv, NEW p \in Procs, Destroyed(p)
    PROVE  MemInv' /\ Maps
<1>1. /\ TypeOK /\ at[p].op \in {"undo", "reap"} /\ Mapped(other[p]) = {}
      /\ UNCHANGED <<refs, mem, pgd, other, lost, stale>>
  BY DEF MemInv, Destroyed
<1>2. other[p] = Empty
  <2>1. other[p] \in [Pages -> Entry] /\ \A va \in Pages : other[p][va] = Invalid
    BY <1>1 DEF TypeOK, Mapped
  <2>2. QED
    BY <2>1 DEF Empty
<1>3. /\ at' \in [Procs -> At] /\ at'[p].op = IF at[p].op = "undo" THEN "user" ELSE "unused"
      /\ \A q \in Procs : q # p => at'[q] = at[q]
  <2> DEFINE w == IF at[p].op = "undo" THEN User ELSE [op |-> "unused"]
  <2>1. w \in At /\ w.op = IF at[p].op = "undo" THEN "user" ELSE "unused"
    BY AtMembers
  <2>2. at' = [at EXCEPT ![p] = w]
    BY DEF Destroyed, Go, Is
  <2> HIDE DEF w
  <2>3. QED
    BY <1>1, <2>1, <2>2, AtSet
<1>4. at[p].op = "reap" => pgd[p] = Empty
  BY <1>1, WhereFacts
<1>5. TypeOK' /\ RefsAreUsers' /\ Sharing' /\ Faults' /\ Believed'
  <2>1. \A q \in Procs :
            \/ at'[q] = at[q]
            \/ /\ at[q].op \notin {"cow", "copied", "fetch"}
               /\ at'[q].op \notin {"cow", "copied", "fetch"}
               /\ at'[q].op \in {"unused", "reserved", "reap"} => pgd[q] = Empty
               /\ at'[q].op \notin {"fork", "load", "undo", "reap"} => other[q] = Empty
    BY <1>1, <1>2, <1>3, <1>4
  <2>2. stale' \in [Procs -> SUBSET Cached] /\ \A q \in Procs : stale'[q] \subseteq stale[q]
    BY <1>1 DEF TypeOK
  <2>3. QED
    BY <1>1, <1>3, <2>1, <2>2, OnlyWhere
<1>6. Kids'
  BY <1>1, <1>3, KidsStay DEF MemInv
<1>7. Copied' /\ Loaded'
  <2>1. Copied'
    BY <1>1, <1>3 DEF MemInv, Copied, Is, Mapped
  <2>2. Loaded'
    BY <1>1, <1>3, LoadedStays DEF MemInv
  <2>3. QED
    BY <2>1, <2>2
<1>8. Maps
  <2>1. \A q \in Procs : Lives(q)' <=> Lives(q)
    BY <1>1, <1>3 DEF Lives
  <2>2. \A q \in Procs : Contents(q)' = Contents(q)
    BY <1>1, <2>1, ContentsKept
  <2>3. QED
    BY <2>2, MapsStutter
<1>9. QED
  BY <1>5, <1>6, <1>7, <1>8 DEF MemInv
-----------------------------------------------------------------------------
\* What the first process is loaded with: its frames are counted once, and nobody
\* else has anything.
LEMMA InitKeeps == Init => MemInv /\ Space!Init
<1> SUFFICES ASSUME Init PROVE MemInv /\ Space!Init
  OBVIOUS
<1>1. PICK at0 \in [Image -> Frames] :
        /\ \A a, b \in Image : a # b => at0[a] # at0[b]
        /\ refs = [f \in Frames |-> IF \E va \in Image : at0[va] = f THEN 1 ELSE 0]
        /\ mem = [f \in Frames |-> IF \E va \in Image : at0[va] = f THEN File ELSE Zero]
        /\ pgd = [p \in Procs |-> [va \in Pages |->
                     IF p = First /\ va \in Image THEN [pa |-> at0[va], ap |-> "RW"] ELSE Invalid]]
        /\ other = [p \in Procs |-> Empty]
        /\ lost = {}
        /\ stale = [p \in Procs |-> {}]
        /\ at = [p \in Procs |-> [op |-> IF p = First THEN "user" ELSE "unused"]]
  BY DEF Init
<1>2. First \in Procs /\ Image \subseteq Pages
  BY MemoryAssumption
<1>3. \A p \in Procs, va \in Pages :
        /\ pgd[p][va] = IF p = First /\ va \in Image THEN [pa |-> at0[va], ap |-> "RW"] ELSE Invalid
        /\ other[p][va] = Invalid
  BY <1>1 DEF Empty
<1>4. \A p \in Procs : /\ at[p].op = IF p = First THEN "user" ELSE "unused"
                       /\ other[p] = Empty /\ stale[p] = {}
                       /\ p # First => pgd[p] = Empty
  BY <1>1 DEF Empty
<1>5. TypeOK
  <2>1. refs \in [Frames -> 0 .. MaxRefs] /\ mem \in [Frames -> Values]
    BY <1>1, ConstFacts
  <2>2. ASSUME NEW p \in Procs, NEW va \in Pages PROVE pgd[p][va] \in Entry
    <3>1. CASE p = First /\ va \in Image
      <4>1. at0[va] \in Frames /\ pgd[p][va] = [pa |-> at0[va], ap |-> "RW"]
        BY <1>3, <3>1
      <4>2. QED
        BY <4>1 DEF Entry
    <3>2. CASE ~(p = First /\ va \in Image)
      BY <1>3, <3>2 DEF Entry
    <3>3. QED
      BY <3>1, <3>2
  <2>3. Empty \in [Pages -> Entry]
    BY DEF Empty, Entry
  <2>4. pgd \in [Procs -> [Pages -> Entry]] /\ other \in [Procs -> [Pages -> Entry]]
    BY <1>1, <2>2, <2>3
  <2>5. at \in [Procs -> At]
    BY <1>1, AtMembers
  <2>6. lost \in SUBSET Frames /\ stale \in [Procs -> SUBSET Cached]
    BY <1>1
  <2>7. QED
    BY <1>4, <2>1, <2>4, <2>5, <2>6 DEF TypeOK
<1>6. ASSUME NEW k \in Kinds, NEW p \in Procs, NEW va \in Pages
      PROVE  UsedAt(k, p, va) = IF k = "pgd" /\ p = First /\ va \in Image THEN at0[va] ELSE NoFrame
  <2>1. CASE k = "pgd" /\ p = First /\ va \in Image
    <3>1. pgd[p][va] = [pa |-> at0[va], ap |-> "RW"]
      BY <1>3, <2>1
    <3>2. QED
      BY <2>1, <3>1 DEF UsedAt
  <2>2. CASE k = "pgd" /\ ~(p = First /\ va \in Image)
    <3>1. pgd[p][va] = Invalid
      BY <1>3, <2>2
    <3>2. QED
      BY <2>2, <3>1 DEF UsedAt, Invalid
  <2>3. CASE k = "other"
    <3>1. other[p][va] = Invalid /\ k # "pgd"
      BY <1>3, <2>3
    <3>2. UsedAt(k, p, va) = NoFrame
      BY <2>3, <3>1 DEF UsedAt, Invalid
    <3>3. QED
      BY <3>1, <3>2
  <2>4. CASE k = "hand"
    BY <1>4, <2>4 DEF UsedAt
  <2>5. QED
    BY <2>1, <2>2, <2>3, <2>4 DEF Kinds
<1>7. RefsAreUsers
  <2> SUFFICES ASSUME NEW f \in Frames PROVE refs[f] = Cardinality(UsesOf(f))
    BY <1>1 DEF RefsAreUsers, Users
  <2>0. f # NoFrame /\ "pgd" \in Kinds
    BY ConstFacts DEF Kinds
  <2>1. CASE \E va \in Image : at0[va] = f
    <3>1. PICK va \in Image : at0[va] = f
      BY <2>1
    <3>2. va \in Pages /\ <<"pgd", First, va>> \in Uses
      BY <1>2, <2>0, <3>1 DEF Uses
    <3>3. ASSUME NEW k \in Kinds, NEW p \in Procs, NEW vb \in Pages
          PROVE  <<k, p, vb>> \in UsesOf(f) <=> <<k, p, vb>> \in {<<"pgd", First, va>>}
      <4>1. <<k, p, vb>> \in UsesOf(f) <=> UsedAt(k, p, vb) = f
        BY UsesFacts
      <4>2. UsedAt(k, p, vb) = f <=> k = "pgd" /\ p = First /\ vb = va
        BY <1>1, <1>6, <2>0, <3>1
      <4>3. QED
        BY <4>1, <4>2
    <3>4. UsesOf(f) = {<<"pgd", First, va>>}
      <4>1. UsesOf(f) \in SUBSET Uses /\ {<<"pgd", First, va>>} \in SUBSET Uses
        BY <3>2, UsesFacts
      <4>2. QED
        BY <3>3, <4>1, SameUses
    <3>5. Cardinality(UsesOf(f)) = 1
      BY <3>4, FS_Singleton
    <3>6. QED
      BY <1>1, <2>1, <3>5
  <2>2. CASE ~ \E va \in Image : at0[va] = f
    <3>1. UsesOf(f) = {}
      <4> SUFFICES ASSUME NEW u \in UsesOf(f) PROVE FALSE
        OBVIOUS
      <4>1. PICK k \in Kinds, p \in Procs, vb \in Pages : u = <<k, p, vb>>
        BY UsesFacts DEF Uses
      <4>2. UsedAt(k, p, vb) = f
        BY <4>1, UsesFacts
      <4>3. QED
        BY <1>6, <2>0, <2>2, <4>2
    <3>2. Cardinality(UsesOf(f)) = 0
      BY <3>1, FS_EmptySet
    <3>3. QED
      BY <1>1, <2>2, <3>2
  <2>3. QED
    BY <2>1, <2>2
<1>8. Sharing
  <2>1. ASSUME NEW k \in Kinds, NEW p \in Procs, NEW va \in Pages,
               NEW j \in Kinds, NEW q \in Procs, NEW vb \in Pages,
               UsedAt(k, p, va) # NoFrame, UsedAt(j, q, vb) = UsedAt(k, p, va)
        PROVE  k = j /\ p = q /\ va = vb
    BY <1>1, <1>6, <2>1
  <2>2. Exclusive
    BY <2>1 DEF Exclusive, Same
  <2>3. OncePerTable
    BY <2>1 DEF OncePerTable
  <2>4. LostAlone
    BY <1>1 DEF LostAlone
  <2>5. QED
    BY <2>2, <2>3, <2>4 DEF Sharing
<1>9. Kids /\ Copied /\ Loaded /\ Faults /\ Believed
  BY <1>4 DEF Kids, Copied, Loaded, Faults, Believed, Is
<1>10. Space!Init
  <2>1. ASSUME NEW p \in Procs
        PROVE  Contents(p) = IF p = First THEN Space!Program ELSE Gone
    <3>1. CASE p = First
      <4>1. Lives(p)
        BY <1>4, <3>1 DEF Lives
      <4>2. ASSUME NEW va \in Pages
            PROVE  (IF pgd[p][va] = Invalid THEN Unmapped ELSE mem[pgd[p][va].pa])
                      = (IF va \in Image THEN File ELSE Unmapped)
        <5>1. CASE va \in Image
          <6>1. pgd[p][va].pa = at0[va] /\ pgd[p][va].ap = "RW" /\ at0[va] \in Frames
            <7>1. pgd[p][va] = [pa |-> at0[va], ap |-> "RW"]
              BY <1>3, <3>1, <5>1
            <7>2. QED
              BY <5>1, <7>1
          <6>2. pgd[p][va] # Invalid
            BY <6>1 DEF Invalid
          <6>3. mem[at0[va]] = File
            BY <1>1, <5>1, <6>1
          <6>4. QED
            BY <5>1, <6>1, <6>2, <6>3
        <5>2. CASE va \notin Image
          BY <1>3, <5>2
        <5>3. QED
          BY <5>1, <5>2
      <4>3. QED
        BY <3>1, <4>1, <4>2 DEF Contents, Space!Program
    <3>2. CASE p # First
      BY <1>4, <3>2 DEF Contents, Lives
    <3>3. QED
      BY <3>1, <3>2
  <2>2. QED
    BY <2>1 DEF Space!Init
<1>11. QED
  BY <1>5, <1>7, <1>8, <1>9, <1>10 DEF MemInv

\* Every step keeps the invariant, and is a step of the abstract memory or none.
LEMMA StepKeeps == MemInv /\ [Next]_vars => MemInv' /\ Maps
<1> SUFFICES ASSUME MemInv, [Next]_vars PROVE MemInv' /\ Maps
  OBVIOUS
<1>1. CASE Next
  <2>1. PICK p \in Procs :
            \/ MmapFilled(p) \/ MmapFails(p) \/ CowCopy(p) \/ CowDone(p)
            \/ Fork(p) \/ ForkPage(p) \/ ForkFails(p) \/ Born(p)
            \/ Load(p) \/ LoadPage(p) \/ LoadFails(p) \/ LoadLosesPage(p)
            \/ ExecSwitch(p) \/ Spawned(p)
            \/ Exit(p) \/ Reap(p) \/ DestroyPage(p) \/ Destroyed(p)
            \/ \E va \in Pages : \/ Grow(p, va) \/ MmapFault(p, va)
                                 \/ Unmap(p, va) \/ CowAlone(p, va) \/ CowFault(p, va)
                                 \/ \E v \in Values : Write(p, va, v)
    BY <1>1 DEF Next
  <2>2. CASE MmapFilled(p) \/ MmapFails(p) \/ CowCopy(p) \/ CowDone(p)
    BY <2>2, MmapFilledKeeps, MmapFailsKeeps, CowCopyKeeps, CowDoneKeeps
  <2>3. CASE Fork(p) \/ ForkPage(p) \/ ForkFails(p) \/ Born(p)
    BY <2>3, ForkKeeps, ForkPageKeeps, ForkFailsKeeps, BornKeeps
  <2>4. CASE Load(p) \/ LoadPage(p) \/ LoadFails(p) \/ LoadLosesPage(p)
    BY <2>4, LoadKeeps, LoadPageKeeps, LoadFailsKeeps, LoadLosesPageKeeps
  <2>5. CASE ExecSwitch(p) \/ Spawned(p)
    BY <2>5, ExecSwitchKeeps, SpawnedKeeps
  <2>6. CASE Exit(p) \/ Reap(p) \/ DestroyPage(p) \/ Destroyed(p)
    BY <2>6, ExitKeeps, ReapKeeps, DestroyPageKeeps, DestroyedKeeps
  <2>7. ASSUME NEW va \in Pages, Grow(p, va) \/ MmapFault(p, va) \/ Unmap(p, va)
                                 \/ CowAlone(p, va) \/ CowFault(p, va)
        PROVE  MemInv' /\ Maps
    BY <2>7, GrowKeeps, MmapFaultKeeps, UnmapKeeps, CowAloneKeeps, CowFaultKeeps
  <2>8. ASSUME NEW va \in Pages, NEW v \in Values, Write(p, va, v)
        PROVE  MemInv' /\ Maps
    BY <2>8, WriteKeeps
  <2>9. QED
    BY <2>1, <2>2, <2>3, <2>4, <2>5, <2>6, <2>7, <2>8
<1>2. CASE UNCHANGED vars
  <2>1. MemInv'
    BY <1>2 DEF vars, MemInv, TypeOK, RefsAreUsers, Users, UsesOf, UsedAt, Sharing, Exclusive,
                OncePerTable, LostAlone, Private, Kids, Copied, Loaded, Faults, Believed, BelievedOf,
                Is, Mapped
  <2>2. Maps
    BY <1>2 DEF vars, Maps, memory, Contents, Lives
  <2>3. QED
    BY <2>1, <2>2
<1>3. QED
  BY <1>1, <1>2

\* The invariant holds in every state.
LEMMA Invariant == Spec => []MemInv
<1>1. Init => MemInv
  BY InitKeeps
<1>2. MemInv /\ [Next]_vars => MemInv'
  BY StepKeeps
<1>3. QED
  BY <1>1, <1>2, PTL DEF Spec
-----------------------------------------------------------------------------
\* The variables of vmm.c, pmm.c and sched.c have their types; no process that is
\* not there has a table, and no table is half built where nobody builds one.
THEOREM MemoryTyped == Spec => []TypeOK
<1>1. MemInv => TypeOK
  BY DEF MemInv
<1>2. QED
  BY <1>1, Invariant, PTL

\* refs[] of pmm.c is right after any interleaving of forks, copies on write, execs
\* and reaps: a frame is free when, and only when, nobody can reach it, but for the
\* frames that a program which could not be loaded has lost.
THEOREM FramesAreCounted == Spec => []RefsAreUsers
<1>1. MemInv => RefsAreUsers
  BY DEF MemInv
<1>2. QED
  BY <1>1, Invariant, PTL

\* vmm_fork() leaves the TLB as it is until it ends, and vmm_cow_fault() maps
\* before it forgets: what is believed meanwhile leads a process that runs to the
\* frame its table says, and lets it write only where nobody else looks.
THEOREM LateTLBIsHarmless == Spec => []StaleIsHarmless
<1>1. MemInv => StaleIsHarmless
  <2> SUFFICES ASSUME MemInv, NEW p \in Procs, at[p].op = "user", NEW e \in stale[p]
               PROVE  /\ pgd[p][e.va].pa = e.pa
                      /\ e.w => refs[e.pa] = 1 /\ pgd[p][e.va].ap # "RO"
    BY DEF StaleIsHarmless, Is
  <2>1. /\ TypeOK /\ RefsAreUsers /\ LostAlone /\ BelievedOf(p, e) /\ "pgd" \in Kinds
        /\ e.va \in Pages /\ e.pa \in Frames /\ e.w \in BOOLEAN /\ e \in Cached
    BY StaleFacts DEF MemInv, Sharing, Believed, Kinds, TypeOK
  <2>2. pgd[p][e.va].pa = e.pa
    BY <2>1 DEF BelievedOf
  <2>3. ASSUME e.w PROVE refs[e.pa] = 1 /\ pgd[p][e.va].ap # "RO"
    <3>1. e = [va |-> e.va, pa |-> e.pa, w |-> TRUE]
      BY <2>1, <2>3 DEF Cached
    <3>2. UsedAt("pgd", p, e.va) = e.pa /\ Alone("pgd", p, e.va)
      BY <2>1, <3>1, WritesAlone
    <3>3. refs[e.pa] = 1
      BY <2>1, <3>2, AloneCount
    <3>4. QED
      BY <2>1, <2>3, <3>3 DEF BelievedOf
  <2>4. QED
    BY <2>2, <2>3
<1>2. QED
  BY <1>1, Invariant, PTL

\* Each process has a memory of its own: through every way of sharing frames, a
\* fork is a copy of the memory at one moment, and what one process writes no other
\* sees.
THEOREM MemoriesAreApart == Spec => IsAddressSpaces
<1>1. Init => Space!Init
  BY InitKeeps
<1>2. MemInv /\ [Next]_vars => [Space!Next]_memory
  BY StepKeeps DEF Maps
<1>3. QED
  BY <1>1, <1>2, Invariant, PTL DEF Spec, IsAddressSpaces, Space!Spec, memory
=============================================================================
