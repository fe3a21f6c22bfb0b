---------------------------- MODULE PipesProofs ----------------------------
(***************************************************************************)
(* Proofs about Pipes.tla, for any number of processes, of structures, of  *)
(* descriptors and any size of the ring: the types, that every descriptor  *)
(* is counted, that a pipe outlives whoever is inside it, and that nobody  *)
(* sleeps with what it waits for.                                          *)
(***************************************************************************)
EXTENDS Pipes, FiniteSetTheorems, TLAPS

\* The type invariant, in two parts.
Typed ==
    /\ files \in [Files -> File]
    /\ pipes \in [Pipes -> Pipe]
    /\ fd \in [Procs -> [Fds -> Files \cup {NoFile}]]
    /\ state \in [Procs -> {"UNUSED", "READY", "BLOCKED", "ZOMBIE"}]
    /\ parent \in [Procs -> Procs \cup {Nobody}]
    /\ interrumpido \in [Procs -> BOOLEAN]
    /\ call \in [Procs -> Call]
    /\ dead \in Procs \cup {Nobody}

Queues ==
    \A t \in Procs, q \in Pipes :
        /\ t \in pipes[q].hay_datos <=> Reads(t, q) /\ state[t] = "BLOCKED"
        /\ t \in pipes[q].hay_hueco <=> Writes(t, q) /\ state[t] = "BLOCKED"

\* An end of a pipe is one structure, which is there while it is counted.
IsEnd(f, tipo, q) == files[f].tipo = tipo /\ files[f].p = q

Ends ==
    /\ \A f \in Files : files[f].refs = 0 <=> files[f].tipo = "F_LIBRE"
    /\ \A f, g \in Files, q \in Pipes, tipo \in {"F_PIPE_R", "F_PIPE_W"} :
          IsEnd(f, tipo, q) /\ IsEnd(g, tipo, q) => f = g
    /\ \A q \in Pipes :
          /\ pipes[q].lectores = 1 <=> \E f \in Files : IsEnd(f, "F_PIPE_R", q)
          /\ pipes[q].escritores = 1 <=> \E f \in Files : IsEnd(f, "F_PIPE_W", q)
          /\ pipes[q].vive <=> pipes[q].lectores = 1 \/ pipes[q].escritores = 1
          /\ ~pipes[q].vive => pipes[q] = Free(q)

\* A slot that is given has nothing open; one that is being filled, what its
\* parent has copied so far; and who is inside a call has open what it is for.
Slots ==
    \A t \in Procs :
        /\ state[t] = "UNUSED" => \A n \in Fds : fd[t][n] = NoFile
        /\ state[t] \in {"UNUSED", "ZOMBIE"} => call[t] = NoCall
        /\ call[t].op \in {"fork", "dup2"} => state[t] = "READY"

Kids ==
    \A t \in Procs : call[t].op = "fork" =>
        /\ state[call[t].kid] = "BLOCKED" /\ call[call[t].kid] = NoCall
        /\ \A n \in Fds : n >= call[t].next => fd[call[t].kid][n] = NoFile
        /\ \A u \in Procs : call[u].op = "fork" /\ call[u].kid = call[t].kid => u = t

Inside ==
    \A t \in Procs :
        /\ call[t].op = "dup2" => \E n \in Fds : n # call[t].nuevo /\ fd[t][n] = call[t].f
        /\ call[t].op = "read"  => HasOpen(t, "F_PIPE_R", call[t].p)
        /\ call[t].op = "write" => HasOpen(t, "F_PIPE_W", call[t].p)

Grave == dead # Nobody => state[dead] = "ZOMBIE"

PipesInv ==
    /\ Typed /\ Queues /\ Ends /\ Slots /\ Kids /\ Inside /\ Grave
    /\ RefsAreDescriptors /\ NobodySleepsInVain
-----------------------------------------------------------------------------
\* The type invariant is these two parts.
LEMMA TypeParts == TypeOK <=> Typed /\ Queues
  BY DEF TypeOK, Typed, Queues

\* Tables are finite, so that what points at a structure can be counted.
LEMMA FdsFacts == /\ IsFiniteSet(Fds) /\ IsFiniteSet(Procs) /\ MAX_FD \in Nat \ {0}
                  /\ IsFiniteSet(Procs \X Fds) /\ Fds \subseteq Nat
<1>1. /\ MAX_FD \in Nat \ {0} /\ 0 \in Int /\ MAX_FD - 1 \in Int
      /\ IsFiniteSet(Procs)
  BY PipesAssumption
<1>2. IsFiniteSet(Fds)
  BY <1>1, FS_Interval DEF Fds
<1>3. IsFiniteSet(Procs \X Fds)
  BY <1>1, <1>2, FS_Product
<1>4. QED
  BY <1>1, <1>2, <1>3 DEF Fds

\* What points at f, by what it is counted for.
LEMMA PointAtNamed ==
    ASSUME NEW f
    PROVE  /\ f # NoFile => \A t \in Procs, n \in Fds : <<t, n>> \in PointAt(f) <=> Named(t, n) = f
           /\ PointAt(f) \in SUBSET (Procs \X Fds)
           /\ IsFiniteSet(PointAt(f)) /\ Cardinality(PointAt(f)) \in Nat
<1>1. PointAt(f) \in SUBSET (Procs \X Fds)
  BY DEF PointAt
<1>2. IsFiniteSet(PointAt(f))
  BY <1>1, FdsFacts, FS_Subset
<1>3. Cardinality(PointAt(f)) \in Nat
  BY <1>2, FS_CardinalityType
<1>4. ASSUME f # NoFile, NEW t \in Procs, NEW n \in Fds
      PROVE  <<t, n>> \in PointAt(f) <=> Named(t, n) = f
  BY <1>4 DEF PointAt, Named
<1>5. QED
  BY <1>1, <1>2, <1>3, <1>4

\* The same in the next state.
LEMMA PointAtNamedNext ==
    ASSUME NEW f
    PROVE  /\ f # NoFile => \A t \in Procs, n \in Fds : <<t, n>> \in PointAt(f)' <=> Named(t, n)' = f
           /\ PointAt(f)' \in SUBSET (Procs \X Fds)
<1>1. PointAt(f)' \in SUBSET (Procs \X Fds)
  BY DEF PointAt
<1>2. ASSUME f # NoFile, NEW t \in Procs, NEW n \in Fds
      PROVE  <<t, n>> \in PointAt(f)' <=> Named(t, n)' = f
  BY <1>2 DEF PointAt, Named
<1>3. QED
  BY <1>1, <1>2

\* An empty descriptor points at nothing.
LEMMA FilesAreNot == ASSUME NEW f \in Files PROVE f # NoFile
  BY PipesAssumption

\* Nothing is opened or closed where what is counted does not change.
LEMMA SameCount ==
    ASSUME \A t \in Procs, n \in Fds : Named(t, n)' = Named(t, n), NEW f \in Files
    PROVE  PointAt(f)' = PointAt(f)
<1>1. \A x \in Procs \X Fds : x \in PointAt(f)' <=> x \in PointAt(f)
  <2> SUFFICES ASSUME NEW t \in Procs, NEW n \in Fds
               PROVE  <<t, n>> \in PointAt(f)' <=> <<t, n>> \in PointAt(f)
    OBVIOUS
  <2>1. QED
    BY PointAtNamed, PointAtNamedNext, FilesAreNot
<1>2. QED
  BY <1>1, PointAtNamed, PointAtNamedNext

\* A descriptor of f that is opened or closed is one more or one less, and the
\* other structures do not see it.
LEMMA OneMore ==
    ASSUME NEW t \in Procs, NEW n \in Fds, NEW f \in Files,
           Named(t, n) = NoFile, Named(t, n)' = f,
           \A u \in Procs, m \in Fds : <<u, m>> # <<t, n>> => Named(u, m)' = Named(u, m)
    PROVE  /\ Cardinality(PointAt(f)') = Cardinality(PointAt(f)) + 1
           /\ \A g \in Files : g # f => PointAt(g)' = PointAt(g)
<1>1. ASSUME NEW g \in Files, NEW u \in Procs, NEW m \in Fds
      PROVE  <<u, m>> \in PointAt(g)' <=> \/ <<u, m>> \in PointAt(g)
                                          \/ g = f /\ <<u, m>> = <<t, n>>
  <2>1. g # NoFile
    BY FilesAreNot
  <2>2. <<u, m>> \in PointAt(g)' <=> Named(u, m)' = g
    BY <2>1, PointAtNamedNext
  <2>3. <<u, m>> \in PointAt(g) <=> Named(u, m) = g
    BY <2>1, PointAtNamed
  <2>4. CASE u = t /\ m = n
    BY <2>1, <2>2, <2>3, <2>4
  <2>5. CASE <<u, m>> # <<t, n>>
    BY <2>2, <2>3, <2>5
  <2>6. QED
    BY <2>4, <2>5
<1>2. PointAt(f)' = PointAt(f) \cup {<<t, n>>}
  BY <1>1, PointAtNamed, PointAtNamedNext
<1>3. <<t, n>> \notin PointAt(f)
  BY PointAtNamed, FilesAreNot
<1>4. Cardinality(PointAt(f)') = Cardinality(PointAt(f)) + 1
  BY <1>2, <1>3, PointAtNamed, FS_AddElement
<1>5. \A g \in Files : g # f => PointAt(g)' = PointAt(g)
  BY <1>1, PointAtNamed, PointAtNamedNext
<1>6. QED
  BY <1>4, <1>5

\* One that is closed is one less.
LEMMA OneLess ==
    ASSUME NEW t \in Procs, NEW n \in Fds, NEW f \in Files,
           Named(t, n) = f, Named(t, n)' = NoFile,
           \A u \in Procs, m \in Fds : <<u, m>> # <<t, n>> => Named(u, m)' = Named(u, m)
    PROVE  /\ Cardinality(PointAt(f)') = Cardinality(PointAt(f)) - 1
           /\ \A g \in Files : g # f => PointAt(g)' = PointAt(g)
<1>1. ASSUME NEW g \in Files, NEW u \in Procs, NEW m \in Fds
      PROVE  <<u, m>> \in PointAt(g)' <=> <<u, m>> \in PointAt(g) /\ <<u, m>> # <<t, n>>
  <2>1. g # NoFile
    BY FilesAreNot
  <2>2. <<u, m>> \in PointAt(g)' <=> Named(u, m)' = g
    BY <2>1, PointAtNamedNext
  <2>3. <<u, m>> \in PointAt(g) <=> Named(u, m) = g
    BY <2>1, PointAtNamed
  <2>4. CASE u = t /\ m = n
    BY <2>1, <2>2, <2>3, <2>4
  <2>5. CASE <<u, m>> # <<t, n>>
    BY <2>2, <2>3, <2>5
  <2>6. QED
    BY <2>4, <2>5
<1>2. PointAt(f)' = PointAt(f) \ {<<t, n>>}
  BY <1>1, PointAtNamed, PointAtNamedNext
<1>3. <<t, n>> \in PointAt(f)
  BY PointAtNamed, FilesAreNot
<1>4. Cardinality(PointAt(f)') = Cardinality(PointAt(f)) - 1
  BY <1>2, <1>3, PointAtNamed, FS_RemoveElement
<1>5. ASSUME NEW g \in Files, g # f PROVE PointAt(g)' = PointAt(g)
  <2>1. <<t, n>> \notin PointAt(g)
    BY <1>5, PointAtNamed, FilesAreNot
  <2>2. ASSUME NEW u \in Procs, NEW m \in Fds
        PROVE  <<u, m>> \in PointAt(g)' <=> <<u, m>> \in PointAt(g)
    BY <1>1, <2>1
  <2>3. PointAt(g)' \in SUBSET (Procs \X Fds) /\ PointAt(g) \in SUBSET (Procs \X Fds)
    BY PointAtNamed, PointAtNamedNext
  <2>4. QED
    BY <2>2, <2>3
<1>6. QED
  BY <1>4, <1>5

\* What is pointed at is counted, and two descriptors are two.
LEMMA PointedIsCounted ==
    ASSUME RefsAreDescriptors, NEW f \in Files, NEW t \in Procs, NEW n \in Fds, Named(t, n) = f
    PROVE  /\ files[f].refs \in Nat \ {0}
           /\ \A u \in Procs, m \in Fds :
                 Named(u, m) = f /\ <<u, m>> # <<t, n>> => files[f].refs > 1
<1>1. files[f].refs = Cardinality(PointAt(f)) /\ <<t, n>> \in PointAt(f)
  BY PointAtNamed, FilesAreNot DEF RefsAreDescriptors
<1>2. files[f].refs \in Nat \ {0}
  BY <1>1, PointAtNamed, FS_EmptySet
<1>3. ASSUME NEW u \in Procs, NEW m \in Fds, Named(u, m) = f, <<u, m>> # <<t, n>>
      PROVE  files[f].refs > 1
  <2>1. <<u, m>> \in PointAt(f)
    BY <1>3, PointAtNamed, FilesAreNot
  <2>2. Cardinality(PointAt(f)) # 1
    BY <1>1, <1>3, <2>1, PointAtNamed, FS_Singleton
  <2>3. QED
    BY <1>1, <1>2, <2>2
<1>4. QED
  BY <1>2, <1>3
-----------------------------------------------------------------------------
\* A structure that is pointed at is the only one of its end of a live pipe.
LEMMA OpenIsEnd ==
    ASSUME PipesInv, NEW f \in Files, NEW t \in Procs, NEW n \in Fds, Named(t, n) = f
    PROVE  /\ files[f] \in File /\ files[f].p \in Pipes /\ files[f].refs \in Nat \ {0}
           /\ files[f].tipo \in {"F_PIPE_R", "F_PIPE_W"}
           /\ files[f].tipo = "F_PIPE_R" => pipes[files[f].p].lectores = 1
           /\ files[f].tipo = "F_PIPE_W" => pipes[files[f].p].escritores = 1
           /\ pipes[files[f].p].vive
<1>1. files[f].refs \in Nat \ {0}
  BY PointedIsCounted DEF PipesInv
<1>2. files[f] \in File
  BY DEF PipesInv, Typed
<1>3. files[f].tipo \in {"F_PIPE_R", "F_PIPE_W"} /\ files[f].p \in Pipes
  BY <1>1, <1>2 DEF PipesInv, Ends, File
<1>4. /\ files[f].tipo = "F_PIPE_R" => pipes[files[f].p].lectores = 1
      /\ files[f].tipo = "F_PIPE_W" => pipes[files[f].p].escritores = 1
  BY <1>3 DEF PipesInv, Ends, IsEnd
<1>5. QED
  BY <1>1, <1>2, <1>3, <1>4 DEF PipesInv, Ends

\* What file_close() does to the structure...
LEMMA CloseFile ==
    ASSUME PipesInv, NEW f \in Files, files[f] \in File, files[f].refs \in Nat \ {0}, FileClose(f)
    PROVE  /\ files' \in [Files -> File]
           /\ \A g \in Files : g # f => files'[g] = files[g]
           /\ files'[f].refs = files[f].refs - 1
           /\ files'[f].p = files[f].p
           /\ files'[f].tipo = IF files[f].refs > 1 THEN files[f].tipo ELSE "F_LIBRE"
<1> DEFINE v == [tipo |-> IF files[f].refs > 1 THEN files[f].tipo ELSE "F_LIBRE",
                 refs |-> files[f].refs - 1, p |-> files[f].p]
<1>1. files' = [files EXCEPT ![f] = v]
  BY DEF FileClose
<1>2. files \in [Files -> File]
  BY DEF PipesInv, Typed
<1>3. v \in File
  BY DEF File
<1>4. QED
  BY <1>1, <1>2, <1>3

\* ... and to the pipe: nothing, or this end goes and those who wait at the other
\* are woken; the other end is as it was.
LEMMA ClosePipe ==
    ASSUME PipesInv, NEW f \in Files, NEW t \in Procs, NEW n \in Fds, Named(t, n) = f,
           FileClose(f), NEW q, q = files[f].p
    PROVE  /\ pipes' \in [Pipes -> Pipe] /\ q \in Pipes
           /\ \A r \in Pipes : r # q => pipes'[r] = pipes[r]
           /\ pipes'[q].vive <=> pipes'[q].lectores = 1 \/ pipes'[q].escritores = 1
           /\ ~pipes'[q].vive => pipes'[q] = Free(q)
           /\ pipes'[q].vive => pipes'[q].count = pipes[q].count
           /\ \/ /\ files[f].refs > 1 /\ pipes' = pipes /\ state' = state
              \/ /\ files[f].refs = 1 /\ files[f].tipo = "F_PIPE_R"
                 /\ pipes'[q].lectores = 0 /\ pipes'[q].hay_hueco = {}
                 /\ pipes'[q].escritores = pipes[q].escritores
                 /\ pipes'[q].hay_datos = pipes[q].hay_datos
                 /\ Awake(pipes[q].hay_hueco)
              \/ /\ files[f].refs = 1 /\ files[f].tipo = "F_PIPE_W"
                 /\ pipes'[q].escritores = 0 /\ pipes'[q].hay_datos = {}
                 /\ pipes'[q].lectores = pipes[q].lectores
                 /\ pipes'[q].hay_hueco = pipes[q].hay_hueco
                 /\ Awake(pipes[q].hay_datos)
<1> DEFINE P == EndClosed(f, pipes[q])
<1>1. /\ q \in Pipes /\ files[f].refs \in Nat \ {0}
      /\ files[f].tipo \in {"F_PIPE_R", "F_PIPE_W"}
      /\ files[f].tipo = "F_PIPE_R" => pipes[q].lectores = 1
      /\ files[f].tipo = "F_PIPE_W" => pipes[q].escritores = 1
      /\ pipes[q].vive
  BY OpenIsEnd
<1>2. /\ pipes \in [Pipes -> Pipe] /\ pipes[q] \in Pipe
      /\ state \in [Procs -> {"UNUSED", "READY", "BLOCKED", "ZOMBIE"}]
  BY <1>1 DEF PipesInv, Typed
<1>3. /\ pipes' = [pipes EXCEPT ![q] = IF P.lectores + P.escritores = 0 THEN Free(q) ELSE P]
      /\ Awake((pipes[q].hay_datos \ P.hay_datos) \cup (pipes[q].hay_hueco \ P.hay_hueco))
  BY DEF FileClose
<1>4. /\ pipes[q].hay_datos # {} => pipes[q].count = 0 /\ pipes[q].escritores > 0
      /\ pipes[q].hay_hueco # {} => pipes[q].count = PIPE_BUF /\ pipes[q].lectores > 0
  BY <1>1 DEF PipesInv, NobodySleepsInVain
<1>5. Free(q) \in Pipe
  BY PipesAssumption DEF Free, Pipe
<1>6. CASE files[f].refs > 1
  <2>1. P = pipes[q]
    BY <1>6 DEF EndClosed
  <2>2. P.lectores + P.escritores # 0
    BY <1>1, <1>2, <2>1 DEF Pipe
  <2>3. pipes' = pipes
    BY <1>2, <1>3, <2>1, <2>2
  <2>4. state' = state
    BY <1>2, <1>3, <2>1 DEF Awake
  <2>5. pipes[q].vive <=> pipes[q].lectores = 1 \/ pipes[q].escritores = 1
    BY <1>1 DEF PipesInv, Ends
  <2>6. QED
    BY <1>1, <1>2, <1>6, <2>3, <2>4, <2>5
<1>7. CASE files[f].refs = 1 /\ files[f].tipo = "F_PIPE_R"
  <2>1. P = [pipes[q] EXCEPT !.lectores = pipes[q].lectores - 1, !.hay_hueco = {}]
    BY <1>7 DEF EndClosed
  <2>2. /\ P \in Pipe /\ P.lectores = 0 /\ P.hay_hueco = {} /\ P.escritores = pipes[q].escritores
        /\ P.hay_datos = pipes[q].hay_datos /\ P.vive /\ P.count = pipes[q].count
    <3>1. pipes[q].lectores - 1 = 0 /\ 0 \in 0 .. 1 /\ {} \in SUBSET Procs
      BY <1>1, <1>7
    <3>2. P = [pipes[q] EXCEPT !.lectores = 0, !.hay_hueco = {}]
      BY <2>1, <3>1
    <3>3. P \in Pipe
      BY <1>2, <3>1, <3>2 DEF Pipe
    <3>4. QED
      BY <1>1, <1>2, <3>2, <3>3 DEF Pipe
  <2> HIDE DEF P
  <2>3. Awake(pipes[q].hay_hueco)
    <3>1. (pipes[q].hay_datos \ P.hay_datos) \cup (pipes[q].hay_hueco \ P.hay_hueco)
              = pipes[q].hay_hueco
      BY <2>2
    <3>2. QED
      BY <1>3, <3>1
  <2>4. pipes[q].escritores \in {0, 1}
    BY <1>2 DEF Pipe
  <2>5. CASE pipes[q].escritores = 0
    <3>1. pipes' = [pipes EXCEPT ![q] = Free(q)]
      BY <1>3, <2>2, <2>5
    <3>2. pipes[q].hay_datos = {}
      BY <1>4, <2>5
    <3>3. QED
      BY <1>1, <1>2, <1>5, <1>7, <2>3, <2>5, <3>1, <3>2 DEF Free
  <2>6. CASE pipes[q].escritores = 1
    <3>1. pipes' = [pipes EXCEPT ![q] = P]
      BY <1>3, <2>2, <2>6
    <3>2. QED
      BY <1>1, <1>2, <1>7, <2>2, <2>3, <2>6, <3>1
  <2>7. QED
    BY <2>4, <2>5, <2>6
<1>8. CASE files[f].refs = 1 /\ files[f].tipo = "F_PIPE_W"
  <2>1. P = [pipes[q] EXCEPT !.escritores = pipes[q].escritores - 1, !.hay_datos = {}]
    BY <1>8 DEF EndClosed
  <2>2. /\ P \in Pipe /\ P.escritores = 0 /\ P.hay_datos = {} /\ P.lectores = pipes[q].lectores
        /\ P.hay_hueco = pipes[q].hay_hueco /\ P.vive /\ P.count = pipes[q].count
    <3>1. pipes[q].escritores - 1 = 0 /\ 0 \in 0 .. 1 /\ {} \in SUBSET Procs
      BY <1>1, <1>8
    <3>2. P = [pipes[q] EXCEPT !.escritores = 0, !.hay_datos = {}]
      BY <2>1, <3>1
    <3>3. P \in Pipe
      BY <1>2, <3>1, <3>2 DEF Pipe
    <3>4. QED
      BY <1>1, <1>2, <3>2, <3>3 DEF Pipe
  <2> HIDE DEF P
  <2>3. Awake(pipes[q].hay_datos)
    <3>1. (pipes[q].hay_datos \ P.hay_datos) \cup (pipes[q].hay_hueco \ P.hay_hueco)
              = pipes[q].hay_datos
      BY <2>2
    <3>2. QED
      BY <1>3, <3>1
  <2>4. pipes[q].lectores \in {0, 1}
    BY <1>2 DEF Pipe
  <2>5. CASE pipes[q].lectores = 0
    <3>1. pipes' = [pipes EXCEPT ![q] = Free(q)]
      BY <1>3, <2>2, <2>5
    <3>2. pipes[q].hay_hueco = {}
      BY <1>4, <2>5
    <3>3. QED
      BY <1>1, <1>2, <1>5, <1>8, <2>3, <2>5, <3>1, <3>2 DEF Free
  <2>6. CASE pipes[q].lectores = 1
    <3>1. pipes' = [pipes EXCEPT ![q] = P]
      BY <1>3, <2>2, <2>6
    <3>2. QED
      BY <1>1, <1>2, <1>8, <2>2, <2>3, <2>6, <3>1
  <2>7. QED
    BY <2>4, <2>5, <2>6
<1>9. QED
  BY <1>1, <1>6, <1>7, <1>8
-----------------------------------------------------------------------------
\* A descriptor is closed by whoever is awake or dead, and outside any read or
\* write of its own.
Closes(t, n, f) ==
    /\ FileClose(f)
    /\ Named(t, n) = f /\ Named(t, n)' = NoFile
    /\ \A u \in Procs, m \in Fds : <<u, m>> # <<t, n>> => Named(u, m)' = Named(u, m)
    /\ call' \in [Procs -> Call]
    /\ \A u \in Procs : u # t => call'[u] = call[u] /\ fd'[u] = fd[u]
    /\ {call[t].op, call'[t].op} \cap {"read", "write"} = {}
    /\ state[t] # "BLOCKED"

\* Who is woken was asleep in a read or a write.
LEMMA CloseWakes ==
    ASSUME PipesInv, NEW t \in Procs, NEW n \in Fds, NEW f \in Files, Closes(t, n, f)
    PROVE  /\ state' \in [Procs -> {"UNUSED", "READY", "BLOCKED", "ZOMBIE"}]
           /\ \A u \in Procs : \/ state'[u] = state[u]
                               \/ /\ state[u] = "BLOCKED" /\ state'[u] = "READY"
                                  /\ call[u].op \in {"read", "write"}
           /\ Queues' /\ NobodySleepsInVain'
<1> DEFINE q == files[f].p
<1>1. /\ q \in Pipes
      /\ \A r \in Pipes : r # q => pipes'[r] = pipes[r]
      /\ \/ /\ pipes' = pipes /\ state' = state
         \/ /\ pipes'[q].hay_hueco = {}
            /\ pipes'[q].escritores = pipes[q].escritores
            /\ pipes'[q].hay_datos = pipes[q].hay_datos
            /\ Awake(pipes[q].hay_hueco)
         \/ /\ pipes'[q].hay_datos = {}
            /\ pipes'[q].lectores = pipes[q].lectores
            /\ pipes'[q].hay_hueco = pipes[q].hay_hueco
            /\ Awake(pipes[q].hay_datos)
  BY ClosePipe DEF Closes
<1>2. \/ pipes' = pipes
      \/ /\ pipes'[q].vive => pipes'[q].count = pipes[q].count
         /\ ~pipes'[q].vive => pipes'[q] = Free(q)
  BY ClosePipe DEF Closes
<1>3. /\ state \in [Procs -> {"UNUSED", "READY", "BLOCKED", "ZOMBIE"}]
      /\ pipes \in [Pipes -> Pipe]
  BY DEF PipesInv, Typed
<1>4. \A u \in Procs : /\ u \in pipes[q].hay_datos <=> Reads(u, q) /\ state[u] = "BLOCKED"
                       /\ u \in pipes[q].hay_hueco <=> Writes(u, q) /\ state[u] = "BLOCKED"
  BY <1>1 DEF PipesInv, Queues
<1>5. \A u \in Procs, r \in Pipes :
         /\ Reads(u, r)' <=> Reads(u, r)
         /\ Writes(u, r)' <=> Writes(u, r)
         /\ ~(Reads(u, r) /\ Writes(u, q)) /\ ~(Reads(u, q) /\ Writes(u, r))
         /\ Reads(u, r) /\ Reads(u, q) => r = q
         /\ Writes(u, r) /\ Writes(u, q) => r = q
  BY DEF Closes, Reads, Writes
<1>6. /\ pipes[q].hay_datos # {} => pipes[q].count = 0 /\ pipes[q].escritores > 0
      /\ pipes[q].hay_hueco # {} => pipes[q].count = PIPE_BUF /\ pipes[q].lectores > 0
  BY <1>1 DEF PipesInv, NobodySleepsInVain
<1> HIDE DEF q
<1>7. CASE pipes' = pipes /\ state' = state
  <2>1. Queues'
    BY <1>5, <1>7 DEF PipesInv, Queues
  <2>2. NobodySleepsInVain'
    BY <1>7 DEF PipesInv, NobodySleepsInVain
  <2>3. QED
    BY <1>3, <1>7, <2>1, <2>2
<1>8. CASE /\ pipes'[q].hay_hueco = {} /\ Awake(pipes[q].hay_hueco)
           /\ pipes'[q].hay_datos = pipes[q].hay_datos
           /\ pipes'[q].escritores = pipes[q].escritores
  <2>1. \A u \in Procs : state'[u] = IF u \in pipes[q].hay_hueco THEN "READY" ELSE state[u]
    BY <1>8 DEF Awake
  <2>2. state' \in [Procs -> {"UNUSED", "READY", "BLOCKED", "ZOMBIE"}]
    BY <1>3, <1>8 DEF Awake
  <2>3. \A u \in Procs : \/ state'[u] = state[u]
                         \/ /\ state[u] = "BLOCKED" /\ state'[u] = "READY"
                            /\ call[u].op \in {"read", "write"}
    BY <1>4, <2>1 DEF Writes
  <2>4. ASSUME NEW u \in Procs, NEW r \in Pipes
        PROVE  /\ u \in pipes'[r].hay_datos <=> Reads(u, r)' /\ state'[u] = "BLOCKED"
               /\ u \in pipes'[r].hay_hueco <=> Writes(u, r)' /\ state'[u] = "BLOCKED"
    <3>1. /\ u \in pipes[r].hay_datos <=> Reads(u, r) /\ state[u] = "BLOCKED"
          /\ u \in pipes[r].hay_hueco <=> Writes(u, r) /\ state[u] = "BLOCKED"
      BY DEF PipesInv, Queues
    <3>2. CASE r = q
      BY <1>4, <1>5, <1>8, <2>1, <3>1, <3>2
    <3>3. CASE r # q
      BY <1>1, <1>4, <1>5, <2>1, <3>1, <3>3
    <3>4. QED
      BY <3>2, <3>3
  <2>5. pipes'[q].hay_datos # {} => pipes'[q].count = 0 /\ pipes'[q].escritores > 0
    BY <1>2, <1>6, <1>8 DEF Free
  <2>6. NobodySleepsInVain'
    <3>1. ASSUME NEW r \in Pipes
          PROVE  /\ pipes'[r].hay_datos # {} => pipes'[r].count = 0 /\ pipes'[r].escritores > 0
                 /\ pipes'[r].hay_hueco # {} => pipes'[r].count = PIPE_BUF /\ pipes'[r].lectores > 0
      BY <1>1, <1>8, <2>5 DEF PipesInv, NobodySleepsInVain
    <3>2. QED
      BY <3>1 DEF NobodySleepsInVain
  <2>7. QED
    BY <2>2, <2>3, <2>4, <2>6 DEF Queues
<1>9. CASE /\ pipes'[q].hay_datos = {} /\ Awake(pipes[q].hay_datos)
           /\ pipes'[q].hay_hueco = pipes[q].hay_hueco
           /\ pipes'[q].lectores = pipes[q].lectores
  <2>1. \A u \in Procs : state'[u] = IF u \in pipes[q].hay_datos THEN "READY" ELSE state[u]
    BY <1>9 DEF Awake
  <2>2. state' \in [Procs -> {"UNUSED", "READY", "BLOCKED", "ZOMBIE"}]
    BY <1>3, <1>9 DEF Awake
  <2>3. \A u \in Procs : \/ state'[u] = state[u]
                         \/ /\ state[u] = "BLOCKED" /\ state'[u] = "READY"
                            /\ call[u].op \in {"read", "write"}
    BY <1>4, <2>1 DEF Reads
  <2>4. ASSUME NEW u \in Procs, NEW r \in Pipes
        PROVE  /\ u \in pipes'[r].hay_datos <=> Reads(u, r)' /\ state'[u] = "BLOCKED"
               /\ u \in pipes'[r].hay_hueco <=> Writes(u, r)' /\ state'[u] = "BLOCKED"
    <3>1. /\ u \in pipes[r].hay_datos <=> Reads(u, r) /\ state[u] = "BLOCKED"
          /\ u \in pipes[r].hay_hueco <=> Writes(u, r) /\ state[u] = "BLOCKED"
      BY DEF PipesInv, Queues
    <3>2. CASE r = q
      BY <1>4, <1>5, <1>9, <2>1, <3>1, <3>2
    <3>3. CASE r # q
      BY <1>1, <1>4, <1>5, <2>1, <3>1, <3>3
    <3>4. QED
      BY <3>2, <3>3
  <2>5. pipes'[q].hay_hueco # {} => pipes'[q].count = PIPE_BUF /\ pipes'[q].lectores > 0
    BY <1>2, <1>6, <1>9 DEF Free
  <2>6. NobodySleepsInVain'
    <3>1. ASSUME NEW r \in Pipes
          PROVE  /\ pipes'[r].hay_datos # {} => pipes'[r].count = 0 /\ pipes'[r].escritores > 0
                 /\ pipes'[r].hay_hueco # {} => pipes'[r].count = PIPE_BUF /\ pipes'[r].lectores > 0
      BY <1>1, <1>9, <2>5 DEF PipesInv, NobodySleepsInVain
    <3>2. QED
      BY <3>1 DEF NobodySleepsInVain
  <2>7. QED
    BY <2>2, <2>3, <2>4, <2>6 DEF Queues
<1>10. QED
  BY <1>1, <1>7, <1>8, <1>9

\* The end goes when its last descriptor does, and nobody else loses it.
LEMMA CloseEnds ==
    ASSUME PipesInv, NEW t \in Procs, NEW n \in Fds, NEW f \in Files, Closes(t, n, f)
    PROVE  /\ files' \in [Files -> File] /\ pipes' \in [Pipes -> Pipe]
           /\ Ends' /\ RefsAreDescriptors'
           /\ \A u \in Procs, tipo \in {"F_PIPE_R", "F_PIPE_W"}, r \in Pipes :
                 u # t /\ call[u].op # "dup2" /\ HasOpen(u, tipo, r) => HasOpen(u, tipo, r)'
<1> DEFINE q == files[f].p
<1>1. /\ files' \in [Files -> File]
      /\ \A g \in Files : g # f => files'[g] = files[g]
      /\ files'[f].refs = files[f].refs - 1
      /\ files'[f].p = files[f].p
      /\ files'[f].tipo = IF files[f].refs > 1 THEN files[f].tipo ELSE "F_LIBRE"
  BY OpenIsEnd, CloseFile DEF Closes
<1>2. /\ pipes' \in [Pipes -> Pipe] /\ q \in Pipes
      /\ \A r \in Pipes : r # q => pipes'[r] = pipes[r]
      /\ pipes'[q].vive <=> pipes'[q].lectores = 1 \/ pipes'[q].escritores = 1
      /\ ~pipes'[q].vive => pipes'[q] = Free(q)
      /\ \/ /\ files[f].refs > 1 /\ pipes' = pipes
         \/ /\ files[f].refs = 1 /\ files[f].tipo = "F_PIPE_R"
            /\ pipes'[q].lectores = 0
            /\ pipes'[q].escritores = pipes[q].escritores
         \/ /\ files[f].refs = 1 /\ files[f].tipo = "F_PIPE_W"
            /\ pipes'[q].escritores = 0
            /\ pipes'[q].lectores = pipes[q].lectores
  BY ClosePipe DEF Closes
<1>3. /\ files[f].refs \in Nat \ {0} /\ files[f].tipo \in {"F_PIPE_R", "F_PIPE_W"}
      /\ \A u \in Procs, m \in Fds : Named(u, m) = f /\ <<u, m>> # <<t, n>> => files[f].refs > 1
  BY OpenIsEnd, PointedIsCounted DEF Closes, PipesInv
<1>4. RefsAreDescriptors'
  <2>1. /\ Cardinality(PointAt(f)') = Cardinality(PointAt(f)) - 1
        /\ \A g \in Files : g # f => PointAt(g)' = PointAt(g)
    BY OneLess DEF Closes
  <2>2. ASSUME NEW g \in Files PROVE files'[g].refs = Cardinality(PointAt(g)')
    BY <1>1, <2>1 DEF PipesInv, RefsAreDescriptors
  <2>3. QED
    BY <2>2 DEF RefsAreDescriptors
<1>5. \A u \in Procs, tipo \in {"F_PIPE_R", "F_PIPE_W"}, r \in Pipes :
         u # t /\ call[u].op # "dup2" /\ HasOpen(u, tipo, r) => HasOpen(u, tipo, r)'
  <2> SUFFICES ASSUME NEW u \in Procs, NEW tipo \in {"F_PIPE_R", "F_PIPE_W"}, NEW r \in Pipes,
                      u # t, call[u].op # "dup2", HasOpen(u, tipo, r)
               PROVE  HasOpen(u, tipo, r)'
    OBVIOUS
  <2>1. PICK m \in Fds : /\ fd[u][m] # NoFile /\ files[fd[u][m]].tipo = tipo
                         /\ files[fd[u][m]].p = r
    BY DEF HasOpen
  <2>2. fd[u][m] \in Files
    BY <2>1 DEF PipesInv, Typed
  <2>3. Named(u, m) = fd[u][m] /\ fd'[u] = fd[u]
    BY DEF Named, Closes
  <2>4. CASE fd[u][m] = f
    <3>1. files[f].refs > 1
      BY <1>3, <2>3, <2>4
    <3>2. QED
      BY <1>1, <2>1, <2>3, <2>4, <3>1 DEF HasOpen
  <2>5. CASE fd[u][m] # f
    BY <1>1, <2>1, <2>2, <2>3, <2>5 DEF HasOpen
  <2>6. QED
    BY <2>4, <2>5
<1> HIDE DEF q
<1>6. Ends'
  <2>1. \A g \in Files : files'[g].refs = 0 <=> files'[g].tipo = "F_LIBRE"
    <3>1. \A g \in Files : files[g].refs = 0 <=> files[g].tipo = "F_LIBRE"
      BY DEF PipesInv, Ends
    <3>2. files'[f].refs = 0 <=> files'[f].tipo = "F_LIBRE"
      BY <1>1, <1>3
    <3>3. QED
      BY <1>1, <3>1, <3>2
  <2>2. \A g \in Files, r \in Pipes, tipo \in {"F_PIPE_R", "F_PIPE_W"} :
           IsEnd(g, tipo, r)' <=> IsEnd(g, tipo, r) /\ (g = f => files[f].refs > 1)
    BY <1>1 DEF IsEnd
  <2>3. \A g, h \in Files, r \in Pipes, tipo \in {"F_PIPE_R", "F_PIPE_W"} :
           IsEnd(g, tipo, r)' /\ IsEnd(h, tipo, r)' => g = h
    BY <2>2 DEF PipesInv, Ends
  <2>4. ASSUME NEW r \in Pipes
        PROVE  /\ pipes'[r].lectores = 1 <=> \E g \in Files : IsEnd(g, "F_PIPE_R", r)'
               /\ pipes'[r].escritores = 1 <=> \E g \in Files : IsEnd(g, "F_PIPE_W", r)'
    <3>1. /\ pipes[r].lectores = 1 <=> \E g \in Files : IsEnd(g, "F_PIPE_R", r)
          /\ pipes[r].escritores = 1 <=> \E g \in Files : IsEnd(g, "F_PIPE_W", r)
      BY DEF PipesInv, Ends
    <3>2. CASE files[f].refs > 1
      <4>1. pipes' = pipes
        BY <1>2, <3>2
      <4>2. \A g \in Files : /\ IsEnd(g, "F_PIPE_R", r)' <=> IsEnd(g, "F_PIPE_R", r)
                             /\ IsEnd(g, "F_PIPE_W", r)' <=> IsEnd(g, "F_PIPE_W", r)
        BY <2>2, <3>2
      <4>3. QED
        BY <3>1, <4>1, <4>2
    <3>3. CASE files[f].refs = 1 /\ r # q
      <4>1. pipes'[r] = pipes[r]
        BY <1>2, <3>3
      <4>2. ~IsEnd(f, "F_PIPE_R", r) /\ ~IsEnd(f, "F_PIPE_W", r)
        BY <3>3 DEF IsEnd, q
      <4>3. \A g \in Files : /\ IsEnd(g, "F_PIPE_R", r)' <=> IsEnd(g, "F_PIPE_R", r)
                             /\ IsEnd(g, "F_PIPE_W", r)' <=> IsEnd(g, "F_PIPE_W", r)
        BY <2>2, <4>2
      <4>4. QED
        BY <3>1, <4>1, <4>3
    <3>4. CASE files[f].refs = 1 /\ r = q
      <4>1. CASE files[f].tipo = "F_PIPE_R"
        <5>1. pipes'[r].lectores = 0 /\ pipes'[r].escritores = pipes[r].escritores
          BY <1>2, <3>4, <4>1
        <5>2. IsEnd(f, "F_PIPE_R", r) /\ ~IsEnd(f, "F_PIPE_W", r) /\ ~(files[f].refs > 1)
          BY <3>4, <4>1 DEF IsEnd, q
        <5>3. \A g \in Files : IsEnd(g, "F_PIPE_R", r) => g = f
          BY <5>2 DEF PipesInv, Ends
        <5>4. \A g \in Files : ~IsEnd(g, "F_PIPE_R", r)'
          BY <2>2, <5>2, <5>3
        <5>5. \A g \in Files : IsEnd(g, "F_PIPE_W", r)' <=> IsEnd(g, "F_PIPE_W", r)
          BY <2>2, <5>2
        <5>6. QED
          BY <3>1, <5>1, <5>4, <5>5
      <4>2. CASE files[f].tipo = "F_PIPE_W"
        <5>1. pipes'[r].escritores = 0 /\ pipes'[r].lectores = pipes[r].lectores
          BY <1>2, <3>4, <4>2
        <5>2. IsEnd(f, "F_PIPE_W", r) /\ ~IsEnd(f, "F_PIPE_R", r) /\ ~(files[f].refs > 1)
          BY <3>4, <4>2 DEF IsEnd, q
        <5>3. \A g \in Files : IsEnd(g, "F_PIPE_W", r) => g = f
          BY <5>2 DEF PipesInv, Ends
        <5>4. \A g \in Files : ~IsEnd(g, "F_PIPE_W", r)'
          BY <2>2, <5>2, <5>3
        <5>5. \A g \in Files : IsEnd(g, "F_PIPE_R", r)' <=> IsEnd(g, "F_PIPE_R", r)
          BY <2>2, <5>2
        <5>6. QED
          BY <3>1, <5>1, <5>4, <5>5
      <4>3. QED
        BY <1>3, <4>1, <4>2
    <3>5. QED
      BY <1>3, <3>2, <3>3, <3>4
  <2>5. ASSUME NEW r \in Pipes
        PROVE  /\ pipes'[r].vive <=> pipes'[r].lectores = 1 \/ pipes'[r].escritores = 1
               /\ ~pipes'[r].vive => pipes'[r] = Free(r)
    <3>1. /\ pipes[r].vive <=> pipes[r].lectores = 1 \/ pipes[r].escritores = 1
          /\ ~pipes[r].vive => pipes[r] = Free(r)
      BY DEF PipesInv, Ends
    <3>2. CASE r = q
      BY <1>2, <3>2
    <3>3. CASE r # q
      BY <1>2, <3>1, <3>3
    <3>4. QED
      BY <3>2, <3>3
  <2>6. QED
    BY <2>1, <2>3, <2>4, <2>5 DEF Ends
<1>7. QED
  BY <1>1, <1>2, <1>4, <1>5, <1>6

\* A close keeps the invariant, if who makes it is then in a state it may be in.
LEMMA CloseStep ==
    ASSUME PipesInv, NEW t \in Procs, NEW n \in Fds, NEW f \in Files, Closes(t, n, f),
           fd' \in [Procs -> [Fds -> Files \cup {NoFile}]],
           UNCHANGED <<parent, interrumpido, dead>>,
           call[t].op # "fork", call'[t].op # "fork", state[t] # "UNUSED",
           state[t] = "ZOMBIE" => call'[t] = NoCall,
           call'[t].op = "dup2" =>
               state[t] = "READY" /\ \E m \in Fds : m # call'[t].nuevo /\ fd'[t][m] = call'[t].f
    PROVE PipesInv'
<1>1. /\ state' \in [Procs -> {"UNUSED", "READY", "BLOCKED", "ZOMBIE"}]
      /\ \A u \in Procs : \/ state'[u] = state[u]
                          \/ /\ state[u] = "BLOCKED" /\ state'[u] = "READY"
                             /\ call[u].op \in {"read", "write"}
      /\ Queues' /\ NobodySleepsInVain'
  BY CloseWakes
<1>2. /\ files' \in [Files -> File] /\ pipes' \in [Pipes -> Pipe]
      /\ Ends' /\ RefsAreDescriptors'
      /\ \A u \in Procs, tipo \in {"F_PIPE_R", "F_PIPE_W"}, r \in Pipes :
            u # t /\ call[u].op # "dup2" /\ HasOpen(u, tipo, r) => HasOpen(u, tipo, r)'
  BY CloseEnds
<1>3. /\ call' \in [Procs -> Call]
      /\ \A u \in Procs : u # t => call'[u] = call[u] /\ fd'[u] = fd[u]
      /\ call'[t].op \notin {"read", "write"} /\ state[t] # "BLOCKED" /\ state'[t] = state[t]
  BY <1>1 DEF Closes
<1>4. Typed'
  BY <1>1, <1>2, <1>3 DEF PipesInv, Typed
<1>5. Slots'
  BY <1>1, <1>3 DEF PipesInv, Slots
<1>6. Kids'
  <2> SUFFICES ASSUME NEW u \in Procs, call'[u].op = "fork"
               PROVE  /\ state'[call'[u].kid] = "BLOCKED" /\ call'[call'[u].kid] = NoCall
                      /\ \A m \in Fds : m >= call'[u].next => fd'[call'[u].kid][m] = NoFile
                      /\ \A w \in Procs : call'[w].op = "fork" /\ call'[w].kid = call'[u].kid => w = u
    BY DEF Kids
  <2>1. u # t /\ call'[u] = call[u]
    BY <1>3
  <2>2. /\ state[call[u].kid] = "BLOCKED" /\ call[call[u].kid] = NoCall
        /\ \A m \in Fds : m >= call[u].next => fd[call[u].kid][m] = NoFile
        /\ \A w \in Procs : call[w].op = "fork" /\ call[w].kid = call[u].kid => w = u
    BY <2>1 DEF PipesInv, Kids
  <2>3. call[u].kid \in Procs
    BY <2>1 DEF PipesInv, Typed, Call, NoCall
  <2>4. call[u].kid # t
    BY <1>3, <2>2
  <2>5. state'[call[u].kid] = "BLOCKED"
    BY <1>1, <2>2, <2>3 DEF NoCall
  <2>6. QED
    BY <1>3, <2>1, <2>2, <2>3, <2>4, <2>5
<1>7. Inside'
  <2> SUFFICES ASSUME NEW u \in Procs
               PROVE  /\ call'[u].op = "dup2" => \E m \in Fds : m # call'[u].nuevo /\ fd'[u][m] = call'[u].f
                      /\ call'[u].op = "read"  => HasOpen(u, "F_PIPE_R", call[u].p)' /\ u # t
                      /\ call'[u].op = "write" => HasOpen(u, "F_PIPE_W", call[u].p)' /\ u # t
    BY <1>3 DEF Inside
  <2>1. CASE u = t
    BY <1>3, <2>1
  <2>2. CASE u # t
    <3>1. call'[u] = call[u] /\ fd'[u] = fd[u]
      BY <1>3, <2>2
    <3>2. /\ call[u].op = "dup2" => \E m \in Fds : m # call[u].nuevo /\ fd[u][m] = call[u].f
          /\ call[u].op = "read"  => HasOpen(u, "F_PIPE_R", call[u].p) /\ call[u].p \in Pipes
          /\ call[u].op = "write" => HasOpen(u, "F_PIPE_W", call[u].p) /\ call[u].p \in Pipes
      BY DEF PipesInv, Inside, Typed, Call, NoCall
    <3>3. ASSUME NEW tipo \in {"F_PIPE_R", "F_PIPE_W"}, call[u].op # "dup2", call[u].p \in Pipes,
                 HasOpen(u, tipo, call[u].p)
          PROVE  HasOpen(u, tipo, call[u].p)'
      <4>1. PICK r \in Pipes : r = call[u].p
        BY <3>3
      <4>2. HasOpen(u, tipo, r)'
        BY <1>2, <2>2, <3>3, <4>1
      <4>3. QED
        BY <3>1, <4>1, <4>2 DEF HasOpen
    <3>4. QED
      BY <2>2, <3>1, <3>2, <3>3
  <2>3. QED
    BY <2>1, <2>2
<1>8. Grave'
  BY <1>1, PipesAssumption DEF PipesInv, Grave, Typed
<1>9. QED
  BY <1>1, <1>2, <1>4, <1>5, <1>6, <1>7, <1>8 DEF PipesInv

\* Who is not inside a call names all its descriptors.
LEMMA InUserFacts ==
    ASSUME PipesInv, NEW t \in Procs, InCall(t, "none")
    PROVE  call[t] = NoCall /\ state[t] = "READY" /\ \A n \in Fds : Named(t, n) = fd[t][n]
<1>1. call[t] = NoCall
  BY DEF PipesInv, Typed, InCall, Call, NoCall
<1>2. QED
  BY <1>1 DEF InCall, NoCall, Named

\* close()...
LEMMA SysCloseInv ==
    ASSUME PipesInv, NEW t \in Procs, NEW n \in Fds, SysClose(t, n) PROVE PipesInv'
<1> DEFINE f == fd[t][n]
<1>1. /\ call[t] = NoCall /\ state[t] = "READY" /\ \A m \in Fds : Named(t, m) = fd[t][m]
  BY InUserFacts DEF SysClose
<1>2. /\ f # NoFile /\ FileClose(f) /\ fd' = [fd EXCEPT ![t][n] = NoFile]
      /\ UNCHANGED <<parent, interrumpido, call, dead>>
  BY DEF SysClose
<1>3. fd \in [Procs -> [Fds -> Files \cup {NoFile}]] /\ call \in [Procs -> Call]
  BY DEF PipesInv, Typed
<1>4. f \in Files
  BY <1>2, <1>3
<1>5. /\ fd' \in [Procs -> [Fds -> Files \cup {NoFile}]]
      /\ \A u \in Procs, m \in Fds : fd'[u][m] = IF u = t /\ m = n THEN NoFile ELSE fd[u][m]
      /\ \A u \in Procs : u # t => fd'[u] = fd[u]
  BY <1>2, <1>3
<1>6. /\ Named(t, n) = f /\ Named(t, n)' = NoFile
      /\ \A u \in Procs, m \in Fds : <<u, m>> # <<t, n>> => Named(u, m)' = Named(u, m)
  BY <1>1, <1>2, <1>5 DEF Named, NoCall
<1> HIDE DEF f
<1>7. Closes(t, n, f)
  BY <1>1, <1>2, <1>3, <1>5, <1>6 DEF Closes, NoCall
<1>8. QED
  BY <1>1, <1>2, <1>4, <1>5, <1>7, CloseStep DEF NoCall

\* ... one descriptor of the dead...
LEMMA ReapFdInv ==
    ASSUME PipesInv, NEW n \in Fds, ReapFd(n) PROVE PipesInv'
<1>1. /\ dead # Nobody /\ fd[dead][n] # NoFile /\ FileClose(fd[dead][n])
      /\ fd' = [fd EXCEPT ![dead][n] = NoFile]
      /\ UNCHANGED <<parent, interrumpido, call, dead>>
  BY DEF ReapFd
<1>2. PICK t \in Procs : t = dead
  BY <1>1 DEF PipesInv, Typed
<1>3. state[t] = "ZOMBIE" /\ call[t] = NoCall
  BY <1>1, <1>2 DEF PipesInv, Grave, Slots
<1>4. fd \in [Procs -> [Fds -> Files \cup {NoFile}]] /\ call \in [Procs -> Call]
  BY DEF PipesInv, Typed
<1>5. PICK f \in Files : f = fd[t][n]
  BY <1>1, <1>2, <1>4
<1>6. /\ fd' \in [Procs -> [Fds -> Files \cup {NoFile}]]
      /\ \A u \in Procs, m \in Fds : fd'[u][m] = IF u = t /\ m = n THEN NoFile ELSE fd[u][m]
      /\ \A u \in Procs : u # t => fd'[u] = fd[u]
  BY <1>1, <1>2, <1>4
<1>7. /\ Named(t, n) = f /\ Named(t, n)' = NoFile
      /\ \A u \in Procs, m \in Fds : <<u, m>> # <<t, n>> => Named(u, m)' = Named(u, m)
  BY <1>1, <1>3, <1>5, <1>6 DEF Named, NoCall
<1>8. Closes(t, n, f)
  BY <1>1, <1>2, <1>3, <1>4, <1>5, <1>6, <1>7 DEF Closes, NoCall
<1>9. QED
  BY <1>1, <1>3, <1>6, <1>8, CloseStep DEF NoCall

\* ... and what a dup2 replaces.
LEMMA SysDup2Inv ==
    ASSUME PipesInv, NEW t \in Procs, NEW viejo \in Fds, NEW nuevo \in Fds, SysDup2(t, viejo, nuevo)
    PROVE  PipesInv'
<1>1. /\ call[t] = NoCall /\ state[t] = "READY" /\ \A m \in Fds : Named(t, m) = fd[t][m]
  BY InUserFacts DEF SysDup2
<1> DEFINE c == [op |-> "dup2", f |-> fd[t][viejo], nuevo |-> nuevo]
<1>2. /\ viejo # nuevo /\ fd[t][viejo] # NoFile /\ fd[t][nuevo] # NoFile
      /\ FileClose(fd[t][nuevo]) /\ call' = [call EXCEPT ![t] = c]
      /\ UNCHANGED <<fd, parent, interrumpido, dead>>
  BY DEF SysDup2
<1>3. fd \in [Procs -> [Fds -> Files \cup {NoFile}]] /\ call \in [Procs -> Call]
  BY DEF PipesInv, Typed
<1>4. fd[t][viejo] \in Files
  BY <1>2, <1>3
<1>5. PICK f \in Files : f = fd[t][nuevo]
  BY <1>2, <1>3
<1>6. c \in Call /\ c.op = "dup2" /\ c.nuevo = nuevo /\ c.f = fd[t][viejo]
  BY <1>4 DEF Call
<1> HIDE DEF c
<1>7. call' \in [Procs -> Call] /\ call'[t] = c /\ \A u \in Procs : u # t => call'[u] = call[u]
  BY <1>2, <1>3, <1>6
<1>8. /\ Named(t, nuevo) = f /\ Named(t, nuevo)' = NoFile
      /\ \A u \in Procs, m \in Fds : <<u, m>> # <<t, nuevo>> => Named(u, m)' = Named(u, m)
  BY <1>1, <1>2, <1>5, <1>6, <1>7 DEF Named, NoCall
<1>9. Closes(t, nuevo, f)
  BY <1>1, <1>2, <1>5, <1>6, <1>7, <1>8 DEF Closes, NoCall
<1>10. \E m \in Fds : m # call'[t].nuevo /\ fd'[t][m] = call'[t].f
  BY <1>2, <1>6, <1>7
<1>11. QED
  BY <1>1, <1>2, <1>3, <1>6, <1>7, <1>9, <1>10, CloseStep DEF NoCall
-----------------------------------------------------------------------------
\* One descriptor more of a structure that is open.
LEMMA OpenEnds ==
    ASSUME PipesInv, NEW t \in Procs, NEW n \in Fds, NEW f \in Files,
           files[f].refs # 0, files' = [files EXCEPT ![f].refs = @ + 1], pipes' = pipes,
           Named(t, n) = NoFile, Named(t, n)' = f,
           \A u \in Procs, m \in Fds : <<u, m>> # <<t, n>> => Named(u, m)' = Named(u, m)
    PROVE  /\ files' \in [Files -> File]
           /\ \A g \in Files : files'[g].tipo = files[g].tipo /\ files'[g].p = files[g].p
           /\ Ends' /\ RefsAreDescriptors'
<1>1. files \in [Files -> File] /\ files[f].refs \in Nat
  BY DEF PipesInv, Typed, File
<1>2. /\ files' \in [Files -> File]
      /\ \A g \in Files : /\ files'[g].tipo = files[g].tipo /\ files'[g].p = files[g].p
                          /\ files'[g].refs = IF g = f THEN files[f].refs + 1 ELSE files[g].refs
  BY <1>1 DEF File
<1>3. RefsAreDescriptors'
  <2>1. /\ Cardinality(PointAt(f)') = Cardinality(PointAt(f)) + 1
        /\ \A g \in Files : g # f => PointAt(g)' = PointAt(g)
    BY OneMore
  <2>2. ASSUME NEW g \in Files PROVE files'[g].refs = Cardinality(PointAt(g)')
    BY <1>2, <2>1 DEF PipesInv, RefsAreDescriptors
  <2>3. QED
    BY <2>2 DEF RefsAreDescriptors
<1>4. Ends'
  <2>1. \A g \in Files : files'[g].refs = 0 <=> files'[g].tipo = "F_LIBRE"
    <3>1. \A g \in Files : files[g].refs = 0 <=> files[g].tipo = "F_LIBRE"
      BY DEF PipesInv, Ends
    <3>2. QED
      BY <1>1, <1>2, <3>1
  <2>2. \A g \in Files, r \in Pipes, tipo \in {"F_PIPE_R", "F_PIPE_W"} :
           IsEnd(g, tipo, r)' <=> IsEnd(g, tipo, r)
    BY <1>2 DEF IsEnd
  <2>3. QED
    BY <2>1, <2>2 DEF PipesInv, Ends, Free
<1>5. QED
  BY <1>2, <1>3, <1>4

\* Who sleeps is not touched by what changes neither pipes nor who sleeps.
LEMMA SameQueues ==
    ASSUME PipesInv, pipes' = pipes,
           \A u \in Procs : \/ call'[u] = call[u] /\ state'[u] = state[u]
                            \/ /\ {call[u].op, call'[u].op} \cap {"read", "write"} = {}
                            \/ "BLOCKED" \notin {state[u], state'[u]}
    PROVE  Queues' /\ NobodySleepsInVain'
<1>1. Queues'
  <2> SUFFICES ASSUME NEW u \in Procs, NEW q \in Pipes
               PROVE  /\ u \in pipes[q].hay_datos <=> Reads(u, q)' /\ state'[u] = "BLOCKED"
                      /\ u \in pipes[q].hay_hueco <=> Writes(u, q)' /\ state'[u] = "BLOCKED"
    BY DEF Queues
  <2>1. /\ u \in pipes[q].hay_datos <=> Reads(u, q) /\ state[u] = "BLOCKED"
        /\ u \in pipes[q].hay_hueco <=> Writes(u, q) /\ state[u] = "BLOCKED"
    BY DEF PipesInv, Queues
  <2>2. CASE call'[u] = call[u] /\ state'[u] = state[u]
    BY <2>1, <2>2 DEF Reads, Writes
  <2>3. CASE {call[u].op, call'[u].op} \cap {"read", "write"} = {}
    BY <2>1, <2>3 DEF Reads, Writes
  <2>4. CASE "BLOCKED" \notin {state[u], state'[u]}
    BY <2>1, <2>4
  <2>5. QED
    BY <2>2, <2>3, <2>4
<1>2. NobodySleepsInVain'
  BY DEF PipesInv, NobodySleepsInVain
<1>3. QED
  BY <1>1, <1>2

\* What is open stays open where nobody closes.
LEMMA StillOpen ==
    ASSUME PipesInv, NEW u \in Procs, fd'[u] = fd[u],
           \A g \in Files : files'[g].tipo = files[g].tipo /\ files'[g].p = files[g].p,
           NEW tipo, NEW q, HasOpen(u, tipo, q)
    PROVE  \E n \in Fds : fd'[u][n] # NoFile /\ files'[fd'[u][n]].tipo = tipo /\ files'[fd'[u][n]].p = q
<1>1. fd \in [Procs -> [Fds -> Files \cup {NoFile}]]
  BY DEF PipesInv, Typed
<1>2. QED
  BY <1>1 DEF HasOpen

\* The duplication of a dup2.
LEMMA Dup2Inv ==
    ASSUME PipesInv, NEW t \in Procs, NEW nuevo \in Fds, NEW f \in Files, Dup2(t, f, nuevo)
    PROVE  PipesInv'
<1>1. /\ files' = [files EXCEPT ![f].refs = @ + 1] /\ fd' = [fd EXCEPT ![t][nuevo] = f]
      /\ call' = [call EXCEPT ![t] = NoCall]
      /\ interrumpido' = [interrumpido EXCEPT ![t] = FALSE]
      /\ UNCHANGED <<pipes, state, parent, dead>>
  BY DEF Dup2, Return
<1>2. /\ fd \in [Procs -> [Fds -> Files \cup {NoFile}]] /\ call \in [Procs -> Call]
      /\ interrumpido \in [Procs -> BOOLEAN]
  BY DEF PipesInv, Typed
<1>3. state[t] = "READY" /\ call[t].op \in {"none", "dup2"}
  BY DEF Dup2, InCall
<1>4. /\ Named(t, nuevo) = NoFile /\ \E m \in Fds : Named(t, m) = f
      /\ \A m \in Fds : m # nuevo => Named(t, m) = fd[t][m]
  <2>1. CASE InCall(t, "dup2") /\ call[t].f = f /\ call[t].nuevo = nuevo
    <3>1. PICK m \in Fds : m # nuevo /\ fd[t][m] = f
      BY <2>1 DEF InCall, PipesInv, Inside
    <3>2. QED
      BY <2>1, <3>1 DEF InCall, Named
  <2>2. CASE InCall(t, "none") /\ fd[t][nuevo] = NoFile /\ \E m \in Fds : fd[t][m] = f
    BY <2>2, InUserFacts
  <2>3. QED
    BY <2>1, <2>2 DEF Dup2
<1>5. /\ fd' \in [Procs -> [Fds -> Files \cup {NoFile}]]
      /\ fd'[t][nuevo] = f /\ \A m \in Fds : m # nuevo => fd'[t][m] = fd[t][m]
      /\ \A u \in Procs : u # t => fd'[u] = fd[u]
  BY <1>1, <1>2
<1>6. /\ call' \in [Procs -> Call] /\ call'[t] = NoCall
      /\ \A u \in Procs : u # t => call'[u] = call[u]
      /\ interrumpido' \in [Procs -> BOOLEAN]
  BY <1>1, <1>2 DEF Call
<1>7. /\ Named(t, nuevo)' = f
      /\ \A u \in Procs, m \in Fds : <<u, m>> # <<t, nuevo>> => Named(u, m)' = Named(u, m)
  BY <1>4, <1>5, <1>6 DEF Named, NoCall
<1>8. files[f].refs # 0
  BY <1>4, PointedIsCounted DEF PipesInv
<1>9. /\ files' \in [Files -> File]
      /\ \A g \in Files : files'[g].tipo = files[g].tipo /\ files'[g].p = files[g].p
      /\ Ends' /\ RefsAreDescriptors'
  BY <1>1, <1>4, <1>7, <1>8, OpenEnds
<1>10. Queues' /\ NobodySleepsInVain'
  BY <1>1, <1>3, <1>6, SameQueues
<1>11. Typed'
  BY <1>1, <1>5, <1>6, <1>9 DEF PipesInv, Typed
<1>12. Slots' /\ Grave'
  BY <1>1, <1>3, <1>5, <1>6 DEF PipesInv, Slots, Grave, NoCall
<1>13. Kids'
  <2>1. ASSUME NEW u \in Procs, call'[u].op = "fork"
        PROVE  /\ u # t /\ call'[u] = call[u] /\ call[u].kid \in Procs /\ call[u].kid # t
    <3>1. u # t /\ call'[u] = call[u]
      BY <1>6, <2>1 DEF NoCall
    <3>2. call[u].kid \in Procs
      BY <2>1, <3>1 DEF PipesInv, Typed, Call, NoCall
    <3>3. state[call[u].kid] = "BLOCKED"
      BY <2>1, <3>1 DEF PipesInv, Kids
    <3>4. QED
      BY <1>3, <3>1, <3>2, <3>3
  <2>2. QED
    BY <1>1, <1>5, <1>6, <2>1 DEF PipesInv, Kids, NoCall
<1>14. Inside'
  <2> SUFFICES ASSUME NEW u \in Procs
               PROVE  /\ call'[u].op = "dup2" => \E m \in Fds : m # call'[u].nuevo /\ fd'[u][m] = call'[u].f
                      /\ call'[u].op = "read"  => HasOpen(u, "F_PIPE_R", call[u].p)'
                      /\ call'[u].op = "write" => HasOpen(u, "F_PIPE_W", call[u].p)'
    BY DEF Inside
  <2>1. CASE u = t
    BY <1>6, <2>1 DEF NoCall
  <2>2. CASE u # t
    <3>1. call'[u] = call[u] /\ fd'[u] = fd[u]
      BY <1>5, <1>6, <2>2
    <3>2. /\ call[u].op = "dup2" => \E m \in Fds : m # call[u].nuevo /\ fd[u][m] = call[u].f
          /\ call[u].op = "read"  => HasOpen(u, "F_PIPE_R", call[u].p)
          /\ call[u].op = "write" => HasOpen(u, "F_PIPE_W", call[u].p)
      BY DEF PipesInv, Inside
    <3>3. \A tipo, q : HasOpen(u, tipo, q) =>
             \E n \in Fds : /\ fd'[u][n] # NoFile /\ files'[fd'[u][n]].tipo = tipo
                            /\ files'[fd'[u][n]].p = q
      BY <1>9, <3>1, StillOpen
    <3>4. QED
      BY <3>1, <3>2, <3>3 DEF HasOpen
  <2>3. QED
    BY <2>1, <2>2
<1>15. QED
  BY <1>9, <1>10, <1>11, <1>12, <1>13, <1>14 DEF PipesInv

\* What a step has to leave alone for those who are inside a call...
LEMMA InsideKept ==
    ASSUME PipesInv,
           \A u \in Procs : \/ call'[u].op \in {"none", "fork"}
                            \/ call'[u] = call[u] /\ fd'[u] = fd[u],
           \A g \in Files : files[g].tipo # "F_LIBRE" =>
               files'[g].tipo = files[g].tipo /\ files'[g].p = files[g].p
    PROVE  Inside'
<1> SUFFICES ASSUME NEW u \in Procs, call'[u] = call[u], fd'[u] = fd[u]
             PROVE  /\ call[u].op = "dup2" => \E m \in Fds : m # call[u].nuevo /\ fd[u][m] = call[u].f
                    /\ call[u].op = "read"  => HasOpen(u, "F_PIPE_R", call[u].p)'
                    /\ call[u].op = "write" => HasOpen(u, "F_PIPE_W", call[u].p)'
  BY DEF Inside
<1>1. /\ call[u].op = "dup2" => \E m \in Fds : m # call[u].nuevo /\ fd[u][m] = call[u].f
      /\ call[u].op = "read"  => HasOpen(u, "F_PIPE_R", call[u].p)
      /\ call[u].op = "write" => HasOpen(u, "F_PIPE_W", call[u].p)
  BY DEF PipesInv, Inside
<1>2. fd \in [Procs -> [Fds -> Files \cup {NoFile}]]
  BY DEF PipesInv, Typed
<1>3. ASSUME NEW tipo \in {"F_PIPE_R", "F_PIPE_W"}, NEW q, HasOpen(u, tipo, q)
      PROVE  \E n \in Fds : /\ fd'[u][n] # NoFile /\ files'[fd'[u][n]].tipo = tipo
                            /\ files'[fd'[u][n]].p = q
  <2>1. PICK n \in Fds : fd[u][n] # NoFile /\ files[fd[u][n]].tipo = tipo /\ files[fd[u][n]].p = q
    BY <1>3 DEF HasOpen
  <2>2. fd[u][n] \in Files
    BY <1>2, <2>1
  <2>3. QED
    BY <2>1, <2>2
<1>4. QED
  BY <1>1, <1>3 DEF HasOpen

\* ... and for those who are being born.
LEMMA KidsKept ==
    ASSUME PipesInv,
           \A u \in Procs : call'[u].op = "fork" => call'[u] = call[u],
           \A k \in Procs : state[k] = "BLOCKED" /\ call[k] = NoCall =>
               state'[k] = "BLOCKED" /\ call'[k] = NoCall /\ fd'[k] = fd[k]
    PROVE  Kids'
<1> SUFFICES ASSUME NEW u \in Procs, call'[u].op = "fork"
             PROVE  /\ state'[call'[u].kid] = "BLOCKED" /\ call'[call'[u].kid] = NoCall
                    /\ \A m \in Fds : m >= call'[u].next => fd'[call'[u].kid][m] = NoFile
                    /\ \A w \in Procs : call'[w].op = "fork" /\ call'[w].kid = call'[u].kid => w = u
  BY DEF Kids
<1>1. call'[u] = call[u]
  OBVIOUS
<1>2. call[u].kid \in Procs
  BY <1>1 DEF PipesInv, Typed, Call, NoCall
<1>3. /\ state[call[u].kid] = "BLOCKED" /\ call[call[u].kid] = NoCall
      /\ \A m \in Fds : m >= call[u].next => fd[call[u].kid][m] = NoFile
      /\ \A w \in Procs : call[w].op = "fork" /\ call[w].kid = call[u].kid => w = u
  BY <1>1 DEF PipesInv, Kids
<1>4. QED
  BY <1>1, <1>2, <1>3

\* One descriptor that a child inherits.
LEMMA InheritInv ==
    ASSUME PipesInv, NEW t \in Procs, Inherit(t) PROVE PipesInv'
<1>1. /\ call[t].op = "fork" /\ state[t] = "READY" /\ call[t].next < MAX_FD
      /\ fd' = [fd EXCEPT ![call[t].kid][call[t].next] = fd[t][call[t].next]]
      /\ files' = IF fd[t][call[t].next] = NoFile THEN files
                  ELSE [files EXCEPT ![fd[t][call[t].next]].refs = @ + 1]
      /\ call' = [call EXCEPT ![t].next = @ + 1]
      /\ UNCHANGED <<pipes, state, parent, interrumpido, dead>>
  BY DEF Inherit, InCall
<1>2. /\ fd \in [Procs -> [Fds -> Files \cup {NoFile}]] /\ call \in [Procs -> Call]
      /\ files \in [Files -> File]
  BY DEF PipesInv, Typed
<1>3. call[t] \in [op : {"fork"}, kid : Procs, next : 0 .. MAX_FD]
  BY <1>1, <1>2 DEF Call, NoCall
<1>4. PICK k \in Procs, n \in Fds, f \in Files \cup {NoFile} :
         /\ k = call[t].kid /\ n = call[t].next /\ f = fd[t][n] /\ n + 1 \in 0 .. MAX_FD
  <2>1. call[t].kid \in Procs /\ call[t].next \in Fds /\ call[t].next + 1 \in 0 .. MAX_FD
    BY <1>1, <1>3, FdsFacts DEF Fds
  <2>2. QED
    BY <1>2, <2>1
<1>5. /\ state[k] = "BLOCKED" /\ call[k] = NoCall /\ k # t
      /\ \A m \in Fds : m >= n => fd[k][m] = NoFile
      /\ \A w \in Procs : call[w].op = "fork" /\ call[w].kid = k => w = t
  BY <1>1, <1>4 DEF PipesInv, Kids
<1> DEFINE c == [op |-> "fork", kid |-> k, next |-> n + 1]
<1>6. call' = [call EXCEPT ![t] = c] /\ c \in Call
  <2>1. [call[t] EXCEPT !.next = n + 1] = c
    BY <1>3, <1>4
  <2>2. QED
    BY <1>1, <1>4, <2>1 DEF Call
<1>7. c.op = "fork" /\ c.kid = k /\ c.next = n + 1
  OBVIOUS
<1> HIDE DEF c
<1>9. /\ call' \in [Procs -> Call] /\ call'[t] = c /\ \A u \in Procs : u # t => call'[u] = call[u]
  BY <1>2, <1>6
<1>8. /\ fd' = [fd EXCEPT ![k][n] = f]
      /\ files' = IF f = NoFile THEN files ELSE [files EXCEPT ![f].refs = @ + 1]
  BY <1>1, <1>4
<1>10. /\ fd' \in [Procs -> [Fds -> Files \cup {NoFile}]]
       /\ fd'[k][n] = f /\ \A m \in Fds : m # n => fd'[k][m] = fd[k][m]
       /\ \A u \in Procs : u # k => fd'[u] = fd[u]
  BY <1>2, <1>4, <1>8
<1>11. /\ Named(k, n) = NoFile /\ Named(k, n)' = f
       /\ \A u \in Procs, m \in Fds : <<u, m>> # <<k, n>> => Named(u, m)' = Named(u, m)
  <2>1. n >= n /\ fd[k][n] = NoFile
    BY <1>4, <1>5, FdsFacts
  <2>2. \A u \in Procs : call'[u].op = "dup2" <=> call[u].op = "dup2"
    BY <1>1, <1>7, <1>9
  <2>3. \A u \in Procs : call[u].op = "dup2" => call'[u] = call[u]
    BY <1>1, <1>9
  <2>4. call'[k] = NoCall
    BY <1>4, <1>5, <1>9
  <2>5. QED
    BY <1>5, <1>10, <2>1, <2>2, <2>3, <2>4 DEF Named, NoCall
<1>12. Named(t, n) = f
  BY <1>1, <1>4 DEF Named
<1>13. /\ files' \in [Files -> File]
       /\ \A g \in Files : files'[g].tipo = files[g].tipo /\ files'[g].p = files[g].p
       /\ Ends' /\ RefsAreDescriptors'
  <2>1. CASE f = NoFile
    <3>1. files' = files /\ pipes' = pipes
      BY <1>1, <1>8, <2>1
    <3>2. \A u \in Procs, m \in Fds : Named(u, m)' = Named(u, m)
      <4> SUFFICES ASSUME NEW u \in Procs, NEW m \in Fds PROVE Named(u, m)' = Named(u, m)
        OBVIOUS
      <4>1. CASE u = k /\ m = n
        <5>1. Named(u, m) = NoFile /\ Named(u, m)' = f
          BY <1>11, <4>1 DEF Named
        <5>2. QED
          BY <2>1, <5>1
      <4>2. CASE <<u, m>> # <<k, n>>
        BY <1>11, <4>2
      <4>3. QED
        BY <4>1, <4>2
    <3>3. RefsAreDescriptors'
      BY <3>1, <3>2, SameCount DEF PipesInv, RefsAreDescriptors
    <3>4. Ends'
      BY <3>1 DEF PipesInv, Ends, IsEnd
    <3>5. QED
      BY <1>2, <3>1, <3>3, <3>4
  <2>2. CASE f \in Files
    <3>1. files[f].refs # 0
      BY <1>4, <1>12, <2>2, PointedIsCounted DEF PipesInv
    <3>2. files' = [files EXCEPT ![f].refs = @ + 1] /\ pipes' = pipes
      BY <1>1, <1>8, <2>2, FilesAreNot
    <3>3. QED
      BY <1>4, <1>11, <2>2, <3>1, <3>2, OpenEnds
  <2>3. QED
    BY <1>8, <2>1, <2>2
<1>14. Queues' /\ NobodySleepsInVain'
  BY <1>1, <1>7, <1>9, SameQueues
<1>15. Typed'
  BY <1>1, <1>9, <1>10, <1>13 DEF PipesInv, Typed
<1>16. Slots' /\ Grave'
  BY <1>1, <1>5, <1>7, <1>9, <1>10 DEF PipesInv, Slots, Grave, NoCall
<1>17. Inside'
  <2>1. \A u \in Procs : \/ call'[u].op \in {"none", "fork"}
                         \/ call'[u] = call[u] /\ fd'[u] = fd[u]
    BY <1>5, <1>7, <1>9, <1>10 DEF NoCall
  <2>2. QED
    BY <1>13, <2>1, InsideKept
<1>18. Kids'
  <2> SUFFICES ASSUME NEW u \in Procs, call'[u].op = "fork"
               PROVE  /\ state'[call'[u].kid] = "BLOCKED" /\ call'[call'[u].kid] = NoCall
                      /\ \A m \in Fds : m >= call'[u].next => fd'[call'[u].kid][m] = NoFile
                      /\ \A w \in Procs : call'[w].op = "fork" /\ call'[w].kid = call'[u].kid => w = u
    BY DEF Kids
  <2>1. call[u].op = "fork" /\ call'[u].kid = call[u].kid
    BY <1>1, <1>4, <1>7, <1>9
  <2>2. /\ state[call[u].kid] = "BLOCKED" /\ call[call[u].kid] = NoCall
        /\ \A m \in Fds : m >= call[u].next => fd[call[u].kid][m] = NoFile
        /\ \A w \in Procs : call[w].op = "fork" /\ call[w].kid = call[u].kid => w = u
    BY <2>1 DEF PipesInv, Kids
  <2>3. call[u].kid \in Procs /\ call[u].kid # t
    BY <1>1, <1>2, <2>1, <2>2 DEF Call, NoCall
  <2>4. \A w \in Procs : call'[w].op = "fork" /\ call'[w].kid = call[u].kid => w = u
    BY <1>1, <1>7, <1>4, <1>9, <2>2
  <2>5. ASSUME NEW m \in Fds, m >= call'[u].next PROVE fd'[call[u].kid][m] = NoFile
    <3>1. CASE u = t
      <4>1. call'[u].next = n + 1 /\ call[u].kid = k /\ m \in Nat /\ n \in Nat
        BY <1>4, <1>7, <1>9, <3>1, FdsFacts
      <4>2. m # n /\ m >= n
        BY <2>5, <4>1
      <4>3. QED
        BY <1>5, <1>10, <4>1, <4>2
    <3>2. CASE u # t
      <4>1. call'[u] = call[u] /\ call[u].kid # k
        BY <1>5, <1>9, <2>1, <3>2
      <4>2. QED
        BY <1>10, <2>2, <2>3, <2>5, <4>1
    <3>3. QED
      BY <3>1, <3>2
  <2>6. QED
    BY <1>1, <1>9, <2>1, <2>2, <2>3, <2>4, <2>5
<1>19. QED
  BY <1>13, <1>14, <1>15, <1>16, <1>17, <1>18 DEF PipesInv
-----------------------------------------------------------------------------
\* A new pipe, with its two structures and its two descriptors.
LEMMA SysPipeInv ==
    ASSUME PipesInv, NEW t \in Procs, SysPipe(t) PROVE PipesInv'
<1>1. /\ call[t] = NoCall /\ state[t] = "READY" /\ \A n \in Fds : Named(t, n) = fd[t][n]
  BY InUserFacts DEF SysPipe
<1>2. UNCHANGED <<state, parent, interrumpido, call, dead>>
  BY DEF SysPipe
<1>3. PICK q \in Pipes, r \in Files, w \in Files, fr \in Fds, fw \in Fds :
         /\ IsLeast(fr, Unused(t)) /\ IsLeast(fw, Unused(t) \ {fr})
         /\ Opens(t, q, r, w, fr, fw)
  BY DEF SysPipe
<1>6. fd[t][fr] = NoFile /\ fd[t][fw] = NoFile /\ fr # fw
  BY <1>3 DEF IsLeast, Unused
<1>7. /\ ~pipes[q].vive
      /\ r # w /\ files[r].tipo = "F_LIBRE" /\ files[w].tipo = "F_LIBRE"
      /\ pipes' = [pipes EXCEPT ![q].vive = TRUE, ![q].lectores = 1, ![q].escritores = 1]
      /\ files' = [files EXCEPT ![r] = [tipo |-> "F_PIPE_R", refs |-> 1, p |-> q],
                                ![w] = [tipo |-> "F_PIPE_W", refs |-> 1, p |-> q]]
      /\ fd' = [fd EXCEPT ![t][fr] = r, ![t][fw] = w]
  BY <1>3 DEF Opens
<1>8. /\ fd \in [Procs -> [Fds -> Files \cup {NoFile}]]
      /\ files \in [Files -> File] /\ pipes \in [Pipes -> Pipe]
  BY DEF PipesInv, Typed
<1>9. /\ fd' \in [Procs -> [Fds -> Files \cup {NoFile}]]
      /\ fd'[t][fr] = r /\ fd'[t][fw] = w
      /\ \A m \in Fds : m \notin {fr, fw} => fd'[t][m] = fd[t][m]
      /\ \A u \in Procs : u # t => fd'[u] = fd[u]
  BY <1>6, <1>7, <1>8
<1> DEFINE rd == [tipo |-> "F_PIPE_R", refs |-> 1, p |-> q]
           wr == [tipo |-> "F_PIPE_W", refs |-> 1, p |-> q]
<1>10. rd \in File /\ wr \in File
  BY DEF File
<1>11. /\ files' \in [Files -> File] /\ files'[r] = rd /\ files'[w] = wr
       /\ \A g \in Files : g \notin {r, w} => files'[g] = files[g]
  BY <1>7, <1>8, <1>10
<1>12. pipes[q] = Free(q)
  BY <1>7 DEF PipesInv, Ends
<1>13. /\ pipes' \in [Pipes -> Pipe]
       /\ pipes'[q].vive /\ pipes'[q].lectores = 1 /\ pipes'[q].escritores = 1
       /\ pipes'[q].hay_datos = {} /\ pipes'[q].hay_hueco = {}
       /\ \A s \in Pipes : s # q => pipes'[s] = pipes[s]
  <2> DEFINE P == [vive |-> TRUE, count |-> 0, lectores |-> 1, escritores |-> 1,
                   hay_datos |-> {}, hay_hueco |-> {}]
  <2>1. P \in Pipe
    BY PipesAssumption DEF Pipe
  <2>2. pipes' = [pipes EXCEPT ![q] = P]
    BY <1>7, <1>8, <1>12 DEF Free
  <2>3. QED
    BY <1>8, <2>1, <2>2
<1>14. \A u \in Procs, m \in Fds :
          Named(u, m)' = IF u = t /\ m = fr THEN r ELSE IF u = t /\ m = fw THEN w ELSE Named(u, m)
  BY <1>1, <1>2, <1>6, <1>9 DEF Named, NoCall
<1>15. /\ rd.tipo = "F_PIPE_R" /\ rd.refs = 1 /\ rd.p = q
       /\ wr.tipo = "F_PIPE_W" /\ wr.refs = 1 /\ wr.p = q
  OBVIOUS
<1> HIDE DEF rd, wr
<1>16. RefsAreDescriptors'
  <2>1. PointAt(r) = {} /\ PointAt(w) = {}
    <3>1. files[r].refs = 0 /\ files[w].refs = 0
      BY <1>7 DEF PipesInv, Ends
    <3>2. Cardinality(PointAt(r)) = 0 /\ Cardinality(PointAt(w)) = 0
      BY <3>1 DEF PipesInv, RefsAreDescriptors
    <3>3. QED
      BY <3>2, PointAtNamed, FS_EmptySet
  <2>2. \A u \in Procs, m \in Fds : Named(u, m) # r /\ Named(u, m) # w
    BY <2>1, PointAtNamed, FilesAreNot
  <2>3. PointAt(r)' = {<<t, fr>>}
    <3>1. ASSUME NEW u \in Procs, NEW m \in Fds
          PROVE  <<u, m>> \in PointAt(r)' <=> u = t /\ m = fr
      <4>1. <<u, m>> \in PointAt(r)' <=> Named(u, m)' = r
        BY PointAtNamedNext, FilesAreNot
      <4>2. QED
        BY <1>7, <1>6, <1>14, <2>2, <4>1
    <3>2. QED
      BY <1>6, <3>1, PointAtNamedNext
  <2>4. PointAt(w)' = {<<t, fw>>}
    <3>1. ASSUME NEW u \in Procs, NEW m \in Fds
          PROVE  <<u, m>> \in PointAt(w)' <=> u = t /\ m = fw
      <4>1. <<u, m>> \in PointAt(w)' <=> Named(u, m)' = w
        BY PointAtNamedNext, FilesAreNot
      <4>2. QED
        BY <1>7, <1>6, <1>14, <2>2, <4>1
    <3>2. QED
      BY <1>6, <3>1, PointAtNamedNext
  <2>5. ASSUME NEW g \in Files, g \notin {r, w} PROVE PointAt(g)' = PointAt(g)
    <3>1. ASSUME NEW u \in Procs, NEW m \in Fds
          PROVE  <<u, m>> \in PointAt(g)' <=> <<u, m>> \in PointAt(g)
      <4>1. /\ <<u, m>> \in PointAt(g)' <=> Named(u, m)' = g
            /\ <<u, m>> \in PointAt(g) <=> Named(u, m) = g
        BY PointAtNamed, PointAtNamedNext, FilesAreNot
      <4>2. Named(t, fr) # g /\ Named(t, fw) # g
        BY <1>1, <1>6, FilesAreNot
      <4>3. QED
        BY <1>14, <2>5, <4>1, <4>2
    <3>2. PointAt(g)' \in SUBSET (Procs \X Fds) /\ PointAt(g) \in SUBSET (Procs \X Fds)
      BY PointAtNamed, PointAtNamedNext
    <3>3. QED
      BY <3>1, <3>2
  <2>6. ASSUME NEW g \in Files PROVE files'[g].refs = Cardinality(PointAt(g)')
    <3>1. CASE g \notin {r, w}
      BY <1>11, <2>5, <3>1 DEF PipesInv, RefsAreDescriptors
    <3>2. CASE g \in {r, w}
      BY <1>11, <1>15, <2>3, <2>4, <3>2, FS_Singleton
    <3>3. QED
      BY <3>1, <3>2
  <2>7. QED
    BY <2>6 DEF RefsAreDescriptors
<1>17. Ends'
  <2>1. \A g \in Files : files'[g].refs = 0 <=> files'[g].tipo = "F_LIBRE"
    BY <1>11, <1>15 DEF PipesInv, Ends
  <2>2. \A g \in Files, s \in Pipes, tipo \in {"F_PIPE_R", "F_PIPE_W"} :
           IsEnd(g, tipo, s)' <=> \/ IsEnd(g, tipo, s) /\ g \notin {r, w}
                                  \/ g = r /\ tipo = "F_PIPE_R" /\ s = q
                                  \/ g = w /\ tipo = "F_PIPE_W" /\ s = q
    BY <1>7, <1>11, <1>15 DEF IsEnd
  <2>3. \A g \in Files, tipo \in {"F_PIPE_R", "F_PIPE_W"} : ~IsEnd(g, tipo, q)
    BY <1>7 DEF PipesInv, Ends
  <2>4. \A g, h \in Files, s \in Pipes, tipo \in {"F_PIPE_R", "F_PIPE_W"} :
           IsEnd(g, tipo, s)' /\ IsEnd(h, tipo, s)' => g = h
    BY <2>2, <2>3 DEF PipesInv, Ends
  <2>5. ASSUME NEW s \in Pipes
        PROVE  /\ pipes'[s].lectores = 1 <=> \E g \in Files : IsEnd(g, "F_PIPE_R", s)'
               /\ pipes'[s].escritores = 1 <=> \E g \in Files : IsEnd(g, "F_PIPE_W", s)'
               /\ pipes'[s].vive <=> pipes'[s].lectores = 1 \/ pipes'[s].escritores = 1
               /\ ~pipes'[s].vive => pipes'[s] = Free(s)
    <3>1. CASE s = q
      BY <1>13, <2>2, <3>1
    <3>2. CASE s # q
      <4>1. pipes'[s] = pipes[s]
        BY <1>13, <3>2
      <4>2. \A g \in Files, tipo \in {"F_PIPE_R", "F_PIPE_W"} : IsEnd(g, tipo, s)' <=> IsEnd(g, tipo, s)
        <5>1. \A tipo \in {"F_PIPE_R", "F_PIPE_W"} : ~IsEnd(r, tipo, s) /\ ~IsEnd(w, tipo, s)
          BY <1>7 DEF IsEnd
        <5>2. QED
          BY <2>2, <3>2, <5>1
      <4>3. /\ pipes[s].lectores = 1 <=> \E g \in Files : IsEnd(g, "F_PIPE_R", s)
            /\ pipes[s].escritores = 1 <=> \E g \in Files : IsEnd(g, "F_PIPE_W", s)
            /\ pipes[s].vive <=> pipes[s].lectores = 1 \/ pipes[s].escritores = 1
            /\ ~pipes[s].vive => pipes[s] = Free(s)
        BY DEF PipesInv, Ends
      <4>4. QED
        BY <4>1, <4>2, <4>3
    <3>3. QED
      BY <3>1, <3>2
  <2>6. QED
    BY <2>1, <2>4, <2>5 DEF Ends
<1>18. Queues' /\ NobodySleepsInVain'
  <2>1. ASSUME NEW s \in Pipes
        PROVE  pipes'[s].hay_datos = pipes[s].hay_datos /\ pipes'[s].hay_hueco = pipes[s].hay_hueco
    BY <1>12, <1>13 DEF Free
  <2>2. Queues'
    BY <1>2, <2>1 DEF PipesInv, Queues, Reads, Writes
  <2>3. NobodySleepsInVain'
    BY <1>13 DEF PipesInv, NobodySleepsInVain
  <2>4. QED
    BY <2>2, <2>3
<1>19. Typed'
  BY <1>2, <1>9, <1>11, <1>13 DEF PipesInv, Typed
<1>20. Slots' /\ Grave'
  BY <1>1, <1>2, <1>9 DEF PipesInv, Slots, Grave
<1>21. Inside'
  <2>1. \A g \in Files : files[g].tipo # "F_LIBRE" =>
            files'[g].tipo = files[g].tipo /\ files'[g].p = files[g].p
    BY <1>7, <1>11
  <2>2. \A u \in Procs : \/ call'[u].op \in {"none", "fork"}
                         \/ call'[u] = call[u] /\ fd'[u] = fd[u]
    BY <1>1, <1>2, <1>9 DEF NoCall
  <2>3. QED
    BY <2>1, <2>2, InsideKept
<1>22. Kids'
  BY <1>1, <1>2, <1>9, KidsKept
<1>23. QED
  BY <1>16, <1>17, <1>18, <1>19, <1>20, <1>21, <1>22 DEF PipesInv
-----------------------------------------------------------------------------
\* What moves nothing in the tables leaves what is counted.
LEMMA CountsKept ==
    ASSUME PipesInv, files' = files, fd' = fd, \A u \in Procs : \/ call'[u] = call[u]
                                                     \/ "dup2" \notin {call[u].op, call'[u].op}
    PROVE  RefsAreDescriptors'
<1>1. \A u \in Procs, m \in Fds : Named(u, m)' = Named(u, m)
  BY DEF Named
<1>2. QED
  BY <1>1, SameCount DEF PipesInv, RefsAreDescriptors

\* A fork that begins: the slot it takes has nothing open and is nobody else's.
LEMMA SysForkInv ==
    ASSUME PipesInv, NEW t \in Procs, SysFork(t) PROVE PipesInv'
<1>1. call[t] = NoCall /\ state[t] = "READY"
  BY InUserFacts DEF SysFork
<1>2. PICK u \in Procs : /\ state[u] = "UNUSED"
                         /\ state' = [state EXCEPT ![u] = "BLOCKED"]
                         /\ call' = [call EXCEPT ![t] = [op |-> "fork", kid |-> u, next |-> 0]]
  BY DEF SysFork
<1>3. UNCHANGED <<files, pipes, fd, parent, interrumpido, dead>>
  BY DEF SysFork
<1> DEFINE c == [op |-> "fork", kid |-> u, next |-> 0]
<1>4. c \in Call /\ c.op = "fork" /\ c.kid = u /\ c.next = 0
  BY FdsFacts DEF Call
<1> HIDE DEF c
<1>5. /\ state \in [Procs -> {"UNUSED", "READY", "BLOCKED", "ZOMBIE"}]
      /\ call \in [Procs -> Call]
  BY DEF PipesInv, Typed
<1>6. /\ state' \in [Procs -> {"UNUSED", "READY", "BLOCKED", "ZOMBIE"}]
      /\ state'[u] = "BLOCKED" /\ \A v \in Procs : v # u => state'[v] = state[v]
      /\ call' \in [Procs -> Call]
      /\ call'[t] = c /\ \A v \in Procs : v # t => call'[v] = call[v]
  BY <1>2, <1>4, <1>5 DEF c
<1>7. u # t /\ call[u] = NoCall /\ \A n \in Fds : fd[u][n] = NoFile
  BY <1>1, <1>2 DEF PipesInv, Slots
<1>8. RefsAreDescriptors' /\ Ends'
  <2>1. \A v \in Procs : call'[v] = call[v] \/ "dup2" \notin {call[v].op, call'[v].op}
    BY <1>1, <1>4, <1>6 DEF NoCall
  <2>2. QED
    BY <1>3, <2>1, CountsKept DEF PipesInv, Ends, IsEnd
<1>9. Queues' /\ NobodySleepsInVain'
  <2>1. \A v \in Procs : \/ call'[v] = call[v] /\ state'[v] = state[v]
                         \/ {call[v].op, call'[v].op} \cap {"read", "write"} = {}
    BY <1>1, <1>4, <1>6, <1>7 DEF NoCall
  <2>2. QED
    BY <1>3, <2>1, SameQueues
<1>10. Typed'
  BY <1>3, <1>6 DEF PipesInv, Typed
<1>11. Slots' /\ Grave'
  <2>1. Slots'
    <3> SUFFICES ASSUME NEW v \in Procs
                 PROVE  /\ state'[v] = "UNUSED" => \A n \in Fds : fd[v][n] = NoFile
                        /\ state'[v] \in {"UNUSED", "ZOMBIE"} => call'[v] = NoCall
                        /\ call'[v].op \in {"fork", "dup2"} => state'[v] = "READY"
      BY <1>3 DEF Slots
    <3>1. CASE v = t
      BY <1>1, <1>4, <1>6, <1>7, <3>1
    <3>2. CASE v = u
      BY <1>6, <1>7, <3>2 DEF NoCall
    <3>3. CASE v # t /\ v # u
      BY <1>6, <3>3 DEF PipesInv, Slots
    <3>4. QED
      BY <3>1, <3>2, <3>3
  <2>2. dead # u \/ dead = Nobody
    BY <1>2 DEF PipesInv, Grave
  <2>3. Grave'
    BY <1>3, <1>6, <2>2 DEF PipesInv, Grave, Typed
  <2>4. QED
    BY <2>1, <2>3
<1>12. Inside'
  <2>1. \A v \in Procs : call'[v].op \in {"none", "fork"} \/ call'[v] = call[v]
    BY <1>4, <1>6
  <2>2. QED
    BY <1>3, <2>1, InsideKept
<1>13. Kids'
  <2> SUFFICES ASSUME NEW v \in Procs, call'[v].op = "fork"
               PROVE  /\ state'[call'[v].kid] = "BLOCKED" /\ call'[call'[v].kid] = NoCall
                      /\ \A m \in Fds : m >= call'[v].next => fd'[call'[v].kid][m] = NoFile
                      /\ \A w \in Procs : call'[w].op = "fork" /\ call'[w].kid = call'[v].kid => w = v
    BY DEF Kids
  <2>1. \A w \in Procs : w # t /\ call'[w].op = "fork" =>
           /\ state[call[w].kid] = "BLOCKED" /\ call[call[w].kid] = NoCall
           /\ \A m \in Fds : m >= call[w].next => fd[call[w].kid][m] = NoFile
           /\ \A x \in Procs : call[x].op = "fork" /\ call[x].kid = call[w].kid => x = w
           /\ call'[w] = call[w]
    BY <1>6 DEF PipesInv, Kids
  <2>2. \A w \in Procs : w # t /\ call'[w].op = "fork" => call[w].kid \in Procs
    BY <1>5, <1>6 DEF Call, NoCall
  <2>3. \A w \in Procs : w # t /\ call'[w].op = "fork" => call[w].kid # u /\ call[w].kid # t
    BY <1>1, <1>2, <2>1
  <2>4. CASE v = t
    <3>1. \A w \in Procs : call'[w].op = "fork" /\ call'[w].kid = u => w = t
      BY <1>6, <2>3
    <3>2. QED
      BY <1>3, <1>4, <1>6, <1>7, <2>4, <3>1
  <2>5. CASE v # t
    <3>1. \A w \in Procs : call'[w].op = "fork" /\ call'[w].kid = call[v].kid => w = v
      BY <1>4, <1>6, <2>1, <2>3, <2>5
    <3>2. QED
      BY <1>3, <1>6, <2>1, <2>2, <2>3, <2>5, <3>1
  <2>6. QED
    BY <2>4, <2>5
<1>14. QED
  BY <1>8, <1>9, <1>10, <1>11, <1>12, <1>13 DEF PipesInv

\* A fork that ends.
LEMMA BornInv ==
    ASSUME PipesInv, NEW t \in Procs, Born(t) PROVE PipesInv'
<1>1. /\ call[t].op = "fork" /\ state[t] = "READY"
      /\ state' = [state EXCEPT ![call[t].kid] = "READY"]
      /\ parent' = [parent EXCEPT ![call[t].kid] = t]
      /\ call' = [call EXCEPT ![t] = NoCall]
      /\ interrumpido' = [interrumpido EXCEPT ![t] = FALSE]
      /\ UNCHANGED <<files, pipes, fd, dead>>
  BY DEF Born, InCall, Return
<1>2. /\ state \in [Procs -> {"UNUSED", "READY", "BLOCKED", "ZOMBIE"}]
      /\ call \in [Procs -> Call] /\ parent \in [Procs -> Procs \cup {Nobody}]
      /\ interrumpido \in [Procs -> BOOLEAN]
  BY DEF PipesInv, Typed
<1>3. PICK k \in Procs : k = call[t].kid
  BY <1>1, <1>2 DEF Call, NoCall
<1>4. /\ state[k] = "BLOCKED" /\ call[k] = NoCall /\ k # t
      /\ \A w \in Procs : call[w].op = "fork" /\ call[w].kid = k => w = t
  BY <1>1, <1>3 DEF PipesInv, Kids
<1>5. /\ state' \in [Procs -> {"UNUSED", "READY", "BLOCKED", "ZOMBIE"}]
      /\ state'[k] = "READY" /\ \A v \in Procs : v # k => state'[v] = state[v]
      /\ call' \in [Procs -> Call]
      /\ call'[t] = NoCall /\ \A v \in Procs : v # t => call'[v] = call[v]
      /\ parent' \in [Procs -> Procs \cup {Nobody}]
      /\ interrumpido' \in [Procs -> BOOLEAN]
  BY <1>1, <1>2, <1>3 DEF Call
<1>6. RefsAreDescriptors' /\ Ends'
  <2>1. \A v \in Procs : call'[v] = call[v] \/ "dup2" \notin {call[v].op, call'[v].op}
    BY <1>1, <1>5 DEF NoCall
  <2>2. QED
    BY <1>1, <2>1, CountsKept DEF PipesInv, Ends, IsEnd
<1>7. Queues' /\ NobodySleepsInVain'
  <2>1. \A v \in Procs : \/ call'[v] = call[v] /\ state'[v] = state[v]
                         \/ {call[v].op, call'[v].op} \cap {"read", "write"} = {}
    BY <1>1, <1>4, <1>5 DEF NoCall
  <2>2. QED
    BY <1>1, <2>1, SameQueues
<1>8. Typed'
  BY <1>1, <1>5 DEF PipesInv, Typed
<1>9. Slots'
  BY <1>1, <1>4, <1>5 DEF PipesInv, Slots, NoCall
<1>10. Grave'
  <2>1. dead # k \/ dead = Nobody
    BY <1>4 DEF PipesInv, Grave
  <2>2. QED
    BY <1>1, <1>5, <2>1 DEF PipesInv, Grave, Typed
<1>11. Inside'
  <2>1. \A v \in Procs : call'[v].op \in {"none", "fork"} \/ call'[v] = call[v]
    BY <1>5 DEF NoCall
  <2>2. QED
    BY <1>1, <2>1, InsideKept
<1>12. Kids'
  <2> SUFFICES ASSUME NEW v \in Procs, call'[v].op = "fork"
               PROVE  /\ state'[call'[v].kid] = "BLOCKED" /\ call'[call'[v].kid] = NoCall
                      /\ \A m \in Fds : m >= call'[v].next => fd'[call'[v].kid][m] = NoFile
                      /\ \A w \in Procs : call'[w].op = "fork" /\ call'[w].kid = call'[v].kid => w = v
    BY DEF Kids
  <2>1. v # t /\ call'[v] = call[v]
    BY <1>5 DEF NoCall
  <2>2. /\ state[call[v].kid] = "BLOCKED" /\ call[call[v].kid] = NoCall
        /\ \A m \in Fds : m >= call[v].next => fd[call[v].kid][m] = NoFile
        /\ \A x \in Procs : call[x].op = "fork" /\ call[x].kid = call[v].kid => x = v
    BY <2>1 DEF PipesInv, Kids
  <2>3. call[v].kid \in Procs /\ call[v].kid # k /\ call[v].kid # t
    BY <1>1, <1>2, <1>4, <2>1, <2>2 DEF Call, NoCall
  <2>4. \A w \in Procs : call'[w].op = "fork" /\ call'[w].kid = call[v].kid => w = v
    BY <1>5, <2>2 DEF NoCall
  <2>5. QED
    BY <1>1, <1>5, <2>1, <2>2, <2>3, <2>4
<1>13. QED
  BY <1>6, <1>7, <1>8, <1>9, <1>10, <1>11, <1>12 DEF PipesInv

\* Who dies keeps what it had open.
LEMMA SysExitInv ==
    ASSUME PipesInv, NEW t \in Procs, SysExit(t) PROVE PipesInv'
<1>1. call[t] = NoCall /\ state[t] = "READY"
  BY InUserFacts DEF SysExit
<1>2. /\ state' = [state EXCEPT ![t] = "ZOMBIE"]
      /\ UNCHANGED <<files, pipes, fd, parent, interrumpido, call, dead>>
  BY DEF SysExit
<1>3. /\ state' \in [Procs -> {"UNUSED", "READY", "BLOCKED", "ZOMBIE"}]
      /\ state'[t] = "ZOMBIE" /\ \A v \in Procs : v # t => state'[v] = state[v]
  BY <1>2 DEF PipesInv, Typed
<1>4. RefsAreDescriptors' /\ Ends'
  BY <1>2, CountsKept DEF PipesInv, Ends, IsEnd
<1>5. Queues' /\ NobodySleepsInVain'
  BY <1>1, <1>2, <1>3, SameQueues
<1>6. Typed'
  BY <1>2, <1>3 DEF PipesInv, Typed
<1>7. Slots'
  BY <1>1, <1>2, <1>3 DEF PipesInv, Slots, NoCall
<1>8. Grave'
  BY <1>2, <1>3 DEF PipesInv, Grave, Typed
<1>9. Inside' /\ Kids'
  BY <1>1, <1>2, <1>3, InsideKept, KidsKept
<1>10. QED
  BY <1>4, <1>5, <1>6, <1>7, <1>8, <1>9 DEF PipesInv

\* Collecting, and the choice of the reaper, only touch parents and dead.
LEMMA SysWaitInv ==
    ASSUME PipesInv, NEW t \in Procs, SysWait(t) PROVE PipesInv'
<1>1. UNCHANGED <<files, pipes, fd, state, interrumpido, call, dead>>
  BY DEF SysWait
<1>2. parent' \in [Procs -> Procs \cup {Nobody}]
  BY DEF SysWait, PipesInv, Typed
<1>3. Typed'
  BY <1>1, <1>2 DEF PipesInv, Typed
<1>4. RefsAreDescriptors' /\ Ends'
  BY <1>1, CountsKept DEF PipesInv, Ends, IsEnd
<1>5. Queues' /\ NobodySleepsInVain' /\ Inside' /\ Kids'
  BY <1>1, SameQueues, InsideKept, KidsKept
<1>6. Slots' /\ Grave'
  BY <1>1 DEF PipesInv, Slots, Grave
<1>7. QED
  BY <1>3, <1>4, <1>5, <1>6 DEF PipesInv

\* Who is taken by the reaper is dead.
LEMMA ReaperFindsInv ==
    ASSUME PipesInv, ReaperFinds PROVE PipesInv'
<1>1. UNCHANGED <<files, pipes, fd, state, parent, interrumpido, call>>
  BY DEF ReaperFinds
<1>2. dead' \in Procs /\ state[dead'] = "ZOMBIE"
  BY DEF ReaperFinds
<1>3. Typed'
  BY <1>1, <1>2 DEF PipesInv, Typed
<1>4. RefsAreDescriptors' /\ Ends'
  BY <1>1, CountsKept DEF PipesInv, Ends, IsEnd
<1>5. Queues' /\ NobodySleepsInVain' /\ Inside' /\ Kids'
  BY <1>1, SameQueues, InsideKept, KidsKept
<1>6. Slots' /\ Grave'
  BY <1>1, <1>2 DEF PipesInv, Slots, Grave
<1>7. QED
  BY <1>3, <1>4, <1>5, <1>6 DEF PipesInv

\* A slot that is given back has nothing open.
LEMMA ReapSlotInv ==
    ASSUME PipesInv, ReapSlot PROVE PipesInv'
<1>1. /\ dead # Nobody /\ \A n \in Fds : fd[dead][n] = NoFile
      /\ state' = [state EXCEPT ![dead] = "UNUSED"]
      /\ parent' = [t \in Procs |-> IF parent[t] = dead THEN Nobody ELSE parent[t]]
      /\ dead' = Nobody
      /\ UNCHANGED <<files, pipes, fd, interrumpido, call>>
  BY DEF ReapSlot
<1>2. PICK t \in Procs : t = dead
  BY <1>1 DEF PipesInv, Typed
<1>3. state[t] = "ZOMBIE" /\ call[t] = NoCall
  BY <1>1, <1>2 DEF PipesInv, Grave, Slots
<1>4. /\ state' \in [Procs -> {"UNUSED", "READY", "BLOCKED", "ZOMBIE"}]
      /\ state'[t] = "UNUSED" /\ \A v \in Procs : v # t => state'[v] = state[v]
      /\ parent' \in [Procs -> Procs \cup {Nobody}]
  BY <1>1, <1>2 DEF PipesInv, Typed
<1>5. RefsAreDescriptors' /\ Ends'
  BY <1>1, CountsKept DEF PipesInv, Ends, IsEnd
<1>6. Queues' /\ NobodySleepsInVain'
  BY <1>1, <1>3, <1>4, SameQueues
<1>7. Typed'
  BY <1>1, <1>4 DEF PipesInv, Typed
<1>8. Slots'
  BY <1>1, <1>2, <1>3, <1>4 DEF PipesInv, Slots, NoCall
<1>9. Grave'
  BY <1>1 DEF Grave
<1>10. Inside' /\ Kids'
  BY <1>1, <1>3, <1>4, InsideKept, KidsKept
<1>11. QED
  BY <1>5, <1>6, <1>7, <1>8, <1>9, <1>10 DEF PipesInv
-----------------------------------------------------------------------------
\* A turn of a read or of a write, or a signal: the tables stay, the ends of
\* the pipes stay, and only who is inside such a call, t among them, moves.
TurnOf(t, c) ==
    /\ UNCHANGED <<files, fd, parent, dead>>
    /\ call[t].op \in {"none", "read", "write"} /\ c.op \in {"none", "read", "write"}
    /\ \/ state[t] = "READY"
       \/ state[t] = "BLOCKED" /\ call[t].op # "none"
    /\ c.op = "read" => HasOpen(t, "F_PIPE_R", c.p)
    /\ c.op = "write" => HasOpen(t, "F_PIPE_W", c.p)
    /\ call' = [call EXCEPT ![t] = c]
    /\ interrumpido' \in [Procs -> BOOLEAN]
    /\ pipes' \in [Pipes -> Pipe]
    /\ \A r \in Pipes : \/ pipes'[r] = pipes[r]
                        \/ /\ pipes[r].vive /\ pipes'[r].vive
                           /\ pipes'[r].lectores = pipes[r].lectores
                           /\ pipes'[r].escritores = pipes[r].escritores
    /\ state' \in [Procs -> {"UNUSED", "READY", "BLOCKED", "ZOMBIE"}]
    /\ \A u \in Procs : \/ state'[u] = state[u]
                        \/ /\ u = t \/ call[u].op \in {"read", "write"}
                           /\ state'[u] \in {"READY", "BLOCKED"}

\* All of the invariant but the queues and their reasons.
LEMMA TurnKeeps ==
    ASSUME PipesInv, NEW t \in Procs, NEW c \in Call, TurnOf(t, c)
    PROVE  /\ Typed' /\ Ends' /\ RefsAreDescriptors'
           /\ Slots' /\ Grave' /\ Inside' /\ Kids'
<1> USE DEF TurnOf
<1>1. /\ call \in [Procs -> Call] /\ state \in [Procs -> {"UNUSED", "READY", "BLOCKED", "ZOMBIE"}]
  BY DEF PipesInv, Typed
<1>2. call' \in [Procs -> Call] /\ call'[t] = c /\ \A u \in Procs : u # t => call'[u] = call[u]
  BY <1>1
<1>3. Typed'
  BY <1>2 DEF PipesInv, Typed
<1>4. RefsAreDescriptors'
  <2>1. \A u \in Procs : call'[u] = call[u] \/ "dup2" \notin {call[u].op, call'[u].op}
    BY <1>2
  <2>2. QED
    BY <2>1, CountsKept
<1>5. Ends'
  <2>1. /\ \A f \in Files : files[f].refs = 0 <=> files[f].tipo = "F_LIBRE"
        /\ \A f, g \in Files, r \in Pipes, tipo \in {"F_PIPE_R", "F_PIPE_W"} :
              IsEnd(f, tipo, r)' /\ IsEnd(g, tipo, r)' => f = g
    BY DEF PipesInv, Ends, IsEnd
  <2>2. ASSUME NEW r \in Pipes
        PROVE  /\ pipes'[r].lectores = 1 <=> \E f \in Files : IsEnd(f, "F_PIPE_R", r)'
               /\ pipes'[r].escritores = 1 <=> \E f \in Files : IsEnd(f, "F_PIPE_W", r)'
               /\ pipes'[r].vive <=> pipes'[r].lectores = 1 \/ pipes'[r].escritores = 1
               /\ ~pipes'[r].vive => pipes'[r] = Free(r)
    <3>1. \A f \in Files, tipo \in {"F_PIPE_R", "F_PIPE_W"} : IsEnd(f, tipo, r)' <=> IsEnd(f, tipo, r)
      BY DEF IsEnd
    <3>2. /\ pipes[r].lectores = 1 <=> \E f \in Files : IsEnd(f, "F_PIPE_R", r)
          /\ pipes[r].escritores = 1 <=> \E f \in Files : IsEnd(f, "F_PIPE_W", r)
          /\ pipes[r].vive <=> pipes[r].lectores = 1 \/ pipes[r].escritores = 1
          /\ ~pipes[r].vive => pipes[r] = Free(r)
      BY DEF PipesInv, Ends
    <3>3. CASE pipes'[r] = pipes[r]
      BY <3>1, <3>2, <3>3
    <3>4. CASE /\ pipes[r].vive /\ pipes'[r].vive
               /\ pipes'[r].lectores = pipes[r].lectores
               /\ pipes'[r].escritores = pipes[r].escritores
      BY <3>1, <3>2, <3>4
    <3>5. QED
      BY <3>3, <3>4
  <2>3. QED
    BY <2>1, <2>2 DEF Ends
<1>6. Slots'
  <2> SUFFICES ASSUME NEW u \in Procs
               PROVE  /\ state'[u] = "UNUSED" => \A n \in Fds : fd[u][n] = NoFile
                      /\ state'[u] \in {"UNUSED", "ZOMBIE"} => call'[u] = NoCall
                      /\ call'[u].op \in {"fork", "dup2"} => state'[u] = "READY"
    BY DEF Slots
  <2>1. CASE u = t
    BY <1>2, <2>1
  <2>2. CASE u # t
    BY <1>2, <2>2 DEF PipesInv, Slots
  <2>3. QED
    BY <2>1, <2>2
<1>7. Grave'
  <2>1. ASSUME NEW u \in Procs, state[u] = "ZOMBIE" PROVE state'[u] = "ZOMBIE"
    <3>1. call[u] = NoCall
      BY <2>1 DEF PipesInv, Slots
    <3>2. QED
      BY <2>1, <3>1 DEF NoCall
  <2>2. QED
    BY <2>1 DEF PipesInv, Grave, Typed
<1>8. Inside'
  <2> SUFFICES ASSUME NEW u \in Procs
               PROVE  /\ call'[u].op = "dup2" => \E n \in Fds : n # call'[u].nuevo /\ fd[u][n] = call'[u].f
                      /\ call'[u].op = "read"  => HasOpen(u, "F_PIPE_R", call'[u].p)
                      /\ call'[u].op = "write" => HasOpen(u, "F_PIPE_W", call'[u].p)
    BY DEF Inside, HasOpen
  <2>1. CASE u = t
    BY <1>2, <2>1
  <2>2. CASE u # t
    BY <1>2, <2>2 DEF PipesInv, Inside
  <2>3. QED
    BY <2>1, <2>2
<1>9. Kids'
  <2>1. \A u \in Procs : call'[u].op = "fork" => call'[u] = call[u]
    BY <1>2
  <2>2. ASSUME NEW k \in Procs, state[k] = "BLOCKED", call[k] = NoCall
        PROVE  state'[k] = "BLOCKED" /\ call'[k] = NoCall /\ fd'[k] = fd[k]
    BY <1>2, <2>2 DEF NoCall
  <2>3. QED
    BY <2>1, <2>2, KidsKept
<1>10. QED
  BY <1>3, <1>4, <1>5, <1>6, <1>7, <1>8, <1>9

\* Who is at a pipe has its end open, so that the pipe is there.
LEMMA AtThePipe ==
    ASSUME PipesInv, NEW t \in Procs, NEW q \in Pipes, AtRead(t, q) \/ AtWrite(t, q)
    PROVE  /\ state[t] = "READY" /\ call[t].op \in {"none", "read", "write"}
           /\ pipes[q].vive /\ pipes[q] \in Pipe
           /\ AtRead(t, q) => HasOpen(t, "F_PIPE_R", q)
           /\ AtWrite(t, q) => HasOpen(t, "F_PIPE_W", q)
<1>1. state[t] = "READY" /\ call[t].op \in {"none", "read", "write"}
  BY DEF AtRead, AtWrite, InCall
<1>2. /\ AtRead(t, q) => HasOpen(t, "F_PIPE_R", q)
      /\ AtWrite(t, q) => HasOpen(t, "F_PIPE_W", q)
  BY DEF AtRead, AtWrite, InCall, PipesInv, Inside
<1>3. PICK n \in Fds : fd[t][n] # NoFile /\ files[fd[t][n]].p = q
  BY <1>2 DEF HasOpen
<1>4. fd[t][n] \in Files /\ Named(t, n) = fd[t][n]
  BY <1>1, <1>3 DEF PipesInv, Typed, Named
<1>5. pipes[q].vive
  BY <1>3, <1>4, OpenIsEnd
<1>6. QED
  BY <1>1, <1>2, <1>5 DEF PipesInv, Typed

\* A turn that ends without moving a byte, and a wait that was cut.
LEMMA ReturnInv ==
    ASSUME PipesInv, NEW t \in Procs, state[t] = "READY",
           call[t].op \in {"none", "read", "write"}, Return(t),
           UNCHANGED <<files, fd, parent, dead>>, pipes' = pipes, state' = state
    PROVE  PipesInv'
<1>1. /\ call' = [call EXCEPT ![t] = NoCall]
      /\ interrumpido' = [interrumpido EXCEPT ![t] = FALSE]
  BY DEF Return
<1>2. /\ NoCall \in Call /\ NoCall.op = "none"
  BY DEF Call, NoCall
<1>3. /\ interrumpido' \in [Procs -> BOOLEAN] /\ pipes' \in [Pipes -> Pipe]
      /\ state' \in [Procs -> {"UNUSED", "READY", "BLOCKED", "ZOMBIE"}]
      /\ call \in [Procs -> Call]
  BY <1>1 DEF PipesInv, Typed
<1> DEFINE c == NoCall
<1> HIDE DEF c
<1>4. /\ Typed' /\ Ends' /\ RefsAreDescriptors'
      /\ Slots' /\ Grave' /\ Inside' /\ Kids'
  <2>1. c \in Call /\ c.op = "none" /\ call' = [call EXCEPT ![t] = c]
    BY <1>1, <1>2 DEF c
  <2>2. /\ c.op = "read" => HasOpen(t, "F_PIPE_R", c.p)
        /\ c.op = "write" => HasOpen(t, "F_PIPE_W", c.p)
        /\ c.op \in {"none", "read", "write"}
    BY <2>1
  <2>3. /\ \A r \in Pipes : pipes'[r] = pipes[r]
        /\ \A u \in Procs : state'[u] = state[u]
    OBVIOUS
  <2>4. TurnOf(t, c)
    BY <1>3, <2>1, <2>2, <2>3 DEF TurnOf
  <2>5. QED
    BY <2>1, <2>4, TurnKeeps
<1>5. \A u \in Procs : \/ call'[u] = call[u] /\ state'[u] = state[u]
                       \/ "BLOCKED" \notin {state[u], state'[u]}
  BY <1>1, <1>3
<1>6. Queues' /\ NobodySleepsInVain'
  BY <1>5, SameQueues
<1>7. QED
  BY <1>4, <1>6 DEF PipesInv

\* A turn that waits puts whoever is at it, and nobody else, in the queue.
LEMMA ReadWaitsInv ==
    ASSUME PipesInv, NEW t \in Procs, NEW q \in Pipes, PipeReadWaits(t, q) PROVE PipesInv'
<1> DEFINE c == [op |-> "read", p |-> q]
<1>1. /\ AtRead(t, q) /\ pipes[q].count = 0 /\ pipes[q].escritores > 0
      /\ pipes' = [pipes EXCEPT ![q].hay_datos = @ \cup {t}]
      /\ state' = [state EXCEPT ![t] = "BLOCKED"]
      /\ call' = [call EXCEPT ![t] = c]
      /\ UNCHANGED <<files, fd, parent, interrumpido, dead>>
  BY DEF PipeReadWaits
<1>2. c \in Call /\ c.op = "read" /\ c.p = q
  BY DEF Call
<1> HIDE DEF c
<1>3. /\ state[t] = "READY" /\ call[t].op \in {"none", "read", "write"}
      /\ pipes[q].vive /\ pipes[q] \in Pipe /\ HasOpen(t, "F_PIPE_R", q)
  BY <1>1, AtThePipe
<1>4. /\ state \in [Procs -> {"UNUSED", "READY", "BLOCKED", "ZOMBIE"}] /\ call \in [Procs -> Call]
      /\ pipes \in [Pipes -> Pipe] /\ interrumpido \in [Procs -> BOOLEAN]
  BY DEF PipesInv, Typed
<1>5. /\ pipes' \in [Pipes -> Pipe]
      /\ pipes'[q].hay_datos = pipes[q].hay_datos \cup {t}
      /\ pipes'[q].hay_hueco = pipes[q].hay_hueco /\ pipes'[q].count = pipes[q].count
      /\ pipes'[q].vive /\ pipes'[q].lectores = pipes[q].lectores
      /\ pipes'[q].escritores = pipes[q].escritores
      /\ \A r \in Pipes : r # q => pipes'[r] = pipes[r]
  <2> DEFINE P == [pipes[q] EXCEPT !.hay_datos = pipes[q].hay_datos \cup {t}]
  <2>1. pipes' = [pipes EXCEPT ![q] = P]
    BY <1>1
  <2>2. /\ P \in Pipe /\ P.hay_datos = pipes[q].hay_datos \cup {t} /\ P.hay_hueco = pipes[q].hay_hueco
        /\ P.count = pipes[q].count /\ P.vive = pipes[q].vive
        /\ P.lectores = pipes[q].lectores /\ P.escritores = pipes[q].escritores
    BY <1>3 DEF Pipe
  <2> HIDE DEF P
  <2>3. QED
    BY <1>3, <1>4, <2>1, <2>2
<1>6. /\ state' \in [Procs -> {"UNUSED", "READY", "BLOCKED", "ZOMBIE"}]
      /\ state'[t] = "BLOCKED" /\ \A u \in Procs : u # t => state'[u] = state[u]
      /\ call'[t] = c /\ \A u \in Procs : u # t => call'[u] = call[u]
  BY <1>1, <1>4
<1>7. TurnOf(t, c)
  BY <1>1, <1>2, <1>3, <1>4, <1>5, <1>6 DEF TurnOf
<1>8. Queues'
  <2> SUFFICES ASSUME NEW u \in Procs, NEW r \in Pipes
               PROVE  /\ u \in pipes'[r].hay_datos <=>
                            call'[u].op = "read" /\ call'[u].p = r /\ state'[u] = "BLOCKED"
                      /\ u \in pipes'[r].hay_hueco <=>
                            call'[u].op = "write" /\ call'[u].p = r /\ state'[u] = "BLOCKED"
    BY DEF Queues, Reads, Writes
  <2>1. /\ u \in pipes[r].hay_datos <=> call[u].op = "read" /\ call[u].p = r /\ state[u] = "BLOCKED"
        /\ u \in pipes[r].hay_hueco <=> call[u].op = "write" /\ call[u].p = r /\ state[u] = "BLOCKED"
    BY DEF PipesInv, Queues, Reads, Writes
  <2>2. /\ pipes'[r].hay_hueco = pipes[r].hay_hueco
        /\ u \in pipes'[r].hay_datos <=> u \in pipes[r].hay_datos \/ (r = q /\ u = t)
    BY <1>5
  <2>3. CASE u = t
    BY <1>2, <1>3, <1>6, <2>1, <2>2, <2>3
  <2>4. CASE u # t
    BY <1>6, <2>1, <2>2, <2>4
  <2>5. QED
    BY <2>3, <2>4
<1>9. NobodySleepsInVain'
  BY <1>1, <1>5 DEF PipesInv, NobodySleepsInVain
<1>10. QED
  BY <1>2, <1>7, <1>8, <1>9, TurnKeeps DEF PipesInv

\* The same for those who write.
LEMMA WriteWaitsInv ==
    ASSUME PipesInv, NEW t \in Procs, NEW q \in Pipes, PipeWriteWaits(t, q) PROVE PipesInv'
<1> DEFINE c == [op |-> "write", p |-> q]
<1>1. /\ AtWrite(t, q) /\ pipes[q].count = PIPE_BUF /\ pipes[q].lectores > 0
      /\ pipes' = [pipes EXCEPT ![q].hay_hueco = @ \cup {t}]
      /\ state' = [state EXCEPT ![t] = "BLOCKED"]
      /\ call' = [call EXCEPT ![t] = c]
      /\ UNCHANGED <<files, fd, parent, interrumpido, dead>>
  BY DEF PipeWriteWaits
<1>2. c \in Call /\ c.op = "write" /\ c.p = q
  BY DEF Call
<1> HIDE DEF c
<1>3. /\ state[t] = "READY" /\ call[t].op \in {"none", "read", "write"}
      /\ pipes[q].vive /\ pipes[q] \in Pipe /\ HasOpen(t, "F_PIPE_W", q)
  BY <1>1, AtThePipe
<1>4. /\ state \in [Procs -> {"UNUSED", "READY", "BLOCKED", "ZOMBIE"}] /\ call \in [Procs -> Call]
      /\ pipes \in [Pipes -> Pipe] /\ interrumpido \in [Procs -> BOOLEAN]
  BY DEF PipesInv, Typed
<1>5. /\ pipes' \in [Pipes -> Pipe]
      /\ pipes'[q].hay_hueco = pipes[q].hay_hueco \cup {t}
      /\ pipes'[q].hay_datos = pipes[q].hay_datos /\ pipes'[q].count = pipes[q].count
      /\ pipes'[q].vive /\ pipes'[q].lectores = pipes[q].lectores
      /\ pipes'[q].escritores = pipes[q].escritores
      /\ \A r \in Pipes : r # q => pipes'[r] = pipes[r]
  <2> DEFINE P == [pipes[q] EXCEPT !.hay_hueco = pipes[q].hay_hueco \cup {t}]
  <2>1. pipes' = [pipes EXCEPT ![q] = P]
    BY <1>1
  <2>2. /\ P \in Pipe /\ P.hay_hueco = pipes[q].hay_hueco \cup {t} /\ P.hay_datos = pipes[q].hay_datos
        /\ P.count = pipes[q].count /\ P.vive = pipes[q].vive
        /\ P.lectores = pipes[q].lectores /\ P.escritores = pipes[q].escritores
    BY <1>3 DEF Pipe
  <2> HIDE DEF P
  <2>3. QED
    BY <1>3, <1>4, <2>1, <2>2
<1>6. /\ state' \in [Procs -> {"UNUSED", "READY", "BLOCKED", "ZOMBIE"}]
      /\ state'[t] = "BLOCKED" /\ \A u \in Procs : u # t => state'[u] = state[u]
      /\ call'[t] = c /\ \A u \in Procs : u # t => call'[u] = call[u]
  BY <1>1, <1>4
<1>7. TurnOf(t, c)
  BY <1>1, <1>2, <1>3, <1>4, <1>5, <1>6 DEF TurnOf
<1>8. Queues'
  <2> SUFFICES ASSUME NEW u \in Procs, NEW r \in Pipes
               PROVE  /\ u \in pipes'[r].hay_datos <=>
                            call'[u].op = "read" /\ call'[u].p = r /\ state'[u] = "BLOCKED"
                      /\ u \in pipes'[r].hay_hueco <=>
                            call'[u].op = "write" /\ call'[u].p = r /\ state'[u] = "BLOCKED"
    BY DEF Queues, Reads, Writes
  <2>1. /\ u \in pipes[r].hay_datos <=> call[u].op = "read" /\ call[u].p = r /\ state[u] = "BLOCKED"
        /\ u \in pipes[r].hay_hueco <=> call[u].op = "write" /\ call[u].p = r /\ state[u] = "BLOCKED"
    BY DEF PipesInv, Queues, Reads, Writes
  <2>2. /\ pipes'[r].hay_datos = pipes[r].hay_datos
        /\ u \in pipes'[r].hay_hueco <=> u \in pipes[r].hay_hueco \/ (r = q /\ u = t)
    BY <1>5
  <2>3. CASE u = t
    BY <1>2, <1>3, <1>6, <2>1, <2>2, <2>3
  <2>4. CASE u # t
    BY <1>6, <2>1, <2>2, <2>4
  <2>5. QED
    BY <2>3, <2>4
<1>9. NobodySleepsInVain'
  BY <1>1, <1>5 DEF PipesInv, NobodySleepsInVain
<1>10. QED
  BY <1>2, <1>7, <1>8, <1>9, TurnKeeps DEF PipesInv

\* A turn that moves bytes wakes all those who wait for the other thing.
LEMMA EmptiesInv ==
    ASSUME PipesInv, NEW t \in Procs, NEW q \in Pipes,
           state[t] = "READY", call[t].op \in {"none", "read", "write"}, pipes[q].vive,
           \/ pipes[q].hay_datos = {} /\ Awake(pipes[q].hay_hueco)
           \/ pipes[q].hay_hueco = {} /\ Awake(pipes[q].hay_datos),
           call' = [call EXCEPT ![t] = NoCall],
           interrumpido' = [interrumpido EXCEPT ![t] = FALSE],
           UNCHANGED <<files, fd, parent, dead>>,
           pipes' \in [Pipes -> Pipe], pipes'[q].hay_datos = {}, pipes'[q].hay_hueco = {},
           pipes'[q].vive, pipes'[q].lectores = pipes[q].lectores,
           pipes'[q].escritores = pipes[q].escritores,
           \A r \in Pipes : r # q => pipes'[r] = pipes[r],
           NobodySleepsInVain'
    PROVE  PipesInv'
<1> DEFINE c == NoCall
<1>1. c \in Call /\ c.op = "none"
  BY DEF Call, NoCall
<1>2. call' = [call EXCEPT ![t] = c]
  OBVIOUS
<1> HIDE DEF c
<1>3. /\ state \in [Procs -> {"UNUSED", "READY", "BLOCKED", "ZOMBIE"}] /\ call \in [Procs -> Call]
      /\ interrumpido \in [Procs -> BOOLEAN]
  BY DEF PipesInv, Typed
<1>4. \A u \in Procs, r \in Pipes :
         /\ u \in pipes[r].hay_datos <=> call[u].op = "read" /\ call[u].p = r /\ state[u] = "BLOCKED"
         /\ u \in pipes[r].hay_hueco <=> call[u].op = "write" /\ call[u].p = r /\ state[u] = "BLOCKED"
  BY DEF PipesInv, Queues, Reads, Writes
<1>5. \A u \in Procs :
         state'[u] = IF \/ u \in pipes[q].hay_datos
                        \/ u \in pipes[q].hay_hueco THEN "READY" ELSE state[u]
  BY DEF Awake
<1>6. state' \in [Procs -> {"UNUSED", "READY", "BLOCKED", "ZOMBIE"}]
  BY <1>3 DEF Awake
<1>7. /\ call'[t] = c /\ \A u \in Procs : u # t => call'[u] = call[u]
      /\ interrumpido' \in [Procs -> BOOLEAN]
  BY <1>2, <1>3
<1>8. \A u \in Procs : \/ state'[u] = state[u]
                       \/ call[u].op \in {"read", "write"} /\ state'[u] = "READY"
  BY <1>4, <1>5
<1>9. TurnOf(t, c)
  BY <1>1, <1>2, <1>6, <1>7, <1>8 DEF TurnOf
<1>10. Queues'
  <2> SUFFICES ASSUME NEW u \in Procs, NEW r \in Pipes
               PROVE  /\ u \in pipes'[r].hay_datos <=>
                            call'[u].op = "read" /\ call'[u].p = r /\ state'[u] = "BLOCKED"
                      /\ u \in pipes'[r].hay_hueco <=>
                            call'[u].op = "write" /\ call'[u].p = r /\ state'[u] = "BLOCKED"
    BY DEF Queues, Reads, Writes
  <2>1. /\ u \in pipes[r].hay_datos <=> call[u].op = "read" /\ call[u].p = r /\ state[u] = "BLOCKED"
        /\ u \in pipes[r].hay_hueco <=> call[u].op = "write" /\ call[u].p = r /\ state[u] = "BLOCKED"
        /\ u \in pipes[q].hay_datos <=> call[u].op = "read" /\ call[u].p = q /\ state[u] = "BLOCKED"
        /\ u \in pipes[q].hay_hueco <=> call[u].op = "write" /\ call[u].p = q /\ state[u] = "BLOCKED"
    BY <1>4
  <2>2. CASE u = t
    BY <1>1, <1>5, <1>7, <2>1, <2>2
  <2>3. CASE u # t /\ r = q
    BY <1>5, <1>7, <2>1, <2>3
  <2>4. CASE u # t /\ r # q
    BY <1>5, <1>7, <2>1, <2>4
  <2>5. QED
    BY <2>2, <2>3, <2>4
<1>11. QED
  BY <1>1, <1>9, <1>10, TurnKeeps DEF PipesInv

\* Whoever reads makes room...
LEMMA ReadsInv ==
    ASSUME PipesInv, NEW t \in Procs, NEW q \in Pipes, PipeReads(t, q) PROVE PipesInv'
<1>1. /\ AtRead(t, q) /\ pipes[q].count > 0
      /\ Awake(pipes[q].hay_hueco)
      /\ call' = [call EXCEPT ![t] = NoCall]
      /\ interrumpido' = [interrumpido EXCEPT ![t] = FALSE]
      /\ UNCHANGED <<files, fd, parent, dead>>
  BY DEF PipeReads, Return
<1>2. PICK n \in 1 .. BOUNCE :
         pipes' = [pipes EXCEPT ![q].count = @ - Lesser(n, @), ![q].hay_hueco = {}]
  BY DEF PipeReads
<1>3. /\ state[t] = "READY" /\ call[t].op \in {"none", "read", "write"}
      /\ pipes[q].vive /\ pipes[q] \in Pipe
  BY <1>1, AtThePipe
<1>4. /\ state \in [Procs -> {"UNUSED", "READY", "BLOCKED", "ZOMBIE"}] /\ call \in [Procs -> Call]
      /\ pipes \in [Pipes -> Pipe] /\ interrumpido \in [Procs -> BOOLEAN]
  BY DEF PipesInv, Typed
<1>5. PICK m : m = pipes[q].count - Lesser(n, pipes[q].count)
  OBVIOUS
<1>6. m \in 0 .. PIPE_BUF
  <2>1. PIPE_BUF \in Nat /\ BOUNCE \in Nat /\ n \in Nat
    BY PipesAssumption
  <2>2. pipes[q].count \in 0 .. PIPE_BUF
    BY <1>3 DEF Pipe
  <2>3. QED
    BY <1>1, <1>5, <2>1, <2>2 DEF Lesser
<1>7. /\ pipes' \in [Pipes -> Pipe]
      /\ pipes'[q].hay_hueco = {} /\ pipes'[q].hay_datos = pipes[q].hay_datos
      /\ pipes'[q].vive /\ pipes'[q].lectores = pipes[q].lectores
      /\ pipes'[q].escritores = pipes[q].escritores
      /\ \A r \in Pipes : r # q => pipes'[r] = pipes[r]
  <2> DEFINE P == [pipes[q] EXCEPT !.count = m, !.hay_hueco = {}]
  <2>1. pipes' = [pipes EXCEPT ![q] = P]
    BY <1>2, <1>3, <1>4, <1>5 DEF Pipe
  <2>2. /\ P \in Pipe /\ P.hay_hueco = {} /\ P.hay_datos = pipes[q].hay_datos
        /\ P.vive = pipes[q].vive
        /\ P.lectores = pipes[q].lectores /\ P.escritores = pipes[q].escritores
    BY <1>3, <1>6 DEF Pipe
  <2> HIDE DEF P
  <2>3. QED
    BY <1>3, <1>4, <2>1, <2>2
<1>8. pipes[q].hay_datos = {}
  BY <1>1 DEF PipesInv, NobodySleepsInVain
<1>9. NobodySleepsInVain'
  BY <1>7, <1>8 DEF PipesInv, NobodySleepsInVain
<1>10. QED
  BY <1>1, <1>3, <1>7, <1>8, <1>9, EmptiesInv

\* ... and whoever writes brings bytes.
LEMMA WritesInv ==
    ASSUME PipesInv, NEW t \in Procs, NEW q \in Pipes, PipeWrites(t, q) PROVE PipesInv'
<1>1. /\ AtWrite(t, q) /\ pipes[q].count < PIPE_BUF
      /\ Awake(pipes[q].hay_datos)
      /\ call' = [call EXCEPT ![t] = NoCall]
      /\ interrumpido' = [interrumpido EXCEPT ![t] = FALSE]
      /\ UNCHANGED <<files, fd, parent, dead>>
  BY DEF PipeWrites, Return
<1>2. PICK n \in 1 .. BOUNCE :
         pipes' = [pipes EXCEPT ![q].count = @ + Fits(@, n), ![q].hay_datos = {}]
  BY DEF PipeWrites
<1>3. /\ state[t] = "READY" /\ call[t].op \in {"none", "read", "write"}
      /\ pipes[q].vive /\ pipes[q] \in Pipe
  BY <1>1, AtThePipe
<1>4. /\ state \in [Procs -> {"UNUSED", "READY", "BLOCKED", "ZOMBIE"}] /\ call \in [Procs -> Call]
      /\ pipes \in [Pipes -> Pipe] /\ interrumpido \in [Procs -> BOOLEAN]
  BY DEF PipesInv, Typed
<1>5. PICK m : m = pipes[q].count + Fits(pipes[q].count, n)
  OBVIOUS
<1>6. m \in 0 .. PIPE_BUF
  <2>1. PIPE_BUF \in Nat /\ BOUNCE \in Nat /\ n \in Nat
    BY PipesAssumption
  <2>2. pipes[q].count \in 0 .. PIPE_BUF
    BY <1>3 DEF Pipe
  <2>3. QED
    BY <1>1, <1>5, <2>1, <2>2 DEF Fits, Lesser
<1>7. /\ pipes' \in [Pipes -> Pipe]
      /\ pipes'[q].hay_datos = {} /\ pipes'[q].hay_hueco = pipes[q].hay_hueco
      /\ pipes'[q].vive /\ pipes'[q].lectores = pipes[q].lectores
      /\ pipes'[q].escritores = pipes[q].escritores
      /\ \A r \in Pipes : r # q => pipes'[r] = pipes[r]
  <2> DEFINE P == [pipes[q] EXCEPT !.count = m, !.hay_datos = {}]
  <2>1. pipes' = [pipes EXCEPT ![q] = P]
    BY <1>2, <1>3, <1>4, <1>5 DEF Pipe
  <2>2. /\ P \in Pipe /\ P.hay_datos = {} /\ P.hay_hueco = pipes[q].hay_hueco
        /\ P.vive = pipes[q].vive
        /\ P.lectores = pipes[q].lectores /\ P.escritores = pipes[q].escritores
    BY <1>3, <1>6 DEF Pipe
  <2> HIDE DEF P
  <2>3. QED
    BY <1>3, <1>4, <2>1, <2>2
<1>8. pipes[q].hay_hueco = {}
  <2>1. pipes[q].count \in Nat /\ PIPE_BUF \in Nat
    BY <1>3, PipesAssumption DEF Pipe
  <2>2. pipes[q].count # PIPE_BUF
    BY <1>1, <2>1
  <2>3. QED
    BY <2>2 DEF PipesInv, NobodySleepsInVain
<1>9. NobodySleepsInVain'
  BY <1>7, <1>8 DEF PipesInv, NobodySleepsInVain
<1>10. QED
  BY <1>1, <1>3, <1>7, <1>8, <1>9, EmptiesInv

\* A signal takes whoever it wakes out of the queue.
LEMMA SignalledInv ==
    ASSUME PipesInv, NEW t \in Procs, Signalled(t) PROVE PipesInv'
<1>1. /\ state[t] = "BLOCKED" /\ call[t].op \in {"read", "write"}
      /\ state' = [state EXCEPT ![t] = "READY"]
      /\ interrumpido' = [interrumpido EXCEPT ![t] = TRUE]
      /\ UNCHANGED <<files, fd, parent, call, dead>>
  BY DEF Signalled
<1>2. /\ state \in [Procs -> {"UNUSED", "READY", "BLOCKED", "ZOMBIE"}] /\ call \in [Procs -> Call]
      /\ pipes \in [Pipes -> Pipe] /\ interrumpido \in [Procs -> BOOLEAN]
  BY DEF PipesInv, Typed
<1>3. PICK q \in Pipes : q = call[t].p
  BY <1>1, <1>2 DEF Call, NoCall
<1>4. PICK n \in Fds : fd[t][n] # NoFile /\ files[fd[t][n]].p = q
  BY <1>1, <1>3 DEF PipesInv, Inside, HasOpen
<1>5. pipes[q].vive /\ pipes[q] \in Pipe
  <2>1. fd[t][n] \in Files /\ Named(t, n) = fd[t][n]
    BY <1>1, <1>4 DEF PipesInv, Typed, Named
  <2>2. QED
    BY <1>2, <1>4, <2>1, OpenIsEnd
<1>6. /\ pipes' \in [Pipes -> Pipe]
      /\ pipes'[q].hay_datos = pipes[q].hay_datos \ {t}
      /\ pipes'[q].hay_hueco = pipes[q].hay_hueco \ {t}
      /\ pipes'[q].count = pipes[q].count
      /\ pipes'[q].vive /\ pipes'[q].lectores = pipes[q].lectores
      /\ pipes'[q].escritores = pipes[q].escritores
      /\ \A r \in Pipes : r # q => pipes'[r] = pipes[r]
  <2> DEFINE P == [pipes[q] EXCEPT !.hay_datos = pipes[q].hay_datos \ {t},
                                   !.hay_hueco = pipes[q].hay_hueco \ {t}]
  <2>1. pipes' = [pipes EXCEPT ![q] = P]
    BY <1>2, <1>3, <1>5 DEF Signalled, Pipe
  <2>2. /\ P \in Pipe /\ P.hay_datos = pipes[q].hay_datos \ {t}
        /\ P.hay_hueco = pipes[q].hay_hueco \ {t}
        /\ P.count = pipes[q].count /\ P.vive = pipes[q].vive
        /\ P.lectores = pipes[q].lectores /\ P.escritores = pipes[q].escritores
    BY <1>5 DEF Pipe
  <2> HIDE DEF P
  <2>3. QED
    BY <1>2, <1>5, <2>1, <2>2
<1>7. /\ state' \in [Procs -> {"UNUSED", "READY", "BLOCKED", "ZOMBIE"}]
      /\ state'[t] = "READY" /\ \A u \in Procs : u # t => state'[u] = state[u]
      /\ interrumpido' \in [Procs -> BOOLEAN] /\ call' = [call EXCEPT ![t] = call[t]]
  BY <1>1, <1>2
<1>8. TurnOf(t, call[t])
  <2>1. /\ call[t].op = "read" => HasOpen(t, "F_PIPE_R", call[t].p)
        /\ call[t].op = "write" => HasOpen(t, "F_PIPE_W", call[t].p)
    BY DEF PipesInv, Inside
  <2>2. QED
    BY <1>1, <1>5, <1>6, <1>7, <2>1 DEF TurnOf
<1>9. Queues'
  <2> SUFFICES ASSUME NEW u \in Procs, NEW r \in Pipes
               PROVE  /\ u \in pipes'[r].hay_datos <=>
                            call[u].op = "read" /\ call[u].p = r /\ state'[u] = "BLOCKED"
                      /\ u \in pipes'[r].hay_hueco <=>
                            call[u].op = "write" /\ call[u].p = r /\ state'[u] = "BLOCKED"
    BY <1>1 DEF Queues, Reads, Writes
  <2>1. /\ u \in pipes[r].hay_datos <=> call[u].op = "read" /\ call[u].p = r /\ state[u] = "BLOCKED"
        /\ u \in pipes[r].hay_hueco <=> call[u].op = "write" /\ call[u].p = r /\ state[u] = "BLOCKED"
    BY DEF PipesInv, Queues, Reads, Writes
  <2>2. CASE u = t
    BY <1>3, <1>6, <1>7, <2>1, <2>2
  <2>3. CASE u # t
    BY <1>6, <1>7, <2>1, <2>3
  <2>4. QED
    BY <2>2, <2>3
<1>10. NobodySleepsInVain'
  BY <1>6 DEF PipesInv, NobodySleepsInVain
<1>11. call[t] \in Call
  BY <1>2
<1>12. QED
  BY <1>8, <1>9, <1>10, <1>11, TurnKeeps DEF PipesInv
-----------------------------------------------------------------------------
\* At the start there is no pipe and nobody has anything open.
LEMMA InitInv == Init => PipesInv
<1> SUFFICES ASSUME Init PROVE PipesInv
  OBVIOUS
<1>1. PICK q \in Pipes : files = [f \in Files |-> [tipo |-> "F_LIBRE", refs |-> 0, p |-> q]]
  BY DEF Init
<1>2. /\ pipes = [r \in Pipes |-> Free(r)]
      /\ fd = [t \in Procs |-> [n \in Fds |-> NoFile]]
      /\ state = [t \in Procs |-> IF t = First THEN "READY" ELSE "UNUSED"]
      /\ parent = [t \in Procs |-> Nobody]
      /\ interrumpido = [t \in Procs |-> FALSE]
      /\ call = [t \in Procs |-> NoCall]
      /\ dead = Nobody
  BY DEF Init
<1>3. \A r \in Pipes : /\ pipes[r] = Free(r) /\ Free(r) \in Pipe
                       /\ pipes[r].hay_datos = {} /\ pipes[r].hay_hueco = {}
                       /\ ~pipes[r].vive /\ pipes[r].lectores = 0 /\ pipes[r].escritores = 0
  BY <1>2, PipesAssumption DEF Free, Pipe
<1>4. \A f \in Files : files[f] \in File /\ files[f].refs = 0 /\ files[f].tipo = "F_LIBRE"
  BY <1>1 DEF File
<1>5. \A t \in Procs : call[t] = NoCall /\ call[t].op = "none" /\ NoCall \in Call
  BY <1>2 DEF NoCall, Call
<1>6. Typed
  BY <1>1, <1>2, <1>3, <1>4, <1>5 DEF Typed
<1>7. Queues /\ NobodySleepsInVain
  BY <1>3, <1>5 DEF Queues, Reads, Writes, NobodySleepsInVain
<1>8. Ends
  BY <1>3, <1>4 DEF Ends, IsEnd
<1>9. Slots /\ Kids /\ Inside /\ Grave
  BY <1>2, <1>5 DEF Slots, Kids, Inside, Grave
<1>10. RefsAreDescriptors
  <2> SUFFICES ASSUME NEW f \in Files PROVE Cardinality(PointAt(f)) = 0
    BY <1>4 DEF RefsAreDescriptors
  <2>1. \A t \in Procs, n \in Fds : Named(t, n) = NoFile
    BY <1>2, <1>5 DEF Named
  <2>2. PointAt(f) = {}
    BY <2>1, FilesAreNot DEF PointAt
  <2>3. QED
    BY <2>2, FS_EmptySet
<1>11. QED
  BY <1>6, <1>7, <1>8, <1>9, <1>10 DEF PipesInv

\* One step of the pipes, whoever makes it.
LEMMA NextInv == PipesInv /\ [Next]_vars => PipesInv'
<1> SUFFICES ASSUME PipesInv, [Next]_vars PROVE PipesInv'
  OBVIOUS
<1>1. CASE UNCHANGED vars
  <2>1. UNCHANGED <<files, pipes, fd, state, parent, interrumpido, call, dead>>
    BY <1>1 DEF vars
  <2>2. RefsAreDescriptors' /\ Ends'
    BY <2>1, CountsKept DEF PipesInv, Ends, IsEnd
  <2>3. Queues' /\ NobodySleepsInVain' /\ Inside' /\ Kids'
    BY <2>1, SameQueues, InsideKept, KidsKept
  <2>4. Typed' /\ Slots' /\ Grave'
    BY <2>1 DEF PipesInv, Typed, Slots, Grave
  <2>5. QED
    BY <2>2, <2>3, <2>4 DEF PipesInv
<1>2. ASSUME NEW t \in Procs, SysPipe(t) PROVE PipesInv'
  BY <1>2, SysPipeInv
<1>3. ASSUME NEW t \in Procs, SysFork(t) PROVE PipesInv'
  BY <1>3, SysForkInv
<1>4. ASSUME NEW t \in Procs, SysExit(t) PROVE PipesInv'
  BY <1>4, SysExitInv
<1>5. ASSUME NEW t \in Procs, SysWait(t) PROVE PipesInv'
  BY <1>5, SysWaitInv
<1>6. ASSUME NEW t \in Procs, Signalled(t) PROVE PipesInv'
  BY <1>6, SignalledInv
<1>7. ASSUME NEW t \in Procs, NEW n \in Fds, SysClose(t, n) PROVE PipesInv'
  BY <1>7, SysCloseInv
<1>8. ASSUME NEW t \in Procs, NEW n \in Fds, NEW m \in Fds, SysDup2(t, n, m) PROVE PipesInv'
  BY <1>8, SysDup2Inv
<1>9. ASSUME NEW t \in Procs, Goes(t) PROVE PipesInv'
  <2>1. ASSUME NEW q \in Pipes, PipeTurn(t, q) PROVE PipesInv'
    <3>1. CASE PipeReadEnds(t, q) \/ PipeWriteEnds(t, q)
      <4>1. /\ AtRead(t, q) \/ AtWrite(t, q)
            /\ Return(t) /\ UNCHANGED <<files, pipes, fd, state, parent, dead>>
        BY <3>1 DEF PipeReadEnds, PipeWriteEnds
      <4>2. state[t] = "READY" /\ call[t].op \in {"none", "read", "write"}
        BY <4>1, AtThePipe
      <4>3. QED
        BY <4>1, <4>2, ReturnInv
    <3>2. CASE PipeReadWaits(t, q) \/ PipeWriteWaits(t, q)
      BY <3>2, ReadWaitsInv, WriteWaitsInv
    <3>3. CASE PipeReads(t, q) \/ PipeWrites(t, q)
      BY <3>3, ReadsInv, WritesInv
    <3>4. QED
      BY <2>1, <3>1, <3>2, <3>3 DEF PipeTurn
  <2>2. CASE Cut(t)
    <3>1. /\ state[t] = "READY" /\ call[t].op \in {"none", "read", "write"}
          /\ Return(t) /\ UNCHANGED <<files, pipes, fd, state, parent, dead>>
      BY <2>2 DEF Cut, InCall
    <3>2. QED
      BY <3>1, ReturnInv
  <2>3. CASE Inherit(t) \/ Born(t)
    BY <2>3, InheritInv, BornInv
  <2>4. ASSUME NEW f \in Files, NEW n \in Fds, Dup2(t, f, n) PROVE PipesInv'
    BY <2>4, Dup2Inv
  <2>5. QED
    BY <1>9, <2>1, <2>2, <2>3, <2>4 DEF Goes
<1>10. CASE Reaper
  BY <1>10, ReaperFindsInv, ReapSlotInv, ReapFdInv DEF Reaper
<1>11. QED
  BY <1>1, <1>2, <1>3, <1>4, <1>5, <1>6, <1>7, <1>8, <1>9, <1>10 DEF Next

\* The invariant holds in every state.
LEMMA PipesInvariant == Spec => []PipesInv
<1>1. QED
  BY InitInv, NextInv, PTL DEF Spec

\* The types, the queues among them: whoever is blocked in a read or in a write
\* is in the queue of its pipe, and nobody else is, whatever wakes or cuts it.
THEOREM PipesTyped == Spec => []TypeOK
<1>1. PipesInv => TypeOK
  BY TypeParts DEF PipesInv
<1>2. QED
  BY <1>1, PipesInvariant, PTL

\* The counts of file.c are the descriptors there are, for any number of
\* processes that fork, duplicate, close and are buried at the same time.
THEOREM EveryDescriptorIsCounted == Spec => []RefsAreDescriptors
<1>1. PipesInv => RefsAreDescriptors
  BY DEF PipesInv
<1>2. QED
  BY <1>1, PipesInvariant, PTL

\* No pipe is freed under somebody who has it open or is asleep in it.
THEOREM PipesOutlive == Spec => []PipesOutliveTheirUsers
<1>1. PipesInv => PipesOutliveTheirUsers
  <2> SUFFICES ASSUME PipesInv PROVE PipesOutliveTheirUsers
    OBVIOUS
  <2>1. ASSUME NEW f \in Files, files[f].refs > 0 PROVE pipes[files[f].p].vive
    <3>1. files[f] \in File /\ files[f].p \in Pipes
      BY DEF PipesInv, Typed, File
    <3>2. files[f].tipo \in {"F_PIPE_R", "F_PIPE_W"}
      BY <2>1, <3>1 DEF PipesInv, Ends, File
    <3>3. QED
      BY <3>1, <3>2 DEF PipesInv, Ends, IsEnd
  <2>2. ASSUME NEW t \in Procs, NEW tipo, NEW q, HasOpen(t, tipo, q), call[t].op # "dup2"
        PROVE  /\ tipo = "F_PIPE_R" => pipes[q].lectores = 1
               /\ tipo = "F_PIPE_W" => pipes[q].escritores = 1
    <3>1. PICK n \in Fds : /\ fd[t][n] # NoFile /\ files[fd[t][n]].tipo = tipo
                           /\ files[fd[t][n]].p = q
      BY <2>2 DEF HasOpen
    <3>2. fd[t][n] \in Files /\ Named(t, n) = fd[t][n]
      BY <2>2, <3>1 DEF PipesInv, Typed, Named
    <3>3. QED
      BY <3>1, <3>2, OpenIsEnd
  <2>3. ASSUME NEW t \in Procs
        PROVE  /\ call[t].op = "read"  => pipes[call[t].p].lectores = 1
               /\ call[t].op = "write" => pipes[call[t].p].escritores = 1
    BY <2>2 DEF PipesInv, Inside
  <2>4. QED
    BY <2>1, <2>3 DEF PipesOutliveTheirUsers
<1>2. QED
  BY <1>1, PipesInvariant, PTL

\* Whoever sleeps at a pipe sleeps for something that is not there and that
\* somebody may still bring, in a ring of any size.
THEOREM NobodyInVain == Spec => []NobodySleepsInVain
<1>1. PipesInv => NobodySleepsInVain
  BY DEF PipesInv
<1>2. QED
  BY <1>1, PipesInvariant, PTL
=============================================================================
