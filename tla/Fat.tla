-------------------------------- MODULE Fat --------------------------------
(***************************************************************************)
(* The writing half of the file server, user/fs.c: one FAT volume, and     *)
(* each request as the list of sectors it writes, in the order of the      *)
(* code, with a power cut (or the stick pulled out) possible between any   *)
(* two of them.  The server is one process that attends one request at a   *)
(* time and nobody else writes the volume, so what a request reads is      *)
(* computed when it arrives.                                               *)
(*                                                                         *)
(* A cluster holds SecPerClus units and a sector is one unit; a name is    *)
(* short (one entry) or long (one VFAT piece and its 8.3 entry).  Slots    *)
(* 0x00 and 0xE5 are both Blank: nothing is ever created past the first    *)
(* 0x00.  A sector that cannot be read or written is not modelled.         *)
(***************************************************************************)
EXTENDS Naturals, FiniteSets, FiniteSetsExt, Sequences, SequencesExt

CONSTANTS
    Short, Long,      \* names that fit in 8.3, names that do not
    NoName,
    Values,           \* what a unit of a file can hold
    Zero,             \* a unit nobody has written
    MaxCluster, SecPerClus, FatCopies,
    RootSlots, DirSlots,
    FirstLimit,       \* 2^16: an entry keeps 16 bits of its first cluster
    Ops,              \* the requests the clients make
    Clients,
    OpenPaths,        \* what they open to add to
    MaxUnits, MaxSize, MaxRequests   \* bounds

Names    == Short \cup Long
Root     == 0
Clusters == 2 .. MaxCluster
Free     == 0
Eoc      == MaxCluster + 1
Places   == {Root} \cup Clusters
Slots(p) == 1 .. IF p = Root THEN RootSlots ELSE DirSlots
Copies   == 1 .. FatCopies
Paths    == {<<n>> : n \in Names} \cup {<<n, m>> : n \in Names, m \in Names}
NoPath   == <<>>

ASSUME FatAssumption ==
    /\ Names # {} /\ Short \cap Long = {} /\ NoName \notin Names
    /\ Zero \notin Values /\ OpenPaths \subseteq Paths
    /\ {MaxCluster, SecPerClus, FatCopies, RootSlots, DirSlots, FirstLimit,
        MaxUnits, MaxSize, MaxRequests} \subseteq Nat \ {0}

VARIABLES
    fat,        \* the copies of the table
    dirs,       \* the entries of the root and of each cluster
    up,         \* the ".." of each cluster
    block,      \* the units of each cluster
    req, todo,  \* the request being served and the sectors it has yet to write
    tree,       \* what was under each path when it began
    hurt,       \* the request that was cut
    spilled,    \* clusters that a refused mkdir has left to nobody
    asked,      \* clients told that a file is not there, about to create it
    served      \* how many requests, up to MaxRequests

disk == <<fat, dirs, up, block>>
vars == <<disk, req, todo, tree, hurt, spilled, asked, served>>

Blank == [kind |-> "blank", name |-> NoName, first |-> 0, size |-> 0]
Entry == [kind : {"blank", "piece", "file", "dir"}, name : Names \cup {NoName},
          first : {0} \cup Clusters, size : 0 .. MaxSize]

NoReq == [op |-> "none"]

(* ------------------------------ Reading -------------------------------- *)

\* An 8.3 entry shows its long name when its piece is right before it.
Named(p, s) == \/ dirs[p][s].name \in Short
               \/ s > 1 /\ dirs[p][s - 1].kind = "piece" /\ dirs[p][s - 1].name = dirs[p][s].name

Hits(p, n, want) ==
    {s \in Slots(p) : dirs[p][s].kind \in want /\ dirs[p][s].name = n /\ Named(p, s)}

Either == {"file", "dir"}

\* The directories that hold what a path names: none or one.
Parent(path) ==
    IF Len(path) = 1 THEN {Root}
    ELSE LET h == Hits(Root, path[1], {"dir"})
         IN  IF h = {} THEN {} ELSE {dirs[Root][Min(h)].first}

Found(path, want) ==
    {<<p, s>> \in UNION {{<<p, s>> : s \in Hits(p, Last(path), want)} : p \in Parent(path)} :
        s = Min(Hits(p, Last(path), want))}

\* The clusters of a chain, which ends at Eoc or at a free cluster.
Chain(c) ==
    LET Nth[k \in 0 .. MaxCluster] ==
            IF k = 0 THEN c ELSE IF Nth[k - 1] \in Clusters THEN fat[1][Nth[k - 1]] ELSE Eoc
    IN  [k \in 1 .. Cardinality({k \in 0 .. MaxCluster : \A j \in 0 .. k : Nth[j] \in Clusters})
            |-> Nth[k - 1]]

Content(e) ==
    LET c == Chain(e.first)
    IN  IF e.size = 0 THEN <<>> ELSE
        [i \in 1 .. Min({e.size, Len(c) * SecPerClus}) |->
            block[c[(i - 1) \div SecPerClus + 1]][(i - 1) % SecPerClus]]

Look(path) ==
    LET found == Found(path, Either) IN
    IF found = {} THEN [is |-> "none", data |-> <<>>]
    ELSE LET x == CHOOSE x \in found : TRUE
             e == dirs[x[1]][x[2]]
         IN  [is |-> e.kind, data |-> IF e.kind = "dir" THEN <<>> ELSE Content(e)]

Files == [path \in Paths |-> Look(path)]

(* ------------------------- Sectors to be written ------------------------ *)

PutFat(c, v)      == [i \in Copies |-> [at |-> "fat", copy |-> i, c |-> c, v |-> v]]
PutEntry(p, s, e) == [at |-> "dir", p |-> p, s |-> s, e |-> e]
PutUp(c, p)       == [at |-> "up", c |-> c, p |-> p]
PutUnit(c, u, v)  == [at |-> "unit", c |-> c, u |-> u, v |-> v]
Empty(c)          == [at |-> "empty", c |-> c]

\* Of the first cluster the entry keeps 16 bits.
Update(e, first, size) == [e EXCEPT !.first = first % FirstLimit, !.size = size]

FreeChain(c) == FlattenSeq([k \in 1 .. Len(Chain(c)) |-> PutFat(Chain(c)[k], Free)])

\* The slot of a new entry with its writes, or none when there is no room.
Holes(p, n) == {s \in Slots(p) : /\ dirs[p][s] = Blank
                                 /\ n \in Long => s > 1 /\ dirs[p][s - 1] = Blank}
New(p, n, kind) ==
    LET s == Min(Holes(p, n))
        e == [Blank EXCEPT !.kind = kind, !.name = n]
    IN  [s |-> s, e |-> e,
         ws |-> (IF n \in Long THEN <<PutEntry(p, s - 1, [e EXCEPT !.kind = "piece"])>> ELSE <<>>)
                 \o <<PutEntry(p, s, e)>>]

\* The pieces go from the last one back, then the entry.
Erase(p, s) ==
    LET mine == {k \in 1 .. s - 1 : \A j \in k .. s - 1 :
                    dirs[p][j].kind = "piece" /\ dirs[p][j].name = dirs[p][s].name}
    IN  [k \in 1 .. Cardinality(mine) |-> PutEntry(p, s - k, Blank)] \o <<PutEntry(p, s, Blank)>>

Refused == [ok |-> FALSE, spill |-> {}, ws |-> <<>>]
Done(ws) == [ok |-> TRUE, spill |-> {}, ws |-> ws]

(* ------------------------------ Requests -------------------------------- *)

\* One unit of a write, in acc: the chain so far, the writes, the entry.
PutNext(acc, p, s, at, v) ==
    LET k    == at \div SecPerClus
        unit == PutUnit(acc.chain[k + 1], at % SecPerClus, v)
        free == {c \in Clusters : fat[1][c] = Free} \ Range(acc.chain)
        c    == Min(free)
        e    == Update(acc.e, c, acc.e.size)
    IN  IF ~acc.ok THEN acc
        ELSE IF k < Len(acc.chain) THEN [acc EXCEPT !.ws = Append(@, unit)]
        ELSE IF free = {} THEN [acc EXCEPT !.ok = FALSE]
        ELSE IF acc.chain = <<>>
        THEN [acc EXCEPT !.chain = <<c>>, !.e = e,
                         !.ws = @ \o PutFat(c, Eoc)
                                  \o <<PutEntry(p, s, e), PutUnit(c, at % SecPerClus, v)>>]
        ELSE [acc EXCEPT !.chain = Append(@, c),
                         !.ws = @ \o PutFat(c, Eoc) \o PutFat(Last(acc.chain), c)
                                  \o <<PutUnit(c, at % SecPerClus, v)>>]

\* Mutant: the size before what it counts.
PutUnitsSizeFirst(p, s, e, pre, off, n, v) ==
    LET size == IF off + n > e.size THEN off + n ELSE e.size
        acc == FoldLeft(LAMBDA a, i : PutNext(a, p, s, off + i - 1, v),
                        [ok |-> TRUE, chain |-> Chain(e.first), e |-> [e EXCEPT !.size = size],
                         ws |-> pre \o <<PutEntry(p, s, [e EXCEPT !.size = size])>>],
                        [i \in 1 .. n |-> i])
    IN  [ok |-> acc.ok, spill |-> {}, ws |-> acc.ws]

\* The table, then the data, and the size the last thing of all.
PutUnits(p, s, e, pre, off, n, v) ==
    LET acc == FoldLeft(LAMBDA a, i : PutNext(a, p, s, off + i - 1, v),
                        [ok |-> TRUE, chain |-> Chain(e.first), ws |-> pre, e |-> e],
                        [i \in 1 .. n |-> i])
    IN  [ok |-> acc.ok, spill |-> {},
         ws |-> acc.ws \o IF acc.ok /\ off + n > e.size
                          THEN <<PutEntry(p, s, [acc.e EXCEPT !.size = off + n])>> ELSE <<>>]

FicheroEscribir(r) ==
    IF Found(r.a, {"file"}) # {}
    THEN LET x == CHOOSE x \in Found(r.a, {"file"}) : TRUE
             e == dirs[x[1]][x[2]]
         IN  PutUnits(x[1], x[2], e, <<>>, IF r.add THEN e.size ELSE 0, r.n, r.v)
    ELSE IF \E p \in Parent(r.a) : Holes(p, Last(r.a)) # {}
    THEN LET p == CHOOSE p \in Parent(r.a) : TRUE
             x == New(p, Last(r.a), "file")
         IN  PutUnits(p, x.s, x.e, x.ws, 0, r.n, r.v)
    ELSE Refused

FicheroCrear(r) ==
    IF Found(r.a, {"file"}) # {}
    THEN LET x == CHOOSE x \in Found(r.a, {"file"}) : TRUE
             e == dirs[x[1]][x[2]]
         IN  Done(FreeChain(e.first) \o <<PutEntry(x[1], x[2], Update(e, 0, 0))>>)
    ELSE IF \E p \in Parent(r.a) : Holes(p, Last(r.a)) # {}
    THEN Done(New(CHOOSE p \in Parent(r.a) : TRUE, Last(r.a), "file").ws)
    ELSE Refused

DirNuevo(r) ==
    LET free == {c \in Clusters : fat[1][c] = Free}
        c    == Min(free)
        p    == CHOOSE p \in Parent(r.a) : TRUE
        x    == New(p, Last(r.a), "dir")
        own  == PutFat(c, Eoc) \o <<Empty(c), PutUp(c, p)>>
    IN  IF Parent(r.a) = {} \/ Found(r.a, Either) # {} \/ free = {} THEN Refused
        ELSE IF Holes(p, Last(r.a)) = {} THEN [ok |-> FALSE, spill |-> {c}, ws |-> own]
        ELSE Done(own \o x.ws \o <<PutEntry(p, x.s, Update(x.e, c, 0))>>)

DirVacio(p) == \A s \in Slots(p) : dirs[p][s].kind \notin Either

\* Mutant: as fichero_borrar does it.
DirBorrarChainFirst(r) ==
    LET x == CHOOSE x \in Found(r.a, {"dir"}) : TRUE
        c == dirs[x[1]][x[2]].first
    IN  IF Found(r.a, {"dir"}) = {} THEN Refused
        ELSE IF ~DirVacio(c) THEN Refused
        ELSE Done(FreeChain(c) \o Erase(x[1], x[2]))

\* The entry first and the chain afterwards.
DirBorrar(r) ==
    LET x == CHOOSE x \in Found(r.a, {"dir"}) : TRUE
        c == dirs[x[1]][x[2]].first
    IN  IF Found(r.a, {"dir"}) = {} THEN Refused
        ELSE IF ~DirVacio(c) THEN Refused
        ELSE Done(Erase(x[1], x[2]) \o FreeChain(c))

\* Mutant: the chain stays.
FicheroBorrarEntryOnly(r) ==
    LET x == CHOOSE x \in Found(r.a, {"file"}) : TRUE
    IN  IF Found(r.a, {"dir"}) # {} \/ Found(r.a, {"file"}) = {} THEN Refused
        ELSE Done(Erase(x[1], x[2]))

\* The chain first and the entry afterwards.
FicheroBorrar(r) ==
    LET x == CHOOSE x \in Found(r.a, {"file"}) : TRUE
    IN  IF Found(r.a, {"dir"}) # {} \/ Found(r.a, {"file"}) = {} THEN Refused
        ELSE Done(FreeChain(dirs[x[1]][x[2]].first) \o Erase(x[1], x[2]))

\* A directory and the sixteen above it.
Above(p) ==
    LET Nth[k \in 0 .. 15] ==
            IF k = 0 THEN p ELSE IF Nth[k - 1] = Root THEN Root ELSE up[Nth[k - 1]]
    IN  {Nth[k] : k \in 0 .. 15}

\* Mutant: the old entry goes first.
MoverOldFirst(r) ==
    LET x == CHOOSE x \in Found(r.a, Either) : TRUE
        e == dirs[x[1]][x[2]]
        p == CHOOSE p \in Parent(r.b) : TRUE
        y == New(p, Last(r.b), e.kind)
    IN  IF Parent(r.b) = {} \/ Found(r.a, Either) = {} \/ Found(r.b, Either) # {} THEN Refused
        ELSE IF e.kind = "dir" /\ e.first \in Above(p) \ {Root} THEN Refused
        ELSE IF Holes(p, Last(r.b)) = {} THEN Refused
        ELSE Done(Erase(x[1], x[2])
                  \o (IF e.kind = "dir" /\ x[1] # p THEN <<PutUp(e.first, p)>> ELSE <<>>)
                  \o y.ws \o <<PutEntry(p, y.s, Update(y.e, e.first, e.size))>>)

\* The new entry first and the old one afterwards.
Mover(r) ==
    LET x == CHOOSE x \in Found(r.a, Either) : TRUE
        e == dirs[x[1]][x[2]]
        p == CHOOSE p \in Parent(r.b) : TRUE
        y == New(p, Last(r.b), e.kind)
    IN  IF Parent(r.b) = {} \/ Found(r.a, Either) = {} \/ Found(r.b, Either) # {} THEN Refused
        ELSE IF e.kind = "dir" /\ e.first \in Above(p) \ {Root} THEN Refused
        ELSE IF Holes(p, Last(r.b)) = {} THEN Refused
        ELSE Done(y.ws \o <<PutEntry(p, y.s, Update(y.e, e.first, e.size))>>
                  \o (IF e.kind = "dir" /\ x[1] # p THEN <<PutUp(e.first, p)>> ELSE <<>>)
                  \o Erase(x[1], x[2]))

Journal(r) ==
    CASE r.op = "write"  -> FicheroEscribir(r)
      [] r.op = "create" -> FicheroCrear(r)
      [] r.op = "mkdir"  -> DirNuevo(r)
      [] r.op = "rmdir"  -> DirBorrar(r)
      [] r.op = "delete" -> FicheroBorrar(r)
      [] r.op = "rename" -> Mover(r)

(* ------------------------------ The server ------------------------------ *)

\* A volume just formatted, and one that is full: a short name with a file
\* of two clusters and a long one with a directory.
Formatted == [fat |-> [c \in Clusters |-> Free], root |-> [s \in Slots(Root) |-> Blank],
         block |-> [c \in Clusters |-> [u \in 0 .. SecPerClus - 1 |-> Zero]]]

Used ==
    LET n == CHOOSE n \in Short : TRUE
        l == CHOOSE l \in Long : TRUE
    IN  [fat |-> [c \in Clusters |-> IF c = 2 THEN 3 ELSE Eoc],
         root |-> [s \in Slots(Root) |->
                      CASE s = 1 -> [kind |-> "file", name |-> n, first |-> 2, size |-> SecPerClus + 1]
                        [] s = 2 -> [Blank EXCEPT !.kind = "piece", !.name = l]
                        [] s = 3 -> [Blank EXCEPT !.kind = "dir", !.name = l, !.first = 4]
                        [] OTHER -> Blank],
         block |-> [c \in Clusters |-> [u \in 0 .. SecPerClus - 1 |-> Zero]]]

Init ==
    /\ \E x \in {Formatted} \cup (IF MaxCluster = 4 /\ RootSlots > 2 THEN {Used} ELSE {}) :
          /\ fat = [i \in Copies |-> x.fat]
          /\ dirs = [p \in Places |-> IF p = Root THEN x.root ELSE [s \in Slots(p) |-> Blank]]
          /\ block = x.block
    /\ up = [c \in Clusters |-> Root]
    /\ req = NoReq /\ todo = <<>>
    /\ tree = Files
    /\ hurt = "none"
    /\ spilled = {}
    /\ asked = [c \in Clients |-> NoPath]
    /\ served = 0

\* Cuts after which the volume is still sound; what is done with the others
\* before they are repaired is not explored.
Harmless == {"none", "write", "create", "rmdir"}

Serves(r) ==
    /\ req = NoReq /\ hurt \in Harmless
    /\ served < MaxRequests /\ served' = served + 1
    /\ LET j == Journal(r)
       IN  /\ req' = r @@ [ok |-> j.ok, spill |-> j.spill]
           /\ todo' = j.ws
    /\ tree' = Files
    /\ UNCHANGED <<disk, hurt, spilled>>

Request(op, a, b) == [op |-> op, a |-> a, b |-> b]

\* O_ESCRIBIR and unlink, mkdir and rmdir: one request.
Asks(op, path) ==
    /\ op \in Ops
    /\ op = "create" => Look(path).is # "dir"
    /\ Serves(Request(op, path, path))
    /\ UNCHANGED asked

\* A descriptor: what it writes was there when it was opened, and is not
\* any more only if somebody has deleted it or moved it.
Writes(path, add, n, v) ==
    /\ "write" \in Ops
    /\ Look(path).is # "dir"
    /\ Look(path).is = "none" => {"delete", "rename"} \cap Ops # {}
    /\ (IF add THEN Len(Look(path).data) ELSE 0) + n <= MaxSize
    /\ Serves(Request("write", path, path) @@ [add |-> add, n |-> n, v |-> v])
    /\ UNCHANGED asked

\* A directory that is not empty is only moved to the root: paths have two
\* names at most.
Renames(a, b) ==
    /\ "rename" \in Ops
    /\ Len(b) = 2 => \A q \in Paths : Len(q) = 2 /\ q[1] = Last(a) /\ Len(a) = 1 => Look(q).is = "none"
    /\ Serves(Request("rename", a, b))
    /\ UNCHANGED asked

\* O_ANYADIR asks first...
AsksSize(c, path) ==
    /\ req = NoReq /\ hurt \in Harmless
    /\ served < MaxRequests
    /\ asked[c] = NoPath /\ Look(path).is = "none"
    /\ asked' = [asked EXCEPT ![c] = path]
    /\ UNCHANGED <<disk, req, todo, tree, hurt, spilled, served>>

\* ... and creates what it has been told is not there.
OpenCreates(c) ==
    /\ asked[c] # NoPath
    /\ Look(asked[c]).is # "dir"
    /\ Serves(Request("create", asked[c], asked[c]))
    /\ asked' = [asked EXCEPT ![c] = NoPath]

Escribir ==
    /\ todo # <<>>
    /\ todo' = Tail(todo)
    /\ LET w == Head(todo) IN
       /\ fat' = IF w.at = "fat" THEN [fat EXCEPT ![w.copy][w.c] = w.v] ELSE fat
       /\ dirs' = CASE w.at = "dir"   -> [dirs EXCEPT ![w.p][w.s] = w.e]
                    [] w.at = "empty" -> [dirs EXCEPT ![w.c] = [s \in Slots(w.c) |-> Blank]]
                    [] OTHER -> dirs
       /\ up' = IF w.at = "up" THEN [up EXCEPT ![w.c] = w.p] ELSE up
       /\ block' = IF w.at = "unit" THEN [block EXCEPT ![w.c][w.u] = w.v] ELSE block
    /\ UNCHANGED <<req, tree, hurt, spilled, asked, served>>

Responder ==
    /\ req # NoReq /\ todo = <<>>
    /\ req' = NoReq
    /\ tree' = Files
    /\ spilled' = spilled \cup req.spill
    /\ UNCHANGED <<disk, todo, hurt, asked, served>>

\* The power goes, or the stick: what was not written never will be.
Cut ==
    /\ req # NoReq /\ hurt = "none"
    /\ hurt' = IF req.op = "create" /\ tree[req.a].is # "none" THEN "truncate" ELSE req.op
    /\ req' = NoReq /\ todo' = <<>>
    /\ tree' = Files
    /\ asked' = [c \in Clients |-> NoPath]
    /\ UNCHANGED <<disk, spilled, served>>

Next ==
    \/ \E op \in {"create", "mkdir", "rmdir", "delete"}, path \in Paths : Asks(op, path)
    \/ \E path \in Paths, add \in BOOLEAN, n \in 1 .. MaxUnits, v \in Values :
          Writes(path, add, n, v)
    \/ \E a \in Paths, b \in Paths : Renames(a, b)
    \/ \E c \in Clients, path \in OpenPaths : AsksSize(c, path)
    \/ \E c \in Clients : OpenCreates(c)
    \/ Escribir
    \/ Responder
    \/ Cut

Spec == Init /\ [][Next]_vars

(* ------------------------------ Properties ------------------------------ *)

\* Tables, entries and what is pending have the shape of the volume.
TypeOK ==
    /\ fat \in [Copies -> [Clusters -> {Free, Eoc} \cup Clusters]]
    /\ \A p \in Places : dirs[p] \in [Slots(p) -> Entry]
    /\ up \in [Clusters -> Places]
    /\ block \in [Clusters -> [0 .. SecPerClus - 1 -> Values \cup {Zero}]]
    /\ req.op \in {"none", "write", "create", "mkdir", "rmdir", "delete", "rename"}
    /\ todo # <<>> => req # NoReq
    /\ spilled \subseteq Clusters
    /\ asked \in [Clients -> Paths \cup {NoPath}]
    /\ served \in 0 .. MaxRequests

Reachable ==
    {Root} \cup {dirs[Root][s].first : s \in {s \in Slots(Root) : dirs[Root][s].kind = "dir"}}
Entries == UNION {{<<p, s>> : s \in {s \in Slots(p) : dirs[p][s].kind \in Either}} : p \in Reachable}
ChainOf(x) == Range(Chain(dirs[x[1]][x[2]].first))

Sound == req = NoReq /\ hurt \in Harmless

\* No cluster is in two chains, and none that is in a chain can be given out
\* again (alloc_cluster, free_chain): neither after any requests nor after
\* a cut of those whose order is right.
EveryClusterHasOneOwner ==
    Sound => /\ \A x, y \in Entries : x # y => ChainOf(x) \cap ChainOf(y) = {}
             /\ \A x \in Entries : \A c \in ChainOf(x) : fat[1][c] # Free

\* As long as nothing has been cut, every cluster in use is in the chain of
\* somebody (free_chain gives back all of them), but those that dir_nuevo
\* had already taken when it found the directory full.
NothingIsLost ==
    req = NoReq /\ hurt = "none" =>
        {c \in Clusters : fat[1][c] # Free} = UNION {ChainOf(x) : x \in Entries} \cup spilled

\* fat_set keeps the copies of the table equal between requests.
CopiesAgree == req = NoReq /\ hurt = "none" => \A i \in Copies : fat[i] = fat[1]

\* At any moment of any request that does not empty or delete, and after it
\* is cut, a file's chain is long enough for its size (fichero_escribir
\* writes the size the last).
SizeIsThere ==
    hurt \notin {"delete", "truncate"} =>
        \A x \in Entries :
            \/ req.op \in {"delete", "create"}
            \/ Cardinality(ChainOf(x)) * SecPerClus >= dirs[x[1]][x[2]].size

\* Every request answered FS_OK has been done whole and nothing else has
\* changed; a refused one has changed nothing; one that is cut only spoils
\* what it names, and within what the comments of mover and fichero_escribir
\* accept.
Promise == INSTANCE FileTree WITH
    tree  <- IF req = NoReq THEN Files ELSE tree,
    asked <- req
KeepsItsPromise == Promise!Spec

\* Of two processes that open the same file to add to it, neither destroys
\* what the other has added (the comment of file_open, src/file.c): with
\* nobody else about, a file never gets shorter.  It does not hold: the size is
\* asked for in one request and used in another.
AppendersOnlyAdd == [][\A p \in Paths : Len(Look(p).data) <= Len(Look(p)'.data)]_vars
===========================================================================
