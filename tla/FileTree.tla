----------------------------- MODULE FileTree -----------------------------
(***************************************************************************)
(* What the file server of user/fs.c promises to whoever sends it          *)
(* requests: a tree of files and directories on which each request is one  *)
(* step, is done whole when the answer is FS_OK, and touches nothing but   *)
(* what it names.  A power cut in the middle of a request may spoil what   *)
(* that request names, within what the comments of the server accept, and  *)
(* nothing else.                                                           *)
(*                                                                         *)
(* A path is a sequence of names; tree says of every path what is there.   *)
(***************************************************************************)
EXTENDS Naturals, Sequences, SequencesExt

CONSTANTS Paths, Values

VARIABLES tree,     \* what there is under each path
          asked     \* the request being served, with the answer it will get

Nothing   == [is |-> "none", data |-> <<>>]
Directory == [is |-> "dir", data |-> <<>>]
File(s)   == [is |-> "file", data |-> s]

Idle == [op |-> "none"]

Below(p)    == {q \in Paths : Len(q) > Len(p) /\ IsPrefix(p, q)}
Touched(r)  == UNION {{p} \cup Below(p) : p \in {r.a, r.b}} \cap Paths
Exists(p)   == tree[p].is # "none"
HasParent(p) == Len(p) = 1 \/ tree[Front(p)].is = "dir"
Moved(p, r) == r.a \o SubSeq(p, Len(r.b) + 1, Len(p))

\* The units of a file after n units of v have been put at off.
Written(s, off, n, v) ==
    [i \in 1 .. (IF off + n > Len(s) THEN off + n ELSE Len(s)) |->
        IF i > off /\ i <= off + n THEN v ELSE s[i]]

At(r) == IF r.add THEN Len(tree[r.a].data) ELSE 0

\* When a request may be answered FS_OK...
Allowed(r) ==
    /\ HasParent(r.a)
    /\ CASE r.op \in {"write", "create"} -> tree[r.a].is # "dir"
         [] r.op = "mkdir"  -> ~Exists(r.a)
         [] r.op = "delete" -> tree[r.a].is = "file"
         [] r.op = "rmdir"  -> tree[r.a].is = "dir" /\ \A q \in Below(r.a) : ~Exists(q)
         [] r.op = "rename" -> /\ Exists(r.a) /\ ~Exists(r.b) /\ HasParent(r.b)
                               /\ r.b \notin Below(r.a)

\* ... and what is there afterwards.
After(r) ==
    CASE r.op = "write"  -> [tree EXCEPT ![r.a] = File(Written(@.data, At(r), r.n, r.v))]
      [] r.op = "create" -> [tree EXCEPT ![r.a] = File(<<>>)]
      [] r.op = "mkdir"  -> [tree EXCEPT ![r.a] = Directory]
      [] r.op \in {"delete", "rmdir"} -> [tree EXCEPT ![r.a] = Nothing]
      [] r.op = "rename" ->
           [p \in Paths |-> CASE p = r.b \/ p \in Below(r.b) ->
                                   IF Moved(p, r) \in Paths THEN tree[Moved(p, r)] ELSE Nothing
                              [] p = r.a \/ p \in Below(r.a) -> Nothing
                              [] OTHER -> tree[p]]

Elsewhere(r) == \A p \in Paths \ Touched(r) : tree'[p] = tree[p]

\* A write that is cut or does not fit may have made the file and changed
\* what was overwritten; what is added counts only when it is whole.
HalfWritten(r) ==
    /\ tree'[r.a].is = "file" \/ tree'[r.a] = tree[r.a]
    /\ \/ tree' = After(r)
       \/ /\ Len(tree'[r.a].data) = Len(tree[r.a].data)
          /\ r.add => tree'[r.a].data = tree[r.a].data

\* A request that is cut in a rename leaves what it moves under one of the
\* two names at least; one that is cut in a rmdir leaves the directory or not.
Half(r) ==
    CASE r.op = "write" -> HalfWritten(r)
      [] r.op = "rename" -> \/ tree'[r.a] = tree[r.a]
                            \/ \A q \in {r.b} \cup Below(r.b) :
                                  Moved(q, r) \in Paths => tree'[q] = tree[Moved(q, r)]
      [] r.op = "rmdir" -> tree' \in {tree, After(r)}
      [] OTHER -> TRUE

\* Any volume in which everything hangs from a directory.
Init == /\ DOMAIN tree = Paths
        /\ \A p \in Paths : Exists(p) => HasParent(p)
        /\ asked = Idle

Ask == /\ asked = Idle
       /\ asked' # Idle
       /\ UNCHANGED tree

Answer ==
    /\ asked # Idle
    /\ asked' = Idle
    /\ Elsewhere(asked)
    /\ IF asked.ok THEN Allowed(asked) /\ tree' = After(asked)
       ELSE /\ asked.op \in {"delete", "rmdir"} => ~Allowed(asked)   \* they need no room
            /\ IF asked.op = "write" THEN HalfWritten(asked) ELSE tree' = tree

Interrupted ==
    /\ asked # Idle
    /\ asked' = Idle
    /\ Elsewhere(asked)
    /\ Half(asked)

Next == Ask \/ Answer \/ Interrupted

vars == <<tree, asked>>

Spec == Init /\ [][Next]_vars
===========================================================================
