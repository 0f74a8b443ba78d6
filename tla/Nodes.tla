------------------------------- MODULE Nodes -------------------------------
(***************************************************************************)
(* The inode cache of the path based interface of libfuse (lib/fuse.c):    *)
(* struct node with its name, reference counts and tree lock, and the      *)
(* functions that look nodes up, create, unlink, rename and delete them,   *)
(* and that lock the way from a node to the root.  All of them run under   *)
(* f->lock, so each is an operator on the whole cache N, a function from   *)
(* the ids of the live nodes to records.  The two hash tables are kept     *)
(* apart (module NodeTable); here a lookup is by what the tables promise.  *)
(* obj is a history field: the object of the file system below the node    *)
(* was made for.                                                           *)
(***************************************************************************)
EXTENDS Integers, Sequences, SequencesExt

CONSTANT MaxNodes   \* bound: ids in use at the same time

\* FUSE_ROOT_ID, a NULL pointer, and the absent name
Root == 1
None == 0
NoName == <<>>

\* A path string that was not obtained (NULL)
NoPath == << <<>> >>

\* Values of treelock: n > 0 readers, WRITE, or readers + WAIT_OFFSET when a
\* writer waits for them.  WAIT_OFFSET is INT_MIN; any value below minus the
\* number of readers behaves as it does.
TREELOCK_WRITE == -1
TREELOCK_WAIT_OFFSET == -100

OK == "ok"
ENOENT == "ENOENT"
EAGAIN == "EAGAIN"
EBUSY == "EBUSY"

Ids == 1..MaxNodes

\* struct node, as alloc_node leaves it
NewNode == [parent |-> None, name |-> NoName, refctr |-> 0, nlookup |-> 0,
            open_count |-> 0, is_hidden |-> FALSE, treelock |-> 0, obj |-> None]

inc_nlookup(r) ==
    [r EXCEPT !.refctr = @ + (IF r.nlookup = 0 THEN 1 ELSE 0), !.nlookup = @ + 1]

\* The cache of a new file system: the root, known to the kernel from the start
RootOnly(obj) == Root :> inc_nlookup([NewNode EXCEPT !.name = <<"/">>, !.obj = obj])

lookup_node(N, dir, name) ==
    LET S == {n \in DOMAIN N : n # Root /\ N[n].parent = dir /\ N[n].name = name}
    IN  IF S = {} THEN None ELSE CHOOSE n \in S : TRUE

\* The nodes from n up to, and without, the root; the last one is nameless
\* when n is no longer connected to the root
Up(N, n) ==
    LET up[m \in DOMAIN N \cup {None}] ==
            IF m \in {Root, None} THEN <<>> ELSE <<m>> \o up[N[m].parent]
    IN  up[n]

Connected(N, n) == \A i \in DOMAIN Up(N, n) : N[Up(N, n)[i]].name # NoName

\* The string add_name puts together on the way up, name by name
PathOf(N, n) == Reverse([i \in DOMAIN Up(N, n) |-> N[Up(N, n)[i]].name])

With(path, name) == IF name = NoName THEN path ELSE Append(path, name)
-----------------------------------------------------------------------------
(* Reference counts.  Deleting a node gives up its reference to the parent, *)
(* so the loss of one reference can run all the way up.                     *)

unref_node(N, n) ==
    LET Drop(acc, m) ==
            IF ~acc.go THEN acc
            ELSE IF acc.N[m].refctr > 1
            THEN [go |-> FALSE, N |-> [acc.N EXCEPT ![m].refctr = @ - 1]]
            ELSE [go |-> TRUE, N |-> [k \in DOMAIN acc.N \ {m} |-> acc.N[k]]]
    IN  FoldLeft(Drop, [go |-> TRUE, N |-> N],
                 Up(N, n) \o (IF Connected(N, n) THEN <<Root>> ELSE <<>>)).N

unhash_name(N, n) ==
    IF N[n].name = NoName THEN N
    ELSE unref_node([N EXCEPT ![n].parent = None, ![n].name = NoName], N[n].parent)

hash_name(N, n, dir, name) ==
    [N EXCEPT ![dir].refctr = @ + 1, ![n].parent = dir, ![n].name = name]

\* find_node: the node of a name, made when there is none; either way the
\* kernel holds one more lookup of it
find_node(N, dir, name, obj) ==
    LET old == lookup_node(N, dir, name)
        new == CHOOSE i \in Ids \ DOMAIN N : \A j \in Ids \ DOMAIN N : i <= j
    IN  IF old # None
        THEN [n |-> old, N |-> [N EXCEPT ![old] = inc_nlookup(@)]]
        ELSE [n |-> new,
              N |-> hash_name(N @@ (new :> inc_nlookup([NewNode EXCEPT !.obj = obj])),
                              new, dir, name)]

\* forget_node, once nothing holds a lock on the node
drop_nlookup(N, n, k) ==
    LET N1 == [N EXCEPT ![n].nlookup = @ - k]
    IN  IF N1[n].nlookup = 0 THEN unref_node(N1, n) ELSE N1

remove_node(N, dir, name) ==
    LET n == lookup_node(N, dir, name) IN IF n = None THEN N ELSE unhash_name(N, n)

rename_node(N, olddir, oldname, newdir, newname, hide) ==
    LET node == lookup_node(N, olddir, oldname)
        newnode == lookup_node(N, newdir, newname)
        N1 == IF newnode = None THEN N ELSE unhash_name(N, newnode)
        N2 == hash_name(unhash_name(N1, node), node, newdir, newname)
    IN  CASE node = None -> [err |-> OK, N |-> N]
          [] node # None /\ newnode # None /\ hide -> [err |-> EBUSY, N |-> N]
          [] OTHER -> [err |-> OK,
                       N |-> IF hide THEN [N2 EXCEPT ![node].is_hidden = TRUE] ELSE N2]

exchange_node(N, olddir, oldname, newdir, newname) ==
    LET o == lookup_node(N, olddir, oldname)
        w == lookup_node(N, newdir, newname)
        N1 == IF o = None THEN N ELSE unhash_name(N, o)
        N2 == IF w = None THEN N1 ELSE unhash_name(N1, w)
        N3 == IF o = None THEN N2 ELSE hash_name(N2, o, newdir, newname)
    IN  IF w = None THEN N3 ELSE hash_name(N3, w, olddir, oldname)
-----------------------------------------------------------------------------
(* Locking a path: every node on the way is locked for reading, and for an  *)
(* operation that removes or moves name its node for writing.               *)

\* The asserts of unlock_path
Unlockable(N, n, wnode) ==
    /\ wnode # None => wnode \in DOMAIN N /\ N[wnode].treelock = TREELOCK_WRITE
    /\ n \in DOMAIN N
    /\ \A i \in DOMAIN Up(N, n) :
          N[Up(N, n)[i]].treelock \notin {0, TREELOCK_WAIT_OFFSET, TREELOCK_WRITE}

unlock_path(N, n, wnode) ==
    LET up == ToSet(Up(N, n))
        Less(l) == IF l - 1 = TREELOCK_WAIT_OFFSET THEN 0 ELSE l - 1
    IN  [m \in DOMAIN N |->
            [N[m] EXCEPT !.treelock = IF m = wnode THEN 0
                                      ELSE IF m \in up THEN Less(@) ELSE @]]

\* try_get_path with need_lock.  A writer that finds readers adds WAIT_OFFSET
\* to their count, which turns further readers away until they have left.
try_get_path(N, n, name, wr) ==
    LET wnode == IF wr THEN lookup_node(N, n, name) ELSE None
        up == Up(N, n)
        Fail(e, M) == [err |-> e, N |-> M, path |-> NoPath, w |-> None]
        Locked(m) == m = wnode \/ N[m].treelock < 0
        Take == [m \in DOMAIN N |->
                    [N[m] EXCEPT !.treelock =
                        IF m = wnode THEN TREELOCK_WRITE
                        ELSE IF m \in ToSet(up) THEN @ + 1 ELSE @]]
    IN  IF wnode # None /\ N[wnode].treelock # 0
        THEN Fail(EAGAIN, [N EXCEPT ![wnode].treelock =
                              IF @ > 0 THEN @ + TREELOCK_WAIT_OFFSET ELSE @])
        ELSE IF \E i \in DOMAIN up : N[up[i]].name # NoName /\ Locked(up[i])
        THEN Fail(EAGAIN, N)
        ELSE IF ~Connected(N, n)
        THEN Fail(ENOENT, N)
        ELSE [err |-> OK, N |-> Take, path |-> With(PathOf(N, n), name), w |-> wnode]

\* try_get_path2: both paths or, apart from the mark of a waiting writer, none
try_get_path2(N, n1, name1, n2, name2, wr) ==
    LET Neither(e, M) == [err |-> e, N |-> M, p1 |-> NoPath, p2 |-> NoPath, w1 |-> None, w2 |-> None]
        Second(a, b) ==
            IF b.err # OK THEN Neither(b.err, unlock_path(b.N, n1, a.w))
            ELSE [err |-> OK, N |-> b.N, p1 |-> a.path, p2 |-> b.path, w1 |-> a.w, w2 |-> b.w]
        First(a) ==
            IF a.err # OK THEN Neither(a.err, a.N) ELSE Second(a, try_get_path(a.N, n2, name2, wr))
    IN  First(try_get_path(N, n1, name1, wr))
=============================================================================
