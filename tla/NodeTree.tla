------------------------------ MODULE NodeTree ------------------------------
(***************************************************************************)
(* Requests of the kernel handled by several threads of libfuse: the       *)
(* fuse_lib_* handlers of lib/fuse.c over the node cache of module Nodes,  *)
(* at the grain of f->lock.  A handler obtains its path or waits in        *)
(* f->lockq, calls the file system below, updates the cache, frees the     *)
(* path (which hands it to the waiters) and replies.  The file system      *)
(* below (fs) and the kernel (klook, kopen, dent) are external: the kernel *)
(* keeps what it was told, locks the directories an operation changes, and *)
(* does not forget what it uses.                                           *)
(***************************************************************************)
EXTENDS Nodes, FiniteSets, FiniteSetsExt

CONSTANTS
    Threads,      \* worker threads
    Names,        \* names the kernel uses
    InitFs,       \* paths of the file system below and their objects
    MaxObjects,   \* bound: objects of the file system below, over all time
    MaxOpens,     \* bound: open files of a node at the same time
    MaxHides,     \* bound: values of hidectr
    Configs       \* what conf may be

VARIABLES
    conf,    \* f->conf (nullpath_ok, hard_remove) and the kinds of request asked
    nodes,   \* the node cache
    lockq,   \* f->lockq, threads in the order they queued
    thr,     \* what each thread is doing
    hidectr, \* f->hidectr
    fs,      \* external: path |-> object <<number, kind>>
    made,    \* external: objects made so far
    klook,   \* external: lookups the kernel holds of a node
    kopen,   \* external: open files the kernel holds of a node
    dent,    \* external: the kernel's entries <<directory, name, node>>
    panic    \* an assert or abort() of the library was reached

lib == <<conf, nodes, lockq, thr, hidectr>>
kern == <<klook, kopen, dent>>
vars == <<lib, fs, made, kern, panic>>

Idle == [op |-> "none", pc |-> "idle", to |-> "idle",
         n1 |-> None, x1 |-> NoName, n2 |-> None, x2 |-> NoName,
         wr |-> FALSE, two |-> FALSE,
         p1 |-> NoPath, p2 |-> NoPath, w1 |-> None, w2 |-> None,
         l1 |-> FALSE, l2 |-> FALSE, done |-> FALSE, err |-> OK,
         res |-> None, obj |-> <<>>, hn |-> NoName, nullok |-> FALSE, replied |-> FALSE]

Init ==
    /\ conf \in Configs
    /\ nodes = RootOnly(InitFs[<<>>])
    /\ lockq = <<>>
    /\ thr = [t \in Threads |-> Idle]
    /\ hidectr = 0
    /\ fs = InitFs
    /\ made = Cardinality(DOMAIN InitFs)
    /\ klook = [n \in Ids |-> 0]
    /\ kopen = [n \in Ids |-> 0]
    /\ dent = {}
    /\ panic = FALSE
-----------------------------------------------------------------------------
(* The queue of requests that wait for a path *)

queue_element_unlock(N, q) ==
    LET N1 == IF q.l1 THEN unlock_path(N, q.n1, q.w1) ELSE N
    IN  IF q.l2 THEN unlock_path(N1, q.n2, q.w2) ELSE N1

Unlocked(q) == [q EXCEPT !.l1 = FALSE, !.l2 = FALSE, !.p1 = NoPath, !.p2 = NoPath,
                         !.w1 = None, !.w2 = None]

queue_element_wakeup(S, t) ==
    LET q == S.T[t]
        Set(N, r) == [S EXCEPT !.N = N, !.T[t] = r]
        Missing(N, r) == Set(queue_element_unlock(N, r),
                             [Unlocked(r) EXCEPT !.done = TRUE, !.err = ENOENT])
        Tried(N, r) ==      \* both paths have been tried
            IF r.l1 /\ (r.l2 \/ ~q.two)
            THEN Set(N, [r EXCEPT !.done = TRUE, !.err = OK])
            ELSE IF t # lockq[1]    \* only the first may keep one of its paths
            THEN Set(queue_element_unlock(N, r), Unlocked(r))
            ELSE Set(N, r)
        Second(r, b) ==
            CASE b.err = ENOENT -> Missing(b.N, r)
              [] b.err = EAGAIN -> Tried(b.N, r)
              [] b.err = OK -> Tried(b.N, [r EXCEPT !.l2 = TRUE, !.p2 = b.path, !.w2 = b.w])
        ThenSecond(N, r) ==
            IF q.two /\ ~q.l2 THEN Second(r, try_get_path(N, q.n2, q.x2, q.wr))
            ELSE Tried(N, r)
        First(a) ==
            CASE a.err = ENOENT -> Missing(a.N, q)
              [] a.err = EAGAIN -> ThenSecond(a.N, q)
              [] a.err = OK -> ThenSecond(a.N, [q EXCEPT !.l1 = TRUE, !.p1 = a.path, !.w1 = a.w])
    IN  IF q.op = "forget" \/ q.pc = "fwait"
        THEN IF S.N[q.res].treelock = 0 THEN Set(S.N, [q EXCEPT !.done = TRUE]) ELSE S
        ELSE IF q.l1 THEN ThenSecond(S.N, q)
        ELSE First(try_get_path(S.N, q.n1, q.x1, q.wr))

\* Mutant of wake_up_queued: the waiters are not told
wake_up_queued_never(N, T) == [N |-> N, T |-> T]

wake_up_queued(N, T) == FoldLeft(queue_element_wakeup, [N |-> N, T |-> T], lockq)

\* get_path_common and get_path2: the path is there at once, or the request
\* queues, or it fails (a release goes on without a path)
GetPath(t, q, to) ==
    LET One(g) == [err |-> g.err, N |-> g.N, p1 |-> g.path, p2 |-> NoPath, w1 |-> g.w, w2 |-> None]
        Got(g) ==
            /\ nodes' = g.N
            /\ thr' = [thr EXCEPT ![t] =
                  CASE g.err = OK ->
                         [q EXCEPT !.pc = to, !.p1 = g.p1, !.p2 = g.p2, !.w1 = g.w1, !.w2 = g.w2]
                    [] g.err = EAGAIN -> [q EXCEPT !.pc = "wait", !.to = to]
                    [] g.err = ENOENT -> IF q.nullok THEN [q EXCEPT !.pc = to] ELSE Idle]
            /\ lockq' = IF g.err = EAGAIN THEN Append(lockq, t) ELSE lockq
    IN  Got(IF q.two THEN try_get_path2(nodes, q.n1, q.x1, q.n2, q.x2, q.wr)
            ELSE One(try_get_path(nodes, q.n1, q.x1, q.wr)))

\* wait_path returns: the waker has left the paths, or an error, in the element
wait_path(t) ==
    LET q == thr[t]
        r == [q EXCEPT !.pc = q.to, !.to = "idle", !.done = FALSE, !.l1 = FALSE, !.l2 = FALSE,
                       !.err = OK]
    IN  /\ q.pc = "wait" /\ q.done
        /\ lockq' = Remove(lockq, t)
        /\ thr' = [thr EXCEPT ![t] = IF q.err = OK \/ q.nullok THEN r ELSE Idle]
        /\ UNCHANGED <<nodes, hidectr, fs, made, kern, panic>>
-----------------------------------------------------------------------------
(* What the kernel may ask.  A request that has not been answered uses its  *)
(* nodes, and a change of a directory excludes every other one.             *)

InFlight(t) == thr[t].pc # "idle" /\ ~thr[t].replied
Removals == {"unlink", "rmdir", "rename", "exchange"}
NameOps == {"lookup", "make", "create", "link"} \cup Removals
DirsOf(q) == IF q.op \in NameOps \ {"link"} THEN {q.n1, q.n2} \ {None}
             ELSE IF q.op = "link" THEN {q.n2} ELSE {}
Victims(q) == {e[3] : e \in {d \in dent : \/ <<d[1], d[2]>> = <<q.n1, q.x1>>
                                          \/ <<d[1], d[2]>> = <<q.n2, q.x2>>}}
DirBusy(d) == \E t \in Threads : InFlight(t) /\ d \in DirsOf(thr[t])
CrossRename == \E t \in Threads : InFlight(t) /\ Cardinality(DirsOf(thr[t])) = 2
InUse(n) == \E t \in Threads : InFlight(t) /\ (n \in {thr[t].n1, thr[t].n2} \/ n \in Victims(thr[t]))

Known(n) == n = Root \/ (n \in DOMAIN nodes /\ klook[n] > 0)
KnownNodes == {n \in Ids : Known(n)}
IsDir(n) == nodes[n].obj[2] = "dir"
Entry(d, x) == {e \in dent : e[1] = d /\ e[2] = x}
\* A name the kernel has looked up, with its directory locked, in vain
Absent(d, x) == /\ Entry(d, x) = {}
                /\ \A p \in DOMAIN fs : p # <<>> /\ Last(p) = x => fs[Front(p)] # nodes[d].obj
Dirs == {d \in KnownNodes : IsDir(d) /\ (d = Root \/ \E e \in dent : e[3] = d)}
Above(n) ==
    LET up[m \in Ids] == IF m = Root THEN {Root}
                         ELSE {m} \cup UNION {up[e[1]] : e \in {d \in dent : d[3] = m}}
    IN  up[n]

\* Ids are left for the node each unanswered request may make
Room == Cardinality(DOMAIN nodes)
        + Cardinality({t \in Threads : thr[t].op \in {"lookup", "make", "create", "link"}
                                       /\ thr[t].res = None}) < MaxNodes

Asked(op) == op \in conf.asked
Req(op, n, x) == [Idle EXCEPT !.op = op, !.n1 = n, !.x1 = x]
Keep == UNCHANGED <<hidectr, fs, made, kern, panic>>

\* Handlers that work on one node and leave the cache as it is: they obtain
\* its path, call the file system, free the path and reply.  They differ in
\* what the kernel must know before it asks, and in whether a missing path
\* ends the request (get_path) or is passed on as NULL (get_path_nullok, which
\* takes none at all when the file system needs none).
ByNode == [of |-> "node", nullok |-> FALSE]
ByDir == [of |-> "dir", nullok |-> FALSE]
ByFile == [of |-> "file", nullok |-> TRUE]

fuse_lib_getattr == {ByNode, ByFile}
fuse_lib_setattr == {ByNode, ByFile}
fuse_lib_access == ByNode
fuse_lib_readlink == ByNode
fuse_lib_read == ByFile
fuse_lib_write_buf == ByFile
fuse_lib_fsync == ByFile
fuse_lib_opendir == ByDir
fuse_lib_statfs == ByNode
fuse_lib_setxattr == ByNode
fuse_lib_getxattr == ByNode
fuse_lib_listxattr == ByNode
fuse_lib_removexattr == ByNode
fuse_lib_flush == ByFile
fuse_lock_common == ByFile
fuse_lib_flock == ByFile
fuse_lib_bmap == ByNode
fuse_lib_ioctl == ByFile
fuse_lib_poll == ByFile
fuse_lib_fallocate == ByFile

PathHandlers ==
    fuse_lib_getattr \cup fuse_lib_setattr \cup
    {fuse_lib_access, fuse_lib_readlink, fuse_lib_read, fuse_lib_write_buf,
     fuse_lib_fsync, fuse_lib_opendir, fuse_lib_statfs, fuse_lib_setxattr,
     fuse_lib_getxattr, fuse_lib_listxattr, fuse_lib_removexattr, fuse_lib_flush,
     fuse_lock_common, fuse_lib_flock, fuse_lib_bmap, fuse_lib_ioctl, fuse_lib_poll,
     fuse_lib_fallocate}

HandlePath(t, h, n) ==
    /\ thr[t].pc = "idle" /\ Asked("path")
    /\ h.of = "dir" => IsDir(n)
    /\ h.of = "file" => kopen[n] > 0
    /\ LET q == [Req("path", n, NoName) EXCEPT !.nullok = h.nullok]
       IN  IF h.nullok /\ conf.nullpath_ok
           THEN thr' = [thr EXCEPT ![t] = [q EXCEPT !.pc = "free"]] /\ UNCHANGED <<nodes, lockq>>
           ELSE GetPath(t, q, "free")
    /\ Keep

fuse_lib_lookup(t, d, x) ==
    /\ thr[t].pc = "idle" /\ Asked("lookup")
    /\ Room
    /\ ~DirBusy(d) /\ Entry(d, x) = {}
    /\ GetPath(t, Req("lookup", d, x), "fs")
    /\ Keep

\* mknod, mkdir and symlink (kind is that of the object); create also opens
MakeName(t, op, d, x, kind) ==
    /\ thr[t].pc = "idle" /\ Asked(op)
    /\ made < MaxObjects /\ Room
    /\ ~DirBusy(d) /\ Absent(d, x)
    /\ GetPath(t, [Req(op, d, x) EXCEPT !.obj = <<made + 1, kind>>], "fs")
    /\ made' = made + 1
    /\ UNCHANGED <<hidectr, fs, kern, panic>>

fuse_lib_mknod(t, d, x) == MakeName(t, "make", d, x, "file")
fuse_lib_symlink(t, d, x) == MakeName(t, "make", d, x, "file")
fuse_lib_mkdir(t, d, x) == MakeName(t, "make", d, x, "dir")
fuse_lib_create(t, d, x) == MakeName(t, "create", d, x, "file")

fuse_lib_link(t, n, d, x) ==
    /\ thr[t].pc = "idle" /\ Asked("link")
    /\ n \in KnownNodes /\ ~IsDir(n) /\ Room
    /\ ~DirBusy(d) /\ Absent(d, x)
    /\ GetPath(t, [Req("link", n, NoName) EXCEPT !.n2 = d, !.x2 = x, !.two = TRUE], "fs")
    /\ Keep

fuse_lib_unlink(t, d, x) ==
    /\ thr[t].pc = "idle" /\ Asked("unlink")
    /\ ~DirBusy(d) /\ \E e \in Entry(d, x) : ~IsDir(e[3])
    /\ GetPath(t, [Req("unlink", d, x) EXCEPT !.wr = TRUE], "check")
    /\ Keep

fuse_lib_rmdir(t, d, x) ==
    /\ thr[t].pc = "idle" /\ Asked("rmdir")
    /\ ~DirBusy(d) /\ \E e \in Entry(d, x) : IsDir(e[3]) /\ ~DirBusy(e[3])
    /\ GetPath(t, [Req("rmdir", d, x) EXCEPT !.wr = TRUE], "fs")
    /\ Keep

\* Mutant of fuse_lib_rename: the nodes that move are not locked for writing
fuse_lib_rename_readlock(t, op, d1, x1, d2, x2) ==
    /\ thr[t].pc = "idle" /\ Asked(op)
    /\ <<d1, x1>> # <<d2, x2>>
    /\ ~DirBusy(d1) /\ ~DirBusy(d2)
    /\ d1 # d2 => ~CrossRename
    /\ \E e \in Entry(d1, x1) :
          /\ e[3] \notin Above(d2)
          /\ Entry(d2, x2) # {} \/ (op = "rename" /\ Absent(d2, x2))
          /\ \A v \in Entry(d2, x2) : /\ v[3] \notin Above(d1) /\ ~DirBusy(v[3])
                                      /\ op = "rename" => IsDir(v[3]) = IsDir(e[3])
    /\ GetPath(t, [Req(op, d1, x1) EXCEPT !.n2 = d2, !.x2 = x2, !.two = TRUE],
               IF op = "rename" THEN "check" ELSE "fs")
    /\ Keep

fuse_lib_rename(t, op, d1, x1, d2, x2) ==
    /\ thr[t].pc = "idle" /\ Asked(op)
    /\ <<d1, x1>> # <<d2, x2>>
    /\ ~DirBusy(d1) /\ ~DirBusy(d2)
    /\ d1 # d2 => ~CrossRename
    /\ \E e \in Entry(d1, x1) :
          /\ e[3] \notin Above(d2)
          /\ Entry(d2, x2) # {} \/ (op = "rename" /\ Absent(d2, x2))
          /\ \A v \in Entry(d2, x2) : /\ v[3] \notin Above(d1) /\ ~DirBusy(v[3])
                                      /\ op = "rename" => IsDir(v[3]) = IsDir(e[3])
    /\ GetPath(t, [Req(op, d1, x1) EXCEPT !.n2 = d2, !.x2 = x2, !.two = TRUE, !.wr = TRUE],
               IF op = "rename" THEN "check" ELSE "fs")
    /\ Keep

\* Opens of a node the kernel holds or has asked for
Opens(n) == kopen[n] + Cardinality({t \in Threads : InFlight(t) /\ thr[t].op = "open" /\ thr[t].n1 = n})

fuse_lib_open(t, n) ==
    /\ thr[t].pc = "idle" /\ Asked("open")
    /\ n \in KnownNodes /\ ~IsDir(n) /\ Opens(n) < MaxOpens
    /\ GetPath(t, [Req("open", n, NoName) EXCEPT !.res = n], "fs")
    /\ Keep

\* The kernel gives up a file it has open
fuse_lib_release(t, n) ==
    /\ thr[t].pc = "idle" /\ kopen[n] > 0
    /\ kopen' = [kopen EXCEPT ![n] = @ - 1]
    /\ LET q == [Req("release", n, NoName) EXCEPT !.res = n, !.nullok = TRUE]
       IN  IF conf.nullpath_ok
           THEN thr' = [thr EXCEPT ![t] = [q EXCEPT !.pc = "rel"]] /\ UNCHANGED <<nodes, lockq>>
           ELSE GetPath(t, q, "rel")
    /\ UNCHANGED <<hidectr, fs, made, klook, dent, panic>>

\* The kernel drops a node, and every lookup it holds of it, at once
fuse_lib_forget(t, n) ==
    /\ thr[t].pc = "idle" /\ Asked("forget")
    /\ klook[n] > 0 /\ kopen[n] = 0 /\ ~InUse(n)
    /\ \A e \in dent : e[1] # n
    /\ dent' = {e \in dent : e[3] # n}
    /\ klook' = [klook EXCEPT ![n] = 0]
    /\ thr' = [thr EXCEPT ![t] = [Idle EXCEPT !.op = "forget", !.pc = "fgt", !.res = n,
                                              !.n2 = klook[n], !.replied = TRUE]]
    /\ UNCHANGED <<nodes, lockq, hidectr, kopen, fs, made, panic>>
-----------------------------------------------------------------------------
(* The calls of the file system below *)

Sub(p) == {r \in DOMAIN fs : IsPrefix(p, r)}
Onto(r, p, q) == q \o SubSeq(r, Len(p) + 1, Len(r))   \* r, with p replaced by q

FsMove(p, q) ==
    LET there == {Onto(r, p, q) : r \in Sub(p)}
    IN  [r \in (DOMAIN fs \ (Sub(p) \cup Sub(q))) \cup there |->
            IF r \in there THEN fs[Onto(r, q, p)] ELSE fs[r]]

FsSwap(p, q) ==
    LET Other(r) == IF IsPrefix(p, r) THEN Onto(r, p, q)
                    ELSE IF IsPrefix(q, r) THEN Onto(r, q, p) ELSE r
    IN  [r \in {Other(s) : s \in DOMAIN fs} |-> fs[Other(r)]]

Without(p) == [r \in DOMAIN fs \ {p} |-> fs[r]]

\* Outcome of the call a thread makes: what fs becomes, or an error
FsResult(q) ==
    LET No == [ok |-> FALSE, fs |-> fs]
        Yes(f) == [ok |-> TRUE, fs |-> f]
    IN  CASE q.op \in {"lookup", "open"} -> IF q.p1 \in DOMAIN fs THEN Yes(fs) ELSE No
          [] q.op \in {"make", "create"} ->
               IF q.p1 \notin DOMAIN fs /\ Front(q.p1) \in DOMAIN fs
               THEN Yes(fs @@ (q.p1 :> q.obj)) ELSE No
          [] q.op = "link" ->
               IF q.p1 \in DOMAIN fs /\ q.p2 \notin DOMAIN fs /\ Front(q.p2) \in DOMAIN fs
               THEN Yes(fs @@ (q.p2 :> fs[q.p1])) ELSE No
          [] q.op \in {"unlink", "rmdir"} ->
               IF q.p1 \in DOMAIN fs /\ Sub(q.p1) = {q.p1} THEN Yes(Without(q.p1)) ELSE No
          [] q.op = "rename" ->
               IF /\ q.p1 \in DOMAIN fs /\ Front(q.p2) \in DOMAIN fs
                  /\ Sub(q.p2) \subseteq {q.p2}
               THEN Yes(FsMove(q.p1, q.p2)) ELSE No
          [] q.op = "exchange" ->
               IF q.p1 \in DOMAIN fs /\ q.p2 \in DOMAIN fs THEN Yes(FsSwap(q.p1, q.p2)) ELSE No

\* The object the call is about
FsObject(q) == IF q.op \in {"make", "create"} THEN q.obj
               ELSE IF q.op \in {"lookup", "open", "link"} THEN fs[q.p1] ELSE <<>>

FsCall(t) ==
    LET q == thr[t] r == FsResult(q)
        next == IF q.op = "open" THEN "open" ELSE "node"
    IN  /\ q.pc = "fs"
        /\ \/ /\ r.ok
              /\ fs' = r.fs
              /\ thr' = [thr EXCEPT ![t].pc = next, ![t].obj = FsObject(q)]
           \/ /\ UNCHANGED fs    \* refused, or failed for a reason of its own
              /\ thr' = [thr EXCEPT ![t].pc = "free", ![t].err = "EIO"]
        /\ UNCHANGED <<nodes, lockq, hidectr, made, kern, panic>>
-----------------------------------------------------------------------------
(* Steps on the node cache *)

\* A node that is deleted while its path is locked: assert in delete_node
DeletedLocked(N) == \E m \in DOMAIN nodes \ DOMAIN N : nodes[m].treelock # 0

\* do_lookup
Lookup(t) ==
    LET q == thr[t]
        f == find_node(nodes, IF q.two THEN q.n2 ELSE q.n1, IF q.two THEN q.x2 ELSE q.x1, q.obj)
    IN  /\ q.pc = "node" /\ q.op \in {"lookup", "make", "create", "link"}
        /\ \/ /\ nodes' = f.N
              /\ thr' = [thr EXCEPT ![t].res = f.n,
                                    ![t].pc = IF q.op = "create" THEN "open" ELSE "free"]
           \/ /\ UNCHANGED nodes    \* fuse_fs_getattr fails
              /\ q.op # "lookup"
              /\ thr' = [thr EXCEPT ![t].pc = "free", ![t].err = "EIO"]
        /\ UNCHANGED <<lockq, hidectr, fs, made, kern, panic>>

\* remove_node, rename_node or exchange_node after the file system agreed
UpdateNames(t) ==
    LET q == thr[t]
        N == CASE q.op \in {"unlink", "rmdir"} -> remove_node(nodes, q.n1, q.x1)
               [] q.op = "rename" -> rename_node(nodes, q.n1, q.x1, q.n2, q.x2, FALSE).N
               [] q.op = "exchange" -> exchange_node(nodes, q.n1, q.x1, q.n2, q.x2)
    IN  /\ q.pc = "node" /\ q.op \in Removals
        /\ nodes' = N
        /\ panic' = DeletedLocked(N)
        /\ thr' = [thr EXCEPT ![t].pc = "free"]
        /\ UNCHANGED <<lockq, hidectr, fs, made, kern>>

\* The name that unlink, or rename for its target, is about to remove
TargetDir(q) == IF q.op = "unlink" THEN q.n1 ELSE q.n2
TargetName(q) == IF q.op = "unlink" THEN q.x1 ELSE q.x2
TargetPath(q) == IF q.op = "unlink" THEN q.p1 ELSE q.p2

is_open(t) ==
    LET q == thr[t]
        n == lookup_node(nodes, TargetDir(q), TargetName(q))
    IN  /\ q.pc = "check"
        /\ thr' = [thr EXCEPT ![t].pc =
                      IF ~conf.hard_remove /\ n # None /\ nodes[n].open_count > 0 THEN "hide" ELSE "fs"]
        /\ UNCHANGED <<nodes, lockq, hidectr, fs, made, kern, panic>>

\* hidden_name: a name nobody uses, neither in the cache nor below
hidden_name(t) ==
    LET q == thr[t]
        n == lookup_node(nodes, TargetDir(q), TargetName(q))
        Hidden(c) == <<"hidden", n, c>>
        Free(c) == /\ lookup_node(nodes, TargetDir(q), Hidden(c)) = None
                   /\ Append(PathOf(nodes, TargetDir(q)), Hidden(c)) \notin DOMAIN fs
        tries == IF n = None THEN {} ELSE {c \in (hidectr + 1)..MaxHides : Free(c)}
        c == CHOOSE m \in tries : \A k \in tries : m <= k
    IN  /\ q.pc = "hide"
        /\ hidectr' = IF tries = {} THEN hidectr ELSE c
        /\ thr' = [thr EXCEPT ![t].hn = IF tries = {} THEN NoName ELSE Hidden(c),
                              ![t].pc = IF tries = {} THEN "free" ELSE "hidefs",
                              ![t].err = IF tries = {} THEN EBUSY ELSE OK]
        /\ UNCHANGED <<nodes, lockq, fs, made, kern, panic>>

\* hide_node: the file is renamed below, then in the cache
HideFs(t) ==
    LET q == thr[t]
        new == Append(Front(TargetPath(q)), q.hn)
    IN  /\ q.pc = "hidefs"
        /\ \/ /\ TargetPath(q) \in DOMAIN fs
              /\ fs' = FsMove(TargetPath(q), new)
              /\ thr' = [thr EXCEPT ![t].pc = "hidenode"]
           \/ /\ UNCHANGED fs
              /\ thr' = [thr EXCEPT ![t].pc = "free", ![t].err = "EIO"]
        /\ UNCHANGED <<nodes, lockq, hidectr, made, kern, panic>>

HideNode(t) ==
    LET q == thr[t]
        r == rename_node(nodes, TargetDir(q), TargetName(q), TargetDir(q), q.hn, TRUE)
    IN  /\ q.pc = "hidenode"
        /\ nodes' = r.N
        /\ thr' = [thr EXCEPT ![t].err = r.err, ![t].hn = NoName,
                              ![t].pc = IF q.op = "unlink" \/ r.err # OK THEN "free" ELSE "fs"]
        /\ UNCHANGED <<lockq, hidectr, fs, made, kern, panic>>

\* open_count, then the reply; a reply that nobody waits for any more cancels
\* the open by a release
OpenReply(t) ==
    LET q == thr[t]
    IN  /\ q.pc = "open"
        /\ nodes' = [nodes EXCEPT ![q.res].open_count = @ + 1]
        /\ \/ /\ thr' = [thr EXCEPT ![t].pc = "free", ![t].replied = TRUE]
              /\ kopen' = [kopen EXCEPT ![q.res] = @ + 1]
              /\ klook' = IF q.op = "create" THEN [klook EXCEPT ![q.res] = @ + 1] ELSE klook
              /\ dent' = IF q.op = "create" THEN dent \cup {<<q.n1, q.x1, q.res>>} ELSE dent
           \/ /\ thr' = [thr EXCEPT ![t].pc = "rel", ![t].replied = TRUE]
              /\ UNCHANGED kern
        /\ UNCHANGED <<lockq, hidectr, fs, made, panic>>

\* Mutant of fuse_do_release: the hidden file is left to an earlier release
fuse_do_release_early(t) ==
    LET q == thr[t]
        last == nodes[q.res].open_count > 1 /\ nodes[q.res].is_hidden
    IN  /\ q.pc = "rel"
        /\ panic' = (nodes[q.res].open_count = 0)
        /\ nodes' = [nodes EXCEPT ![q.res].open_count = @ - 1,
                                  ![q.res].is_hidden = @ /\ ~last]
        /\ thr' = [thr EXCEPT ![t].pc = IF last /\ q.p1 # NoPath THEN "unl"
                                        ELSE IF q.op = "create" THEN "fgt" ELSE "free",
                              ![t].n2 = IF q.op = "create" THEN 1 ELSE @]
        /\ UNCHANGED <<lockq, hidectr, fs, made, kern>>

\* fuse_do_release: the last release of a hidden file removes it below
fuse_do_release(t) ==
    LET q == thr[t]
        last == nodes[q.res].open_count = 1 /\ nodes[q.res].is_hidden
        after == IF q.op = "create" THEN "fgt" ELSE "free"
    IN  /\ q.pc = "rel"
        /\ panic' = (nodes[q.res].open_count = 0)
        /\ nodes' = [nodes EXCEPT ![q.res].open_count = @ - 1,
                                  ![q.res].is_hidden = @ /\ ~last]
        /\ thr' = [thr EXCEPT ![t].pc =
                      CASE last /\ q.p1 # NoPath -> "unl"
                        [] last /\ q.p1 = NoPath /\ conf.nullpath_ok -> "getp"
                        [] OTHER -> after,
                              ![t].n2 = IF q.op = "create" THEN 1 ELSE @]
        /\ UNCHANGED <<lockq, hidectr, fs, made, kern>>

\* Without a path from the start, it is asked for now
ReleasePath(t) ==
    /\ thr[t].pc = "getp"
    /\ GetPath(t, thr[t], "unl")
    /\ Keep

\* A create whose reply failed was given the path of the name, not of the node
ReleaseUnlink(t) ==
    LET q == thr[t] p == q.p1
    IN  /\ q.pc = "unl"
        /\ fs' = IF p \in DOMAIN fs /\ Sub(p) = {p} THEN Without(p) ELSE fs
        /\ thr' = [thr EXCEPT ![t].pc = IF q.op = "create" THEN "fgt" ELSE "free"]
        /\ UNCHANGED <<nodes, lockq, hidectr, made, kern, panic>>

\* Mutant of forget_node: the node goes although its path is locked
forget_node_unlocked(t) ==
    LET q == thr[t]
        N == drop_nlookup(nodes, q.res, q.n2)
    IN  /\ q.pc = "fgt"
        /\ panic' = (DeletedLocked(N) \/ nodes[q.res].nlookup < q.n2)
        /\ nodes' = N
        /\ thr' = [thr EXCEPT ![t] = IF q.op = "create" THEN [q EXCEPT !.pc = "free", !.n2 = None]
                                     ELSE Idle]
        /\ UNCHANGED <<lockq, hidectr, fs, made, kern>>

\* forget_node: the last lookup waits until no path through the node is locked
forget_node(t) ==
    LET q == thr[t] k == q.n2
        N == drop_nlookup(nodes, q.res, k)
        last == nodes[q.res].nlookup = k
        after == IF q.op = "create" THEN [q EXCEPT !.pc = "free", !.n2 = None, !.done = FALSE] ELSE Idle
    IN  \/ /\ q.pc = "fgt" /\ last /\ nodes[q.res].treelock # 0
           /\ thr' = [thr EXCEPT ![t].pc = "fwait", ![t].done = FALSE]
           /\ lockq' = Append(lockq, t)
           /\ UNCHANGED <<nodes, hidectr, fs, made, kern, panic>>
        \/ /\ q.pc = "fwait" /\ q.done /\ last /\ nodes[q.res].treelock # 0
           /\ thr' = [thr EXCEPT ![t].done = FALSE]
           /\ UNCHANGED <<nodes, lockq, hidectr, fs, made, kern, panic>>
        \/ /\ q.pc = "fgt" \/ (q.pc = "fwait" /\ q.done)
           /\ ~(last /\ nodes[q.res].treelock # 0)
           /\ panic' = (DeletedLocked(N) \/ nodes[q.res].nlookup < k)
           /\ nodes' = N
           /\ thr' = [thr EXCEPT ![t] = after]
           /\ lockq' = Remove(lockq, t)
           /\ UNCHANGED <<hidectr, fs, made, kern>>

\* The kernel's entries after a successful change of names
NewEntries(q) ==
    LET src == Entry(q.n1, q.x1)
        dst == IF q.two THEN Entry(q.n2, q.x2) ELSE {}
    IN  (dent \ (src \cup dst))
        \cup (IF q.two THEN {<<q.n2, q.x2, e[3]>> : e \in src} ELSE {})
        \cup (IF q.op = "exchange" THEN {<<q.n1, q.x1, e[3]>> : e \in dst} ELSE {})

\* Mutant of reply_entry: the lookup of a request that is gone is not given back
reply_entry_kept(t, T) ==
    LET q == thr[t]
    IN  \/ /\ klook' = [klook EXCEPT ![q.res] = @ + 1]
           /\ dent' = dent \cup {<<IF q.two THEN q.n2 ELSE q.n1, IF q.two THEN q.x2 ELSE q.x1, q.res>>}
           /\ thr' = [T EXCEPT ![t] = Idle]
        \/ /\ thr' = [T EXCEPT ![t] = Idle]
           /\ UNCHANGED <<klook, dent>>

\* reply_entry arrives, or finds the request gone and forgets the node
reply_entry(t, T) ==
    LET q == thr[t]
    IN  \/ /\ klook' = [klook EXCEPT ![q.res] = @ + 1]
           /\ dent' = dent \cup {<<IF q.two THEN q.n2 ELSE q.n1, IF q.two THEN q.x2 ELSE q.x1, q.res>>}
           /\ thr' = [T EXCEPT ![t] = Idle]
        \/ /\ thr' = [T EXCEPT ![t] = [Idle EXCEPT !.op = "forget", !.pc = "fgt", !.res = q.res,
                                                   !.n2 = 1, !.replied = TRUE]]
           /\ UNCHANGED <<klook, dent>>

\* free_path, free_path_wrlock, free_path2, and the reply that follows
free_path(t) ==
    LET q == thr[t]
        N1 == unlock_path(nodes, q.n1, q.w1)
        N2 == IF q.two THEN unlock_path(N1, q.n2, q.w2) ELSE N1
        Reply(S) ==
            /\ nodes' = S.N
            /\ IF q.op \in {"lookup", "make", "link"} /\ q.res # None
               THEN reply_entry(t, S.T)
               ELSE /\ thr' = [S.T EXCEPT ![t] = Idle]
                    /\ dent' = IF q.op \in Removals /\ q.err = OK THEN NewEntries(q) ELSE dent
                    /\ UNCHANGED klook
    IN  /\ q.pc = "free"
        /\ panic' = (q.p1 # NoPath /\ ~(Unlockable(nodes, q.n1, q.w1)
                                         /\ (q.two => Unlockable(N1, q.n2, q.w2))))
        /\ Reply(IF q.p1 = NoPath THEN [N |-> nodes, T |-> thr] ELSE wake_up_queued(N2, thr))
        /\ UNCHANGED <<lockq, hidectr, fs, made, kopen>>
-----------------------------------------------------------------------------
\* The requests of the kernel ...
Request(t) ==
    \/ \E n \in KnownNodes :
          \/ \E h \in PathHandlers : HandlePath(t, h, n)
          \/ fuse_lib_open(t, n) \/ fuse_lib_release(t, n) \/ fuse_lib_forget(t, n)
    \/ \E d \in Dirs, x \in Names :
          \/ fuse_lib_lookup(t, d, x)
          \/ fuse_lib_mknod(t, d, x) \/ fuse_lib_symlink(t, d, x) \/ fuse_lib_mkdir(t, d, x)
          \/ fuse_lib_create(t, d, x)
          \/ fuse_lib_unlink(t, d, x) \/ fuse_lib_rmdir(t, d, x)
          \/ \E n \in KnownNodes : fuse_lib_link(t, n, d, x)
          \/ \E d2 \in Dirs, x2 \in Names, op \in {"rename", "exchange"} :
                fuse_lib_rename(t, op, d, x, d2, x2)

\* ... and what the thread that received one does for it
Work(t) ==
    \/ wait_path(t) \/ FsCall(t) \/ Lookup(t) \/ UpdateNames(t)
    \/ is_open(t) \/ hidden_name(t) \/ HideFs(t) \/ HideNode(t)
    \/ OpenReply(t) \/ fuse_do_release(t) \/ ReleasePath(t) \/ ReleaseUnlink(t)
    \/ forget_node(t) \/ free_path(t)

Next == ~panic /\ UNCHANGED conf /\ \E t \in Threads : Request(t) \/ Work(t)

\* A worker thread goes on with the request it has taken, and the file system
\* below answers.  This is weak fairness of Work(t), written with the state
\* predicate that is ENABLED Work(t): only t changes thr[t] while it is ready.
Ready(t) == thr[t].pc # "idle" /\ (thr[t].pc \in {"wait", "fwait"} => thr[t].done)
Fairness == \A t \in Threads : <>[]Ready(t) => []<><<thr'[t] # thr[t]>>_thr

Spec == Init /\ [][Next]_vars /\ Fairness
-----------------------------------------------------------------------------
(* Properties *)

\* The paths a thread holds: while it works on its request, or, as the first
\* of the queue, while it waits for the other one
Held(t) ==
    LET q == thr[t]
        first == q.p1 # NoPath /\ (q.pc # "wait" \/ q.l1)
        second == q.p2 # NoPath /\ (q.pc # "wait" \/ q.l2)
    IN  (IF first THEN {[n |-> q.n1, x |-> q.x1, w |-> q.w1, p |-> q.p1, k |-> 1]} ELSE {})
        \cup (IF second THEN {[n |-> q.n2, x |-> q.x2, w |-> q.w2, p |-> q.p2, k |-> 2]} ELSE {})

Holds == {<<t, h>> \in Threads \X UNION {Held(u) : u \in Threads} : h \in Held(t)}

IsHiddenPath(p) == p # <<>> /\ Len(Last(p)) = 3

\* Types of the variables
TypeOK ==
    /\ DOMAIN nodes \subseteq Ids /\ Root \in DOMAIN nodes
    /\ \A n \in DOMAIN nodes :
          /\ nodes[n].parent \in DOMAIN nodes \cup {None}
          /\ nodes[n].refctr \in Nat /\ nodes[n].nlookup \in Nat /\ nodes[n].open_count \in Nat
          /\ nodes[n].is_hidden \in BOOLEAN /\ nodes[n].treelock \in Int
    /\ \A i \in DOMAIN lockq : lockq[i] \in Threads
    /\ hidectr \in 0..MaxHides /\ made \in 0..MaxObjects
    /\ \A n \in Ids : klook[n] \in Nat /\ kopen[n] \in Nat

\* None of the asserts of unlock_path, delete_node, fuse_do_release and
\* forget_node fails, whatever the threads interleave
NoPanic == ~panic

\* treelock counts exactly the paths that run through a node, is WRITE for the
\* one thread that removes or moves it, and carries the mark of a waiting
\* writer only while there are readers to wait for
LockCount ==
    \A n \in DOMAIN nodes \ {Root} :
        LET readers == Cardinality({h \in Holds : n \in ToSet(Up(nodes, h[2].n))})
            writers == Cardinality({h \in Holds : h[2].w = n})
            l == nodes[n].treelock
        IN  \/ writers = 1 /\ readers = 0 /\ l = TREELOCK_WRITE
            \/ writers = 0 /\ l = readers
            \/ writers = 0 /\ readers > 0 /\ l = readers + TREELOCK_WAIT_OFFSET

\* As long as a path is held no rename of another thread changes it, in the
\* cache or below: the directory or file it names is the one the node was
\* made for, unless it is a hidden file, which its last release has removed
PathStable ==
    \A h \in Holds :
        LET p == PathOf(nodes, h[2].n)
        IN  /\ h[2].p = With(p, h[2].x)
            /\ IF p \in DOMAIN fs THEN fs[p] = nodes[h[2].n].obj ELSE IsHiddenPath(p)

\* A node lives exactly as long as the kernel knows it or it has children in
\* the cache, and refctr counts just these
RefExact ==
    \A n \in DOMAIN nodes :
        /\ nodes[n].refctr = Cardinality({m \in DOMAIN nodes : nodes[m].parent = n})
                             + (IF nodes[n].nlookup > 0 THEN 1 ELSE 0)
        /\ nodes[n].refctr > 0

\* Lookups of n that are counted in the cache and on their way to or from the
\* kernel: a reply not sent, or a forget not handled
Pending(n) ==
    LET S == {t \in Threads : thr[t].res = n /\ thr[t].op \in {"lookup", "make", "link", "create"}
                              /\ (~thr[t].replied \/ thr[t].pc \in {"rel", "unl"})}
        F == {t \in Threads : thr[t].res = n /\ thr[t].pc \in {"fgt", "fwait"}}
    IN  Cardinality(S) + MapThenSumSet(LAMBDA t : thr[t].n2, F)

\* The library and the kernel agree: nlookup is what the kernel holds of a
\* node, and an entry the kernel has cached, and no request is about, is the
\* entry of the same node in the cache
KernelAgrees ==
    /\ \A n \in DOMAIN nodes \ {Root} : nodes[n].nlookup = klook[n] + Pending(n)
    /\ \A n \in Ids \ DOMAIN nodes : klook[n] = 0 /\ kopen[n] = 0
    /\ \A e \in dent :
          (~DirBusy(e[1]) /\ ~nodes[e[3]].is_hidden) => lookup_node(nodes, e[1], e[2]) = e[3]

\* A hidden file is removed when it is released for the last time: one that is
\* left below is still open, or on its way out.  (For a file system that takes
\* paths and without create: a create that is interrupted may leave one.)
HiddenRemoved ==
    conf.nullpath_ok \/ Asked("create") \/ \A p \in DOMAIN fs :
        IsHiddenPath(p) =>
            \/ \E n \in DOMAIN nodes : /\ nodes[n].obj = fs[p] /\ nodes[n].is_hidden
                                       /\ nodes[n].open_count > 0
            \/ \E t \in Threads : thr[t].pc \in {"hidenode", "unl", "getp"} \/ thr[t].to = "unl"

\* Requests that wait for a path wait for one that can go on
NoDeadlock ==
    (\E t \in Threads : thr[t].pc = "wait" /\ ~thr[t].done) => \E t \in Threads : Ready(t)

\* Every request is answered: no thread waits for a path forever, however many
\* requests come.  (A forget can starve: it is signalled, but another request
\* may lock the path again before it runs.)
Answered ==
    \A t \in Threads :
        LET away == thr[t].pc \in {"idle", "fgt", "fwait"} IN ~away ~> away

\* The path locks do what they are for: their counts are those of the threads that hold
\* them, and a locked path goes on leading to the node it was made for.
PathsHeld == LockCount /\ PathStable

\* The counts of a node are exact: refctr is the children, the open handles and the lookups
\* that hold it (unref_node, forget_node), nlookup what the kernel was told and has not
\* forgotten (find_node, reply_entry).
CountsExact == TypeOK /\ RefExact /\ KernelAgrees
=============================================================================
