----------------------------- MODULE PlainDir -----------------------------
(***************************************************************************)
(* A plain directory and the system calls on it: the file system under     *)
(* ROOT_PATH as passthroughBlocked_fh.c uses it, and at the same time what *)
(* a mount of that program promises for everything that is not the content *)
(* of a file.  A state is [names, obj]: a name leads to an object and has  *)
(* a place in the directory, which is its offset for readdir.  A call is   *)
(* the set of its outcomes [res, s].                                       *)
(***************************************************************************)
EXTENDS Integers, FiniteSets

CONSTANTS Places,    \* offsets of entries in the directory
          Targets,   \* texts of symbolic links, by their length
          Attrs      \* names of extended attributes

NoEntry  == [ino |-> 0, place |-> 0]
NoObject == [kind |-> "", target |-> 0, attrs |-> {}]
Reply(err, kind, n, attrs) == [err |-> err, kind |-> kind, n |-> n, attrs |-> attrs]
Ok       == Reply("", "", 0, {})
Error(e) == Reply(e, "", 0, {})

Exists(s, p)  == s.names[p] # NoEntry
Object(s, p)  == s.obj[s.names[p].ino]
Links(s, i)   == {p \in DOMAIN s.names : s.names[p].ino = i}
FreeIds(s)    == {i \in DOMAIN s.obj : s.obj[i] = NoObject}
\* A directory gives a new entry any place that none of its entries has.
FreePlaces(s, p) == Places \ {s.names[q].place : q \in {r \in DOMAIN s.names : r[1] = p[1]}}
\* Objects without a name are gone.
Swept(s) == [s EXCEPT !.obj = [i \in DOMAIN s.obj |-> IF Links(s, i) = {} THEN NoObject ELSE s.obj[i]]]
Same(s, res)  == {[res |-> res, s |-> s]}
Enter(s, p, i) == {[res |-> Ok, s |-> [s EXCEPT !.names[p] = [ino |-> i, place |-> k]]] : k \in FreePlaces(s, p)}
Make(s, p, object) ==
  IF Exists(s, p) THEN Same(s, Error("EEXIST"))
  ELSE IF FreeIds(s) = {} THEN Same(s, Error("ENOSPC"))
  ELSE LET i == CHOOSE k \in FreeIds(s) : TRUE IN Enter([s EXCEPT !.obj[i] = object], p, i)

lstat(s, p) ==
  Same(s, IF ~Exists(s, p) THEN Error("ENOENT")
          ELSE Reply("", Object(s, p).kind, Cardinality(Links(s, s.names[p].ino)), {}))
access(s, p) == Same(s, IF Exists(s, p) THEN Ok ELSE Error("ENOENT"))
readlink(s, p, size) ==
  Same(s, IF ~Exists(s, p) THEN Error("ENOENT")
          ELSE IF Object(s, p).kind # "link" THEN Error("EINVAL")
          ELSE Reply("", "", IF Object(s, p).target < size THEN Object(s, p).target ELSE size, {}))

mknod(s, p, kind)  == Make(s, p, [NoObject EXCEPT !.kind = kind])
mkdir(s, p)        == Make(s, p, [NoObject EXCEPT !.kind = "dir"])
symlink(s, text, p) == Make(s, p, [NoObject EXCEPT !.kind = "link", !.target = text])
rmdir(s, p) ==
  IF ~Exists(s, p) THEN Same(s, Error("ENOENT"))
  ELSE IF Object(s, p).kind # "dir" THEN Same(s, Error("ENOTDIR"))
  ELSE Same(Swept([s EXCEPT !.names[p] = NoEntry]), Ok)
link(s, p, q) ==
  IF ~Exists(s, p) THEN Same(s, Error("ENOENT"))
  ELSE IF Exists(s, q) THEN Same(s, Error("EEXIST"))
  ELSE IF Object(s, p).kind = "dir" THEN Same(s, Error("EPERM"))
  ELSE Enter(s, q, s.names[p].ino)
\* The target keeps its place when it exists; the new entry is made before the old one
\* goes.
rename(s, p, q) ==
  LET moved(k) == Swept([s EXCEPT !.names = [@ EXCEPT ![q] = [ino |-> s.names[p].ino, place |-> k], ![p] = NoEntry]])
  IN IF ~Exists(s, p) THEN Same(s, Error("ENOENT"))
     ELSE IF s.names[p].ino = s.names[q].ino THEN Same(s, Ok)
     ELSE IF ~Exists(s, q) THEN {[res |-> Ok, s |-> moved(k)] : k \in FreePlaces(s, q)}
     ELSE IF Object(s, p).kind = "dir" /\ Object(s, q).kind # "dir" THEN Same(s, Error("ENOTDIR"))
     ELSE IF Object(s, p).kind # "dir" /\ Object(s, q).kind = "dir" THEN Same(s, Error("EISDIR"))
     ELSE Same(moved(s.names[q].place), Ok)

lsetxattr(s, p, a) ==
  IF ~Exists(s, p) THEN Same(s, Error("ENOENT"))
  ELSE Same([s EXCEPT !.obj[s.names[p].ino].attrs = @ \union {a}], Ok)
lgetxattr(s, p, a) ==
  Same(s, IF ~Exists(s, p) THEN Error("ENOENT") ELSE IF a \in Object(s, p).attrs THEN Reply("", "", 0, {a}) ELSE Error("ENODATA"))
llistxattr(s, p) ==
  Same(s, IF ~Exists(s, p) THEN Error("ENOENT") ELSE Reply("", "", 0, Object(s, p).attrs))
lremovexattr(s, p, a) ==
  IF ~Exists(s, p) THEN Same(s, Error("ENOENT"))
  ELSE IF a \notin Object(s, p).attrs THEN Same(s, Error("ENODATA"))
  ELSE Same([s EXCEPT !.obj[s.names[p].ino].attrs = @ \ {a}], Ok)

-----------------------------------------------------------------------------
(* The abstract specification: one call after another on a directory whose *)
(* names are Paths, each seen to the kernel by its reply.  A call may also *)
(* be lost with the daemon that serves the mount, and a rename with flags  *)
(* is refused; neither changes anything.                                   *)

CONSTANT Paths
VARIABLES dir, reply

Longest == CHOOSE t \in Targets : \A u \in Targets : u <= t
Does(outcomes) == \E r \in outcomes : reply' = r.res /\ dir' = r.s
Query(p) ==
  /\ UNCHANGED dir
  /\ \/ Does(lstat(dir, p)) \/ Does(access(dir, p)) \/ Does(llistxattr(dir, p))
     \/ Does(readlink(dir, p, Longest))
     \/ \E a \in Attrs : Does(lgetxattr(dir, p, a))
Change(p) ==
  \/ Does(mkdir(dir, p)) \/ Does(rmdir(dir, p))
  \/ \E t \in Targets : Does(symlink(dir, t, p))
  \/ \E k \in {"file", "fifo"} : Does(mknod(dir, p, k))
  \/ \E a \in Attrs : Does(lsetxattr(dir, p, a)) \/ Does(lremovexattr(dir, p, a))
Change2(p, q) == Does(link(dir, p, q)) \/ Does(rename(dir, p, q))
Lost == Does(Same(dir, Error("ENOTCONN"))) \/ Does(Same(dir, Error("EINVAL")))

PlainInit == dir.names = [p \in Paths |-> NoEntry] /\ (\A i \in DOMAIN dir.obj : dir.obj[i] = NoObject) /\ reply = Ok
PlainNext ==
  \/ UNCHANGED <<dir, reply>>
  \/ Lost
  \/ \E p \in Paths : Query(p) \/ Change(p) \/ \E q \in Paths : Change2(p, q)
PlainSpec == PlainInit /\ [][PlainNext]_<<dir, reply>>
=============================================================================
