---------------------------- MODULE Passthrough ----------------------------
(***************************************************************************)
(* The handlers of passthroughBlocked_fh.c on the directory tree: each one *)
(* makes a system call on the path below ROOT_PATH.  Reading a directory   *)
(* keeps a position, an entry that did not fit and an offset between the   *)
(* kernel's calls, while other handlers make and remove entries.  The      *)
(* handlers that are not written yet dereference a null pointer: the       *)
(* daemon dies, and is mounted again without its open directories.         *)
(*                                                                         *)
(* The tree has one level.  A path of the file system below is             *)
(* <<directory, name>>; beside ROOT_PATH there is the directory that the   *)
(* path without its prefix leads to.                                       *)
(***************************************************************************)
EXTENDS Integers, FiniteSets

CONSTANTS Names, Inodes, Places, Targets, Attrs,
          DirHandles,   \* open directories
          Rooms         \* numbers of entries a reply of the kernel's size may hold

\* 0 stands for no name (d->entry is NULL), no object and the start of a directory; one of
\* the texts of symbolic links is the longest.
ASSUME NamesAssumption   == 0 \notin Names
ASSUME InodesAssumption  == IsFiniteSet(Inodes) /\ Inodes = 1 .. Cardinality(Inodes)
ASSUME PlacesAssumption  == Places \subseteq Nat /\ 0 \notin Places
ASSUME TargetsAssumption == Targets \subseteq Nat /\ \E t \in Targets : \A u \in Targets : u <= t
ASSUME RoomsAssumption   == Rooms \subseteq Nat

VARIABLES under,   \* the file system below
          reply,   \* the last answer to a call by path
          dirp,    \* struct xmp_dirp of an open directory, or Closed
          scan     \* its reader: the offset it is at, the entries that have stayed since its
                   \* opendir, and how often it was given each of them with which offset

ptVars == <<under, reply, dirp, scan>>
ROOT_PATH == "root"
Outside   == "outside"
OutsideIno == Cardinality(Inodes) + 1
Sys == INSTANCE PlainDir WITH Paths <- Names, dir <- under, reply <- reply

makePath(n) == <<ROOT_PATH, n>>
\* The entries in N are still where they were when the reading began.
Kept(k, N) == [k EXCEPT !.stable = N,
                        !.listed = [e \in Names \X Places |-> IF e[1] \in N THEN k.listed[e] ELSE 0]]
Call(outcomes) == /\ \E r \in outcomes : under' = r.s /\ reply' = r.res
                  /\ UNCHANGED dirp
                  /\ scan' = [h \in DirHandles |-> Kept(scan[h],
                                {n \in scan[h].stable : under'.names[makePath(n)].place = under.names[makePath(n)].place})]

xmp_getattr(n)   == Call(Sys!lstat(under, makePath(n)))
xmp_access(n)    == Call(Sys!access(under, makePath(n)))
\* libfuse asks with a buffer that holds every target and the byte that ends it.
BufSize == CHOOSE k \in {t + 1 : t \in Targets} : \A t \in Targets : t < k
xmp_readlink(n)  == Call(Sys!readlink(under, makePath(n), BufSize - 1))
xmp_mknod(n, kind) == Call(Sys!mknod(under, makePath(n), kind))
xmp_mkdir(n)     == Call(Sys!mkdir(under, makePath(n)))
xmp_rmdir(n)     == Call(Sys!rmdir(under, makePath(n)))
xmp_symlink(from, n) == Call(Sys!symlink(under, from, makePath(n)))
xmp_rename(from, to, flags) ==
  Call(IF flags THEN Sys!Same(under, Sys!Error("EINVAL")) ELSE Sys!rename(under, makePath(from), makePath(to)))
xmp_link_raw(from, to) == Call(Sys!link(under, <<Outside, from>>, makePath(to)))
xmp_link(from, to) == Call(Sys!link(under, makePath(from), makePath(to)))
xmp_setxattr(n, a)    == Call(Sys!lsetxattr(under, makePath(n), a))
xmp_getxattr(n, a)    == Call(Sys!lgetxattr(under, makePath(n), a))
xmp_listxattr(n)      == Call(Sys!llistxattr(under, makePath(n)))
xmp_removexattr(n, a) == Call(Sys!lremovexattr(under, makePath(n), a))

-----------------------------------------------------------------------------
(* Directories *)

\* struct xmp_dirp: the position of dp, the entry kept for the next call (0: none), offset.
Positioned(pos) == [dp |-> pos, entry |-> 0, offset |-> pos]
Closed == Positioned(-1)
NoScan == [off |-> 0, listed |-> [e \in Names \X Places |-> 0], stable |-> {}]
Present == {n \in Names : under.names[makePath(n)] # Sys!NoEntry}
Place(n) == under.names[makePath(n)].place

xmp_opendir(h) ==
  /\ dirp[h] = Closed
  /\ dirp' = [dirp EXCEPT ![h] = Positioned(0)]
  /\ scan' = [scan EXCEPT ![h] = [NoScan EXCEPT !.stable = Present]]
  /\ UNCHANGED <<under, reply>>

\* readdir(3): the next entry behind a position.
Behind(pos) == {n \in Present : Place(n) > pos}
ReadEntry(d) ==
  IF d.entry # 0 THEN d
  ELSE IF Behind(d.dp) = {} THEN d
  ELSE LET n == CHOOSE m \in Behind(d.dp) : \A k \in Behind(d.dp) : Place(m) <= Place(k)
       IN [d EXCEPT !.entry = n, !.dp = Place(n)]

seekdir(d, offset) ==
  IF offset # d.offset THEN Positioned(offset) ELSE d

\* A turn of the loop of xmp_readdir whose entry the filler takes.
Filled(c) ==
  LET d == ReadEntry(c.d)
  IN IF d.entry = 0 THEN c
     ELSE [d |-> Positioned(d.dp), off |-> d.dp,
           listed |-> [c.listed EXCEPT ![<<d.entry, d.dp>>] = @ + 1]]
Turns(c, room) == LET turn[i \in Nat] == IF i = 0 THEN c ELSE Filled(turn[i - 1]) IN turn[room]

\* A call at an offset, before its loop: the reader gives back what lies behind the offset.
Started(h, offset) ==
  [d |-> seekdir(dirp[h], offset), off |-> offset,
   listed |-> [e \in Names \X Places |-> IF e[2] <= offset THEN scan[h].listed[e] ELSE 0]]

\* xmp_readdir: room entries are taken by the filler, the next one is kept.  The reply is
\* lost when the reader was interrupted.
ReadFrom(h, c, d, taken) ==
  /\ dirp[h] # Closed
  /\ dirp' = [dirp EXCEPT ![h] = d]
  /\ scan' = IF taken THEN [scan EXCEPT ![h] = Kept([@ EXCEPT !.off = c.off, !.listed = c.listed], @.stable)]
             ELSE scan
  /\ UNCHANGED <<under, reply>>
xmp_readdir_drops(h, offset, room, taken) ==
  LET c == Turns(Started(h, offset), room) IN ReadFrom(h, c, [ReadEntry(c.d) EXCEPT !.entry = 0], taken)
xmp_readdir(h, offset, room, taken) ==
  LET c == Turns(Started(h, offset), room) IN ReadFrom(h, c, ReadEntry(c.d), taken)

xmp_releasedir(h) ==
  /\ dirp[h] # Closed
  /\ dirp' = [dirp EXCEPT ![h] = Closed]
  /\ scan' = [scan EXCEPT ![h] = NoScan]
  /\ UNCHANGED <<under, reply>>

\* The offsets a reader may ask for: where it is, the start, an entry it has seen.
Askable(h) == {0, scan[h].off} \union {k \in Places : \E n \in Names : scan[h].listed[<<n, k>>] > 0}

-----------------------------------------------------------------------------
(* Handlers that are not written yet *)

unimplemented ==
  /\ reply' = Sys!Error("ENOTCONN")
  /\ dirp' = [h \in DirHandles |-> Closed] /\ scan' = [h \in DirHandles |-> NoScan]
  /\ UNCHANGED under
xmp_chmod     == unimplemented
xmp_chown     == unimplemented
xmp_truncate  == unimplemented
xmp_utimens   == unimplemented
xmp_write     == unimplemented
xmp_fsync     == unimplemented
xmp_fallocate == unimplemented
xmp_flock     == unimplemented

-----------------------------------------------------------------------------

PtInit ==
  /\ under = [names |-> [p \in {ROOT_PATH, Outside} \X Names |->
                           IF p[1] = Outside THEN [ino |-> OutsideIno, place |-> p[2]] ELSE Sys!NoEntry],
              obj   |-> [i \in Inodes \union {OutsideIno} |->
                           IF i = OutsideIno THEN [Sys!NoObject EXCEPT !.kind = "file"] ELSE Sys!NoObject]]
  /\ reply = Sys!Ok
  /\ dirp = [h \in DirHandles |-> Closed] /\ scan = [h \in DirHandles |-> NoScan]

\* Every handler, on the names in N.
TreeNext(N) ==
  \/ \E n \in N :
       \/ xmp_getattr(n) \/ xmp_access(n) \/ xmp_readlink(n) \/ xmp_mkdir(n) \/ xmp_rmdir(n) \/ xmp_listxattr(n)
       \/ \E kind \in {"file", "fifo"} : xmp_mknod(n, kind)
       \/ \E from \in Targets : xmp_symlink(from, n)
       \/ \E to \in N : xmp_link(n, to) \/ \E flags \in BOOLEAN : xmp_rename(n, to, flags)
       \/ \E a \in Attrs : xmp_setxattr(n, a) \/ xmp_getxattr(n, a) \/ xmp_removexattr(n, a)
  \/ xmp_chmod \/ xmp_chown \/ xmp_truncate \/ xmp_utimens \/ xmp_write \/ xmp_fsync \/ xmp_fallocate \/ xmp_flock
ScanNext ==
  \E h \in DirHandles :
    \/ xmp_opendir(h) \/ xmp_releasedir(h)
    \/ \E offset \in Askable(h), room \in Rooms, taken \in BOOLEAN : xmp_readdir(h, offset, room, taken)
PtNext == TreeNext(Names) \/ ScanNext
PtSpec == PtInit /\ [][PtNext]_ptVars
\* What changes a directory while it is read.
DirChange ==
  /\ \E n \in Names : xmp_mkdir(n) \/ xmp_rmdir(n) \/ \E to \in Names : xmp_rename(n, to, FALSE)
  /\ under' # under

-----------------------------------------------------------------------------
(* Properties                                                              *)

\* Through the mount, the tree behaves as a plain directory does, in its state and in
\* every answer: each handler does below ROOT_PATH what the call asks for and touches
\* nothing else, however calls follow each other and whenever the daemon dies.
Plain == INSTANCE PlainDir WITH
           Paths <- {makePath(n) : n \in Names},
           dir   <- [names |-> [p \in {makePath(n) : n \in Names} |-> under.names[p]],
                     obj   |-> [i \in Inodes |-> under.obj[i]]]
MountIsPlain == Plain!PlainSpec

\* A reader of a directory is given every entry that stays there from its opendir on
\* exactly once and with its own offset, as soon as it is past that offset and not before:
\* whatever comes and goes meanwhile, however the replies are cut, and also after a lost
\* reply or a seek (d->entry and d->offset kept between calls of xmp_readdir).
ScanExact ==
  \A h \in DirHandles : \A n \in scan[h].stable, k \in Places :
    scan[h].listed[<<n, k>>] = IF k = Place(n) /\ k <= scan[h].off THEN 1 ELSE 0
=============================================================================
