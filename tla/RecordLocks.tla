---------------------------- MODULE RecordLocks ----------------------------
(***************************************************************************)
(* POSIX record locks of the high-level library: the list of locks that    *)
(* each node keeps beside the locks of the file system itself, so that     *)
(* F_GETLK of a lock taken through this mount needs no call and FLUSH can  *)
(* drop what an owner holds.                                               *)
(*                                                                         *)
(* A request first calls the file system's lock operation and then, in a   *)
(* second step under the library's mutex, updates the list.  The file      *)
(* system below is external: it keeps POSIX locks byte by byte.            *)
(*                                                                         *)
(* Two failures set list and file system apart, and nobody hears of them:  *)
(* locks_insert finds no memory, and FLUSH drops the owner's locks from    *)
(* the list although the file system kept them.  "astray" remembers where  *)
(* that happened, until another request of the owner settles the place.    *)
(***************************************************************************)
EXTENDS Integers, SequencesExt

CONSTANTS LockOwners,  \* lock owners, one request at a time each
          OFFSET_MAX   \* the last offset

ASSUME OffsetAssumption == OFFSET_MAX \in Nat

VARIABLES locks,   \* node->locks
          fsLocks, \* the file system's: owner -> byte -> type
          setting, \* owner -> the request between its two steps, and whether it was granted
          astray   \* history: owner -> the bytes whose last request ended in one half only

lockVars == <<locks, fsLocks, setting, astray>>
F_UNLCK == 2
F_RDLCK == 0
F_WRLCK == 1
Bytes == 0..OFFSET_MAX

\* The request as it comes, with its last byte; what the library passes around has
\* a length, 0 for "up to the end".
convert_fuse_file_lock(fl) ==
  [type |-> fl.type, start |-> fl.start, len |-> IF fl.end = OFFSET_MAX THEN 0 ELSE fl.end - fl.start + 1]
flock_to_lock(fk, o) ==
  [type |-> fk.type, start |-> fk.start, owner |-> o,
   end |-> IF fk.len # 0 THEN fk.start + fk.len - 1 ELSE OFFSET_MAX]
lock_to_flock(l) ==
  [type |-> l.type, start |-> l.start, len |-> IF l.end = OFFSET_MAX THEN 0 ELSE l.end - l.start + 1]

\* The first lock of another owner in the way; << >> if there is none.
locks_conflict(ls, lock) ==
  LET inway == {i \in DOMAIN ls : /\ ls[i].owner # lock.owner
                                  /\ lock.start <= ls[i].end /\ ls[i].start <= lock.end
                                  /\ F_WRLCK \in {ls[i].type, lock.type}}
  IN IF inway = {} THEN << >> ELSE <<ls[CHOOSE i \in inway : \A j \in inway : i <= j]>>

\* A turn of the loop of locks_insert at position c.at of the list: what is in the way of
\* the new lock is cut, split or swallowed.  At 0 a lock of its type covers it already.
InsertTurn(c) ==
  LET l == c.ls[c.at]
      lock == c.lock
      Skip(ls) == [ls |-> ls, lock |-> lock, at |-> c.at + 1, more |-> TRUE]
      Delete(k) == [ls |-> RemoveAt(c.ls, c.at), lock |-> k, at |-> c.at, more |-> TRUE]
      Break(ls) == [ls |-> ls, lock |-> lock, at |-> c.at, more |-> FALSE]
      Out       == [ls |-> c.ls, lock |-> lock, at |-> 0, more |-> FALSE]
  IN IF ~c.more THEN c
     ELSE IF c.at > Len(c.ls) THEN Break(c.ls)
     ELSE IF l.owner # lock.owner THEN Skip(c.ls)
     ELSE IF l.type = lock.type
     THEN IF l.end < lock.start - 1 THEN Skip(c.ls)
          ELSE IF lock.end < l.start - 1 THEN Break(c.ls)
          ELSE IF l.start <= lock.start /\ lock.end <= l.end THEN Out
          ELSE Delete([lock EXCEPT !.start = IF l.start < @ THEN l.start ELSE @,
                                   !.end = IF l.end > @ THEN l.end ELSE @])
     ELSE IF l.end < lock.start THEN Skip(c.ls)
     ELSE IF lock.end < l.start THEN Break(c.ls)
     ELSE IF lock.start <= l.start /\ l.end <= lock.end THEN Delete(lock)
     ELSE IF l.end <= lock.end THEN Skip([c.ls EXCEPT ![c.at].end = lock.start - 1])
     ELSE IF lock.start <= l.start THEN Break([c.ls EXCEPT ![c.at].start = lock.end + 1])
     ELSE Skip(InsertAt([c.ls EXCEPT ![c.at].end = lock.start - 1], c.at + 1, [l EXCEPT !.start = lock.end + 1]))

\* The loop from the head of the list: each turn leaves one lock less to look at, but for
\* one that splits a lock, after which the next ends it.
InsertLoop(ls, lock) ==
  LET turn[k \in Nat] == IF k = 0 THEN [ls |-> ls, lock |-> lock, at |-> 1, more |-> TRUE]
                         ELSE InsertTurn(turn[k - 1])
  IN turn[Len(ls) + 1]

locks_insert_asgiven(ls, lock) ==
  LET r == InsertLoop(ls, lock)
  IN IF r.at = 0 \/ lock.type = F_UNLCK THEN r.ls ELSE InsertAt(r.ls, r.at, lock)
locks_insert(ls, lock) ==
  LET r == InsertLoop(ls, lock)
  IN IF r.at = 0 \/ lock.type = F_UNLCK THEN r.ls ELSE InsertAt(r.ls, r.at, r.lock)

-----------------------------------------------------------------------------
(* The file system's own locks (external)                                  *)

InRange(l, b) == l.start <= b /\ b <= l.end
BytesOf(l) == {b \in Bytes : InRange(l, b)}
FsConflict(l) ==
  \E o \in LockOwners \ {l.owner}, b \in Bytes :
    InRange(l, b) /\ fsLocks[o][b] # F_UNLCK /\ F_WRLCK \in {l.type, fsLocks[o][b]}
FsSet(l) == fsLocks' = [fsLocks EXCEPT ![l.owner] = [b \in Bytes |-> IF InRange(l, b) THEN l.type ELSE @[b]]]

Idle == << >>
Requests(o) == {flock_to_lock(convert_fuse_file_lock(r), o) :
                  r \in {x \in [type : {F_RDLCK, F_WRLCK, F_UNLCK}, start : Bytes, end : Bytes] : x.start <= x.end}}

\* The first step of fuse_lib_setlk (with sleep the call returns when the lock is
\* free; without, and when the wait is interrupted, nothing changes) ...
fuse_lib_setlk(o) ==
  /\ setting[o] = Idle
  /\ \E l \in Requests(o) :
       /\ l.type = F_UNLCK \/ ~FsConflict(l)
       /\ FsSet(l)
       /\ setting' = [setting EXCEPT ![o] = <<l, TRUE>>]
  /\ UNCHANGED <<locks, astray>>

\* ... fuse_flush_common: the file system drops the owner's locks or, interrupted or
\* failing, keeps them (it has a lock operation, so the answer is not ENOSYS) ...
fuse_flush_common(o) ==
  LET all == flock_to_lock([type |-> F_UNLCK, start |-> 0, len |-> 0], o)
  IN /\ setting[o] = Idle
     /\ \/ FsSet(all) /\ setting' = [setting EXCEPT ![o] = <<all, TRUE>>]
        \/ UNCHANGED fsLocks /\ setting' = [setting EXCEPT ![o] = <<all, FALSE>>]
     /\ UNCHANGED <<locks, astray>>

\* ... and the second step of both.  Only to drop everything takes no memory; without
\* memory the list stays, and the request is answered all the same.
NeedsMemory(l) == l.type # F_UNLCK \/ l.start # 0 \/ l.end # OFFSET_MAX
SetLocal(o) ==
  /\ setting[o] # Idle
  /\ LET l == setting[o][1]
         granted == setting[o][2]
     IN \/ /\ locks' = locks_insert(locks, l)
           /\ astray' = [astray EXCEPT ![o] = IF granted THEN @ \ BytesOf(l) ELSE @ \union BytesOf(l)]
        \/ /\ NeedsMemory(l)
           /\ astray' = [astray EXCEPT ![o] = @ \union BytesOf(l)]
           /\ UNCHANGED locks
  /\ setting' = [setting EXCEPT ![o] = Idle]
  /\ UNCHANGED fsLocks

\* fuse_lib_getlk: the lock reported from the list, or << >> when the file system is
\* asked.
fuse_lib_getlk(l) == LET c == locks_conflict(locks, l)
                     IN IF c = << >> THEN << >> ELSE <<lock_to_flock(c[1])>>

LocksInit ==
  /\ locks = << >>
  /\ fsLocks = [o \in LockOwners |-> [b \in Bytes |-> F_UNLCK]]
  /\ setting = [o \in LockOwners |-> Idle]
  /\ astray = [o \in LockOwners |-> {}]
LocksNext == \E o \in LockOwners : fuse_lib_setlk(o) \/ fuse_flush_common(o) \/ SetLocal(o)
LocksSpec == LocksInit /\ [][LocksNext]_lockVars

-----------------------------------------------------------------------------
(* Properties                                                              *)

\* Between requests of an owner the library's list says, byte for byte, what the file
\* system granted, for every order in which locks overlap, split, replace and join each
\* other and in which the owners' second steps come, except for the bytes that one of the
\* two failures set astray: what follows on their neighbours does not spread it, and the
\* next request that goes through mends it.
ListAgrees ==
  \A o \in LockOwners : setting[o] = Idle =>
    \A b \in Bytes \ astray[o] :
      LET at == {i \in DOMAIN locks : locks[i].owner = o /\ InRange(locks[i], b)}
      IN IF at = {} THEN fsLocks[o][b] = F_UNLCK ELSE \A i \in at : fsLocks[o][b] = locks[i].type

\* The locks of an owner are listed in ascending order, do not overlap, and those
\* that touch are of different types: the loop may stop at the first lock beyond.
ListCanonical ==
  \A i, j \in DOMAIN locks : i < j /\ locks[i].owner = locks[j].owner =>
    /\ locks[i].end < locks[j].start
    /\ locks[i].type = locks[j].type => locks[i].end + 1 < locks[j].start

\* While no request is under way, F_GETLK on bytes where no other owner is astray finds
\* a lock in the list exactly when the file system would refuse the lock, and the lock it
\* reports is in the way.
GetlkExact ==
  (\A o \in LockOwners : setting[o] = Idle) =>
    \A o \in LockOwners : \A l \in {x \in Requests(o) : x.type # F_UNLCK} :
      (\A p \in LockOwners \ {o} : BytesOf(l) \intersect astray[p] = {}) =>
        LET r == fuse_lib_getlk(l)
        IN /\ (r # << >>) <=> FsConflict(l)
           /\ r # << >> => LET w == flock_to_lock(r[1], o)
                           IN w.start <= l.end /\ l.start <= w.end /\ F_WRLCK \in {w.type, l.type}

\* The list of locks of a node agrees with the file system's locks when no call is under
\* way, wherever no failure set them apart, stays sorted and merged (locks_insert), and
\* answers F_GETLK there as the file system.
LocksAgree == ListAgrees /\ ListCanonical /\ GetlkExact
=============================================================================
