--------------------------- MODULE Session_proofs ---------------------------
(***************************************************************************)
(* The lifetimes of requests, channels and workers, and the interrupts of  *)
(* module Session, for every number of workers, every script of requests   *)
(* and all settings of the session.                                        *)
(*                                                                         *)
(* A request is freed by whoever drops the last reference.  The inductive  *)
(* invariant says who has one: the session while the request is in one of  *)
(* its two lists, the thread that works on it, and every thread that is    *)
(* interrupting it.  No two threads have the same request in hand, so that *)
(* a function stored in a request is that of the thread in whose call it   *)
(* still is, and it stays there as long as another thread has the          *)
(* request's lock.                                                         *)
(***************************************************************************)
EXTENDS Session, TLAPS, FiniteSetTheorems

Requests ==
  [op : fuse_opcode, uid : {Owner, Root, Other}, arg : Args, uq : Nat, target : Nat,
   st : {"queued", "read", "live", "freed"}, replies : Nat, ctr : Int, interrupted : BOOLEAN,
   func : Threads \cup {None}, lock : Threads \cup {None}, ch : Workers \cup {None}]
SessionType ==
  [got_init : BOOLEAN, got_destroy : BOOLEAN, exited : BOOLEAN, error : Int, result : Int,
   list : SUBSET Nat, interrupts : Seq(Nat), notify : SUBSET Nat, notify_ctr : Nat,
   held : SUBSET Nat, destroys : Nat]
PoolType ==
  [list : Seq(Workers), numworker : Int, numavail : Int, finish : Int, exit : BOOLEAN, error : Int]
ThreadType ==
  [pc : Pcs, u : Nat, cur : Nat, d : Threads \cup {None},
   cancelled : BOOLEAN, fin : BOOLEAN, sig : BOOLEAN]
KernelType == [sent : Nat, intrs : Nat, aborted : BOOLEAN, signalled : BOOLEAN]

SessType ==
  /\ conf \in Configs
  /\ req \in Seq(Requests)
  /\ se \in SessionType
  /\ mt \in PoolType
  /\ thr \in [Threads -> ThreadType]
  /\ chan \in [Workers -> Int]
  /\ kern \in KernelType

(* A thread that owns the request it works on, one that interrupts another *)
(* request, one that has a message and no request yet.                     *)
OwnPcs == {"prep", "run", "finish", "withdraw", "reply", "free", "init", "destroy",
           "notify_reply"}
IntrPcs == {"intr", "kill", "killed", "unref"}
KeepPcs == OwnPcs \cup IntrPcs
FreshPcs == {"got", "work"}
Holding == KeepPcs \cup FreshPcs

(* The list of workers, and where the main thread can be without them. *)
Pool ==
  /\ \A k, l \in DOMAIN mt.list : mt.list[k] = mt.list[l] => k = l
  /\ \A w \in Workers : Idle(w) <=> w \notin ToSet(mt.list)
  /\ thr[Main].pc \notin {"loop", "wait", "cancel", "join"} => mt.list = << >>
  /\ thr[Main].pc # "got"
  /\ thr[Fs].pc \in {"none", "send", "reply", "free", "exit", "done"}

(* What is in the lists of the session. *)
Lists ==
  /\ \A i \in se.list : i \in Ids /\ req[i].st = "live" /\ req[i].op # "interrupt"
  /\ \A k \in DOMAIN se.interrupts :
       /\ se.interrupts[k] \in Ids
       /\ req[se.interrupts[k]].st = "live" /\ req[se.interrupts[k]].op = "interrupt"
  /\ \A k, l \in DOMAIN se.interrupts :
       req[se.interrupts[k]].target = req[se.interrupts[l]].target => k = l
  /\ NoInterruptMissed
  /\ \A i \in se.held : i \in se.list /\ ~conf.intr

(* What threads have in hand. *)
InHands(t) ==
  /\ thr[t].pc \in FreshPcs => thr[t].u \in Ids /\ req[thr[t].u].st = "read"
  /\ thr[t].pc \in KeepPcs =>
       thr[t].u \in Ids /\ req[thr[t].u].st = "live" /\ thr[t].u \notin ToSet(se.interrupts)
  /\ thr[t].pc \in OwnPcs \ {"reply", "free"} => thr[t].u \in se.list
  /\ thr[t].pc \in IntrPcs =>
       /\ req[thr[t].u].op = "interrupt"
       /\ thr[t].cur \in Ids /\ req[thr[t].cur].st = "live" /\ req[thr[t].cur].op # "interrupt"
  /\ thr[t].pc \in Holding => thr[t].u \notin se.held
Hands ==
  /\ \A t \in Threads : InHands(t)
  /\ \A t, s \in Threads :
       thr[t].pc \in Holding /\ thr[s].pc \in Holding /\ thr[t].u = thr[s].u => t = s

(* The references to a request. *)
Interrupters(i) == {t \in Threads : thr[t].pc \in IntrPcs /\ thr[t].cur = i}
Kept(i) == \/ i \in se.list
           \/ i \in ToSet(se.interrupts)
           \/ \E t \in Threads : thr[t].pc \in KeepPcs /\ thr[t].u = i
Counted(i) == req[i].ctr = Cardinality(Interrupters(i)) + (IF Kept(i) THEN 1 ELSE 0)
Counts == \A i \in Ids : req[i].st = "live" => Counted(i)

(* The function of a request, and the lock under which it is called. *)
FuncOk(i) ==
  req[i].func # None =>
    /\ req[i].func \in Threads /\ thr[req[i].func].u = i
    /\ thr[req[i].func].pc \in {"run", "finish", "withdraw"}
    /\ conf.intr /\ req[i].op \notin NoAnswer
LockOk(t) ==
  /\ thr[t].pc = "prep" => conf.intr /\ req[thr[t].u].op \notin NoAnswer
  /\ thr[t].pc \in {"kill", "killed"} =>
       req[thr[t].cur].lock = t /\ req[thr[t].cur].func = thr[t].d /\ thr[t].d # None
Functs == /\ \A i \in Ids : FuncOk(i)
          /\ \A t \in Threads : LockOk(t)

(* The references to a channel. *)
ReadFrom(w) == {i \in Ids : req[i].ch = w}
Channels ==
  /\ \A i \in Ids : req[i].st \in {"queued", "read"} => req[i].ch = None
  /\ conf.clone_fd => \A w \in Workers :
       chan[w] = (IF Idle(w) THEN 0 ELSE 1) + Cardinality(ReadFrom(w))

RefInv == Lists /\ Hands /\ Counts /\ Functs
SessInv == SessType /\ Pool /\ RefInv /\ Channels

-----------------------------------------------------------------------------
(* Threads and their fields. *)
LEMMA ThreadFacts ==
  /\ Main \in Threads /\ Fs \in Threads /\ Main # Fs /\ Workers \subseteq Threads
  /\ Main \notin Workers /\ Fs \notin Workers /\ None \notin Threads
  /\ IsFiniteSet(Threads)
<1>1. IsFiniteSet({Main}) /\ IsFiniteSet({Fs}) /\ IsFiniteSet(Workers)
  BY SessionAssumption, FS_Singleton
<1>2. IsFiniteSet({Main} \cup {Fs})
  BY <1>1, FS_Union
<1>3. IsFiniteSet(Workers \cup ({Main} \cup {Fs}))
  BY <1>1, <1>2, FS_Union
<1>4. Threads = Workers \cup ({Main} \cup {Fs})
  BY DEF Threads
<1> QED BY <1>3, <1>4, SessionAssumption DEF Threads

(* Whatever the file system supplies, do_* calls it, answers, frees the    *)
(* request or is one of the functions of the session.                      *)
Ways == {"call", "reply", "none", "init", "destroy", "notify_reply"}
LEMMA TableWays ==
  ASSUME NEW ops, NEW x, NEW op \in fuse_opcode \ {"lseek", "interrupt"}
  PROVE  fuse_ll_ops(ops, x)[op][1] \in Ways
<1> DEFINE t == fuse_ll_ops(ops, x)
<1>1. t.lookup[1] \in Ways /\ t.forget[1] \in Ways /\ t.getattr[1] \in Ways /\
      t.setattr[1] \in Ways /\ t.readlink[1] \in Ways /\ t.symlink[1] \in Ways /\
      t.mknod[1] \in Ways /\ t.mkdir[1] \in Ways /\ t.unlink[1] \in Ways /\
      t.rmdir[1] \in Ways /\ t.rename[1] \in Ways /\ t.link[1] \in Ways /\
      t.open[1] \in Ways /\ t.read[1] \in Ways /\ t.write[1] \in Ways /\
      t.statfs[1] \in Ways /\ t.release[1] \in Ways /\ t.fsync[1] \in Ways /\
      t.setxattr[1] \in Ways /\ t.getxattr[1] \in Ways /\
      t.listxattr[1] \in Ways /\ t.removexattr[1] \in Ways /\
      t.flush[1] \in Ways /\ t.init[1] \in Ways /\ t.opendir[1] \in Ways /\
      t.readdir[1] \in Ways /\ t.releasedir[1] \in Ways /\
      t.fsyncdir[1] \in Ways /\ t.getlk[1] \in Ways /\ t.setlk[1] \in Ways /\
      t.setlkw[1] \in Ways /\ t.access[1] \in Ways /\ t.create[1] \in Ways /\
      t.bmap[1] \in Ways /\ t.ioctl[1] \in Ways /\ t.poll[1] \in Ways /\
      t.fallocate[1] \in Ways /\ t.destroy[1] \in Ways /\
      t.notify_reply[1] \in Ways /\ t.batch_forget[1] \in Ways /\
      t.readdirplus[1] \in Ways /\ t.rename2[1] \in Ways /\ t.cuse_init[1] \in Ways
  BY DEF Ways, fuse_ll_ops, do_lookup, do_forget, do_batch_forget, do_getattr,
         do_setattr, do_access, do_readlink, do_mknod, do_mkdir, do_unlink,
         do_rmdir, do_symlink, do_rename, do_rename2, do_link, do_create, do_open,
         do_read, do_write, do_write_buf, do_flush, do_release, do_fsync,
         do_opendir, do_readdir, do_readdirplus, do_releasedir, do_fsyncdir,
         do_statfs, do_setxattr, do_getxattr, do_listxattr, do_removexattr,
         do_getlk, do_setlk_common, do_bmap, do_ioctl, do_poll, do_fallocate, Call,
         ENOSYS
<1>2. op \in
         {"lookup", "forget", "getattr", "setattr", "readlink", "symlink", "mknod",
         "mkdir", "unlink", "rmdir", "rename", "link", "open", "read", "write",
         "statfs", "release", "fsync", "setxattr", "getxattr", "listxattr",
         "removexattr", "flush", "init", "opendir", "readdir", "releasedir",
         "fsyncdir", "getlk", "setlk", "setlkw", "access", "create", "interrupt",
         "bmap", "ioctl", "poll", "fallocate", "destroy", "notify_reply",
         "batch_forget", "readdirplus", "rename2", "cuse_init", "lseek"}
  BY DEF fuse_opcode, fuse_ll_ops
<1> HIDE DEF t, Ways
<1>3. t[op][1] \in Ways
  BY <1>1, <1>2
<1> QED BY <1>3 DEF t

(* Where a request that is not refused goes. *)
LEMMA Dispatched ==
  ASSUME NEW t, NEW op \in fuse_opcode \ {"lseek", "interrupt"}, NEW ops, NEW x, NEW q,
         q = AfterDispatch(t, op, fuse_ll_ops(ops, x)[op])
  PROVE  /\ q \in {"prep", "run", "reply", "free", "init", "destroy", "notify_reply"}
         /\ q = "prep" => conf.intr /\ op \notin NoAnswer
<1> DEFINE how == fuse_ll_ops(ops, x)[op]
<1>1. how[1] \in Ways
  BY TableWays
<1>2. q = AfterDispatch(t, op, how)
  OBVIOUS
<1> HIDE DEF how
<1> QED BY <1>1, <1>2 DEF Ways, AfterDispatch

(* One request changed, one request more. *)
LEMMA Changed ==
  ASSUME NEW rs \in Seq(Requests), NEW i \in DOMAIN rs, NEW r \in Requests, NEW qs,
         qs = [rs EXCEPT ![i] = r]
  PROVE  /\ qs \in Seq(Requests) /\ DOMAIN qs = DOMAIN rs /\ qs[i] = r
         /\ \A j \in DOMAIN rs : j # i => qs[j] = rs[j]
OBVIOUS

LEMMA Grown ==
  ASSUME NEW rs \in Seq(Requests), NEW r \in Requests, NEW qs, qs = Append(rs, r)
  PROVE  /\ qs \in Seq(Requests) /\ DOMAIN qs = DOMAIN rs \cup {Len(rs) + 1}
         /\ qs[Len(rs) + 1] = r /\ Len(rs) + 1 \notin DOMAIN rs
         /\ \A j \in DOMAIN rs : qs[j] = rs[j]
OBVIOUS

(* A message in the kernel's queue is a request.                           *)
LEMMA MessageType ==
  ASSUME NEW op \in fuse_opcode, NEW uid \in {Owner, Root, Other}, NEW arg \in Args, NEW uq \in Nat,
         NEW target \in Nat
  PROVE  Message(op, uid, arg, uq, target) \in Requests
BY DEF Message, Requests

LEMMA InterruptType ==
  ASSUME NEW target \in Nat
  PROVE  Interrupt(target) \in Requests
<1>1. "interrupt" \in fuse_opcode
  BY DEF fuse_opcode, fuse_ll_ops
<1>2. "" \in Args
  BY DEF Args
<1> QED BY <1>1, <1>2, MessageType DEF Interrupt

(* A sequence without one of its elements. *)
Without(r, s, k) ==
  /\ Len(r) = Len(s) - 1
  /\ \A j \in DOMAIN r : r[j] = IF j < k THEN s[j] ELSE s[j + 1]
  /\ \A j \in DOMAIN r : (IF j < k THEN j ELSE j + 1) \in DOMAIN s \ {k}
  /\ \A j \in DOMAIN s : j # k => \E l \in DOMAIN r : r[l] = s[j]
LEMMA Removed ==
  ASSUME NEW S, NEW s \in Seq(S), NEW k \in DOMAIN s, NEW r, r = RemoveAt(s, k)
  PROVE  r \in Seq(S) /\ Without(r, s, k)
<1> DEFINE a == SubSeq(s, 1, k - 1)
           b == SubSeq(s, k + 1, Len(s))
<1>1. /\ a \in Seq(S) /\ Len(a) = k - 1 /\ (\A j \in 1 .. k - 1 : a[j] = s[j])
      /\ b \in Seq(S) /\ Len(b) = Len(s) - k /\ (\A j \in 1 .. Len(s) - k : b[j] = s[k + j])
  OBVIOUS
<1>2. r = a \o b
  BY DEF RemoveAt
<1> HIDE DEF a, b
<1>3. r \in Seq(S) /\ Len(r) = Len(s) - 1
  BY <1>1, <1>2
<1>4. \A j \in DOMAIN r : r[j] = IF j < k THEN s[j] ELSE s[j + 1]
  <2> SUFFICES ASSUME NEW j \in DOMAIN r PROVE r[j] = IF j < k THEN s[j] ELSE s[j + 1]
    OBVIOUS
  <2>1. CASE j < k
    BY <1>1, <1>2, <1>3, <2>1
  <2>2. CASE ~ (j < k)
    <3>1. j - (k - 1) \in 1 .. Len(s) - k /\ k + (j - (k - 1)) = j + 1
      BY <1>3, <2>2
    <3>2. r[j] = b[j - (k - 1)]
      BY <1>1, <1>2, <1>3, <2>2
    <3>3. b[j - (k - 1)] = s[k + (j - (k - 1))]
      BY <1>1, <3>1
    <3> QED BY <2>2, <3>1, <3>2, <3>3
  <2> QED BY <2>1, <2>2
<1>5. \A j \in DOMAIN r : (IF j < k THEN j ELSE j + 1) \in DOMAIN s \ {k}
  BY <1>3
<1>6. ASSUME NEW j \in DOMAIN s, j # k PROVE \E l \in DOMAIN r : r[l] = s[j]
  <2>1. CASE j < k
    <3>1. j \in DOMAIN r
      BY <1>3, <2>1
    <3> QED BY <1>4, <2>1, <3>1
  <2>2. CASE j > k
    <3>1. j - 1 \in DOMAIN r /\ ~ (j - 1 < k) /\ (j - 1) + 1 = j
      BY <1>3, <2>2
    <3> QED BY <1>4, <3>1
  <2> QED BY <1>6, <2>1, <2>2
<1> QED BY <1>3, <1>4, <1>5, <1>6 DEF Without

-----------------------------------------------------------------------------
(* What a step may do to threads and requests it is not about. *)
Still(s) == /\ thr'[s].pc = thr[s].pc /\ thr'[s].u = thr[s].u
            /\ thr'[s].cur = thr[s].cur /\ thr'[s].d = thr[s].d
Moved(t, q) ==
  /\ thr'[t].pc = q /\ thr'[t].u = thr[t].u /\ thr'[t].cur = thr[t].cur /\ thr'[t].d = thr[t].d
  /\ \A s \in Threads : s # t => Still(s)

SameName(a, b) == a.op = b.op /\ a.uq = b.uq /\ a.target = b.target
SameReq(a, b) == /\ SameName(a, b) /\ a.st = b.st /\ a.ctr = b.ctr
                 /\ a.func = b.func /\ a.lock = b.lock /\ a.ch = b.ch
Unread(r) == r.st = "queued" /\ r.func = None /\ r.ch = None
Frame(rs, qs, S) ==
  /\ qs \in Seq(Requests)
  /\ DOMAIN rs \subseteq DOMAIN qs
  /\ \A j \in DOMAIN rs : SameName(rs[j], qs[j]) /\ (j \notin S => SameReq(rs[j], qs[j]))
  /\ \A j \in DOMAIN qs : j \notin DOMAIN rs => Unread(qs[j])
SameLists == se'.list = se.list /\ se'.interrupts = se.interrupts /\ se'.held = se.held

LEMMA Went ==
  ASSUME SessType, NEW t \in Threads, NEW q \in Pcs, Goto(t, q)
  PROVE  thr' \in [Threads -> ThreadType] /\ Moved(t, q)
<1>1. thr \in [Threads -> ThreadType] /\ thr' = [thr EXCEPT ![t].pc = q]
  BY DEF SessType, Goto
<1> QED BY <1>1 DEF ThreadType, Moved, Still

(* Requests that stay as they are. *)
LEMMA FrameSame ==
  ASSUME SessType, req' = req, NEW S
  PROVE  Frame(req, req', S)
BY DEF SessType, Frame, SameName, SameReq

LEMMA FrameOne ==
  ASSUME SessType, NEW i \in Ids, NEW r \in Requests, SameName(req[i], r),
         req' = [req EXCEPT ![i] = r]
  PROVE  Frame(req, req', {i}) /\ req'[i] = r /\ Ids' = Ids
<1>1. req \in Seq(Requests) /\ i \in DOMAIN req
  BY DEF SessType, Ids
<1>2. /\ req' \in Seq(Requests) /\ DOMAIN req' = DOMAIN req /\ req'[i] = r
      /\ \A j \in DOMAIN req : j # i => req'[j] = req[j]
  BY <1>1, Changed
<1> QED BY <1>1, <1>2 DEF Frame, SameName, SameReq, Ids

LEMMA FrameMore ==
  ASSUME SessType, NEW r \in Requests, Unread(r), req' = Append(req, r)
  PROVE  Frame(req, req', {})
<1>1. req \in Seq(Requests)
  BY DEF SessType
<1>2. /\ req' \in Seq(Requests) /\ DOMAIN req' = DOMAIN req \cup {Len(req) + 1}
      /\ req'[Len(req) + 1] = r
      /\ \A j \in DOMAIN req : req'[j] = req[j]
  BY <1>1, Grown
<1> QED BY <1>2 DEF Frame, SameName, SameReq

LEMMA InterruptUnread ==
  ASSUME NEW target PROVE Unread(Interrupt(target))
BY DEF Unread, Interrupt, Message

(* Requests with one or two fields changed. *)
LEMMA Fields ==
  ASSUME NEW r \in Requests
  PROVE  /\ r.op \in fuse_opcode /\ r.uq \in Nat /\ r.target \in Nat /\ r.ctr \in Int
         /\ r.st \in {"queued", "read", "live", "freed"}
         /\ r.func \in Threads \cup {None} /\ r.lock \in Threads \cup {None}
         /\ r.ch \in Workers \cup {None}
BY DEF Requests

LEMMA AnsweredReq ==
  ASSUME NEW r \in Requests, NEW q, q = [r EXCEPT !.replies = @ + 1]
  PROVE  q \in Requests /\ SameReq(r, q)
BY DEF Requests, SameReq, SameName

(* An answer changes nothing but the number of answers, or queues the      *)
(* interrupt again.                                                        *)
LEMMA FrameSent ==
  ASSUME NEW rs \in Seq(Requests), NEW i \in DOMAIN rs, NEW qs, qs = fuse_send_msg(rs, i)
  PROVE  Frame(rs, qs, {})
<1>1. CASE rs[i].op # "interrupt"
  <2> DEFINE r == [rs[i] EXCEPT !.replies = @ + 1]
  <2>1. qs = [rs EXCEPT ![i] = r]
    BY <1>1 DEF fuse_send_msg
  <2>2. rs[i] \in Requests
    OBVIOUS
  <2>3. r \in Requests /\ SameReq(rs[i], r)
    BY <2>2, AnsweredReq
  <2> HIDE DEF r
  <2>4. /\ qs \in Seq(Requests) /\ DOMAIN qs = DOMAIN rs /\ qs[i] = r
        /\ \A j \in DOMAIN rs : j # i => qs[j] = rs[j]
    BY <2>1, <2>3, Changed
  <2> QED BY <2>3, <2>4 DEF Frame, SameReq, SameName
<1>2. CASE qs = rs
  BY <1>2 DEF Frame, SameReq, SameName
<1>3. CASE qs = Append(rs, Interrupt(rs[i].target))
  <2>1. rs[i] \in Requests /\ rs[i].target \in Nat
    BY Fields
  <2>2. Interrupt(rs[i].target) \in Requests /\ Unread(Interrupt(rs[i].target))
    BY <2>1, InterruptType, InterruptUnread
  <2>3. /\ qs \in Seq(Requests) /\ DOMAIN qs = DOMAIN rs \cup {Len(rs) + 1}
        /\ qs[Len(rs) + 1] = Interrupt(rs[i].target)
        /\ \A j \in DOMAIN rs : qs[j] = rs[j]
    BY <1>3, <2>2, Grown
  <2> QED BY <2>2, <2>3 DEF Frame, SameReq, SameName
<1> QED BY <1>1, <1>2, <1>3 DEF fuse_send_msg

-----------------------------------------------------------------------------
(* Steps that change no request in the hands of a thread. *)
Quiet(s) ==
  \/ Still(s)
  \/ thr[s].pc \notin KeepPcs /\ thr'[s].pc \notin Holding
  \/ thr[s].pc = "got" /\ thr'[s].pc = "work" /\ thr'[s].u = thr[s].u

(* What quiet steps keep: the lists, what is in hand, the counts, the      *)
(* functions.                                                              *)
LEMMA QuietLists ==
  ASSUME SessType, RefInv, Frame(req, req', {}), SameLists, conf' = conf
  PROVE  Lists'
<1>1. /\ \A j \in Ids : j \in Ids' /\ SameReq(req[j], req'[j])
      /\ Lists
  BY DEF Frame, Ids, RefInv
<1>2. \A i \in se.list : i \in Ids /\ req[i].st = "live" /\ req[i].op # "interrupt"
  BY <1>1 DEF Lists
<1>3. \A k \in DOMAIN se.interrupts :
        /\ se.interrupts[k] \in Ids
        /\ req[se.interrupts[k]].st = "live" /\ req[se.interrupts[k]].op = "interrupt"
  BY <1>1 DEF Lists
<1>4. \A i \in se.list : i \in Ids' /\ req'[i].st = "live" /\ req'[i].op # "interrupt"
  BY <1>1, <1>2 DEF SameReq, SameName
<1>5. \A k \in DOMAIN se.interrupts :
        /\ se.interrupts[k] \in Ids'
        /\ req'[se.interrupts[k]].st = "live" /\ req'[se.interrupts[k]].op = "interrupt"
        /\ req'[se.interrupts[k]].target = req[se.interrupts[k]].target
  BY <1>1, <1>3 DEF SameReq, SameName
<1>6. NoInterruptMissed'
  <2>1. ASSUME NEW k \in DOMAIN se.interrupts, NEW i \in se.list
        PROVE  req'[i].uq # req'[se.interrupts[k]].target
    <3>1. req[i].uq # req[se.interrupts[k]].target
      BY <1>1 DEF Lists, NoInterruptMissed
    <3>2. req'[i].uq = req[i].uq
      BY <1>1, <1>2 DEF SameReq, SameName
    <3> QED BY <1>5, <3>1, <3>2
  <2> QED BY <2>1 DEF SameLists, NoInterruptMissed
<1>7. \A k, l \in DOMAIN se.interrupts :
        req'[se.interrupts[k]].target = req'[se.interrupts[l]].target => k = l
  BY <1>1, <1>5 DEF Lists
<1>8. \A i \in se.held : i \in se.list /\ ~conf.intr
  BY <1>1 DEF Lists
<1> QED BY <1>4, <1>5, <1>6, <1>7, <1>8 DEF Lists, SameLists

LEMMA QuietHands ==
  ASSUME SessType, RefInv, Frame(req, req', {}), SameLists, \A s \in Threads : Quiet(s)
  PROVE  Hands'
<1>1. /\ \A j \in Ids : j \in Ids' /\ SameReq(req[j], req'[j])
      /\ Hands
  BY DEF Frame, Ids, RefInv
<1>2. ASSUME NEW t \in Threads PROVE InHands(t)'
  <2>1. InHands(t)
    BY <1>1 DEF Hands
  <2>2. CASE Still(t)
    <3>1. /\ thr'[t].pc \in FreshPcs => thr'[t].u \in Ids' /\ req'[thr'[t].u].st = "read"
          /\ thr'[t].pc \in KeepPcs => thr'[t].u \in Ids' /\ req'[thr'[t].u].st = "live"
      BY <1>1, <2>1, <2>2 DEF InHands, Still, SameReq
    <3>2. thr'[t].pc \in IntrPcs =>
            /\ req'[thr'[t].u].op = "interrupt" /\ thr'[t].cur \in Ids'
            /\ req'[thr'[t].cur].st = "live" /\ req'[thr'[t].cur].op # "interrupt"
      BY <1>1, <2>1, <2>2 DEF InHands, Still, SameReq, SameName, KeepPcs
    <3> QED BY <2>1, <2>2, <3>1, <3>2 DEF InHands, Still, SameLists
  <2>3. CASE thr'[t].pc \notin Holding
    BY <2>3 DEF InHands, Holding, KeepPcs, OwnPcs, IntrPcs, FreshPcs
  <2>4. CASE thr[t].pc = "got" /\ thr'[t].pc = "work" /\ thr'[t].u = thr[t].u
    <3>1. thr'[t].u \in Ids' /\ req'[thr'[t].u].st = "read" /\ thr'[t].u \notin se.held
      BY <1>1, <2>1, <2>4 DEF InHands, FreshPcs, SameReq, Holding
    <3> QED BY <2>4, <3>1 DEF InHands, SameLists, KeepPcs, OwnPcs, IntrPcs
  <2> QED BY <2>2, <2>3, <2>4 DEF Quiet
<1>3. ASSUME NEW t \in Threads, thr'[t].pc \in Holding
      PROVE  thr[t].pc \in Holding /\ thr'[t].u = thr[t].u
  BY <1>3 DEF Quiet, Still, Holding, FreshPcs
<1>4. ASSUME NEW t \in Threads, NEW s \in Threads, thr'[t].pc \in Holding,
             thr'[s].pc \in Holding, thr'[t].u = thr'[s].u
      PROVE  t = s
  BY <1>1, <1>3, <1>4 DEF Hands
<1> QED BY <1>2, <1>4 DEF Hands

(* The references of a request that the step is not about. *)
LEMMA SameCount ==
  ASSUME SessType, NEW i, i \in Ids, req[i].ctr = req'[i].ctr, Counted(i),
         \A s \in Threads : (thr'[s].pc \in IntrPcs /\ thr'[s].cur = i)
                              <=> (thr[s].pc \in IntrPcs /\ thr[s].cur = i),
         Kept(i)' <=> Kept(i)
  PROVE  Counted(i)'
<1>1. Interrupters(i)' = Interrupters(i)
  BY DEF Interrupters
<1> QED BY <1>1 DEF Counted

LEMMA QuietCounts ==
  ASSUME SessType, RefInv, Frame(req, req', {}), SameLists, \A s \in Threads : Quiet(s)
  PROVE  Counts'
<1>1. /\ \A j \in Ids : j \in Ids' /\ SameReq(req[j], req'[j])
      /\ \A j \in Ids' : j \notin Ids => req'[j].st = "queued"
      /\ Counts
  BY DEF Frame, Ids, RefInv, Unread
<1>2. ASSUME NEW i \in Ids', req'[i].st = "live" PROVE Counted(i)'
  <2>1. i \in Ids /\ req[i].st = "live" /\ req[i].ctr = req'[i].ctr
    BY <1>1, <1>2 DEF SameReq
  <2>2. \A s \in Threads : thr'[s].pc \in KeepPcs \/ thr[s].pc \in KeepPcs => Still(s)
    BY DEF Quiet, KeepPcs, Holding, OwnPcs, IntrPcs
  <2>3. \A s \in Threads : (thr'[s].pc \in IntrPcs /\ thr'[s].cur = i)
                              <=> (thr[s].pc \in IntrPcs /\ thr[s].cur = i)
    BY <2>2 DEF Still, KeepPcs
  <2>4. Kept(i)' <=> Kept(i)
    BY <2>2 DEF Kept, SameLists, Still
  <2>5. Counted(i)
    BY <1>1, <2>1 DEF Counts
  <2> QED BY <2>1, <2>3, <2>4, <2>5, SameCount
<1> QED BY <1>2 DEF Counts

LEMMA QuietFuncts ==
  ASSUME SessType, RefInv, Frame(req, req', {}), conf' = conf, \A s \in Threads : Quiet(s)
  PROVE  Functs'
<1>1. /\ \A j \in Ids : j \in Ids' /\ SameReq(req[j], req'[j])
      /\ \A j \in Ids' : j \notin Ids => req'[j].func = None
      /\ Functs /\ Hands
  BY DEF Frame, Ids, RefInv, Unread
<1>2. \A s \in Threads : thr'[s].pc \in KeepPcs \/ thr[s].pc \in KeepPcs => Still(s)
  BY DEF Quiet, KeepPcs, Holding, OwnPcs, IntrPcs
<1>3. ASSUME NEW i \in Ids', req'[i].func # None
      PROVE  /\ req'[i].func \in Threads /\ thr'[req'[i].func].u = i
             /\ thr'[req'[i].func].pc \in {"run", "finish", "withdraw"}
             /\ conf.intr /\ req'[i].op \notin NoAnswer
  <2>1. i \in Ids /\ req[i].func = req'[i].func /\ req[i].op = req'[i].op
    BY <1>1, <1>3 DEF SameReq, SameName
  <2>2. /\ req[i].func \in Threads /\ thr[req[i].func].u = i
        /\ thr[req[i].func].pc \in {"run", "finish", "withdraw"}
        /\ conf.intr /\ req[i].op \notin NoAnswer
    BY <1>1, <1>3, <2>1 DEF Functs, FuncOk
  <2>3. Still(req[i].func)
    BY <1>2, <2>2 DEF KeepPcs, OwnPcs
  <2> QED BY <2>1, <2>2, <2>3 DEF Still
<1>4. ASSUME NEW t \in Threads PROVE LockOk(t)'
  <2>1. LockOk(t) /\ InHands(t)
    BY <1>1 DEF Functs, Hands
  <2>2. CASE thr'[t].pc \in KeepPcs
    <3>1. Still(t) /\ thr[t].u \in Ids /\ SameReq(req[thr[t].u], req'[thr[t].u])
      BY <1>1, <1>2, <2>1, <2>2 DEF InHands, Still
    <3>2. thr[t].pc \in IntrPcs => SameReq(req[thr[t].cur], req'[thr[t].cur])
      BY <1>1, <2>1 DEF InHands
    <3> QED BY <2>1, <3>1, <3>2 DEF LockOk, Still, SameReq, SameName, IntrPcs
  <2>3. CASE thr'[t].pc \notin KeepPcs
    BY <2>3 DEF LockOk, KeepPcs, OwnPcs, IntrPcs
  <2> QED BY <2>2, <2>3
<1> QED BY <1>3, <1>4 DEF Functs, FuncOk

LEMMA QuietKeeps ==
  ASSUME SessType, RefInv, Frame(req, req', {}), SameLists, conf' = conf,
         \A s \in Threads : Quiet(s)
  PROVE  RefInv'
BY QuietLists, QuietHands, QuietCounts, QuietFuncts DEF RefInv

-----------------------------------------------------------------------------
(* Steps of one thread t; what they leave alone for the others. *)
Others(t) == \A s \in Threads : s # t => Still(s)
Untouched(i) ==
  /\ i \in Ids' /\ SameName(req[i], req'[i]) /\ req'[i].st = req[i].st
  /\ (i \in ToSet(se.interrupts)') => i \in ToSet(se.interrupts)
  /\ i \in se.list => i \in se'.list
  /\ i \notin se.held => i \notin se'.held

(* A step of t alone, the requests of the others untouched.                *)
LEMMA HandsStep ==
  ASSUME Hands, NEW t \in Threads, Others(t),
         \A s \in Threads : s # t /\ thr[s].pc \in Holding => Untouched(thr[s].u),
         \A s \in Threads : s # t /\ thr[s].pc \in IntrPcs =>
           thr[s].cur \in Ids' /\ SameName(req[thr[s].cur], req'[thr[s].cur])
                               /\ req'[thr[s].cur].st = "live",
         InHands(t)',
         thr'[t].pc \in Holding =>
           \A s \in Threads : s # t /\ thr[s].pc \in Holding => thr[s].u # thr'[t].u
  PROVE  Hands'
<1>1. ASSUME NEW s \in Threads, s # t PROVE InHands(s)'
  <2>1. InHands(s) /\ Still(s)
    BY <1>1 DEF Hands, Others
  <2>2. CASE thr[s].pc \in Holding
    <3>1. Untouched(thr[s].u)
      BY <1>1, <2>2
    <3>2. thr[s].pc \in IntrPcs => thr[s].cur \in Ids' /\ req'[thr[s].cur].st = "live"
                                   /\ SameName(req[thr[s].cur], req'[thr[s].cur])
      BY <1>1
    <3> QED BY <2>1, <3>1, <3>2 DEF InHands, Still, Untouched, SameName, Holding, KeepPcs
  <2>3. CASE thr[s].pc \notin Holding
    BY <2>1, <2>3 DEF InHands, Still, Holding, KeepPcs, OwnPcs, IntrPcs, FreshPcs
  <2> QED BY <2>2, <2>3
<1>2. \A s \in Threads : InHands(s)'
  BY <1>1
<1>3. ASSUME NEW a \in Threads, NEW b \in Threads, thr'[a].pc \in Holding,
             thr'[b].pc \in Holding, thr'[a].u = thr'[b].u
      PROVE  a = b
  <2>1. CASE a # t /\ b # t
    BY <1>3, <2>1 DEF Hands, Others, Still
  <2>2. CASE a # t /\ b = t
    BY <1>3, <2>2 DEF Others, Still
  <2>3. CASE a = t /\ b # t
    BY <1>3, <2>3 DEF Others, Still
  <2> QED BY <2>1, <2>2, <2>3
<1> QED BY <1>2, <1>3 DEF Hands

(* A thread goes on with the request it owns. *)
GoesOn(t, q) ==
  /\ thr[t].pc \in OwnPcs \ {"prep"} /\ Moved(t, q)
  /\ q \in OwnPcs \ {"prep"} \/ (q = "done" /\ thr[t].u \in se.list)
  /\ q \notin {"reply", "free", "done"} => thr[t].pc \notin {"reply", "free"}
  /\ req[thr[t].u].func # None => q \in {"run", "finish", "withdraw"}

LEMMA GoesOnKeeps ==
  ASSUME SessType, RefInv, Frame(req, req', {}), SameLists, conf' = conf,
         NEW t \in Threads, NEW q, GoesOn(t, q)
  PROVE  RefInv'
<1>1. /\ \A j \in Ids : j \in Ids' /\ SameReq(req[j], req'[j])
      /\ \A j \in Ids' : j \notin Ids => req'[j].st = "queued" /\ req'[j].func = None
      /\ Lists /\ Hands /\ Counts /\ Functs
  BY DEF Frame, Ids, RefInv, Unread
<1>2. Lists'
  BY QuietLists
<1>3. /\ Others(t) /\ thr[t].pc \in OwnPcs /\ thr'[t].pc = q
      /\ thr'[t].u = thr[t].u /\ thr'[t].cur = thr[t].cur /\ thr'[t].d = thr[t].d
      /\ InHands(t)
  BY <1>1 DEF GoesOn, Others, Moved, Hands
<1>4. thr[t].u \in Ids /\ thr[t].pc \in Holding
  BY <1>3 DEF InHands, KeepPcs, Holding
<1>5. Hands'
  <2>1. ASSUME NEW s \in Threads, s # t, thr[s].pc \in Holding PROVE Untouched(thr[s].u)
    <3>1. thr[s].u \in Ids
      BY <1>1, <2>1 DEF Hands, InHands, Holding
    <3> QED BY <1>1, <3>1 DEF Untouched, SameReq, SameLists
  <2>2. ASSUME NEW s \in Threads, s # t, thr[s].pc \in IntrPcs
        PROVE  thr[s].cur \in Ids' /\ SameName(req[thr[s].cur], req'[thr[s].cur])
                                   /\ req'[thr[s].cur].st = "live"
    <3>1. thr[s].cur \in Ids /\ req[thr[s].cur].st = "live"
      BY <1>1, <2>2 DEF Hands, InHands
    <3> QED BY <1>1, <3>1 DEF SameReq
  <2>3. InHands(t)'
    <3>1. thr'[t].u \in Ids' /\ req'[thr'[t].u].st = "live" /\ thr'[t].u \notin ToSet(se.interrupts)
          /\ thr'[t].u \notin se.held
      BY <1>1, <1>3, <1>4 DEF InHands, KeepPcs, SameReq
    <3>2. q \in OwnPcs \ {"reply", "free"} => thr'[t].u \in se.list
      <4>1. q \in OwnPcs => q # "done" /\ q # "prep"
        BY DEF GoesOn, OwnPcs
      <4> QED BY <1>3, <4>1 DEF GoesOn, InHands
    <3>3. q \notin FreshPcs /\ q \notin IntrPcs
      BY DEF GoesOn, FreshPcs, IntrPcs, OwnPcs
    <3> QED BY <1>3, <3>1, <3>2, <3>3 DEF InHands, SameLists
  <2>4. \A s \in Threads : s # t /\ thr[s].pc \in Holding => thr[s].u # thr'[t].u
    BY <1>1, <1>3, <1>4 DEF Hands
  <2> QED BY <1>1, <1>3, <2>1, <2>2, <2>3, <2>4, HandsStep
<1>6. Counts'
  <2>1. ASSUME NEW i \in Ids', req'[i].st = "live" PROVE Counted(i)'
    <3>1. i \in Ids /\ req[i].st = "live" /\ req[i].ctr = req'[i].ctr
      BY <1>1, <2>1 DEF SameReq
    <3>2. \A s \in Threads : (thr'[s].pc \in IntrPcs /\ thr'[s].cur = i)
                               <=> (thr[s].pc \in IntrPcs /\ thr[s].cur = i)
      <4>1. thr[t].pc \notin IntrPcs /\ thr'[t].pc \notin IntrPcs
        BY <1>3 DEF GoesOn, IntrPcs, OwnPcs
      <4> QED BY <1>3, <4>1 DEF Others, Still
    <3>3. Kept(i)' <=> Kept(i)
      <4>1. q \in KeepPcs \/ thr[t].u \in se.list
        BY DEF GoesOn, KeepPcs
      <4>2. thr[t].pc \in KeepPcs
        BY <1>3 DEF KeepPcs
      <4>3. (\E s \in Threads : thr'[s].pc \in KeepPcs /\ thr'[s].u = i) =>
            (\E s \in Threads : thr[s].pc \in KeepPcs /\ thr[s].u = i)
        BY <1>3, <4>2 DEF Others, Still
      <4>4. (\E s \in Threads : thr[s].pc \in KeepPcs /\ thr[s].u = i) =>
              i \in se.list \/ \E s \in Threads : thr'[s].pc \in KeepPcs /\ thr'[s].u = i
        BY <1>3, <4>1 DEF Others, Still
      <4> QED BY <4>3, <4>4 DEF Kept, SameLists
    <3>4. Counted(i)
      BY <1>1, <3>1 DEF Counts
    <3> QED BY <3>1, <3>2, <3>3, <3>4, SameCount
  <2> QED BY <2>1 DEF Counts
<1>7. ASSUME NEW i \in Ids' PROVE FuncOk(i)'
  <2> SUFFICES ASSUME req'[i].func # None
               PROVE  /\ req'[i].func \in Threads /\ thr'[req'[i].func].u = i
                      /\ thr'[req'[i].func].pc \in {"run", "finish", "withdraw"}
                      /\ conf.intr /\ req'[i].op \notin NoAnswer
    BY DEF FuncOk
  <2>1. i \in Ids /\ req[i].func = req'[i].func /\ req[i].op = req'[i].op
    BY <1>1 DEF SameReq, SameName
  <2>2. /\ req[i].func \in Threads /\ thr[req[i].func].u = i
        /\ thr[req[i].func].pc \in {"run", "finish", "withdraw"}
        /\ conf.intr /\ req[i].op \notin NoAnswer
    BY <1>1, <2>1 DEF Functs, FuncOk
  <2>3. CASE req[i].func = t
    <3>1. thr[t].u = i /\ q \in {"run", "finish", "withdraw"}
      BY <2>1, <2>2, <2>3 DEF GoesOn
    <3> QED BY <1>3, <2>1, <2>2, <2>3, <3>1
  <2>4. CASE req[i].func # t
    <3>1. Still(req[i].func)
      BY <1>3, <2>2, <2>4 DEF Others
    <3> QED BY <2>1, <2>2, <3>1 DEF Still
  <2> QED BY <2>3, <2>4
<1>8. ASSUME NEW s \in Threads PROVE LockOk(s)'
  <2>1. LockOk(s) /\ InHands(s)
    BY <1>1 DEF Functs, Hands
  <2>2. CASE s = t
    BY <1>3, <2>2 DEF GoesOn, LockOk, OwnPcs
  <2>3. CASE s # t
    <3>1. Still(s)
      BY <1>3, <2>3 DEF Others
    <3>2. thr[s].pc = "prep" => SameReq(req[thr[s].u], req'[thr[s].u])
      BY <1>1, <2>1 DEF InHands, KeepPcs, OwnPcs
    <3>3. thr[s].pc \in IntrPcs => SameReq(req[thr[s].cur], req'[thr[s].cur])
      BY <1>1, <2>1 DEF InHands
    <3> QED BY <2>1, <3>1, <3>2, <3>3 DEF LockOk, Still, SameReq, SameName, IntrPcs
  <2> QED BY <2>2, <2>3
<1> QED BY <1>2, <1>5, <1>6, <1>7, <1>8 DEF RefInv, Functs

(* The same for the counts. *)
SameRefs(t, i) ==
  /\ i \in Ids /\ req[i].st = "live" /\ req[i].ctr = req'[i].ctr
  /\ i \in se'.list <=> i \in se.list
  /\ i \in ToSet(se.interrupts)' <=> i \in ToSet(se.interrupts)
  /\ (thr'[t].pc \in KeepPcs /\ thr'[t].u = i) <=> (thr[t].pc \in KeepPcs /\ thr[t].u = i)
  /\ (thr'[t].pc \in IntrPcs /\ thr'[t].cur = i) <=> (thr[t].pc \in IntrPcs /\ thr[t].cur = i)

(* The counts, where the step of t changes the references to a request.    *)
LEMMA CountsStep ==
  ASSUME SessType, Counts, NEW t \in Threads, Others(t),
         \A i \in Ids' : req'[i].st = "live" => SameRefs(t, i) \/ Counted(i)'
  PROVE  Counts'
<1>1. ASSUME NEW i \in Ids', req'[i].st = "live", SameRefs(t, i) PROVE Counted(i)'
  <2>1. /\ i \in Ids /\ req[i].st = "live" /\ req[i].ctr = req'[i].ctr
        /\ i \in se'.list <=> i \in se.list
        /\ i \in ToSet(se.interrupts)' <=> i \in ToSet(se.interrupts)
        /\ (thr'[t].pc \in KeepPcs /\ thr'[t].u = i) <=> (thr[t].pc \in KeepPcs /\ thr[t].u = i)
        /\ (thr'[t].pc \in IntrPcs /\ thr'[t].cur = i) <=> (thr[t].pc \in IntrPcs /\ thr[t].cur = i)
    BY <1>1 DEF SameRefs
  <2>2. \A s \in Threads : (thr'[s].pc \in IntrPcs /\ thr'[s].cur = i)
                             <=> (thr[s].pc \in IntrPcs /\ thr[s].cur = i)
    BY <2>1 DEF Others, Still
  <2>3. \A s \in Threads : (thr'[s].pc \in KeepPcs /\ thr'[s].u = i)
                             <=> (thr[s].pc \in KeepPcs /\ thr[s].u = i)
    BY <2>1 DEF Others, Still
  <2>4. Kept(i)' <=> Kept(i)
    BY <2>1, <2>3 DEF Kept
  <2>5. Counted(i)
    BY <2>1 DEF Counts
  <2> QED BY <2>1, <2>2, <2>4, <2>5, SameCount
<1>2. \A i \in Ids' : req'[i].st = "live" => Counted(i)'
  BY <1>1
<1> QED BY <1>2 DEF Counts

(* The same for the functions and the locks of requests. *)
SameFunc(t, i) ==
  i \in Ids /\ req[i].func = req'[i].func /\ req[i].op = req'[i].op /\ req[i].func # t
SameLock(s) ==
  /\ thr[s].pc = "prep" => req'[thr[s].u].op = req[thr[s].u].op
  /\ thr[s].pc \in {"kill", "killed"} => /\ req'[thr[s].cur].lock = req[thr[s].cur].lock
                                         /\ req'[thr[s].cur].func = req[thr[s].cur].func

(* The functions stored in requests, where t changes one.                  *)
LEMMA FunctsStep ==
  ASSUME Functs, NEW t \in Threads, Others(t), conf' = conf,
         \A i \in Ids' : req'[i].func # None => SameFunc(t, i) \/ FuncOk(i)',
         \A s \in Threads : s # t => SameLock(s),
         LockOk(t)'
  PROVE  Functs'
<1>1. ASSUME NEW i \in Ids' PROVE FuncOk(i)'
  <2> SUFFICES ASSUME req'[i].func # None, i \in Ids, req[i].func = req'[i].func,
                      req[i].op = req'[i].op, req[i].func # t
               PROVE  FuncOk(i)'
    BY DEF FuncOk, SameFunc
  <2>1. /\ req[i].func \in Threads /\ thr[req[i].func].u = i
        /\ thr[req[i].func].pc \in {"run", "finish", "withdraw"}
        /\ conf.intr /\ req[i].op \notin NoAnswer
    BY DEF Functs, FuncOk
  <2>2. Still(req[i].func)
    BY <2>1 DEF Others
  <2>3. thr'[req[i].func].u = i /\ thr'[req[i].func].pc \in {"run", "finish", "withdraw"}
    BY <2>1, <2>2 DEF Still
  <2> QED BY <2>1, <2>3 DEF FuncOk
<1>2. ASSUME NEW s \in Threads PROVE LockOk(s)'
  <2>1. CASE s = t
    BY <2>1
  <2>2. CASE s # t
    <3>1. Still(s) /\ LockOk(s)
      BY <2>2 DEF Others, Functs
    <3>2. /\ thr[s].pc = "prep" => req'[thr[s].u].op = req[thr[s].u].op
          /\ thr[s].pc \in {"kill", "killed"} => /\ req'[thr[s].cur].lock = req[thr[s].cur].lock
                                                 /\ req'[thr[s].cur].func = req[thr[s].cur].func
      BY <2>2 DEF SameLock
    <3> QED BY <3>1, <3>2 DEF LockOk, Still
  <2> QED BY <2>1, <2>2
<1> QED BY <1>1, <1>2 DEF Functs

(* A request with a function is in the call of that function's thread.     *)
LEMMA FuncHeld ==
  ASSUME RefInv, NEW i \in Ids, req[i].func # None
  PROVE  /\ req[i].func \in Threads /\ req[i].st = "live" /\ i \in se.list
         /\ thr[req[i].func].u = i /\ thr[req[i].func].pc \in {"run", "finish", "withdraw"}
<1>1. /\ req[i].func \in Threads /\ thr[req[i].func].u = i
      /\ thr[req[i].func].pc \in {"run", "finish", "withdraw"}
  BY DEF RefInv, Functs, FuncOk
<1>2. InHands(req[i].func)
  BY <1>1 DEF RefInv, Hands
<1> QED BY <1>1, <1>2 DEF InHands, KeepPcs, OwnPcs

(* What the hands of a thread hold, and what no other thread then has.     *)
LEMMA HandFacts ==
  ASSUME SessType, RefInv, NEW t \in Threads
  PROVE  /\ thr[t].pc \in FreshPcs =>
              thr[t].u \in Ids /\ req[thr[t].u].st = "read" /\ req[thr[t].u] \in Requests
         /\ thr[t].pc \in KeepPcs =>
              /\ thr[t].u \in Ids /\ req[thr[t].u].st = "live" /\ req[thr[t].u] \in Requests
              /\ thr[t].u \notin ToSet(se.interrupts)
         /\ thr[t].pc \in IntrPcs =>
              /\ req[thr[t].u].op = "interrupt" /\ thr[t].cur \in Ids
              /\ req[thr[t].cur].st = "live" /\ req[thr[t].cur].op # "interrupt"
              /\ req[thr[t].cur] \in Requests /\ thr[t].cur # thr[t].u
         /\ thr[t].pc \in Holding => thr[t].u \notin se.held
         /\ \A s \in Threads : s # t /\ thr[s].pc \in Holding /\ thr[t].pc \in Holding
                                 => thr[s].u # thr[t].u
<1>1. InHands(t) /\ Hands
  BY DEF RefInv, Hands
<1>2. \A i \in Ids : req[i] \in Requests
  BY DEF SessType, Ids
<1>3. \A s \in Threads : s # t /\ thr[s].pc \in Holding /\ thr[t].pc \in Holding
                           => thr[s].u # thr[t].u
  BY <1>1 DEF Hands
<1> QED BY <1>1, <1>2, <1>3 DEF InHands, Holding, KeepPcs

(* Elements of the interrupt list, and indices. *)
LEMMA Listed ==
  ASSUME SessType, RefInv
  PROVE  /\ se.interrupts \in Seq(Nat)
         /\ \A k \in DOMAIN se.interrupts : se.interrupts[k] \in ToSet(se.interrupts)
         /\ \A i \in ToSet(se.interrupts) :
              i \in Ids /\ req[i].st = "live" /\ req[i].op = "interrupt"
         /\ \A i \in se.list : i \in Ids /\ req[i].st = "live" /\ req[i].op # "interrupt"
         /\ se.held \subseteq se.list
BY DEF SessType, SessionType, RefInv, Lists, ToSet

(* Lists as a step leaves them when it changes no request in them. *)
LEMMA ListsStep ==
  ASSUME SessType, RefInv, conf' = conf, SameLists,
         \A i \in se.list \cup ToSet(se.interrupts) :
           i \in Ids' /\ SameName(req[i], req'[i]) /\ req'[i].st = "live"
  PROVE  Lists'
<1>1. Lists
  BY DEF RefInv
<1>2. \A k \in DOMAIN se.interrupts :
        /\ se.interrupts[k] \in Ids' /\ SameName(req[se.interrupts[k]], req'[se.interrupts[k]])
        /\ req'[se.interrupts[k]].st = "live"
  BY Listed
<1>3. \A i \in se.list : i \in Ids' /\ SameName(req[i], req'[i]) /\ req'[i].st = "live"
  OBVIOUS
<1>4. \A i \in se.list : i \in Ids' /\ req'[i].st = "live" /\ req'[i].op # "interrupt"
  BY <1>1, <1>3 DEF Lists, SameName
<1>5. \A k \in DOMAIN se.interrupts :
        /\ se.interrupts[k] \in Ids'
        /\ req'[se.interrupts[k]].st = "live" /\ req'[se.interrupts[k]].op = "interrupt"
        /\ req'[se.interrupts[k]].target = req[se.interrupts[k]].target
  BY <1>1, <1>2 DEF Lists, SameName
<1>6. \A k, l \in DOMAIN se.interrupts :
        req'[se.interrupts[k]].target = req'[se.interrupts[l]].target => k = l
  BY <1>1, <1>5 DEF Lists
<1>7. \A k \in DOMAIN se.interrupts, i \in se.list : req'[i].uq # req'[se.interrupts[k]].target
  BY <1>1, <1>3, <1>5 DEF Lists, NoInterruptMissed, SameName
<1>8. \A i \in se.held : i \in se.list /\ ~conf.intr
  BY <1>1 DEF Lists
<1> QED BY <1>4, <1>5, <1>6, <1>7, <1>8 DEF Lists, SameLists, NoInterruptMissed

(* A message is read. *)
LEMMA ReadKeeps ==
  ASSUME SessType, RefInv, SameLists, conf' = conf, NEW t \in Threads, thr[t].pc \notin Holding,
         NEW i \in Ids, req[i].st = "queued", req' = [req EXCEPT ![i].st = "read"],
         Others(t), thr'[t].u = i, thr'[t].pc \notin KeepPcs
  PROVE  RefInv'
<1> DEFINE r == [req[i] EXCEPT !.st = "read"]
<1>1. req[i] \in Requests
  BY DEF SessType, Ids
<1>2. r \in Requests /\ SameName(req[i], r) /\ r.st = "read" /\ r.func = req[i].func
  BY <1>1 DEF Requests, SameName
<1>3. req' = [req EXCEPT ![i] = r]
  BY <1>1 DEF SessType, Ids, Requests
<1> HIDE DEF r
<1>4. Frame(req, req', {i}) /\ req'[i] = r /\ Ids' = Ids
  BY <1>2, <1>3, FrameOne
<1>5. \A j \in Ids : SameName(req[j], req'[j]) /\ (j # i => SameReq(req[j], req'[j]))
  BY <1>4 DEF Frame, Ids
<1>6. i \notin se.list /\ i \notin ToSet(se.interrupts) /\ i \notin se.held
  BY Listed
<1>7. Lists'
  BY <1>4, <1>5, <1>6, Listed, ListsStep DEF SameReq
<1>8. \A s \in Threads : thr[s].pc \in Holding => thr[s].u \in Ids /\ thr[s].u # i
  BY HandFacts DEF Holding
<1>9. \A s \in Threads : thr[s].pc \in IntrPcs =>
         thr[s].cur \in Ids /\ thr[s].cur # i /\ req[thr[s].cur].st = "live"
  BY HandFacts
<1>10. Hands'
  <2>1. ASSUME NEW s \in Threads, s # t, thr[s].pc \in Holding PROVE Untouched(thr[s].u)
    BY <1>4, <1>5, <1>8, <2>1 DEF Untouched, SameReq, SameLists
  <2>2. ASSUME NEW s \in Threads, s # t, thr[s].pc \in IntrPcs
        PROVE  thr[s].cur \in Ids' /\ SameName(req[thr[s].cur], req'[thr[s].cur])
                                   /\ req'[thr[s].cur].st = "live"
    BY <1>4, <1>5, <1>9, <2>2 DEF SameReq
  <2>3. InHands(t)'
    BY <1>2, <1>4, <1>6 DEF InHands, KeepPcs, SameLists, Holding
  <2>4. \A s \in Threads : s # t /\ thr[s].pc \in Holding => thr[s].u # thr'[t].u
    BY <1>8
  <2> QED BY <2>1, <2>2, <2>3, <2>4, HandsStep DEF RefInv
<1>11. Counts'
  <2>1. ASSUME NEW j \in Ids', req'[j].st = "live" PROVE SameRefs(t, j)
    <3>1. j \in Ids /\ j # i
      BY <1>2, <1>4, <2>1
    <3>2. thr'[t].pc \notin KeepPcs /\ thr[t].pc \notin KeepPcs
      BY DEF Holding
    <3> QED BY <1>5, <2>1, <3>1, <3>2 DEF SameReq, SameLists, SameRefs, KeepPcs
  <2> QED BY <2>1, CountsStep DEF RefInv
<1>12. Functs'
  <2>1. ASSUME NEW j \in Ids', req'[j].func # None PROVE SameFunc(t, j)
    <3>1. j \in Ids /\ req[j].func = req'[j].func /\ req[j].op = req'[j].op
      BY <1>2, <1>4, <1>5, <2>1 DEF SameReq, SameName
    <3>2. req[j].func # t
      BY <2>1, <3>1, FuncHeld DEF Holding, KeepPcs, OwnPcs
    <3> QED BY <3>1, <3>2 DEF SameFunc
  <2>2. ASSUME NEW s \in Threads PROVE SameLock(s)
    <3>1. thr[s].pc = "prep" => thr[s].u \in Ids
      BY <1>8 DEF Holding, KeepPcs, OwnPcs
    <3>2. thr[s].pc \in {"kill", "killed"} => thr[s].cur \in Ids /\ thr[s].cur # i
      BY <1>9 DEF IntrPcs
    <3> QED BY <1>5, <3>1, <3>2 DEF SameReq, SameName, SameLock
  <2>3. LockOk(t)'
    BY DEF LockOk, KeepPcs, OwnPcs, IntrPcs
  <2> QED BY <2>1, <2>2, <2>3, FunctsStep DEF RefInv
<1> QED BY <1>7, <1>10, <1>11, <1>12 DEF RefInv

(* A thread that has a message in hand and makes a request of it.          *)
LEMMA FreshFuncts ==
  ASSUME SessType, RefInv, conf' = conf, NEW t \in Threads, Others(t), thr[t].pc = "work",
         \A j \in Ids : j \in Ids' /\ SameName(req[j], req'[j]),
         \A j \in Ids' : req'[j].func # None => j \in Ids /\ req'[j].func = req[j].func,
         \A j \in Ids : req[j].st = "live" /\ req[j].op # "interrupt"
                          => req'[j].lock = req[j].lock /\ req'[j].func = req[j].func,
         LockOk(t)'
  PROVE  Functs'
<1>1. ASSUME NEW j \in Ids', req'[j].func # None PROVE SameFunc(t, j)
  <2>1. j \in Ids /\ req'[j].func = req[j].func /\ req[j].op = req'[j].op
    BY <1>1 DEF SameName
  <2>2. req[j].func # t
    BY <1>1, <2>1, FuncHeld
  <2> QED BY <2>1, <2>2 DEF SameFunc
<1>2. ASSUME NEW s \in Threads PROVE SameLock(s)
  <2>1. thr[s].pc = "prep" => thr[s].u \in Ids
    BY HandFacts DEF KeepPcs, OwnPcs
  <2>2. thr[s].pc \in {"kill", "killed"} =>
          thr[s].cur \in Ids /\ req[thr[s].cur].st = "live" /\ req[thr[s].cur].op # "interrupt"
    BY HandFacts DEF IntrPcs
  <2> QED BY <2>1, <2>2 DEF SameLock, SameName
<1> QED BY <1>1, <1>2, FunctsStep DEF RefInv

(* No thread interrupts an interrupt, or a request that is not live. *)
LEMMA NotInterrupted ==
  ASSUME SessType, RefInv, NEW i, i \notin Ids \/ req[i].st # "live" \/ req[i].op = "interrupt"
  PROVE  /\ \A s \in Threads : thr[s].pc \in IntrPcs => thr[s].cur # i
         /\ Interrupters(i) = {} /\ Cardinality(Interrupters(i)) = 0
<1>1. \A s \in Threads : thr[s].pc \in IntrPcs => thr[s].cur # i
  BY HandFacts
<1>2. Interrupters(i) = {}
  BY <1>1 DEF Interrupters
<1> QED BY <1>1, <1>2, FS_EmptySet

(* A request to whom one thing or nothing refers. *)
LEMMA OneKeeper ==
  ASSUME NEW i, Interrupters(i)' = {}, Kept(i)', req'[i].ctr = 1
  PROVE  Counted(i)'
<1>1. Cardinality(Interrupters(i)') = 0
  BY FS_EmptySet
<1>2. Cardinality(Interrupters(i))' = 0
  BY <1>1
<1> QED BY <1>2 DEF Counted

(* A message becomes a request that is answered at once, or is dropped     *)
(* without one.                                                            *)
LEMMA FreshKeeps ==
  ASSUME SessType, RefInv, SameLists, conf' = conf, NEW t \in Threads, thr[t].pc = "work",
         Others(t), thr'[t].u = thr[t].u, NEW i, i = thr[t].u,
         Frame(req, req', {i}), Ids' = Ids, req'[i].func = req[i].func,
         \/ req'[i].st = "freed" /\ thr'[t].pc = "done"
         \/ req'[i].st = "live" /\ req'[i].ctr = 1 /\ thr'[t].pc = "reply"
  PROVE  RefInv'
<1>1. /\ i \in Ids /\ req[i].st = "read" /\ thr[t].pc \in Holding /\ thr[t].pc \notin KeepPcs
      /\ i \notin se.held
  BY HandFacts DEF Holding, FreshPcs, KeepPcs, OwnPcs, IntrPcs
<1>2. \A j \in Ids : SameName(req[j], req'[j]) /\ (j # i => SameReq(req[j], req'[j]))
  BY DEF Frame, Ids
<1>3. i \notin se.list /\ i \notin ToSet(se.interrupts)
  BY <1>1, Listed
<1>4. Lists'
  BY <1>2, <1>3, Listed, ListsStep DEF SameReq
<1>5. Hands'
  <2>1. ASSUME NEW s \in Threads, s # t, thr[s].pc \in Holding PROVE Untouched(thr[s].u)
    <3>1. thr[s].u \in Ids /\ thr[s].u # i
      BY <1>1, <2>1, HandFacts DEF Holding
    <3> QED BY <1>2, <3>1 DEF Untouched, SameReq, SameLists
  <2>2. ASSUME NEW s \in Threads, s # t, thr[s].pc \in IntrPcs
        PROVE  thr[s].cur \in Ids' /\ SameName(req[thr[s].cur], req'[thr[s].cur])
                                   /\ req'[thr[s].cur].st = "live"
    <3>1. thr[s].cur \in Ids /\ req[thr[s].cur].st = "live" /\ thr[s].cur # i
      BY <1>1, <2>2, HandFacts
    <3> QED BY <1>2, <3>1 DEF SameReq
  <2>3. InHands(t)'
    BY <1>1, <1>3 DEF InHands, KeepPcs, OwnPcs, IntrPcs, FreshPcs, Holding, SameLists
  <2>4. \A s \in Threads : s # t /\ thr[s].pc \in Holding => thr[s].u # thr'[t].u
    BY <1>1, HandFacts
  <2> QED BY <2>1, <2>2, <2>3, <2>4, HandsStep DEF RefInv
<1>6. Counts'
  <2>1. ASSUME NEW j \in Ids', req'[j].st = "live", j # i PROVE SameRefs(t, j)
    <3>1. j \in Ids /\ SameReq(req[j], req'[j])
      BY <1>2, <2>1
    <3>2. thr[t].u # j /\ thr'[t].u # j /\ thr'[t].pc \notin IntrPcs /\ thr[t].pc \notin IntrPcs
      BY <2>1 DEF IntrPcs
    <3> QED BY <2>1, <3>1, <3>2 DEF SameReq, SameLists, SameRefs
  <2>2. ASSUME req'[i].st = "live" PROVE Counted(i)'
    <3>1. Kept(i)'
      BY <2>2 DEF Kept, KeepPcs, OwnPcs
    <3>2. \A s \in Threads : ~(thr'[s].pc \in IntrPcs /\ thr'[s].cur = i)
      BY <1>1, <2>2, NotInterrupted DEF Others, Still, IntrPcs
    <3> QED BY <2>2, <3>1, <3>2, OneKeeper DEF Interrupters
  <2> QED BY <2>1, <2>2, CountsStep DEF RefInv
<1>7. Functs'
  <2>1. LockOk(t)'
    BY DEF LockOk
  <2>2. req[i].func = None
    BY <1>1, FuncHeld
  <2> QED BY <1>1, <1>2, <2>1, <2>2, FreshFuncts DEF SameReq
<1> QED BY <1>4, <1>5, <1>6, <1>7 DEF RefInv

(* An interrupt whose request has not been read is kept for it.            *)
LEMMA InterruptKept ==
  ASSUME SessType, RefInv, conf' = conf, NEW t \in Threads, thr[t].pc = "work",
         Others(t), thr'[t].u = thr[t].u, thr'[t].pc = "done", NEW i, i = thr[t].u,
         req[i].op = "interrupt",
         Frame(req, req', {i}), Ids' = Ids, req'[i].func = req[i].func,
         req'[i].st = "live", req'[i].ctr = 1,
         se'.list = se.list, se'.held = se.held, se'.interrupts = Append(se.interrupts, i),
         \A j \in se.list : req[j].uq # req[i].target,
         \A k \in DOMAIN se.interrupts : req[se.interrupts[k]].target # req[i].target
  PROVE  RefInv'
<1>1. /\ i \in Ids /\ req[i].st = "read" /\ thr[t].pc \in Holding /\ thr[t].pc \notin KeepPcs
      /\ i \notin se.held /\ i \in Nat
  BY HandFacts DEF Holding, FreshPcs, KeepPcs, OwnPcs, IntrPcs, SessType, Ids
<1>2. \A j \in Ids : SameName(req[j], req'[j]) /\ (j # i => SameReq(req[j], req'[j]))
  BY DEF Frame, Ids
<1>3. i \notin se.list /\ i \notin ToSet(se.interrupts)
  BY <1>1, Listed
<1> DEFINE n == Len(se.interrupts) + 1
<1>4. /\ DOMAIN se'.interrupts = DOMAIN se.interrupts \cup {n} /\ n \notin DOMAIN se.interrupts
      /\ se'.interrupts[n] = i
      /\ \A k \in DOMAIN se.interrupts : se'.interrupts[k] = se.interrupts[k]
      /\ ToSet(se'.interrupts) = ToSet(se.interrupts) \cup {i}
  <2>1. se.interrupts \in Seq(Nat) /\ i \in Nat /\ se'.interrupts = Append(se.interrupts, i)
    BY <1>1, Listed
  <2>2. DOMAIN se'.interrupts = DOMAIN se.interrupts \cup {n} /\ n \notin DOMAIN se.interrupts
    BY <2>1
  <2>3. se'.interrupts[n] = i
    BY <2>1
  <2>4. \A k \in DOMAIN se.interrupts : se'.interrupts[k] = se.interrupts[k]
    BY <2>1
  <2>5. ToSet(se'.interrupts) = ToSet(se.interrupts) \cup {i}
    BY <2>2, <2>3, <2>4 DEF ToSet
  <2> QED BY <2>2, <2>3, <2>4, <2>5
<1> HIDE DEF n
<1>5. Lists
  BY DEF RefInv
<1>6. \A k \in DOMAIN se.interrupts :
        /\ se.interrupts[k] \in Ids /\ req'[se.interrupts[k]].st = "live"
        /\ req'[se.interrupts[k]].op = "interrupt"
        /\ req'[se.interrupts[k]].target = req[se.interrupts[k]].target
  BY <1>2, <1>3, Listed DEF SameReq, SameName
<1>7. \A j \in se.list : /\ j \in Ids /\ req'[j].st = "live" /\ req'[j].op # "interrupt"
                         /\ req'[j].uq = req[j].uq
  BY <1>2, <1>3, Listed DEF SameReq, SameName
<1>8. req'[i].target = req[i].target /\ req'[i].op = "interrupt"
  BY <1>1, <1>2 DEF SameName
<1>9. Lists'
  <2>1. \A k \in DOMAIN se'.interrupts :
          se'.interrupts[k] \in Ids /\ req'[se'.interrupts[k]].st = "live"
          /\ req'[se'.interrupts[k]].op = "interrupt"
    BY <1>1, <1>4, <1>6, <1>8
  <2>2. \A k, l \in DOMAIN se'.interrupts :
          req'[se'.interrupts[k]].target = req'[se'.interrupts[l]].target => k = l
    BY <1>4, <1>5, <1>6, <1>8 DEF Lists
  <2>3. \A k \in DOMAIN se'.interrupts, j \in se.list :
          req'[j].uq # req'[se'.interrupts[k]].target
    BY <1>4, <1>5, <1>6, <1>7, <1>8 DEF Lists, NoInterruptMissed
  <2>4. \A j \in se.held : j \in se.list /\ ~conf.intr
    BY <1>5 DEF Lists
  <2> QED BY <1>7, <2>1, <2>2, <2>3, <2>4 DEF Lists, NoInterruptMissed
<1>10. Hands'
  <2>1. ASSUME NEW s \in Threads, s # t, thr[s].pc \in Holding PROVE Untouched(thr[s].u)
    <3>1. thr[s].u \in Ids /\ thr[s].u # i
      BY <1>1, <2>1, HandFacts DEF Holding
    <3> QED BY <1>2, <1>4, <3>1 DEF Untouched, SameReq
  <2>2. ASSUME NEW s \in Threads, s # t, thr[s].pc \in IntrPcs
        PROVE  thr[s].cur \in Ids' /\ SameName(req[thr[s].cur], req'[thr[s].cur])
                                   /\ req'[thr[s].cur].st = "live"
    <3>1. thr[s].cur \in Ids /\ req[thr[s].cur].st = "live" /\ thr[s].cur # i
      BY <1>1, <2>2, HandFacts
    <3> QED BY <1>2, <3>1 DEF SameReq
  <2>3. InHands(t)' /\ thr'[t].pc \notin Holding
    BY DEF InHands, KeepPcs, OwnPcs, IntrPcs, FreshPcs, Holding
  <2> QED BY <2>1, <2>2, <2>3, HandsStep DEF RefInv
<1>11. Counts'
  <2>1. ASSUME NEW j \in Ids', req'[j].st = "live", j # i PROVE SameRefs(t, j)
    <3>1. j \in Ids /\ SameReq(req[j], req'[j])
      BY <1>2, <2>1
    <3>2. thr[t].u # j /\ thr'[t].u # j /\ thr'[t].pc \notin IntrPcs /\ thr[t].pc \notin IntrPcs
      BY <2>1 DEF IntrPcs
    <3>3. j \in ToSet(se.interrupts)' <=> j \in ToSet(se.interrupts)
      BY <1>4, <2>1
    <3> QED BY <2>1, <3>1, <3>2, <3>3 DEF SameReq, SameRefs
  <2>2. Counted(i)'
    <3>1. Kept(i)'
      BY <1>4 DEF Kept
    <3>2. \A s \in Threads : ~(thr'[s].pc \in IntrPcs /\ thr'[s].cur = i)
      BY <1>1, NotInterrupted DEF Others, Still, IntrPcs
    <3> QED BY <3>1, <3>2, OneKeeper DEF Interrupters
  <2> QED BY <2>1, <2>2, CountsStep DEF RefInv
<1>12. Functs'
  <2>1. LockOk(t)'
    BY DEF LockOk
  <2>2. req[i].func = None
    BY <1>1, FuncHeld
  <2> QED BY <1>1, <1>2, <2>1, <2>2, FreshFuncts DEF SameReq
<1> QED BY <1>9, <1>10, <1>11, <1>12 DEF RefInv

(* One thread more, or one less, that interrupts a request. *)
LEMMA FiniteInterrupters ==
  ASSUME NEW i
  PROVE  IsFiniteSet(Interrupters(i)) /\ Cardinality(Interrupters(i)) \in Nat
<1>1. Interrupters(i) \subseteq Threads
  BY DEF Interrupters
<1> QED BY <1>1, ThreadFacts, FS_Subset, FS_CardinalityType

(* One reference more, one less.                                           *)
LEMMA OneMore ==
  ASSUME NEW i, NEW t, t \notin Interrupters(i), Interrupters(i)' = Interrupters(i) \cup {t},
         Kept(i)' <=> Kept(i), Counted(i), req[i].ctr \in Int, req'[i].ctr = req[i].ctr + 1
  PROVE  Counted(i)'
<1>1. Cardinality(Interrupters(i) \cup {t}) = Cardinality(Interrupters(i)) + 1
  BY FiniteInterrupters, FS_AddElement
<1>2. Cardinality(Interrupters(i))' = Cardinality(Interrupters(i)) + 1
  BY <1>1
<1> QED BY <1>2, FiniteInterrupters DEF Counted

LEMMA OneLess ==
  ASSUME NEW i, NEW t, t \in Interrupters(i), Interrupters(i)' = Interrupters(i) \ {t},
         Kept(i)' <=> Kept(i), Counted(i), req[i].ctr \in Int, req'[i].ctr = req[i].ctr - 1
  PROVE  Counted(i)'
<1>1. Cardinality(Interrupters(i) \ {t}) = Cardinality(Interrupters(i)) - 1
  BY FiniteInterrupters, FS_RemoveElement
<1>2. Cardinality(Interrupters(i))' = Cardinality(Interrupters(i)) - 1
  BY <1>1
<1> QED BY <1>2, FiniteInterrupters DEF Counted

(* An interrupt whose request is worked on takes a reference to it.        *)
LEMMA InterruptHits ==
  ASSUME SessType, RefInv, SameLists, conf' = conf, NEW t \in Threads, thr[t].pc = "work",
         Others(t), thr'[t].u = thr[t].u, thr'[t].pc = "intr", NEW i, i = thr[t].u,
         req[i].op = "interrupt", NEW j \in se.list, thr'[t].cur = j,
         Frame(req, req', {i, j}), Ids' = Ids, req'[i].func = req[i].func,
         req'[i].st = "live", req'[i].ctr = 1,
         req'[j].st = req[j].st, req'[j].ctr = req[j].ctr + 1,
         req'[j].func = req[j].func, req'[j].lock = req[j].lock
  PROVE  RefInv'
<1>1. /\ i \in Ids /\ req[i].st = "read" /\ thr[t].pc \in Holding /\ thr[t].pc \notin KeepPcs
      /\ i \notin se.held
  BY HandFacts DEF Holding, FreshPcs, KeepPcs, OwnPcs, IntrPcs
<1>2. \A k \in Ids : SameName(req[k], req'[k]) /\ (k # i /\ k # j => SameReq(req[k], req'[k]))
  BY DEF Frame, Ids
<1>3. /\ i \notin se.list /\ i \notin ToSet(se.interrupts) /\ i # j
      /\ j \in Ids /\ req[j].st = "live" /\ req[j].op # "interrupt" /\ req[j].ctr \in Int
  <2>1. i \notin se.list /\ i \notin ToSet(se.interrupts)
    BY <1>1, Listed
  <2>2. j \in Ids /\ req[j].st = "live" /\ req[j].op # "interrupt"
    BY Listed
  <2>3. req[j].ctr \in Int
    <3>1. req[j] \in Requests
      BY <2>2 DEF SessType, Ids
    <3> QED BY <3>1, Fields
  <2> QED BY <1>1, <2>1, <2>2, <2>3
<1>4. \A k \in Ids : k # i => req'[k].st = req[k].st
  BY <1>2, <1>3 DEF SameReq
<1>5. Lists'
  BY <1>2, <1>3, <1>4, Listed, ListsStep
<1>6. Hands'
  <2>1. ASSUME NEW s \in Threads, s # t, thr[s].pc \in Holding PROVE Untouched(thr[s].u)
    <3>1. thr[s].u \in Ids /\ thr[s].u # i
      BY <1>1, <2>1, HandFacts DEF Holding
    <3> QED BY <1>2, <1>4, <3>1 DEF Untouched, SameLists
  <2>2. ASSUME NEW s \in Threads, s # t, thr[s].pc \in IntrPcs
        PROVE  thr[s].cur \in Ids' /\ SameName(req[thr[s].cur], req'[thr[s].cur])
                                   /\ req'[thr[s].cur].st = "live"
    <3>1. thr[s].cur \in Ids /\ req[thr[s].cur].st = "live" /\ thr[s].cur # i
      BY <1>1, <2>2, HandFacts
    <3> QED BY <1>2, <1>4, <3>1
  <2>3. InHands(t)'
    <3>1. /\ req'[i].op = "interrupt" /\ req'[j].op # "interrupt" /\ req'[j].st = "live"
      BY <1>1, <1>2, <1>3 DEF SameName
    <3> QED BY <1>1, <1>3, <3>1 DEF InHands, KeepPcs, OwnPcs, IntrPcs, FreshPcs, SameLists
  <2>4. \A s \in Threads : s # t /\ thr[s].pc \in Holding => thr[s].u # thr'[t].u
    BY <1>1, HandFacts
  <2> QED BY <2>1, <2>2, <2>3, <2>4, HandsStep DEF RefInv
<1>7. Counts'
  <2>1. ASSUME NEW k \in Ids', req'[k].st = "live", k # i, k # j PROVE SameRefs(t, k)
    <3>1. k \in Ids /\ SameReq(req[k], req'[k])
      BY <1>2, <2>1
    <3>2. thr[t].u # k /\ thr'[t].u # k /\ thr'[t].cur # k /\ thr[t].pc \notin IntrPcs
      BY <2>1 DEF IntrPcs
    <3> QED BY <2>1, <3>1, <3>2 DEF SameReq, SameLists, SameRefs
  <2>2. Counted(i)'
    <3>1. Kept(i)'
      BY DEF Kept, KeepPcs, IntrPcs
    <3>2. \A s \in Threads : ~(thr'[s].pc \in IntrPcs /\ thr'[s].cur = i)
      BY <1>1, <1>3, NotInterrupted DEF Others, Still
    <3> QED BY <3>1, <3>2, OneKeeper DEF Interrupters
  <2>3. Counted(j)'
    <3>1. t \notin Interrupters(j) /\ Interrupters(j)' = Interrupters(j) \cup {t}
      BY DEF Interrupters, IntrPcs, Others, Still
    <3>2. Kept(j)' /\ Kept(j)
      BY DEF Kept, SameLists
    <3>3. Counted(j)
      BY <1>3 DEF RefInv, Counts
    <3> QED BY <1>3, <3>1, <3>2, <3>3, OneMore
  <2> QED BY <2>1, <2>2, <2>3, CountsStep DEF RefInv
<1>8. Functs'
  <2>1. LockOk(t)'
    BY DEF LockOk
  <2>2. req[i].func = None
    BY <1>1, FuncHeld
  <2> QED BY <1>1, <1>2, <2>1, <2>2, FreshFuncts DEF SameReq
<1> QED BY <1>5, <1>6, <1>7, <1>8 DEF RefInv


(* A step that changes the function or the lock of a request, and nothing  *)
(* that refers to it.                                                      *)
LEMMA InsideKeeps ==
  ASSUME SessType, RefInv, SameLists, conf' = conf, NEW t \in Threads, Others(t),
         thr'[t].u = thr[t].u, thr'[t].cur = thr[t].cur,
         \/ thr[t].pc \in IntrPcs /\ thr'[t].pc \in IntrPcs
         \/ thr[t].pc \in OwnPcs \ {"reply", "free"} /\ thr'[t].pc \in OwnPcs,
         Ids' = Ids,
         \A j \in Ids : SameName(req[j], req'[j]) /\ req'[j].st = req[j].st /\ req'[j].ctr = req[j].ctr,
         Functs'
  PROVE  RefInv'
<1>1. thr[t].pc \in KeepPcs /\ thr'[t].pc \in KeepPcs /\ thr[t].pc \in Holding
  BY DEF KeepPcs, Holding
<1>2. Lists'
  BY Listed, ListsStep
<1>3. Hands'
  <2>1. ASSUME NEW s \in Threads, s # t, thr[s].pc \in Holding PROVE Untouched(thr[s].u)
    <3>1. thr[s].u \in Ids
      BY <2>1, HandFacts DEF Holding
    <3> QED BY <3>1 DEF Untouched, SameLists
  <2>2. ASSUME NEW s \in Threads, s # t, thr[s].pc \in IntrPcs
        PROVE  thr[s].cur \in Ids' /\ SameName(req[thr[s].cur], req'[thr[s].cur])
                                   /\ req'[thr[s].cur].st = "live"
    <3>1. thr[s].cur \in Ids /\ req[thr[s].cur].st = "live"
      BY <2>2, HandFacts
    <3> QED BY <3>1
  <2>3. InHands(t)'
    <3>1. InHands(t)
      BY DEF RefInv, Hands
    <3>2. thr'[t].u \in Ids' /\ req'[thr'[t].u].st = "live" /\ thr'[t].u \notin ToSet(se.interrupts)
          /\ thr'[t].u \notin se.held
      BY <1>1, <3>1 DEF InHands
    <3>3. thr'[t].pc \in OwnPcs \ {"reply", "free"} => thr'[t].u \in se.list
      BY <3>1 DEF InHands, IntrPcs, OwnPcs
    <3>4. thr'[t].pc \in IntrPcs => thr[t].pc \in IntrPcs
      BY DEF IntrPcs, OwnPcs
    <3>5. thr'[t].pc \in IntrPcs =>
            /\ req'[thr'[t].u].op = "interrupt"
            /\ thr'[t].cur \in Ids' /\ req'[thr'[t].cur].st = "live" /\ req'[thr'[t].cur].op # "interrupt"
      BY <1>1, <3>1, <3>4 DEF InHands, SameName
    <3>6. thr'[t].pc \notin FreshPcs
      BY DEF IntrPcs, OwnPcs, FreshPcs
    <3> QED BY <3>2, <3>3, <3>5, <3>6 DEF InHands, SameLists
  <2>4. \A s \in Threads : s # t /\ thr[s].pc \in Holding => thr[s].u # thr'[t].u
    BY <1>1, HandFacts
  <2> QED BY <2>1, <2>2, <2>3, <2>4, HandsStep DEF RefInv
<1>4. Counts'
  <2>1. ASSUME NEW j \in Ids', req'[j].st = "live" PROVE SameRefs(t, j)
    <3>1. thr[t].pc \in IntrPcs <=> thr'[t].pc \in IntrPcs
      BY DEF IntrPcs, OwnPcs
    <3> QED BY <1>1, <2>1, <3>1 DEF SameRefs, SameLists
  <2> QED BY <2>1, CountsStep DEF RefInv
<1> QED BY <1>2, <1>3, <1>4 DEF RefInv

(* The function is read under the lock, which is kept if there is one.     *)
LEMMA LockTaken ==
  ASSUME SessType, RefInv, SameLists, conf' = conf, NEW t \in Threads, Others(t),
         thr'[t].u = thr[t].u, thr'[t].cur = thr[t].cur, thr[t].pc = "intr",
         NEW j, j = thr[t].cur, req[j].lock = None, Frame(req, req', {j}), Ids' = Ids,
         req'[j].st = req[j].st, req'[j].ctr = req[j].ctr, req'[j].func = req[j].func,
         \/ req[j].func = None /\ thr'[t].pc = "unref" /\ req'[j].lock = None
         \/ req[j].func # None /\ thr'[t].pc = "kill" /\ req'[j].lock = t /\ thr'[t].d = req[j].func
  PROVE  RefInv'
<1>1. /\ \A k \in Ids : SameName(req[k], req'[k])
      /\ \A k \in Ids : k # j => SameReq(req[k], req'[k])
  BY DEF Frame, Ids
<1>2. Functs'
  <2>1. ASSUME NEW k \in Ids', req'[k].func # None PROVE SameFunc(t, k)
    <3>1. k \in Ids /\ req'[k].func = req[k].func /\ req[k].op = req'[k].op
      BY <1>1, <2>1 DEF SameReq, SameName
    <3>2. req[k].func # t
      BY <2>1, <3>1, FuncHeld
    <3> QED BY <3>1, <3>2 DEF SameFunc
  <2>2. ASSUME NEW s \in Threads, s # t PROVE SameLock(s)
    <3>1. thr[s].pc = "prep" => thr[s].u \in Ids
      BY HandFacts DEF KeepPcs, OwnPcs
    <3>2. thr[s].pc \in {"kill", "killed"} => thr[s].cur \in Ids /\ req[thr[s].cur].lock = s
      BY HandFacts DEF IntrPcs, RefInv, Functs, LockOk
    <3>3. s # None
      BY ThreadFacts
    <3>4. thr[s].pc \in {"kill", "killed"} => thr[s].cur \in Ids /\ thr[s].cur # j
      BY <3>2, <3>3
    <3> QED BY <1>1, <3>1, <3>4 DEF SameLock, SameReq, SameName
  <2>3. LockOk(t)'
    BY DEF LockOk
  <2> QED BY <2>1, <2>2, <2>3, FunctsStep DEF RefInv
<1> QED BY <1>1, <1>2, InsideKeeps DEF SameReq, IntrPcs

(* The function has returned.                                              *)
LEMMA LockGiven ==
  ASSUME SessType, RefInv, SameLists, conf' = conf, NEW t \in Threads, Others(t),
         thr'[t].u = thr[t].u, thr'[t].cur = thr[t].cur, thr[t].pc \in {"kill", "killed"},
         NEW j, j = thr[t].cur, Frame(req, req', {j}), Ids' = Ids,
         req'[j].st = req[j].st, req'[j].ctr = req[j].ctr, req'[j].func = req[j].func,
         thr'[t].pc = "unref"
  PROVE  RefInv'
<1>1. /\ \A k \in Ids : SameName(req[k], req'[k])
      /\ \A k \in Ids : k # j => SameReq(req[k], req'[k])
  BY DEF Frame, Ids
<1>2. Functs'
  <2>1. ASSUME NEW k \in Ids', req'[k].func # None PROVE SameFunc(t, k)
    <3>1. k \in Ids /\ req'[k].func = req[k].func /\ req[k].op = req'[k].op
      BY <1>1, <2>1 DEF SameReq, SameName
    <3>2. req[k].func # t
      BY <2>1, <3>1, FuncHeld
    <3> QED BY <3>1, <3>2 DEF SameFunc
  <2>2. ASSUME NEW s \in Threads, s # t PROVE SameLock(s)
    <3>1. thr[s].pc = "prep" => thr[s].u \in Ids
      BY HandFacts DEF KeepPcs, OwnPcs
    <3>2. thr[s].pc \in {"kill", "killed"} => thr[s].cur \in Ids /\ req[thr[s].cur].lock = s
      BY HandFacts DEF IntrPcs, RefInv, Functs, LockOk
    <3>3. req[j].lock = t
      BY DEF RefInv, Functs, LockOk
    <3>4. thr[s].pc \in {"kill", "killed"} => thr[s].cur \in Ids /\ thr[s].cur # j
      BY <2>2, <3>2, <3>3
    <3> QED BY <1>1, <3>1, <3>4 DEF SameLock, SameReq, SameName
  <2>3. LockOk(t)'
    BY DEF LockOk
  <2> QED BY <2>1, <2>2, <2>3, FunctsStep DEF RefInv
<1> QED BY <1>1, <1>2, InsideKeeps DEF SameReq, IntrPcs

(* fuse_interrupt waits for the other thread.                              *)
LEMMA WaitsKeeps ==
  ASSUME SessType, RefInv, SameLists, conf' = conf, req' = req, NEW t \in Threads, Others(t),
         thr'[t].u = thr[t].u, thr'[t].cur = thr[t].cur, thr'[t].d = thr[t].d,
         thr[t].pc = "kill", thr'[t].pc = "killed"
  PROVE  RefInv'
<1>1. Ids' = Ids /\ \A k \in Ids : SameReq(req[k], req'[k])
  BY DEF Ids, SameReq, SameName
<1>2. Functs'
  <2>1. ASSUME NEW k \in Ids', req'[k].func # None PROVE SameFunc(t, k)
    <3>1. k \in Ids /\ req[k].func # t
      BY <1>1, <2>1, FuncHeld
    <3> QED BY <3>1 DEF SameFunc
  <2>2. ASSUME NEW s \in Threads, s # t PROVE SameLock(s)
    BY DEF SameLock
  <2>3. LockOk(t)'
    BY DEF LockOk, RefInv, Functs
  <2> QED BY <2>1, <2>2, <2>3, FunctsStep DEF RefInv
<1> QED BY <1>1, <1>2, InsideKeeps DEF SameReq, IntrPcs

(* The function of the file system's call is set, and withdrawn.           *)
LEMMA FuncSet ==
  ASSUME SessType, RefInv, SameLists, conf' = conf, NEW t \in Threads, Others(t),
         thr'[t].u = thr[t].u, thr'[t].cur = thr[t].cur,
         NEW i, i = thr[t].u, req[i].lock = None, Frame(req, req', {i}), Ids' = Ids,
         req'[i].st = req[i].st, req'[i].ctr = req[i].ctr,
         \/ thr[t].pc = "prep" /\ thr'[t].pc = "run" /\ req'[i].func = t
         \/ thr[t].pc = "withdraw" /\ thr'[t].pc = "reply" /\ req'[i].func = None
  PROVE  RefInv'
<1>1. /\ \A k \in Ids : SameName(req[k], req'[k])
      /\ \A k \in Ids : k # i => SameReq(req[k], req'[k])
  BY DEF Frame, Ids
<1>2. i \in Ids
  BY HandFacts DEF KeepPcs, OwnPcs
<1>3. Functs'
  <2>1. ASSUME NEW k \in Ids', req'[k].func # None, k # i PROVE SameFunc(t, k)
    <3>1. k \in Ids /\ req'[k].func = req[k].func /\ req[k].op = req'[k].op
      BY <1>1, <2>1 DEF SameReq, SameName
    <3>2. req[k].func # t
      BY <2>1, <3>1, FuncHeld
    <3> QED BY <3>1, <3>2 DEF SameFunc
  <2>2. FuncOk(i)'
    <3>1. CASE req'[i].func = t /\ thr[t].pc = "prep"
      <4>1. conf.intr /\ req[i].op \notin NoAnswer
        BY <3>1 DEF RefInv, Functs, LockOk
      <4> QED BY <1>1, <1>2, <3>1, <4>1 DEF FuncOk, SameName
    <3>2. CASE req'[i].func = None
      BY <3>2 DEF FuncOk
    <3> QED BY <3>1, <3>2
  <2>3. ASSUME NEW s \in Threads, s # t PROVE SameLock(s)
    <3>1. thr[s].pc = "prep" => thr[s].u \in Ids
      BY HandFacts DEF KeepPcs, OwnPcs
    <3>2. thr[s].pc \in {"kill", "killed"} => thr[s].cur \in Ids /\ req[thr[s].cur].lock = s
      BY HandFacts DEF IntrPcs, RefInv, Functs, LockOk
    <3>3. s # None
      BY ThreadFacts
    <3>4. thr[s].pc \in {"kill", "killed"} => thr[s].cur \in Ids /\ thr[s].cur # i
      BY <3>2, <3>3
    <3> QED BY <1>1, <3>1, <3>4 DEF SameLock, SameReq, SameName
  <2>4. LockOk(t)'
    BY DEF LockOk
  <2> QED BY <2>1, <2>2, <2>3, <2>4, FunctsStep DEF RefInv
<1>4. thr[t].pc \in OwnPcs \ {"reply", "free"} /\ thr'[t].pc \in OwnPcs
  BY DEF OwnPcs
<1>5. \A j \in Ids : SameName(req[j], req'[j]) /\ req'[j].st = req[j].st /\ req'[j].ctr = req[j].ctr
  BY <1>1 DEF SameReq
<1> QED BY <1>3, <1>4, <1>5, InsideKeeps

(* The thread of a request gives up its reference.                         *)
LEMMA FreedKeeps ==
  ASSUME SessType, RefInv, conf' = conf, NEW t \in Threads, thr[t].pc = "free", Others(t),
         thr'[t].u = thr[t].u, thr'[t].pc \in {"exit", "done"},
         NEW i, i = thr[t].u, Frame(req, req', {i}), Ids' = Ids,
         req'[i].func = None, req'[i].lock = req[i].lock, req'[i].ctr = req[i].ctr - 1,
         req'[i].st = (IF req[i].ctr = 1 THEN "freed" ELSE req[i].st),
         se'.list = se.list \ {i}, se'.interrupts = se.interrupts, se'.held = se.held
  PROVE  RefInv'
<1>1. /\ i \in Ids /\ req[i].st = "live" /\ thr[t].pc \in Holding /\ thr[t].pc \in KeepPcs
      /\ i \notin se.held /\ i \notin ToSet(se.interrupts) /\ req[i].ctr \in Int
  BY HandFacts, Fields DEF Holding, KeepPcs, OwnPcs
<1>2. /\ \A j \in Ids : SameName(req[j], req'[j])
      /\ \A j \in Ids : j # i => SameReq(req[j], req'[j])
  BY DEF Frame, Ids
<1>3. thr'[t].pc \notin Holding /\ thr'[t].pc \notin KeepPcs /\ thr'[t].pc \notin IntrPcs
      /\ thr[t].pc \notin IntrPcs
  BY DEF Holding, KeepPcs, OwnPcs, IntrPcs, FreshPcs
<1>4. Kept(i) /\ Counted(i)
  BY <1>1 DEF Kept, RefInv, Counts
<1>5. ASSUME req[i].ctr = 1 PROVE \A s \in Threads : ~(thr[s].pc \in IntrPcs /\ thr[s].cur = i)
  <2>1. Cardinality(Interrupters(i)) = 0
    BY <1>4, <1>5, FiniteInterrupters DEF Counted
  <2>2. Interrupters(i) = {}
    BY <2>1, FiniteInterrupters, FS_EmptySet
  <2> QED BY <2>2 DEF Interrupters
<1>6. Lists'
  <2>1. Lists
    BY DEF RefInv
  <2>2. \A j \in se'.list : j \in se.list /\ j \in Ids /\ SameReq(req[j], req'[j])
                            /\ req[j].st = "live" /\ req[j].op # "interrupt"
    BY <1>2, Listed
  <2>3. \A k \in DOMAIN se.interrupts :
          /\ se.interrupts[k] \in Ids /\ SameReq(req[se.interrupts[k]], req'[se.interrupts[k]])
          /\ req[se.interrupts[k]].st = "live" /\ req[se.interrupts[k]].op = "interrupt"
    <3>1. \A k \in DOMAIN se.interrupts : se.interrupts[k] # i
      BY <1>1, Listed
    <3> QED BY <1>2, <3>1, Listed
  <2>4. \A k, l \in DOMAIN se.interrupts :
          req'[se.interrupts[k]].target = req'[se.interrupts[l]].target => k = l
    BY <2>1, <2>3 DEF Lists, SameReq, SameName
  <2>5. \A k \in DOMAIN se.interrupts, j \in se'.list : req'[j].uq # req'[se.interrupts[k]].target
    BY <2>1, <2>2, <2>3 DEF Lists, NoInterruptMissed, SameReq, SameName
  <2>6. \A j \in se.held : j \in se'.list /\ ~conf.intr
    BY <1>1, <2>1 DEF Lists
  <2>7. \A j \in se'.list : j \in Ids' /\ req'[j].st = "live" /\ req'[j].op # "interrupt"
    BY <2>2 DEF SameReq, SameName
  <2>8. \A k \in DOMAIN se.interrupts :
          /\ se.interrupts[k] \in Ids' /\ req'[se.interrupts[k]].st = "live"
          /\ req'[se.interrupts[k]].op = "interrupt"
    BY <2>3 DEF SameReq, SameName
  <2> QED BY <2>4, <2>5, <2>6, <2>7, <2>8 DEF Lists, NoInterruptMissed
<1>7. Hands'
  <2>1. ASSUME NEW s \in Threads, s # t, thr[s].pc \in Holding PROVE Untouched(thr[s].u)
    <3>1. thr[s].u \in Ids /\ thr[s].u # i
      BY <1>1, <2>1, HandFacts DEF Holding
    <3> QED BY <1>2, <3>1 DEF Untouched, SameReq
  <2>2. ASSUME NEW s \in Threads, s # t, thr[s].pc \in IntrPcs
        PROVE  thr[s].cur \in Ids' /\ SameName(req[thr[s].cur], req'[thr[s].cur])
                                   /\ req'[thr[s].cur].st = "live"
    <3>1. thr[s].cur \in Ids /\ req[thr[s].cur].st = "live"
      BY <2>2, HandFacts
    <3>2. CASE thr[s].cur = i
      BY <1>2, <1>5, <2>2, <3>1, <3>2
    <3>3. CASE thr[s].cur # i
      BY <1>2, <3>1, <3>3 DEF SameReq
    <3> QED BY <3>2, <3>3
  <2>3. InHands(t)'
    BY <1>3 DEF InHands, Holding, KeepPcs
  <2> QED BY <1>3, <2>1, <2>2, <2>3, HandsStep DEF RefInv
<1>8. Counts'
  <2>1. ASSUME NEW j \in Ids', req'[j].st = "live", j # i PROVE SameRefs(t, j)
    <3>1. j \in Ids /\ SameReq(req[j], req'[j])
      BY <1>2, <2>1
    <3> QED BY <1>3, <2>1, <3>1 DEF SameReq, SameRefs
  <2>2. Counted(i)'
    <3>1. Interrupters(i)' = Interrupters(i)
      BY <1>3 DEF Interrupters, Others, Still
    <3>2. ~Kept(i)'
      <4>1. \A s \in Threads : s # t /\ thr[s].pc \in KeepPcs => thr[s].u # i
        BY <1>1, HandFacts DEF Holding
      <4>2. \A s \in Threads : ~(thr'[s].pc \in KeepPcs /\ thr'[s].u = i)
        BY <1>3, <4>1 DEF Others, Still
      <4> QED BY <1>1, <4>2 DEF Kept
    <3>3. Cardinality(Interrupters(i))' = Cardinality(Interrupters(i))
      BY <3>1
    <3> QED BY <1>1, <1>4, <3>2, <3>3, FiniteInterrupters DEF Counted
  <2> QED BY <2>1, <2>2, CountsStep DEF RefInv
<1>9. Functs'
  <2>1. ASSUME NEW j \in Ids', req'[j].func # None PROVE SameFunc(t, j)
    <3>1. j \in Ids /\ j # i /\ req'[j].func = req[j].func /\ req[j].op = req'[j].op
      BY <1>2, <2>1 DEF SameReq, SameName
    <3>2. req[j].func # t
      BY <2>1, <3>1, FuncHeld
    <3> QED BY <3>1, <3>2 DEF SameFunc
  <2>2. req[i].func = None
    <3>1. req[i].func # t /\ (req[i].func # None => req[i].func \in Threads /\ thr[req[i].func].u = i
                               /\ thr[req[i].func].pc \in Holding)
      <4>1. {"run", "finish", "withdraw"} \subseteq Holding
        BY DEF Holding, KeepPcs, OwnPcs
      <4>2. t # None
        BY ThreadFacts
      <4> QED BY <1>1, <4>1, <4>2, FuncHeld
    <3> QED BY <1>1, <3>1, HandFacts
  <2>3. ASSUME NEW s \in Threads, s # t PROVE SameLock(s)
    <3>1. thr[s].pc = "prep" => thr[s].u \in Ids
      BY HandFacts DEF KeepPcs, OwnPcs
    <3>2. thr[s].pc \in {"kill", "killed"} => thr[s].cur \in Ids
      BY HandFacts DEF IntrPcs
    <3> QED BY <1>2, <2>2, <3>1, <3>2 DEF SameLock, SameReq, SameName
  <2>4. LockOk(t)'
    BY DEF LockOk
  <2> QED BY <2>1, <2>3, <2>4, FunctsStep DEF RefInv
<1> QED BY <1>6, <1>7, <1>8, <1>9 DEF RefInv

(* The thread that interrupted a request drops its reference to it, and    *)
(* the interrupt's own.                                                    *)
LEMMA UnrefKeeps ==
  ASSUME SessType, RefInv, SameLists, conf' = conf, NEW t \in Threads, thr[t].pc = "unref",
         Others(t), thr'[t].pc = "done",
         NEW i, i = thr[t].u, NEW j, j = thr[t].cur, Frame(req, req', {i, j}), Ids' = Ids,
         req'[i].func = req[i].func, req'[j].func = req[j].func,
         req'[i].lock = req[i].lock, req'[j].lock = req[j].lock,
         req'[i].st = (IF req[i].ctr = 1 THEN "freed" ELSE req[i].st),
         req'[j].ctr = req[j].ctr - 1,
         req'[j].st = (IF req[j].ctr = 1 THEN "freed" ELSE req[j].st)
  PROVE  RefInv'
<1>1. /\ i \in Ids /\ req[i].st = "live" /\ req[i].op = "interrupt" /\ i \notin ToSet(se.interrupts)
      /\ j \in Ids /\ req[j].st = "live" /\ req[j].op # "interrupt" /\ i # j
      /\ thr[t].pc \in Holding /\ thr[t].pc \in KeepPcs /\ thr[t].pc \in IntrPcs
      /\ req[j].ctr \in Int
  BY HandFacts, Fields DEF Holding, KeepPcs, IntrPcs
<1>2. /\ \A k \in Ids : SameName(req[k], req'[k])
      /\ \A k \in Ids : k # i /\ k # j => SameReq(req[k], req'[k])
  BY DEF Frame, Ids
<1>3. thr'[t].pc \notin Holding /\ thr'[t].pc \notin KeepPcs /\ thr'[t].pc \notin IntrPcs
  BY DEF Holding, KeepPcs, OwnPcs, IntrPcs, FreshPcs
<1>4. Counted(i) /\ Counted(j)
  BY <1>1 DEF RefInv, Counts
<1>5. req[i].ctr = 1 /\ req'[i].st = "freed"
  <2>1. Kept(i)
    BY <1>1 DEF Kept
  <2> QED BY <1>1, <1>4, <2>1, NotInterrupted DEF Counted
<1>6. t \in Interrupters(j) /\ Interrupters(j)' = Interrupters(j) \ {t}
  BY <1>1, <1>3 DEF Interrupters, Others, Still
<1>7. Cardinality(Interrupters(j) \ {t}) = Cardinality(Interrupters(j)) - 1
      /\ Cardinality(Interrupters(j)) \in Nat
      /\ IsFiniteSet(Interrupters(j) \ {t}) /\ Cardinality(Interrupters(j) \ {t}) \in Nat
  BY <1>6, FiniteInterrupters, FS_RemoveElement, FS_CardinalityType
<1>8. ASSUME req[j].ctr = 1
      PROVE  ~Kept(j) /\ \A s \in Threads : s # t => ~(thr[s].pc \in IntrPcs /\ thr[s].cur = j)
  <2>1. ~Kept(j) /\ Cardinality(Interrupters(j) \ {t}) = 0
    BY <1>4, <1>7, <1>8 DEF Counted
  <2>2. Interrupters(j) \ {t} = {}
    BY <1>7, <2>1, FS_EmptySet
  <2> QED BY <2>1, <2>2 DEF Interrupters
<1>9. req'[j].st \in {"live", "freed"} /\ (req'[j].st = "live" <=> req[j].ctr # 1)
  BY <1>1
<1>10. \A k \in se.list \cup ToSet(se.interrupts) :
         k \in Ids /\ SameName(req[k], req'[k]) /\ req'[k].st = "live"
  <2> SUFFICES ASSUME NEW k \in se.list \cup ToSet(se.interrupts)
               PROVE  k \in Ids /\ SameName(req[k], req'[k]) /\ req'[k].st = "live"
    OBVIOUS
  <2>1. k \in Ids /\ req[k].st = "live" /\ k # i
    BY <1>1, Listed
  <2>2. CASE k = j
    BY <1>2, <1>8, <1>9, <2>1, <2>2 DEF Kept
  <2>3. CASE k # j
    BY <1>2, <2>1, <2>3 DEF SameReq
  <2> QED BY <2>2, <2>3
<1>11. Lists'
  BY <1>10, ListsStep
<1>12. Hands'
  <2>1. ASSUME NEW s \in Threads, s # t, thr[s].pc \in Holding PROVE Untouched(thr[s].u)
    <3>1. thr[s].u \in Ids /\ thr[s].u # i
      BY <1>1, <2>1, HandFacts DEF Holding
    <3>2. CASE thr[s].u = j
      <4>1. thr[s].pc \in KeepPcs
        <5>1. thr[s].pc \in FreshPcs => req[thr[s].u].st = "read"
          BY HandFacts
        <5> QED BY <1>1, <2>1, <3>2, <5>1 DEF Holding
      <4>2. Kept(j)
        BY <3>2, <4>1 DEF Kept
      <4>3. req'[j].st = req[j].st
        BY <1>1, <1>8, <4>2
      <4> QED BY <1>2, <3>1, <3>2, <4>3 DEF Untouched, SameLists
    <3>3. CASE thr[s].u # j
      BY <1>2, <3>1, <3>3 DEF Untouched, SameReq, SameLists
    <3> QED BY <3>2, <3>3
  <2>2. ASSUME NEW s \in Threads, s # t, thr[s].pc \in IntrPcs
        PROVE  thr[s].cur \in Ids' /\ SameName(req[thr[s].cur], req'[thr[s].cur])
                                   /\ req'[thr[s].cur].st = "live"
    <3>1. thr[s].cur \in Ids /\ req[thr[s].cur].st = "live" /\ req[thr[s].cur].op # "interrupt"
      BY <2>2, HandFacts
    <3>2. CASE thr[s].cur = j
      BY <1>2, <1>8, <1>9, <2>2, <3>1, <3>2
    <3>3. CASE thr[s].cur # j
      BY <1>1, <1>2, <3>1, <3>3 DEF SameReq
    <3> QED BY <3>2, <3>3
  <2>3. InHands(t)'
    BY <1>3 DEF InHands, Holding, KeepPcs
  <2> QED BY <1>3, <2>1, <2>2, <2>3, HandsStep DEF RefInv
<1>13. Counts'
  <2>1. ASSUME NEW k \in Ids', req'[k].st = "live", k # j PROVE SameRefs(t, k)
    <3>1. k \in Ids /\ k # i
      BY <1>5, <2>1
    <3>2. SameReq(req[k], req'[k])
      BY <1>2, <2>1, <3>1
    <3> QED BY <1>3, <2>1, <3>1, <3>2 DEF SameReq, SameRefs, SameLists
  <2>2. Counted(j)'
    <3>1. Kept(j)' <=> Kept(j)
      <4>1. \A s \in Threads : (thr'[s].pc \in KeepPcs /\ thr'[s].u = j)
                                  <=> (thr[s].pc \in KeepPcs /\ thr[s].u = j)
        BY <1>1, <1>3 DEF Others, Still
      <4> QED BY <4>1 DEF Kept, SameLists
    <3> QED BY <1>1, <1>4, <1>6, <3>1, OneLess
  <2> QED BY <2>1, <2>2, CountsStep DEF RefInv
<1>14. Functs'
  <2>1. ASSUME NEW k \in Ids', req'[k].func # None PROVE SameFunc(t, k)
    <3>1. k \in Ids /\ req'[k].func = req[k].func /\ req[k].op = req'[k].op
      BY <1>2, <2>1 DEF SameReq, SameName
    <3>2. req[k].func # t
      BY <2>1, <3>1, FuncHeld
    <3> QED BY <3>1, <3>2 DEF SameFunc
  <2>2. ASSUME NEW s \in Threads, s # t PROVE SameLock(s)
    <3>1. thr[s].pc = "prep" => thr[s].u \in Ids
      BY HandFacts DEF KeepPcs, OwnPcs
    <3>2. thr[s].pc \in {"kill", "killed"} => thr[s].cur \in Ids
      BY HandFacts DEF IntrPcs
    <3> QED BY <1>2, <3>1, <3>2 DEF SameLock, SameReq, SameName
  <2>3. LockOk(t)'
    BY DEF LockOk
  <2> QED BY <2>1, <2>2, <2>3, FunctsStep DEF RefInv
<1> QED BY <1>11, <1>12, <1>13, <1>14 DEF RefInv

(* The file system keeps a request, and answers it later.                  *)
LEMMA HeldKeeps ==
  ASSUME SessType, RefInv, conf' = conf, req' = req, NEW t \in Threads, Others(t),
         se'.list = se.list, se'.interrupts = se.interrupts,
         NEW i, i = thr'[t].u,
         \/ /\ thr[t].pc = "run" /\ thr'[t].pc = "done" /\ i = thr[t].u /\ ~conf.intr
            /\ se'.held = se.held \cup {i}
         \/ /\ thr[t].pc = "none" /\ thr'[t].pc = "reply" /\ i \in se.held
            /\ se'.held = se.held \ {i}
  PROVE  RefInv'
<1>1. Ids' = Ids /\ \A k \in Ids : SameReq(req[k], req'[k])
  BY DEF Ids, SameReq, SameName
<1>2. InHands(t) /\ Lists
  BY DEF RefInv, Hands
<1>3. i \in se.list /\ i \in Ids /\ req[i].st = "live" /\ req[i].op # "interrupt" /\ ~conf.intr
      /\ i \notin ToSet(se.interrupts)
  <2>1. i \in se.list /\ ~conf.intr
    BY <1>2, Listed DEF InHands, OwnPcs, Lists
  <2> QED BY <2>1, Listed
<1>4. \A s \in Threads : s # t /\ thr[s].pc \in Holding => thr[s].u # i
  <2>1. CASE thr[t].pc = "run" /\ i = thr[t].u
    BY <2>1, HandFacts DEF Holding, KeepPcs, OwnPcs
  <2>2. CASE i \in se.held
    BY <2>2, HandFacts
  <2> QED BY <2>1, <2>2
<1>5. Lists'
  BY <1>2, <1>3 DEF Lists, NoInterruptMissed, Ids
<1>6. Hands'
  <2>1. ASSUME NEW s \in Threads, s # t, thr[s].pc \in Holding PROVE Untouched(thr[s].u)
    <3>1. thr[s].u \in Ids /\ thr[s].u # i
      BY <1>4, <2>1, HandFacts DEF Holding
    <3> QED BY <1>1, <3>1 DEF Untouched, SameReq
  <2>2. ASSUME NEW s \in Threads, s # t, thr[s].pc \in IntrPcs
        PROVE  thr[s].cur \in Ids' /\ SameName(req[thr[s].cur], req'[thr[s].cur])
                                   /\ req'[thr[s].cur].st = "live"
    <3>1. thr[s].cur \in Ids /\ req[thr[s].cur].st = "live"
      BY <2>2, HandFacts
    <3> QED BY <1>1, <3>1 DEF SameReq
  <2>3. InHands(t)'
    BY <1>1, <1>3 DEF InHands, Holding, KeepPcs, OwnPcs, IntrPcs, FreshPcs, Ids
  <2>4. thr'[t].pc \in Holding => \A s \in Threads : s # t /\ thr[s].pc \in Holding => thr[s].u # thr'[t].u
    BY <1>4
  <2> QED BY <2>1, <2>2, <2>3, <2>4, HandsStep DEF RefInv
<1>7. Counts'
  <2>1. ASSUME NEW k \in Ids', req'[k].st = "live" PROVE Counted(k)'
    <3>1. k \in Ids /\ req[k].st = "live" /\ req[k].ctr = req'[k].ctr
      BY <1>1, <2>1 DEF SameReq
    <3>2. \A s \in Threads : (thr'[s].pc \in IntrPcs /\ thr'[s].cur = k)
                               <=> (thr[s].pc \in IntrPcs /\ thr[s].cur = k)
      <4>1. thr[t].pc \notin IntrPcs /\ thr'[t].pc \notin IntrPcs
        BY DEF IntrPcs
      <4> QED BY <4>1 DEF Others, Still
    <3>3. Kept(k)' <=> Kept(k)
      <4>1. CASE k = i
        BY <1>3, <4>1 DEF Kept
      <4>2. CASE k # i
        <5>1. /\ ~(thr'[t].pc \in KeepPcs /\ thr'[t].u = k)
              /\ ~(thr[t].pc \in KeepPcs /\ thr[t].u = k)
          BY <4>2 DEF KeepPcs, OwnPcs, IntrPcs
        <5>2. \A s \in Threads : (thr'[s].pc \in KeepPcs /\ thr'[s].u = k)
                                   <=> (thr[s].pc \in KeepPcs /\ thr[s].u = k)
          BY <5>1 DEF Others, Still
        <5> QED BY <5>2 DEF Kept
      <4> QED BY <4>1, <4>2
    <3>4. Counted(k)
      BY <3>1 DEF RefInv, Counts
    <3> QED BY <3>1, <3>2, <3>3, <3>4, SameCount
  <2> QED BY <2>1 DEF Counts
<1>8. Functs'
  <2>1. ASSUME NEW k \in Ids', req'[k].func # None PROVE SameFunc(t, k)
    <3>1. k \in Ids /\ conf.intr
      BY <1>1, <2>1 DEF RefInv, Functs, FuncOk
    <3> QED BY <1>3, <3>1
  <2>2. ASSUME NEW s \in Threads, s # t PROVE SameLock(s)
    BY DEF SameLock
  <2>3. LockOk(t)'
    BY DEF LockOk
  <2> QED BY <2>1, <2>2, <2>3, FunctsStep DEF RefInv
<1> QED BY <1>5, <1>6, <1>7, <1>8 DEF RefInv

-----------------------------------------------------------------------------
(* The list of workers, and the channels, when a step of t leaves them.    *)
LoopPcs == {"loop", "wait", "cancel", "join"}
FsPcs == {"none", "send", "reply", "free", "exit", "done"}
Placed(t) ==
  /\ t \in Workers => (thr'[t].pc = "none" <=> thr[t].pc = "none")
  /\ t = Main => thr'[t].pc # "got" /\ (thr'[t].pc \in LoopPcs \/ mt.list = << >>)
  /\ t = Fs => thr'[t].pc \in FsPcs

(* The list of workers stays as it is.                                     *)
LEMMA PoolStep ==
  ASSUME Pool, NEW t \in Threads, Others(t), Placed(t), mt'.list = mt.list
  PROVE  Pool'
<1>1. \A s \in Threads : s # t => thr'[s].pc = thr[s].pc
  BY DEF Others, Still
<1>2. \A w \in Workers : thr'[w].pc = "none" <=> thr[w].pc = "none"
  BY <1>1, ThreadFacts DEF Placed
<1>3. thr'[Main].pc # "got" /\ (thr'[Main].pc \in LoopPcs \/ mt.list = << >>)
  <2>1. CASE t = Main
    BY <2>1 DEF Placed
  <2>2. CASE t # Main
    BY <1>1, <2>2, ThreadFacts DEF Pool, LoopPcs
  <2> QED BY <2>1, <2>2
<1>4. thr'[Fs].pc \in FsPcs
  <2>1. CASE t = Fs
    BY <2>1 DEF Placed
  <2>2. CASE t # Fs
    BY <1>1, <2>2, ThreadFacts DEF Pool, FsPcs
  <2> QED BY <2>1, <2>2
<1> QED BY <1>2, <1>3, <1>4 DEF Pool, Idle, LoopPcs, FsPcs

(* A thread that takes a step of its own stays out of the main loop's      *)
(* places; p and q are its places before and after.                        *)
LEMMA PlacedStep ==
  ASSUME Pool, NEW t \in Threads,
         thr[t].pc \notin LoopPcs \cup {"none"}, thr'[t].pc \notin LoopPcs \cup {"none"},
         thr'[t].pc = "got" => t # Main,
         thr[t].pc \in FsPcs \cup {"send"} => thr'[t].pc \in FsPcs
  PROVE  Placed(t)
<1>1. t = Main => mt.list = << >>
  BY DEF Pool, LoopPcs
<1>2. t = Fs => thr[t].pc \in FsPcs
  BY DEF Pool, FsPcs
<1> QED BY <1>1, <1>2 DEF Placed

(* Requests that keep their channels. *)
SameChannels ==
  /\ \A j \in Ids : j \in Ids' /\ req'[j].ch = req[j].ch
                    /\ (req'[j].st \in {"queued", "read"} => req[j].st \in {"queued", "read"})
  /\ \A j \in Ids' : j \notin Ids => req'[j].ch = None

(* The references to the channels stay as they are.                        *)
LEMMA SameReaders ==
  ASSUME SameChannels, NEW w \in Workers
  PROVE  ReadFrom(w)' = ReadFrom(w)
BY SessionAssumption DEF SameChannels, ReadFrom

LEMMA ChannelsSame ==
  ASSUME Channels, SameChannels, conf' = conf, chan' = chan,
         \A w \in Workers : Idle(w)' <=> Idle(w)
  PROVE  Channels'
<1>1. \A i \in Ids' : req'[i].st \in {"queued", "read"} => req'[i].ch = None
  BY DEF Channels, SameChannels
<1>2. ASSUME conf.clone_fd, NEW w \in Workers
      PROVE  chan'[w] = (IF Idle(w)' THEN 0 ELSE 1) + Cardinality(ReadFrom(w)')
  BY <1>2, SameReaders DEF Channels
<1>3. \A w \in Workers : Cardinality(ReadFrom(w))' = Cardinality(ReadFrom(w)')
  OBVIOUS
<1> QED BY <1>1, <1>2, <1>3 DEF Channels

LEMMA FrameChannels ==
  ASSUME SessType, NEW S, Frame(req, req', S),
         \A j \in S : j \in Ids =>
           /\ req'[j].ch = req[j].ch
           /\ req'[j].st \in {"queued", "read"} => req[j].st \in {"queued", "read"}
  PROVE  SameChannels
BY DEF Frame, SameReq, Unread, SameChannels, Ids

LEMMA PlacedIdle ==
  ASSUME NEW t \in Threads, Others(t), Placed(t)
  PROVE  \A w \in Workers : Idle(w)' <=> Idle(w)
BY ThreadFacts DEF Others, Still, Placed, Idle

(* A step of t that leaves the list of workers and the channels alone.     *)
LEMMA PlainStep ==
  ASSUME SessInv, SessType', RefInv', conf' = conf, chan' = chan, mt'.list = mt.list,
         NEW t \in Threads, Others(t), Placed(t), SameChannels
  PROVE  SessInv'
<1>1. Pool'
  BY PoolStep DEF SessInv
<1>2. Channels'
  BY PlacedIdle, ChannelsSame DEF SessInv
<1> QED BY <1>1, <1>2 DEF SessInv

-----------------------------------------------------------------------------
(* The steps of the loop functions.                                        *)

(* A step of t that changes no request in hand. *)
LEMMA QuietStep ==
  ASSUME SessInv, SessType', conf' = conf, chan' = chan, mt'.list = mt.list,
         NEW t \in Threads, Others(t), Placed(t), Frame(req, req', {}), SameLists,
         thr[t].pc \notin KeepPcs /\ thr'[t].pc \notin Holding
  PROVE  SessInv'
<1>1. \A s \in Threads : Quiet(s)
  BY DEF Quiet, Others
<1>2. SessType /\ RefInv
  BY DEF SessInv
<1>3. RefInv'
  BY <1>1, <1>2, QuietKeeps
<1>4. SameChannels
  BY <1>2, FrameChannels
<1> QED BY <1>3, <1>4, PlainStep

LEMMA QuietGoto ==
  ASSUME SessInv, SessType', conf' = conf, chan' = chan, mt'.list = mt.list,
         NEW t \in Threads, NEW q \in Pcs, Goto(t, q), Frame(req, req', {}), SameLists,
         Placed(t), thr[t].pc \notin KeepPcs, q \notin Holding
  PROVE  SessInv'
<1>1. Moved(t, q)
  BY Went DEF SessInv
<1> QED BY <1>1, QuietStep DEF Moved, Others

(* The loop of the main thread tests se->exited, waits, cancels the        *)
(* workers, returns.                                                       *)
LEMMA LoopTestKeeps ==
  ASSUME SessInv, LoopTest
  PROVE  SessInv'
<1>1. PICK q \in {"cancel", "wait"} : Goto(Main, q)
  BY DEF LoopTest
<1>2. q \in Pcs /\ q \notin Holding /\ thr[Main].pc \notin KeepPcs /\ q \in LoopPcs
  BY DEF LoopTest, At, Pcs, InHand, Holding, KeepPcs, OwnPcs, IntrPcs, FreshPcs, LoopPcs
<1>3. SessType /\ Main \in Threads /\ Main \notin Workers /\ Main # Fs
  BY ThreadFacts DEF SessInv
<1>4. thr' \in [Threads -> ThreadType] /\ Moved(Main, q)
  BY <1>1, <1>2, <1>3, Went
<1>5. Placed(Main)
  BY <1>2, <1>3, <1>4 DEF Placed, Moved, LoopPcs
<1>6. SessType'
  BY <1>3, <1>4 DEF SessType, LoopTest
<1>7. Frame(req, req', {}) /\ SameLists
  BY <1>3, FrameSame DEF LoopTest, SameLists
<1> QED BY <1>1, <1>2, <1>3, <1>5, <1>6, <1>7, QuietGoto DEF LoopTest

LEMMA LoopWaitKeeps ==
  ASSUME SessInv, LoopWait
  PROVE  SessInv'
<1>1. Goto(Main, "loop")
  BY DEF LoopWait
<1>2. "loop" \in Pcs /\ "loop" \notin Holding /\ thr[Main].pc \notin KeepPcs /\ "loop" \in LoopPcs
  BY DEF LoopWait, At, Pcs, InHand, Holding, KeepPcs, OwnPcs, IntrPcs, FreshPcs, LoopPcs
<1>3. SessType /\ Main \in Threads /\ Main \notin Workers /\ Main # Fs
  BY ThreadFacts DEF SessInv
<1>4. thr' \in [Threads -> ThreadType] /\ Moved(Main, "loop")
  BY <1>1, <1>2, <1>3, Went
<1>5. Placed(Main)
  BY <1>2, <1>3, <1>4 DEF Placed, Moved, LoopPcs
<1>6. mt' \in PoolType /\ mt'.list = mt.list
  <2>1. mt \in PoolType /\ mt.finish \in Int /\ mt' = [mt EXCEPT !.finish = mt.finish - 1]
    BY <1>3 DEF SessType, LoopWait, PoolType
  <2> QED BY <2>1 DEF PoolType
<1>7. SessType'
  BY <1>3, <1>4, <1>6 DEF SessType, LoopWait
<1>8. Frame(req, req', {}) /\ SameLists
  BY <1>3, FrameSame DEF LoopWait, SameLists
<1> QED BY <1>1, <1>2, <1>3, <1>5, <1>6, <1>7, <1>8, QuietGoto DEF LoopWait

LEMMA LoopCancelKeeps ==
  ASSUME SessInv, LoopCancel
  PROVE  SessInv'
<1>1. SessType /\ Main \in Threads /\ Main \notin Workers /\ Main # Fs
  BY ThreadFacts DEF SessInv
<1>2. thr' = [t \in Threads |-> IF t = Main THEN [thr[t] EXCEPT !.pc = "join"]
                                ELSE [thr[t] EXCEPT !.cancelled = @ \/ t \in ToSet(mt.list)]]
  BY DEF LoopCancel
<1>3. \A t \in Threads : thr[t] \in ThreadType
  BY <1>1 DEF SessType
<1>4. ASSUME NEW t \in Threads, NEW b \in BOOLEAN
      PROVE  [thr[t] EXCEPT !.cancelled = b] \in ThreadType
  BY <1>3 DEF ThreadType
<1>5. "join" \in Pcs
  BY DEF Pcs
<1>6. [thr[Main] EXCEPT !.pc = "join"] \in ThreadType
  BY <1>1, <1>3, <1>5 DEF ThreadType
<1>7. \A t \in Threads : (thr[t].cancelled \/ t \in ToSet(mt.list)) \in BOOLEAN
  OBVIOUS
<1>8. thr' \in [Threads -> ThreadType]
  BY <1>2, <1>4, <1>6, <1>7
<1>9. Others(Main) /\ thr'[Main].pc = "join"
  BY <1>1, <1>2, <1>3 DEF Others, Still, ThreadType
<1>10. Placed(Main) /\ thr[Main].pc \notin KeepPcs /\ thr'[Main].pc \notin Holding
  BY <1>1, <1>9 DEF Placed, LoopPcs, LoopCancel, At, Holding, KeepPcs, OwnPcs, IntrPcs, FreshPcs
<1>11. mt' \in PoolType /\ mt'.list = mt.list
  BY <1>1 DEF SessType, LoopCancel, PoolType
<1>12. SessType'
  BY <1>1, <1>8, <1>11 DEF SessType, LoopCancel
<1>13. Frame(req, req', {}) /\ SameLists
  BY <1>1, FrameSame DEF LoopCancel, SameLists
<1> QED BY <1>1, <1>9, <1>10, <1>11, <1>12, <1>13, QuietStep DEF LoopCancel

LEMMA LoopReturnKeeps ==
  ASSUME SessInv, LoopReturn
  PROVE  SessInv'
<1>1. SessType /\ Main \in Threads /\ Main \notin Workers /\ Main # Fs /\ Pool
  BY ThreadFacts DEF SessInv
<1>2. Goto(Main, "over") /\ mt.list = << >>
  BY <1>1 DEF LoopReturn, Pool, At
<1>3. "over" \in Pcs /\ "over" \notin Holding /\ thr[Main].pc \notin KeepPcs
  BY DEF LoopReturn, At, Pcs, InHand, Holding, KeepPcs, OwnPcs, IntrPcs, FreshPcs
<1>4. thr' \in [Threads -> ThreadType] /\ Moved(Main, "over")
  BY <1>1, <1>2, <1>3, Went
<1>5. Placed(Main)
  BY <1>1, <1>2, <1>4 DEF Placed, Moved
<1>6. se.error \in Int /\ mt.error \in Int
  BY <1>1 DEF SessType, SessionType, PoolType
<1>7. se' \in SessionType /\ SameLists
  <2>1. PICK x \in BOOLEAN, d, e \in Int : se' = [se EXCEPT !.exited = x, !.error = d, !.result = e]
    <3>1. PICK e \in Int : se' = [se EXCEPT !.exited = FALSE, !.error = 0, !.result = e]
      BY <1>6 DEF LoopReturn
    <3>2. FALSE \in BOOLEAN /\ 0 \in Int /\ e \in Int
      OBVIOUS
    <3> QED BY <3>1, <3>2, Zenon
  <2>2. se \in SessionType
    BY <1>1 DEF SessType
  <2> QED BY <2>1, <2>2 DEF SameLists, SessionType
<1>8. SessType'
  BY <1>1, <1>4, <1>7 DEF SessType, LoopReturn
<1>9. Frame(req, req', {})
  BY <1>1, FrameSame DEF LoopReturn
<1> QED BY <1>1, <1>2, <1>3, <1>5, <1>7, <1>8, <1>9, QuietGoto DEF LoopReturn

(* fuse_session_unmount and fuse_session_destroy.                          *)
LEMMA DestroyKeeps ==
  ASSUME SessInv, fuse_session_destroy
  PROVE  SessInv'
<1>1. SessType /\ Main \in Threads /\ Main \notin Workers /\ Main # Fs /\ Pool
  BY ThreadFacts DEF SessInv
<1>2. Goto(Main, "gone") /\ mt.list = << >>
  BY <1>1 DEF fuse_session_destroy, Pool, At
<1>3. "gone" \in Pcs /\ "gone" \notin Holding /\ thr[Main].pc \notin KeepPcs
  BY DEF fuse_session_destroy, At, Pcs, InHand, Holding, KeepPcs, OwnPcs, IntrPcs, FreshPcs
<1>4. thr' \in [Threads -> ThreadType] /\ Moved(Main, "gone")
  BY <1>1, <1>2, <1>3, Went
<1>5. Placed(Main)
  BY <1>1, <1>2, <1>4 DEF Placed, Moved
<1>6. se.destroys \in Nat
  BY <1>1 DEF SessType, SessionType
<1>7. se' \in SessionType /\ SameLists
  <2>1. PICK n \in Nat : se' = [se EXCEPT !.destroys = n]
    BY <1>6 DEF fuse_session_destroy
  <2>2. se \in SessionType
    BY <1>1 DEF SessType
  <2> QED BY <2>1, <2>2 DEF SessionType, SameLists
<1>8. kern' \in KernelType
  BY <1>1 DEF SessType, fuse_session_destroy, KernelType
<1>9. SessType'
  BY <1>1, <1>4, <1>7, <1>8 DEF SessType, fuse_session_destroy
<1>10. Frame(req, req', {})
  BY <1>1, FrameSame DEF fuse_session_destroy
<1> QED BY <1>1, <1>2, <1>3, <1>5, <1>7, <1>9, <1>10, QuietGoto DEF fuse_session_destroy

-----------------------------------------------------------------------------
(* The steps of a thread between two requests.                             *)
Between == {"check", "read", "break", "ended", "done", "exit"}
(* Steps of a worker between two requests.                                 *)
LEMMA BetweenFacts ==
  /\ Between \subseteq Pcs /\ Between \cap Holding = {} /\ Between \cap KeepPcs = {}
  /\ Between \cap LoopPcs = {} /\ "none" \notin Between /\ "got" \notin Between
  /\ "done" \in FsPcs /\ "exit" \in FsPcs
BY DEF Between, Pcs, InHand, Holding, KeepPcs, OwnPcs, IntrPcs, FreshPcs, LoopPcs, FsPcs

LEMMA BetweenStep ==
  ASSUME SessInv, conf' = conf, chan' = chan, mt' \in PoolType, mt'.list = mt.list,
         NEW t \in Threads, NEW q \in Between, Goto(t, q), thr[t].pc \in Between,
         thr[t].pc \in FsPcs => q \in FsPcs,
         req' = req, se' \in SessionType, SameLists, kern' = kern
  PROVE  SessInv'
<1>1. SessType /\ Pool
  BY DEF SessInv
<1>2. q \in Pcs /\ q \notin Holding /\ thr[t].pc \notin KeepPcs
  BY BetweenFacts
<1>3. thr' \in [Threads -> ThreadType] /\ Moved(t, q)
  BY <1>1, <1>2, Went
<1>4. thr'[t].pc = q
  BY <1>3 DEF Moved
<1>5. Placed(t)
  <2>1. thr[t].pc # "send"
    BY DEF Between
  <2> QED BY <1>1, <1>4, <2>1, BetweenFacts, PlacedStep
<1>6. SessType'
  BY <1>1, <1>3 DEF SessType
<1>7. Frame(req, req', {})
  BY <1>1, FrameSame
<1> QED BY <1>2, <1>5, <1>6, <1>7, QuietGoto

LEMMA WorkTestKeeps ==
  ASSUME SessInv, NEW t \in Threads, WorkTest(t)
  PROVE  SessInv'
<1>1. PICK q \in {"read", "ended"} : Goto(t, q)
  BY DEF WorkTest
<1>2. q \in Between /\ thr[t].pc \in Between /\ thr[t].pc \notin FsPcs
  BY DEF Between, WorkTest, At, FsPcs
<1>3. mt' \in PoolType /\ mt'.list = mt.list
  <2>1. mt \in PoolType /\ mt.finish \in Int
    BY DEF SessInv, SessType, PoolType
  <2>2. mt' = mt \/ mt' = [mt EXCEPT !.finish = mt.finish + 1]
    BY DEF WorkTest
  <2> QED BY <2>1, <2>2 DEF PoolType
<1>4. se' = se /\ se \in SessionType
  BY DEF WorkTest, SessInv, SessType
<1> QED BY <1>1, <1>2, <1>3, <1>4, BetweenStep DEF WorkTest, SameLists

LEMMA WorkBreakKeeps ==
  ASSUME SessInv, NEW t \in Threads, WorkBreak(t)
  PROVE  SessInv'
<1>1. "ended" \in Between /\ thr[t].pc \in Between /\ thr[t].pc \notin FsPcs
  BY DEF Between, WorkBreak, At, FsPcs
<1>2. mt' \in PoolType /\ mt'.list = mt.list
  <2>1. mt \in PoolType /\ mt.finish \in Int
    BY DEF SessInv, SessType, PoolType
  <2>2. mt' = mt \/ mt' = [mt EXCEPT !.finish = mt.finish + 1]
    BY DEF WorkBreak
  <2> QED BY <2>1, <2>2 DEF PoolType
<1>3. se' = se /\ se \in SessionType /\ Goto(t, "ended")
  BY DEF WorkBreak, SessInv, SessType
<1> QED BY <1>1, <1>2, <1>3, BetweenStep DEF WorkBreak, SameLists

LEMMA CancelledKeeps ==
  ASSUME SessInv, NEW t \in Threads, Cancelled(t)
  PROVE  SessInv'
<1>1. "ended" \in Between /\ thr[t].pc \in Between /\ thr[t].pc \notin FsPcs
  BY DEF Between, Cancelled, At, FsPcs
<1>2. se' = se /\ se \in SessionType /\ Goto(t, "ended") /\ mt' = mt /\ mt \in PoolType
  BY DEF Cancelled, SessInv, SessType
<1> QED BY <1>1, <1>2, BetweenStep DEF Cancelled, SameLists

LEMMA ReceiveFailsKeeps ==
  ASSUME SessInv, NEW t \in Threads, ReceiveFails(t)
  PROVE  SessInv'
<1>1. "break" \in Between /\ thr[t].pc \in Between /\ thr[t].pc \notin FsPcs
  BY DEF Between, ReceiveFails, At, FsPcs
<1>2. mt' \in PoolType /\ mt'.list = mt.list
  <2>1. mt \in PoolType
    BY DEF SessInv, SessType
  <2>2. PICK e \in Int : mt' = mt \/ mt' = [mt EXCEPT !.error = e]
    BY DEF ReceiveFails
  <2> QED BY <2>1, <2>2 DEF PoolType
<1>3. se' \in SessionType /\ SameLists
  <2>1. PICK x \in BOOLEAN : se' = [se EXCEPT !.exited = x]
    BY DEF ReceiveFails
  <2>2. se \in SessionType
    BY DEF SessInv, SessType
  <2> QED BY <2>1, <2>2 DEF SessionType, SameLists
<1>4. Goto(t, "break")
  BY DEF ReceiveFails
<1> QED BY <1>1, <1>2, <1>3, <1>4, BetweenStep DEF ReceiveFails

(* do_init ends the session after its answer is sent.                      *)
LEMMA ExitKeeps ==
  ASSUME SessInv, NEW t \in Threads, do_init(t), At(t, "exit")
  PROVE  SessInv'
<1>1. "done" \in Between /\ thr[t].pc \in Between /\ "done" \in FsPcs /\ Goto(t, "done")
  BY DEF Between, At, FsPcs, do_init
<1>2. mt' = mt /\ mt \in PoolType
  BY DEF do_init, SessInv, SessType
<1>3. se' \in SessionType /\ SameLists
  <2>1. PICK e \in Int, x \in BOOLEAN : se' = [se EXCEPT !.error = e, !.exited = x]
    <3>1. se' = [se EXCEPT !.error = -71, !.exited = TRUE]
      BY DEF do_init, At
    <3>2. -71 \in Int /\ TRUE \in BOOLEAN
      OBVIOUS
    <3> QED BY <3>1, <3>2, Zenon
  <2>2. se \in SessionType
    BY DEF SessInv, SessType
  <2> QED BY <2>1, <2>2 DEF SessionType, SameLists
<1> QED BY <1>1, <1>2, <1>3, BetweenStep DEF do_init

LEMMA IdFacts ==
  ASSUME SessType
  PROVE  \A i \in Ids : i \in Nat \ {0} /\ req[i] \in Requests
BY DEF SessType, Ids

(* fuse_session_receive_buf_int: a thread has a message that no other      *)
(* thread has.                                                             *)
LEMMA ReceiveKeeps ==
  ASSUME SessInv, NEW t \in Threads, fuse_session_receive_buf(t)
  PROVE  SessInv'
<1>1. PICK i \in Queued :
        /\ req' = [req EXCEPT ![i].st = "read"]
        /\ thr' = [thr EXCEPT ![t].pc = IF se.exited THEN "break" ELSE IF t = Main THEN "work" ELSE "got",
                              ![t].u = i]
  BY DEF fuse_session_receive_buf
<1> DEFINE q == IF se.exited THEN "break" ELSE IF t = Main THEN "work" ELSE "got"
<1>2. SessType /\ RefInv /\ Pool /\ i \in Ids /\ req[i].st = "queued"
  BY DEF SessInv, Queued
<1>3. i \in Nat /\ req[i] \in Requests
  BY <1>2, IdFacts
<1>4. q \in {"break", "work", "got"} /\ (q = "got" => t # Main)
  OBVIOUS
<1>5. thr' = [thr EXCEPT ![t].pc = q, ![t].u = i]
  BY <1>1
<1> HIDE DEF q
<1>6. q \in Pcs /\ q \notin KeepPcs /\ q \notin LoopPcs \cup {"none"}
  BY <1>4 DEF Pcs, InHand, KeepPcs, OwnPcs, IntrPcs, LoopPcs
<1>7. thr' \in [Threads -> ThreadType] /\ Others(t) /\ thr'[t].pc = q /\ thr'[t].u = i
  <2>1. i \in Nat /\ q \in Pcs /\ thr \in [Threads -> ThreadType]
    BY <1>2, <1>3, <1>6 DEF SessType
  <2> QED BY <1>5, <2>1 DEF ThreadType, Others, Still
<1>8. thr[t].pc = "read" /\ thr[t].pc \notin Holding /\ thr[t].pc \notin LoopPcs \cup {"none"}
      /\ thr[t].pc \notin FsPcs \cup {"send"}
  BY DEF fuse_session_receive_buf, At, Holding, KeepPcs, OwnPcs, IntrPcs, FreshPcs, LoopPcs, FsPcs
<1>9. UNCHANGED <<conf, se, mt, chan, kern>>
  BY DEF fuse_session_receive_buf
<1>10. SameLists
  BY <1>9 DEF SameLists
<1>11. RefInv'
  BY <1>1, <1>2, <1>6, <1>7, <1>8, <1>9, <1>10, ReadKeeps
<1>12. Placed(t)
  BY <1>2, <1>4, <1>6, <1>7, <1>8, PlacedStep
<1> DEFINE r == [req[i] EXCEPT !.st = "read"]
<1>13. r \in Requests /\ SameName(req[i], r) /\ r.st = "read" /\ r.ch = req[i].ch
  BY <1>3 DEF Requests, SameName
<1>14. req' = [req EXCEPT ![i] = r]
  BY <1>1, <1>2, <1>3 DEF SessType, Ids, Requests
<1> HIDE DEF r
<1>15. Frame(req, req', {i}) /\ req'[i] = r
  BY <1>2, <1>13, <1>14, FrameOne
<1>16. SameChannels
  BY <1>2, <1>13, <1>15, FrameChannels
<1>17. SessType'
  BY <1>2, <1>7, <1>9, <1>15 DEF SessType, Frame
<1> QED BY <1>7, <1>9, <1>11, <1>12, <1>16, <1>17, PlainStep

-----------------------------------------------------------------------------
(* The kernel, signals, and the thread of the file system.                 *)

(* No thread moves, but the kernel may queue a message. *)
LEMMA StillStep ==
  ASSUME SessInv, SessType', conf' = conf, chan' = chan, mt'.list = mt.list,
         thr' = thr, Frame(req, req', {}), SameLists
  PROVE  SessInv'
<1>1. SessType /\ RefInv /\ Pool /\ Channels
  BY DEF SessInv
<1>2. \A s \in Threads : Still(s)
  BY DEF Still
<1>3. RefInv'
  BY <1>1, <1>2, QuietKeeps DEF Quiet
<1>4. Pool'
  BY <1>1 DEF Pool, Idle
<1>5. SameChannels
  BY <1>1, FrameChannels
<1>6. Channels'
  BY <1>1, <1>5, ChannelsSame DEF Idle
<1> QED BY <1>3, <1>4, <1>6 DEF SessInv

(* Messages of the kernel, its interrupts, the end of the connection, the  *)
(* signal.                                                                 *)
LEMMA KernelSendKeeps ==
  ASSUME SessInv, KernelSend
  PROVE  SessInv'
<1> DEFINE m == conf.script[kern.sent + 1]
<1>1. SessType
  BY DEF SessInv
<1>2. kern.sent \in Nat /\ kern.sent < Len(conf.script) /\ conf \in Configs
  BY <1>1 DEF SessType, KernelType, KernelSend
<1>3. conf.script \in Seq([op : fuse_opcode \ {"interrupt"}, uid : {Owner, Root, Other}, arg : Args])
  BY <1>2, ConfigsAssumption
<1>4. m \in [op : fuse_opcode \ {"interrupt"}, uid : {Owner, Root, Other}, arg : Args]
  <2>1. kern.sent + 1 \in 1 .. Len(conf.script)
    BY <1>2, <1>3
  <2>2. \A S : \A s \in Seq(S) : \A k \in 1 .. Len(s) : s[k] \in S
    OBVIOUS
  <2> QED BY <1>3, <2>1, <2>2, Zenon
<1>5. m.op \in fuse_opcode /\ m.uid \in {Owner, Root, Other} /\ m.arg \in Args
  BY <1>4
<1>6. req' = Append(req, Message(m.op, m.uid, m.arg, kern.sent + 1, 0))
  BY DEF KernelSend
<1> HIDE DEF m
<1> DEFINE r == Message(m.op, m.uid, m.arg, kern.sent + 1, 0)
<1>7. r \in Requests /\ Unread(r)
  <2>1. kern.sent + 1 \in Nat /\ 0 \in Nat
    BY <1>2
  <2> QED BY <1>5, <2>1, MessageType DEF Message, Unread
<1>8. Frame(req, req', {})
  BY <1>1, <1>6, <1>7, FrameMore
<1>9. kern' \in KernelType
  <2>1. kern \in KernelType /\ kern.sent + 1 \in Nat /\ kern' = [kern EXCEPT !.sent = kern.sent + 1]
    BY <1>1, <1>2 DEF SessType, KernelSend
  <2> QED BY <2>1 DEF KernelType
<1>10. UNCHANGED <<conf, se, mt, thr, chan>>
  BY DEF KernelSend
<1>11. SessType'
  BY <1>1, <1>8, <1>9, <1>10 DEF SessType, Frame
<1> QED BY <1>8, <1>10, <1>11, StillStep DEF SameLists

LEMMA KernelInterruptKeeps ==
  ASSUME SessInv, KernelInterrupt
  PROVE  SessInv'
<1>1. SessType
  BY DEF SessInv
<1>2. PICK i \in Ids : req' = Append(req, Interrupt(req[i].uq))
  BY DEF KernelInterrupt
<1>3. req[i].uq \in Nat
  BY <1>1, IdFacts, Fields
<1>4. Interrupt(req[i].uq) \in Requests /\ Unread(Interrupt(req[i].uq))
  BY <1>3, InterruptType, InterruptUnread
<1>5. Frame(req, req', {})
  BY <1>1, <1>2, <1>4, FrameMore
<1>6. kern' \in KernelType
  <2>1. kern \in KernelType /\ kern' = [kern EXCEPT !.intrs = kern.intrs + 1]
    BY <1>1 DEF SessType, KernelInterrupt
  <2> QED BY <2>1 DEF KernelType
<1>7. UNCHANGED <<conf, se, mt, thr, chan>>
  BY DEF KernelInterrupt
<1>8. SessType'
  BY <1>1, <1>5, <1>6, <1>7 DEF SessType, Frame
<1> QED BY <1>5, <1>7, <1>8, StillStep DEF SameLists

LEMMA KernelAbortKeeps ==
  ASSUME SessInv, KernelAbort
  PROVE  SessInv'
<1>1. SessType
  BY DEF SessInv
<1>2. kern' \in KernelType
  BY <1>1 DEF SessType, KernelType, KernelAbort
<1>3. UNCHANGED <<conf, req, se, mt, thr, chan>>
  BY DEF KernelAbort
<1>4. SessType' /\ Frame(req, req', {})
  BY <1>1, <1>2, <1>3, FrameSame DEF SessType
<1> QED BY <1>3, <1>4, StillStep DEF SameLists

LEMMA ExitHandlerKeeps ==
  ASSUME SessInv, exit_handler
  PROVE  SessInv'
<1>1. SessType /\ Pool /\ Main \in Threads /\ Main \notin Workers /\ Main # Fs
  BY ThreadFacts DEF SessInv
<1>2. se' \in SessionType /\ SameLists
  <2>1. PICK x \in BOOLEAN, e \in Int : se' = [se EXCEPT !.exited = x, !.error = e]
    <3>1. se' = [se EXCEPT !.exited = TRUE, !.error = 15]
      BY DEF exit_handler
    <3>2. 15 \in Int /\ TRUE \in BOOLEAN
      OBVIOUS
    <3> QED BY <3>1, <3>2, Zenon
  <2>2. se \in SessionType
    BY <1>1 DEF SessType
  <2> QED BY <2>1, <2>2 DEF SessionType, SameLists
<1>3. kern' \in KernelType
  <2>1. PICK x \in BOOLEAN : kern' = [kern EXCEPT !.signalled = x]
    BY DEF exit_handler
  <2>2. kern \in KernelType
    BY <1>1 DEF SessType
  <2> QED BY <2>1, <2>2 DEF KernelType
<1>4. UNCHANGED <<conf, req, mt, chan>>
  BY DEF exit_handler
<1>5. Frame(req, req', {})
  BY <1>1, <1>4, FrameSame
<1>6. CASE thr' = thr
  <2>1. SessType'
    BY <1>1, <1>2, <1>3, <1>4, <1>6 DEF SessType
  <2> QED BY <1>2, <1>4, <1>5, <1>6, <2>1, StillStep
<1>7. ASSUME NEW q \in Pcs, Goto(Main, q), thr[Main].pc \notin KeepPcs, q \notin Holding, q # "got",
             q \in LoopPcs \/ mt.list = << >>
      PROVE  SessInv'
  <2>1. thr' \in [Threads -> ThreadType] /\ Moved(Main, q)
    BY <1>1, <1>7, Went
  <2>2. Placed(Main)
    BY <1>1, <1>7, <2>1 DEF Placed, Moved
  <2>3. SessType'
    BY <1>1, <1>2, <1>3, <1>4, <2>1 DEF SessType
  <2> QED BY <1>1, <1>2, <1>4, <1>5, <1>7, <2>2, <2>3, QuietGoto
<1>8. CASE At(Main, "wait") /\ Goto(Main, "loop")
  <2>1. "loop" \in Pcs /\ "loop" \notin Holding /\ "loop" \in LoopPcs /\ thr[Main].pc \notin KeepPcs
    BY <1>8 DEF At, Pcs, Holding, KeepPcs, OwnPcs, IntrPcs, FreshPcs, LoopPcs
  <2> QED BY <1>7, <1>8, <2>1
<1>9. CASE At(Main, "read") /\ Goto(Main, "check")
  <2>1. "check" \in Pcs /\ "check" \notin Holding /\ thr[Main].pc \notin KeepPcs
    BY <1>9 DEF At, Pcs, Holding, KeepPcs, OwnPcs, IntrPcs, FreshPcs
  <2>2. mt.list = << >>
    BY <1>1, <1>9 DEF Pool, At
  <2> QED BY <1>7, <1>9, <2>1, <2>2
<1> QED BY <1>6, <1>8, <1>9 DEF exit_handler

(* fuse_lowlevel_notify_retrieve: a number is entered, the message queued  *)
(* or given up.                                                            *)
LEMMA RetrieveKeeps ==
  ASSUME SessInv, fuse_lowlevel_notify_retrieve
  PROVE  SessInv'
<1>1. SessType /\ Fs \in Threads /\ Fs \notin Workers /\ Main # Fs /\ se \in SessionType
      /\ thr \in [Threads -> ThreadType]
  BY ThreadFacts DEF SessInv, SessType
<1>2. thr[Fs].pc \in {"none", "send"} /\ thr[Fs].pc \notin KeepPcs
  BY DEF fuse_lowlevel_notify_retrieve, Idle, At, KeepPcs, OwnPcs, IntrPcs
<1>3. {"none", "send"} \subseteq Pcs \cap FsPcs /\ {"none", "send"} \cap Holding = {}
  BY DEF Pcs, FsPcs, Holding, KeepPcs, OwnPcs, IntrPcs, FreshPcs
<1>4. UNCHANGED <<conf, mt, chan, kern>>
  BY DEF fuse_lowlevel_notify_retrieve
<1>5. se.notify_ctr \in Nat /\ thr[Fs].cur \in Nat
  BY <1>1 DEF SessionType, ThreadType
<1>6. SameLists /\ se' \in SessionType
  <2>1. CASE se' = [se EXCEPT !.notify = @ \cup {se.notify_ctr}, !.notify_ctr = @ + 1]
    <3>1. PICK S \in SUBSET Nat, n \in Nat : se' = [se EXCEPT !.notify = S, !.notify_ctr = n]
      <4>1. se.notify \cup {se.notify_ctr} \in SUBSET Nat /\ se.notify_ctr + 1 \in Nat
        BY <1>1, <1>5 DEF SessionType
      <4>2. se' = [se EXCEPT !.notify = se.notify \cup {se.notify_ctr}, !.notify_ctr = se.notify_ctr + 1]
        BY <1>1, <2>1 DEF SessionType
      <4> QED BY <4>1, <4>2, Zenon
    <3> QED BY <1>1, <3>1 DEF SessionType, SameLists
  <2>2. CASE se' = [se EXCEPT !.notify = @ \ {thr[Fs].cur}]
    BY <1>1, <2>2 DEF SessionType, SameLists
  <2>3. CASE se' = se
    BY <1>1, <2>3 DEF SameLists
  <2> QED BY <2>1, <2>2, <2>3 DEF fuse_lowlevel_notify_retrieve
<1>7. Frame(req, req', {})
  <2>1. CASE req' = req
    BY <1>1, <2>1, FrameSame
  <2>2. CASE req' = Append(req, Message("notify_reply", Owner, "", thr[Fs].cur, 0))
    <3>1. "notify_reply" \in fuse_opcode /\ "" \in Args
      BY DEF fuse_opcode, fuse_ll_ops, Args
    <3>2. Message("notify_reply", Owner, "", thr[Fs].cur, 0) \in Requests
      BY <1>5, <3>1, MessageType
    <3>3. Unread(Message("notify_reply", Owner, "", thr[Fs].cur, 0))
      BY DEF Message, Unread
    <3> QED BY <1>1, <2>2, <3>2, <3>3, FrameMore
  <2> QED BY <2>1, <2>2 DEF fuse_lowlevel_notify_retrieve
<1>8. PICK q \in {"none", "send"} :
        /\ thr' \in [Threads -> ThreadType] /\ Others(Fs) /\ thr'[Fs].pc = q
  <2>1. CASE thr' = [thr EXCEPT ![Fs].pc = "send", ![Fs].cur = se.notify_ctr]
    <3>1. "send" \in Pcs
      BY <1>3
    <3>2. thr' \in [Threads -> ThreadType] /\ Others(Fs) /\ thr'[Fs].pc = "send"
      BY <1>1, <1>5, <2>1, <3>1 DEF ThreadType, Others, Still
    <3> QED BY <3>2
  <2>2. CASE Goto(Fs, "none")
    <3>1. thr' \in [Threads -> ThreadType] /\ Moved(Fs, "none")
      BY <1>1, <1>3, <2>2, Went
    <3> QED BY <3>1 DEF Moved, Others
  <2> QED BY <2>1, <2>2 DEF fuse_lowlevel_notify_retrieve
<1>9. Placed(Fs)
  BY <1>1, <1>3, <1>8 DEF Placed
<1>10. SessType'
  BY <1>1, <1>4, <1>6, <1>7, <1>8 DEF SessType, Frame
<1> QED BY <1>1, <1>2, <1>3, <1>4, <1>6, <1>7, <1>8, <1>9, <1>10, QuietStep

(* A thread of the file system takes up a request it kept, to answer it.   *)
LEMMA FsReplyKeeps ==
  ASSUME SessInv, FsReply
  PROVE  SessInv'
<1>1. SessType /\ Fs \in Threads /\ Fs \notin Workers /\ Main # Fs /\ se \in SessionType
      /\ thr \in [Threads -> ThreadType] /\ RefInv
  BY ThreadFacts DEF SessInv, SessType
<1>2. PICK i \in se.held : /\ thr' = [thr EXCEPT ![Fs].pc = "reply", ![Fs].u = i]
                           /\ se' = [se EXCEPT !.held = @ \ {i}]
  BY DEF FsReply
<1>3. i \in Nat /\ "reply" \in Pcs /\ "reply" \in FsPcs
  BY <1>1 DEF SessionType, Pcs, InHand, FsPcs
<1>4. thr' \in [Threads -> ThreadType] /\ Others(Fs) /\ thr'[Fs].pc = "reply" /\ thr'[Fs].u = i
  BY <1>1, <1>2, <1>3 DEF ThreadType, Others, Still
<1>5. /\ se' \in SessionType /\ se'.list = se.list /\ se'.interrupts = se.interrupts
      /\ se'.held = se.held \ {i}
  BY <1>1, <1>2 DEF SessionType
<1>6. UNCHANGED <<conf, req, mt, chan, kern>> /\ thr[Fs].pc = "none"
  BY DEF FsReply, Idle
<1>7. RefInv'
  BY <1>1, <1>4, <1>5, <1>6, HeldKeeps
<1>8. Placed(Fs)
  BY <1>1, <1>3, <1>4 DEF Placed
<1>9. SessType' /\ SameChannels
  BY <1>1, <1>4, <1>5, <1>6 DEF SessType, SameChannels, Ids
<1> QED BY <1>1, <1>4, <1>6, <1>7, <1>8, <1>9, PlainStep

-----------------------------------------------------------------------------
(* The steps of a thread that works on a request.                          *)
LEMMA RequestPlaced ==
  ASSUME Pool, NEW t \in Threads,
         thr[t].pc \in KeepPcs \cup {"work"}, thr'[t].pc \in KeepPcs \cup {"done", "exit"},
         thr[t].pc \in {"reply", "free"} => thr'[t].pc \in {"reply", "free", "done", "exit"}
  PROVE  Placed(t)
<1>1. thr[t].pc \notin LoopPcs \cup {"none"} /\ thr'[t].pc \notin LoopPcs \cup {"none"}
      /\ thr'[t].pc # "got"
  BY DEF KeepPcs, OwnPcs, IntrPcs, LoopPcs
<1>2. thr[t].pc \in FsPcs \cup {"send"} => thr[t].pc \in {"reply", "free"}
  BY DEF KeepPcs, OwnPcs, IntrPcs, FsPcs
<1>3. {"reply", "free", "done", "exit"} \subseteq FsPcs
  BY DEF FsPcs
<1> QED BY <1>1, <1>2, <1>3, PlacedStep

LEMMA KeepPcsFacts ==
  /\ KeepPcs \subseteq Pcs /\ "done" \in Pcs /\ "exit" \in Pcs /\ "work" \in Pcs
  /\ "done" \notin KeepPcs
BY DEF KeepPcs, OwnPcs, IntrPcs, Pcs, InHand

(* One request in hand or interrupted changes, its channel does not.       *)
LEMMA OneStep ==
  ASSUME SessInv, RefInv', conf' = conf, chan' = chan, mt' = mt, se' \in SessionType, kern' = kern,
         NEW t \in Threads, thr' \in [Threads -> ThreadType], Others(t),
         thr[t].pc \in KeepPcs \cup {"work"}, thr'[t].pc \in KeepPcs \cup {"done", "exit"},
         thr[t].pc \in {"reply", "free"} => thr'[t].pc \in {"reply", "free", "done", "exit"},
         req' \in Seq(Requests), SameChannels
  PROVE  SessInv'
<1>1. Placed(t)
  BY RequestPlaced DEF SessInv
<1>2. SessType'
  BY DEF SessInv, SessType
<1> QED BY <1>1, <1>2, PlainStep

(* find_interrupted: the lock of the request is taken and its function     *)
(* read.                                                                   *)
LEMMA FindKeeps ==
  ASSUME SessInv, NEW t \in Threads, find_interrupted(t), thr[t].pc = "intr"
  PROVE  SessInv'
<1> DEFINE j == thr[t].cur
           q == IF req[j].func = None THEN "unref" ELSE "kill"
           l == IF req[j].func = None THEN None ELSE t
<1>1. /\ req[j].lock = None
      /\ req' = [req EXCEPT ![j].interrupted = TRUE, ![j].lock = l]
      /\ thr' = [thr EXCEPT ![t].pc = q, ![t].d = req[j].func]
      /\ UNCHANGED <<conf, se, mt, chan, kern>>
  BY DEF find_interrupted, At
<1>2. SessType /\ RefInv /\ thr \in [Threads -> ThreadType] /\ req \in Seq(Requests)
      /\ se \in SessionType
  BY DEF SessInv, SessType
<1>3. j \in Ids /\ req[j] \in Requests /\ req[j].st = "live"
  BY <1>2, HandFacts DEF IntrPcs
<1>4. q \in Pcs /\ q \in KeepPcs /\ thr[t].pc \in KeepPcs
  BY DEF Pcs, InHand, KeepPcs, IntrPcs
<1>5. l \in Threads \cup {None} /\ req[j].func \in Threads \cup {None}
  BY <1>3, Fields
<1>6. \/ req[j].func = None /\ q = "unref" /\ l = None
      \/ req[j].func # None /\ q = "kill" /\ l = t
  OBVIOUS
<1> HIDE DEF q, l, j
<1>7. /\ thr' \in [Threads -> ThreadType] /\ Others(t) /\ thr'[t].pc = q
      /\ thr'[t].u = thr[t].u /\ thr'[t].cur = thr[t].cur /\ thr'[t].d = req[j].func
  BY <1>1, <1>2, <1>4, <1>5 DEF ThreadType, Others, Still
<1> DEFINE r == [req[j] EXCEPT !.interrupted = TRUE, !.lock = l]
<1>8. /\ r \in Requests /\ SameName(req[j], r) /\ r.st = req[j].st /\ r.ctr = req[j].ctr
      /\ r.func = req[j].func /\ r.lock = l /\ r.ch = req[j].ch
  BY <1>3, <1>5 DEF Requests, SameName
<1>9. req' = [req EXCEPT ![j] = r]
  BY <1>1, <1>2, <1>3 DEF Ids, Requests
<1> HIDE DEF r
<1>10. Frame(req, req', {j}) /\ req'[j] = r /\ Ids' = Ids
  BY <1>2, <1>3, <1>8, <1>9, FrameOne
<1>11. SameLists
  BY <1>1 DEF SameLists
<1>12. RefInv'
  BY <1>1, <1>2, <1>6, <1>7, <1>8, <1>10, <1>11, LockTaken DEF j
<1>13. SameChannels /\ req' \in Seq(Requests)
  BY <1>2, <1>8, <1>10, FrameChannels DEF Frame
<1> QED BY <1>1, <1>2, <1>4, <1>7, <1>12, <1>13, OneStep

(* A reference dropped. *)
LEMMA Dropped ==
  ASSUME NEW r \in Requests
  PROVE  /\ drop_ref(r) \in Requests /\ SameName(r, drop_ref(r))
         /\ drop_ref(r).ctr = r.ctr - 1 /\ drop_ref(r).func = r.func /\ drop_ref(r).lock = r.lock
         /\ drop_ref(r).ch = r.ch /\ drop_ref(r).st = (IF r.ctr = 1 THEN "freed" ELSE r.st)
<1>1. PICK n \in Int, s \in {"queued", "read", "live", "freed"} :
        n = r.ctr - 1 /\ s = (IF r.ctr = 1 THEN "freed" ELSE r.st)
  BY Fields
<1>2. drop_ref(r) = [r EXCEPT !.ctr = n, !.st = s]
  BY <1>1 DEF drop_ref, Requests
<1>3. [r EXCEPT !.ctr = n, !.st = s] \in Requests
  BY DEF Requests
<1> QED BY <1>1, <1>2, <1>3 DEF Requests, SameName

(* find_interrupted: the references to both requests are dropped.          *)
LEMMA UnrefStep ==
  ASSUME SessInv, NEW t \in Threads, find_interrupted(t), thr[t].pc = "unref"
  PROVE  SessInv'
<1> DEFINE j == thr[t].cur
           i == thr[t].u
<1>1. /\ req' = [req EXCEPT ![j] = drop_ref(@), ![i] = drop_ref(@)]
      /\ Goto(t, "done")
      /\ UNCHANGED <<conf, se, mt, chan, kern>>
  BY DEF find_interrupted, At
<1>2. SessType /\ RefInv /\ req \in Seq(Requests) /\ se \in SessionType
  BY DEF SessInv, SessType
<1>3. /\ i \in Ids /\ j \in Ids /\ i # j /\ req[j] \in Requests /\ req[i] \in Requests
      /\ req[i].st = "live" /\ req[j].st = "live"
  BY <1>2, HandFacts DEF IntrPcs, KeepPcs
<1>4. "done" \in Pcs /\ thr[t].pc \in KeepPcs
  BY DEF Pcs, InHand, KeepPcs, IntrPcs
<1>5. thr' \in [Threads -> ThreadType] /\ Moved(t, "done")
  BY <1>1, <1>2, <1>4, Went
<1> DEFINE a == drop_ref(req[i])
           b == drop_ref(req[j])
<1>7. req' = [req EXCEPT ![j] = b, ![i] = a]
  BY <1>1, <1>2, <1>3 DEF Ids
<1>8. /\ a \in Requests /\ SameName(req[i], a) /\ a.func = req[i].func /\ a.lock = req[i].lock
      /\ a.ch = req[i].ch /\ a.st = (IF req[i].ctr = 1 THEN "freed" ELSE req[i].st)
  BY <1>3, Dropped
<1>9. /\ b \in Requests /\ SameName(req[j], b) /\ b.func = req[j].func /\ b.lock = req[j].lock
      /\ b.ch = req[j].ch /\ b.st = (IF req[j].ctr = 1 THEN "freed" ELSE req[j].st)
      /\ b.ctr = req[j].ctr - 1
  BY <1>3, Dropped
<1> HIDE DEF a, b
<1>10. /\ req' \in Seq(Requests) /\ Ids' = Ids /\ req'[i] = a /\ req'[j] = b
       /\ \A k \in Ids : k # i /\ k # j => req'[k] = req[k]
  BY <1>2, <1>3, <1>7, <1>8, <1>9 DEF Ids
<1>11. Frame(req, req', {i, j})
  BY <1>3, <1>8, <1>9, <1>10 DEF Frame, Ids, SameName, SameReq
<1>12. SameLists /\ Others(t) /\ thr'[t].pc = "done"
  BY <1>1, <1>5 DEF SameLists, Moved, Others
<1>13. RefInv'
  BY <1>1, <1>2, <1>8, <1>9, <1>10, <1>11, <1>12, UnrefKeeps
<1>14. SameChannels
  BY <1>2, <1>3, <1>8, <1>9, <1>10, <1>11, FrameChannels
<1> QED BY <1>1, <1>2, <1>4, <1>5, <1>10, <1>12, <1>13, <1>14, OneStep

(* fuse_interrupt: the function ends under the lock of the request, or     *)
(* signals and waits.                                                      *)
LEMMA FuseInterruptKeeps ==
  ASSUME SessInv, NEW t \in Threads, fuse_interrupt(t)
  PROVE  SessInv'
<1> DEFINE j == thr[t].cur
<1>1. SessType /\ RefInv /\ thr \in [Threads -> ThreadType] /\ req \in Seq(Requests)
      /\ se \in SessionType
  BY DEF SessInv, SessType
<1>2. thr[t].pc \in {"kill", "killed"} /\ thr[t].pc \in KeepPcs /\ UNCHANGED <<conf, se, mt, chan, kern>>
  BY DEF fuse_interrupt, At, KeepPcs, IntrPcs
<1>3. SameLists
  BY <1>2 DEF SameLists
<1>4. j \in Ids /\ req[j] \in Requests /\ req[j].st = "live"
  BY <1>1, <1>2, HandFacts DEF IntrPcs
<1>5. thr[t].d \in Threads
  BY <1>1, <1>2 DEF ThreadType, RefInv, Functs, LockOk
<1>6. {"killed", "unref"} \subseteq Pcs /\ {"killed", "unref"} \subseteq KeepPcs
  BY DEF Pcs, InHand, KeepPcs, IntrPcs
<1>7. CASE /\ At(t, "kill") /\ UNCHANGED req
           /\ thr' = [thr EXCEPT ![t].pc = "killed", ![thr[t].d].sig = TRUE]
  <2>1. \A s \in Threads : thr[s] \in ThreadType
    BY <1>1
  <2>2. /\ thr' \in [Threads -> ThreadType] /\ Others(t) /\ thr'[t].pc = "killed"
        /\ thr'[t].u = thr[t].u /\ thr'[t].cur = thr[t].cur /\ thr'[t].d = thr[t].d
    <3> DEFINE h == [thr EXCEPT ![t] = [thr[t] EXCEPT !.pc = "killed"]]
    <3>1. [thr[t] EXCEPT !.pc = "killed"] \in ThreadType
      BY <1>6, <2>1 DEF ThreadType
    <3>2. /\ h \in [Threads -> ThreadType] /\ h[t] = [thr[t] EXCEPT !.pc = "killed"]
          /\ \A s \in Threads : s # t => h[s] = thr[s]
      BY <1>1, <3>1
    <3>3. h[t].pc = "killed" /\ h[t].u = thr[t].u /\ h[t].cur = thr[t].cur /\ h[t].d = thr[t].d
      BY <2>1, <3>2 DEF ThreadType
    <3>4. thr' = [h EXCEPT ![thr[t].d] = [h[thr[t].d] EXCEPT !.sig = TRUE]]
      BY <1>1, <1>7
    <3> HIDE DEF h
    <3>5. PICK d \in Threads, b \in BOOLEAN : d = thr[t].d /\ thr' = [h EXCEPT ![d] = [h[d] EXCEPT !.sig = b]]
      BY <1>5, <3>4
    <3>6. /\ [h[d] EXCEPT !.sig = b] \in ThreadType
          /\ [h[d] EXCEPT !.sig = b].pc = h[d].pc /\ [h[d] EXCEPT !.sig = b].u = h[d].u
          /\ [h[d] EXCEPT !.sig = b].cur = h[d].cur /\ [h[d] EXCEPT !.sig = b].d = h[d].d
      BY <3>2 DEF ThreadType
    <3>7. thr' \in [Threads -> ThreadType]
      BY <3>2, <3>5, <3>6
    <3>8. \A s \in Threads : /\ thr'[s].pc = h[s].pc /\ thr'[s].u = h[s].u
                             /\ thr'[s].cur = h[s].cur /\ thr'[s].d = h[s].d
      BY <3>2, <3>5, <3>6
    <3> QED BY <3>2, <3>3, <3>7, <3>8 DEF Others, Still
  <2>3. RefInv'
    BY <1>1, <1>2, <1>3, <1>7, <2>2, WaitsKeeps DEF At
  <2>4. SameChannels
    BY <1>7 DEF SameChannels, Ids
  <2> QED BY <1>1, <1>2, <1>6, <1>7, <2>2, <2>3, <2>4, OneStep
<1>8. CASE Goto(t, "unref") /\ req' = [req EXCEPT ![j].lock = None]
  <2>1. thr' \in [Threads -> ThreadType] /\ Moved(t, "unref")
    BY <1>1, <1>6, <1>8, Went
  <2> DEFINE r == [req[j] EXCEPT !.lock = None]
  <2>2. /\ r \in Requests /\ SameName(req[j], r) /\ r.st = req[j].st /\ r.ctr = req[j].ctr
        /\ r.func = req[j].func /\ r.ch = req[j].ch
    BY <1>4 DEF Requests, SameName
  <2>3. req' = [req EXCEPT ![j] = r]
    BY <1>1, <1>4, <1>8 DEF Ids, Requests
  <2> HIDE DEF r
  <2>4. Frame(req, req', {j}) /\ req'[j] = r /\ Ids' = Ids
    BY <1>1, <1>4, <2>2, <2>3, FrameOne
  <2>5. Others(t) /\ thr'[t].u = thr[t].u /\ thr'[t].cur = thr[t].cur /\ thr'[t].pc = "unref"
    BY <2>1 DEF Moved, Others
  <2>6. RefInv'
    BY <1>1, <1>2, <1>3, <2>2, <2>4, <2>5, LockGiven
  <2>7. SameChannels /\ req' \in Seq(Requests)
    BY <1>1, <2>2, <2>4, FrameChannels DEF Frame
  <2> QED BY <1>1, <1>2, <1>6, <2>1, <2>5, <2>6, <2>7, OneStep
<1> QED BY <1>7, <1>8 DEF fuse_interrupt

(* fuse_prepare_interrupt: the function is stored in the request.          *)
LEMMA PrepareKeeps ==
  ASSUME SessInv, NEW t \in Threads, fuse_prepare_interrupt(t)
  PROVE  SessInv'
<1> DEFINE i == thr[t].u
<1>1. SessType /\ RefInv /\ thr \in [Threads -> ThreadType] /\ req \in Seq(Requests)
      /\ se \in SessionType
  BY DEF SessInv, SessType
<1>2. /\ thr[t].pc = "prep" /\ thr[t].pc \in KeepPcs /\ req[i].lock = None
      /\ UNCHANGED <<conf, se, mt, chan, kern>>
      /\ req' = [req EXCEPT ![i].func = t]
      /\ thr' = [thr EXCEPT ![t].pc = "run", ![t].fin = FALSE, ![t].sig = FALSE]
  BY DEF fuse_prepare_interrupt, At, KeepPcs, OwnPcs
<1>3. SameLists
  BY <1>2 DEF SameLists
<1>4. i \in Ids /\ req[i] \in Requests
  BY <1>1, <1>2, HandFacts
<1>5. "run" \in Pcs /\ "run" \in KeepPcs
  BY DEF Pcs, InHand, KeepPcs, OwnPcs
<1>6. /\ thr' \in [Threads -> ThreadType] /\ Others(t) /\ thr'[t].pc = "run"
      /\ thr'[t].u = thr[t].u /\ thr'[t].cur = thr[t].cur
  <2>1. PICK q \in Pcs, a, b \in BOOLEAN : q = "run" /\ thr' = [thr EXCEPT ![t].pc = q, ![t].fin = a, ![t].sig = b]
    <3>1. "run" \in Pcs /\ FALSE \in BOOLEAN
      BY <1>5
    <3> QED BY <1>2, <3>1, Zenon
  <2> DEFINE h == [thr[t] EXCEPT !.pc = q, !.fin = a, !.sig = b]
  <2>2. thr[t] \in ThreadType
    BY <1>1
  <2>3. h \in ThreadType /\ h.pc = q /\ h.u = thr[t].u /\ h.cur = thr[t].cur
    BY <2>2 DEF ThreadType
  <2>4. thr' = [thr EXCEPT ![t] = h]
    BY <1>1, <2>1, <2>2 DEF ThreadType
  <2> HIDE DEF h
  <2> QED BY <1>1, <2>1, <2>3, <2>4 DEF Others, Still
<1> DEFINE r == [req[i] EXCEPT !.func = t]
<1>7. /\ r \in Requests /\ SameName(req[i], r) /\ r.st = req[i].st /\ r.ctr = req[i].ctr
      /\ r.func = t /\ r.ch = req[i].ch
  BY <1>4 DEF Requests, SameName
<1>8. req' = [req EXCEPT ![i] = r]
  BY <1>1, <1>2, <1>4 DEF Ids, Requests
<1> HIDE DEF r
<1>9. Frame(req, req', {i}) /\ req'[i] = r /\ Ids' = Ids
  BY <1>1, <1>4, <1>7, <1>8, FrameOne
<1>10. RefInv'
  BY <1>1, <1>2, <1>3, <1>6, <1>7, <1>9, FuncSet
<1>11. SameChannels /\ req' \in Seq(Requests)
  <2>1. req' \in Seq(Requests)
    BY <1>9 DEF Frame
  <2>2. SameChannels
    BY <1>1, <1>7, <1>9, FrameChannels
  <2> QED BY <2>1, <2>2
<1>12. /\ UNCHANGED <<conf, se, mt, chan, kern>> /\ se' \in SessionType
       /\ thr[t].pc \in KeepPcs /\ thr[t].pc \notin {"reply", "free"}
  BY <1>1, <1>2
<1> QED BY <1>5, <1>6, <1>10, <1>11, <1>12, OneStep

(* fuse_finish_interrupt: finished, then withdrawn when nobody has the     *)
(* lock.                                                                   *)
LEMMA FinishKeeps ==
  ASSUME SessInv, NEW t \in Threads, fuse_finish_interrupt(t)
  PROVE  SessInv'
<1> DEFINE i == thr[t].u
<1>1. SessType /\ RefInv /\ thr \in [Threads -> ThreadType] /\ req \in Seq(Requests)
      /\ se \in SessionType
  BY DEF SessInv, SessType
<1>2. /\ thr[t].pc \in {"finish", "withdraw"} /\ thr[t].pc \in KeepPcs
      /\ UNCHANGED <<conf, se, mt, chan, kern>>
  BY DEF fuse_finish_interrupt, At, KeepPcs, OwnPcs
<1>3. SameLists /\ se' \in SessionType
  BY <1>1, <1>2 DEF SameLists
<1>4. i \in Ids /\ req[i] \in Requests
  BY <1>1, <1>2, HandFacts
<1>5. {"withdraw", "reply"} \subseteq Pcs /\ {"withdraw", "reply"} \subseteq KeepPcs
  BY DEF Pcs, InHand, KeepPcs, OwnPcs
<1>6. CASE /\ thr[t].pc = "finish" /\ UNCHANGED req
           /\ thr' = [thr EXCEPT ![t].pc = "withdraw", ![t].fin = TRUE]
  <2>1. PICK q \in Pcs, a \in BOOLEAN : q = "withdraw" /\ thr' = [thr EXCEPT ![t].pc = q, ![t].fin = a]
    <3>1. "withdraw" \in Pcs /\ TRUE \in BOOLEAN
      BY <1>5
    <3> QED BY <1>6, <3>1, Zenon
  <2>2. /\ thr' \in [Threads -> ThreadType] /\ Moved(t, q)
    <3> DEFINE h == [thr[t] EXCEPT !.pc = q, !.fin = a]
    <3>1. thr[t] \in ThreadType
      BY <1>1
    <3>2. /\ h \in ThreadType /\ h.pc = q /\ h.u = thr[t].u /\ h.cur = thr[t].cur
          /\ h.d = thr[t].d
      BY <3>1 DEF ThreadType
    <3>3. thr' = [thr EXCEPT ![t] = h]
      BY <1>1, <2>1, <3>1 DEF ThreadType
    <3> HIDE DEF h
    <3> QED BY <1>1, <2>1, <3>2, <3>3 DEF Moved, Still
  <2>3. GoesOn(t, q)
    BY <1>6, <2>1, <2>2 DEF GoesOn, OwnPcs
  <2>4. Frame(req, req', {})
    BY <1>1, <1>6, FrameSame
  <2>5. RefInv'
    BY <1>1, <1>2, <1>3, <2>3, <2>4, GoesOnKeeps
  <2>6. SameChannels /\ req' \in Seq(Requests) /\ Others(t) /\ thr'[t].pc = "withdraw"
    BY <1>1, <1>6, <2>1, <2>2 DEF SameChannels, Ids, Moved, Others
  <2>7. thr[t].pc \notin {"reply", "free"}
    BY <1>6
  <2> QED BY <1>2, <1>3, <1>5, <2>2, <2>5, <2>6, <2>7, OneStep
<1>7. CASE /\ thr[t].pc = "withdraw" /\ req[i].lock = None
           /\ req' = [req EXCEPT ![i].func = None] /\ Goto(t, "reply")
  <2>1. thr' \in [Threads -> ThreadType] /\ Moved(t, "reply")
    BY <1>1, <1>5, <1>7, Went
  <2> DEFINE r == [req[i] EXCEPT !.func = None]
  <2>2. /\ r \in Requests /\ SameName(req[i], r) /\ r.st = req[i].st /\ r.ctr = req[i].ctr
        /\ r.func = None /\ r.ch = req[i].ch
    BY <1>4 DEF Requests, SameName
  <2>3. req' = [req EXCEPT ![i] = r]
    BY <1>1, <1>4, <1>7 DEF Ids, Requests
  <2> HIDE DEF r
  <2>4. Frame(req, req', {i}) /\ req'[i] = r /\ Ids' = Ids
    BY <1>1, <1>4, <2>2, <2>3, FrameOne
  <2>5. /\ Others(t) /\ thr'[t].u = thr[t].u /\ thr'[t].cur = thr[t].cur /\ thr'[t].pc = "reply"
    BY <2>1 DEF Moved, Others
  <2>6. RefInv'
    BY <1>1, <1>2, <1>3, <1>7, <2>2, <2>4, <2>5, FuncSet
  <2>7. SameChannels /\ req' \in Seq(Requests)
    BY <1>1, <2>2, <2>4, FrameChannels DEF Frame
  <2>8. thr[t].pc \notin {"reply", "free"}
    BY <1>7
  <2> QED BY <1>2, <1>3, <1>5, <2>1, <2>5, <2>6, <2>7, <2>8, OneStep
<1> QED BY <1>6, <1>7 DEF fuse_finish_interrupt, At

(* A step to another place with the same request, which it owns.           *)
LEMMA GoesOnStep ==
  ASSUME SessInv, NEW t \in Threads, NEW q \in (OwnPcs \ {"prep"}) \cup {"done"}, Goto(t, q),
         thr[t].pc \in OwnPcs \ {"prep"}, q = "done" => thr[t].u \in se.list,
         q \notin {"reply", "free", "done"} => thr[t].pc \notin {"reply", "free"},
         req[thr[t].u].func # None => q \in {"run", "finish", "withdraw"},
         Frame(req, req', {}), SameLists, se' \in SessionType,
         conf' = conf, mt' = mt, chan' = chan, kern' = kern
  PROVE  SessInv'
<1>1. SessType /\ RefInv
  BY DEF SessInv
<1>2. q \in Pcs /\ q \in KeepPcs \cup {"done"}
  BY DEF OwnPcs, KeepPcs, Pcs, InHand
<1>3. thr' \in [Threads -> ThreadType] /\ Moved(t, q)
  BY <1>1, <1>2, Went
<1>4. GoesOn(t, q) /\ Others(t) /\ thr'[t].pc = q
  BY <1>3 DEF GoesOn, Moved, Others
<1>5. RefInv'
  BY <1>1, <1>4, GoesOnKeeps
<1>6. req' \in Seq(Requests)
  BY DEF Frame
<1>7. SameChannels
  BY <1>1, FrameChannels
<1>8. thr[t].pc \in KeepPcs
  BY DEF KeepPcs
<1>9. thr[t].pc \in {"reply", "free"} => thr'[t].pc \in {"reply", "free", "done", "exit"}
  BY <1>4
<1> QED BY <1>2, <1>3, <1>4, <1>5, <1>6, <1>7, <1>8, <1>9, OneStep

(* The operation of the file system returns, or keeps the request for      *)
(* later.                                                                  *)
LEMMA FsCallKeeps ==
  ASSUME SessInv, NEW t \in Threads, FsCall(t)
  PROVE  SessInv'
<1> DEFINE i == thr[t].u
           op == req[i].op
<1>1. SessType /\ RefInv /\ se \in SessionType /\ thr \in [Threads -> ThreadType]
  BY DEF SessInv, SessType
<1>2. thr[t].pc = "run" /\ thr[t].pc \in OwnPcs /\ thr[t].pc \in KeepPcs
      /\ UNCHANGED <<conf, req, mt, chan, kern>>
  BY DEF FsCall, At, OwnPcs, KeepPcs
<1>3. Frame(req, req', {})
  BY <1>1, <1>2, FrameSame
<1>4. i \in Ids /\ i \in se.list /\ i \in Nat
  <2>1. InHands(t)
    BY <1>1 DEF RefInv, Hands
  <2>2. i \in Ids /\ i \in se.list
    BY <1>2, <2>1 DEF InHands
  <2> QED BY <1>1, <2>2, IdFacts
<1>5. CASE UNCHANGED se /\ Goto(t, CASE op \in NoAnswer -> "free"
                                     [] conf.intr /\ op \notin NoAnswer -> "finish"
                                     [] OTHER -> "reply")
  <2>1. PICK q : /\ q = (CASE op \in NoAnswer -> "free"
                           [] conf.intr /\ op \notin NoAnswer -> "finish"
                           [] OTHER -> "reply")
                 /\ Goto(t, q)
    BY <1>5
  <2>2. q \in {"free", "finish", "reply"} /\ (conf.intr /\ op \notin NoAnswer => q = "finish")
    BY <2>1
  <2>3. q \in (OwnPcs \ {"prep"}) \cup {"done"}
    BY <2>2 DEF OwnPcs
  <2>4. req[i].func # None => conf.intr /\ op \notin NoAnswer
    BY <1>1, <1>4 DEF RefInv, Functs, FuncOk
  <2>5. req[thr[t].u].func # None => q \in {"run", "finish", "withdraw"}
    BY <2>2, <2>4
  <2>6. /\ thr[t].pc \in OwnPcs \ {"prep"} /\ (q = "done" => thr[t].u \in se.list)
        /\ q \notin {"reply", "free", "done"} => thr[t].pc \notin {"reply", "free"}
    BY <1>2, <2>2
  <2>7. SameLists /\ se' \in SessionType
    BY <1>1, <1>5 DEF SameLists
  <2> QED BY <1>2, <1>3, <2>1, <2>3, <2>5, <2>6, <2>7, GoesOnStep
<1>6. CASE conf.defer /\ se' = [se EXCEPT !.held = @ \cup {i}] /\ Goto(t, "done")
  <2>1. ~conf.intr
    BY <1>1, <1>6, ConfigsAssumption DEF SessType
  <2>2. "done" \in Pcs
    BY KeepPcsFacts
  <2>3. thr' \in [Threads -> ThreadType] /\ Moved(t, "done")
    BY <1>1, <1>6, <2>2, Went
  <2>4. Others(t) /\ thr'[t].pc = "done" /\ thr'[t].u = i
    BY <2>3 DEF Moved, Others
  <2>5. /\ se' \in SessionType /\ se'.list = se.list /\ se'.interrupts = se.interrupts
        /\ se'.held = se.held \cup {i}
    BY <1>1, <1>4, <1>6 DEF SessionType
  <2>6. RefInv'
    BY <1>1, <1>2, <2>1, <2>4, <2>5, HeldKeeps
  <2>7. SameChannels /\ req' \in Seq(Requests) /\ thr[t].pc \notin {"reply", "free"}
    BY <1>1, <1>2 DEF SameChannels, Ids, SessType
  <2> QED BY <1>2, <2>3, <2>4, <2>5, <2>6, <2>7, OneStep
<1> QED BY <1>5, <1>6 DEF FsCall

(* do_init, which stays in the request's hands until the answer is sent.   *)
LEMMA InitKeeps ==
  ASSUME SessInv, NEW t \in Threads, do_init(t)
  PROVE  SessInv'
<1>1. CASE At(t, "exit")
  BY <1>1, ExitKeeps
<1>2. CASE At(t, "init") /\ Goto(t, "reply")
           /\ se' = [se EXCEPT !.got_init = req[thr[t].u].arg \notin {"old", "newer"}]
  <2>1. SessType /\ RefInv /\ se \in SessionType
    BY DEF SessInv, SessType
  <2>2. SameLists /\ se' \in SessionType
    <3>1. PICK x \in BOOLEAN : se' = [se EXCEPT !.got_init = x]
      BY <1>2
    <3> QED BY <2>1, <3>1 DEF SessionType, SameLists
  <2>3. Frame(req, req', {}) /\ UNCHANGED <<conf, mt, chan, kern>>
    BY <2>1, FrameSame DEF do_init
  <2>4. req[thr[t].u].func = None
    <3>1. InHands(t) /\ thr[t].pc = "init"
      BY <1>2, <2>1 DEF RefInv, Hands, At
    <3>2. thr[t].u \in Ids
      BY <3>1 DEF InHands, KeepPcs, OwnPcs
    <3>3. \A s \in Threads : thr[s].pc \in {"run", "finish", "withdraw"} /\ thr[s].u = thr[t].u => FALSE
      BY <2>1, <3>1 DEF RefInv, Hands, Holding, KeepPcs, OwnPcs
    <3> QED BY <2>1, <3>2, <3>3 DEF RefInv, Functs, FuncOk
  <2>5. "reply" \in OwnPcs \ {"prep"} /\ thr[t].pc \in OwnPcs \ {"prep"}
    BY <1>2 DEF OwnPcs, At
  <2> QED BY <1>2, <2>2, <2>3, <2>4, <2>5, GoesOnStep
<1> QED BY <1>1, <1>2 DEF do_init

(* Outside of the call and its end a request in hand has no function.      *)
LEMMA NoFunction ==
  ASSUME RefInv, NEW t \in Threads, thr[t].pc \in Holding,
         thr[t].pc \notin {"run", "finish", "withdraw"}, thr[t].u \in Ids
  PROVE  req[thr[t].u].func = None
<1>1. \A s \in Threads : thr[s].pc \in {"run", "finish", "withdraw"} => thr[s].pc \in Holding
  BY DEF Holding, KeepPcs, OwnPcs
<1>2. \A s \in Threads : thr[s].pc \in {"run", "finish", "withdraw"} => thr[s].u # thr[t].u
  BY <1>1 DEF RefInv, Hands
<1> QED BY <1>2 DEF RefInv, Functs, FuncOk

(* Answers of the session itself. *)
LEMMA DestroyRequestKeeps ==
  ASSUME SessInv, NEW t \in Threads, do_destroy(t)
  PROVE  SessInv'
<1>1. SessType /\ RefInv /\ se \in SessionType
  BY DEF SessInv, SessType
<1>2. thr[t].pc = "destroy" /\ Goto(t, "reply") /\ UNCHANGED <<conf, req, mt, chan, kern>>
  BY DEF do_destroy, At
<1>3. SameLists /\ se' \in SessionType
  <2>1. se.destroys + 1 \in Nat /\ TRUE \in BOOLEAN
    BY <1>1 DEF SessionType
  <2>2. se' = [se EXCEPT !.got_destroy = TRUE, !.destroys = se.destroys + 1]
    BY <1>1 DEF do_destroy, SessionType
  <2>3. PICK x \in BOOLEAN, n \in Nat : se' = [se EXCEPT !.got_destroy = x, !.destroys = n]
    BY <2>1, <2>2, Zenon
  <2> QED BY <1>1, <2>3 DEF SessionType, SameLists
<1>4. Frame(req, req', {})
  BY <1>1, <1>2, FrameSame
<1>5. thr[t].pc \in KeepPcs /\ thr[t].pc \in Holding /\ "reply" \in OwnPcs \ {"prep"}
      /\ thr[t].pc \in OwnPcs \ {"prep"}
  BY <1>2 DEF Holding, KeepPcs, OwnPcs
<1>6. req[thr[t].u].func = None
  BY <1>1, <1>2, <1>5, HandFacts, NoFunction
<1> QED BY <1>2, <1>3, <1>4, <1>5, <1>6, GoesOnStep

(* do_notify_reply: the request is freed, or stays in the list with nobody *)
(* to free it.                                                             *)
LEMMA NotifyReplyKeeps ==
  ASSUME SessInv, NEW t \in Threads, do_notify_reply(t)
  PROVE  SessInv'
<1>1. SessType /\ RefInv /\ se \in SessionType
  BY DEF SessInv, SessType
<1>2. thr[t].pc = "notify_reply" /\ UNCHANGED <<conf, req, mt, chan, kern>>
  BY DEF do_notify_reply, At
<1>3. PICK q \in {"free", "done"} : Goto(t, q)
  BY DEF do_notify_reply
<1>4. SameLists /\ se' \in SessionType
  <2>1. PICK n : se' = [se EXCEPT !.notify = @ \ {n}]
    BY DEF do_notify_reply
  <2> QED BY <1>1, <2>1 DEF SessionType, SameLists
<1>5. Frame(req, req', {})
  BY <1>1, <1>2, FrameSame
<1>6. thr[t].pc \in KeepPcs /\ thr[t].pc \in Holding /\ thr[t].pc \in OwnPcs \ {"prep"}
      /\ q \in (OwnPcs \ {"prep"}) \cup {"done"}
  BY <1>2 DEF Holding, KeepPcs, OwnPcs
<1>7. req[thr[t].u].func = None
  BY <1>1, <1>2, <1>6, HandFacts, NoFunction
<1>8. thr[t].u \in se.list
  BY <1>1, <1>2, <1>6 DEF RefInv, Hands, InHands
<1> QED BY <1>2, <1>3, <1>4, <1>5, <1>6, <1>7, <1>8, GoesOnStep

(* The references to the channels. *)
LEMMA ReadersFinite ==
  ASSUME SessType, NEW w \in Workers
  PROVE  IsFiniteSet(ReadFrom(w)) /\ Cardinality(ReadFrom(w)) \in Nat
<1>1. PICK n \in Nat : Ids = 1 .. n
  BY DEF SessType, Ids
<1>2. IsFiniteSet(1 .. n)
  BY FS_Interval
<1>3. IsFiniteSet(ReadFrom(w))
  BY <1>1, <1>2, FS_Subset DEF ReadFrom
<1> QED BY <1>3, FS_CardinalityType

(* A request gives its channel back. *)
LEMMA ChannelsPut ==
  ASSUME SessType, Channels, NEW i \in Ids,
         req' \in Seq(Requests), \A j \in Ids : j \in Ids' /\ (j # i => req'[j].ch = req[j].ch),
         \A j \in Ids' : j \notin Ids => req'[j].ch = None,
         req'[i].ch = None, chan' = fuse_chan_put(chan, req[i].ch),
         \A j \in Ids : req'[j].st \in {"queued", "read"} =>
                          req[j].st \in {"queued", "read"} \/ req'[j].ch = None,
         \A w \in Workers : Idle(w)' <=> Idle(w), conf' = conf
  PROVE  Channels' /\ chan' \in [Workers -> Int]
<1>1. chan \in [Workers -> Int] /\ req[i].ch \in Workers \cup {None} /\ None \notin Workers
  BY IdFacts, Fields, ThreadFacts DEF SessType, Threads
<1>2. chan' \in [Workers -> Int]
      /\ \A w \in Workers : chan'[w] = chan[w] - (IF w = req[i].ch THEN 1 ELSE 0)
  BY <1>1 DEF fuse_chan_put
<1>3. \A j \in Ids' : req'[j].st \in {"queued", "read"} => req'[j].ch = None
  BY DEF Channels
<1>4. ASSUME conf.clone_fd, NEW w \in Workers
      PROVE  chan'[w] = (IF Idle(w)' THEN 0 ELSE 1) + Cardinality(ReadFrom(w)')
  <2>1. ReadFrom(w)' = ReadFrom(w) \ {i}
    BY <1>1 DEF ReadFrom
  <2>2. IsFiniteSet(ReadFrom(w)) /\ Cardinality(ReadFrom(w)) \in Nat
    BY ReadersFinite
  <2>3. chan[w] = (IF Idle(w) THEN 0 ELSE 1) + Cardinality(ReadFrom(w))
    BY <1>4 DEF Channels
  <2>4. CASE w = req[i].ch
    <3>1. i \in ReadFrom(w)
      BY <2>4 DEF ReadFrom
    <3>2. Cardinality(ReadFrom(w) \ {i}) = Cardinality(ReadFrom(w)) - 1
      BY <2>2, <3>1, FS_RemoveElement
    <3> QED BY <1>2, <2>1, <2>2, <2>3, <2>4, <3>2
  <2>5. CASE w # req[i].ch
    <3>1. ReadFrom(w) \ {i} = ReadFrom(w)
      BY <2>5 DEF ReadFrom
    <3>2. chan'[w] = chan[w]
      BY <1>1, <1>2, <2>5
    <3> QED BY <2>1, <2>3, <3>1, <3>2
  <2> QED BY <2>4, <2>5
<1>5. \A w \in Workers : Cardinality(ReadFrom(w))' = Cardinality(ReadFrom(w)')
  OBVIOUS
<1> QED BY <1>2, <1>3, <1>4, <1>5 DEF Channels

(* fuse_free_req *)
LEMMA FreedReq ==
  ASSUME NEW r \in Requests, NEW f, f = [drop_ref(r) EXCEPT !.func = None, !.ch = None]
  PROVE  /\ f \in Requests /\ SameName(r, f) /\ f.func = None /\ f.ch = None /\ f.lock = r.lock
         /\ f.ctr = r.ctr - 1 /\ f.st = (IF r.ctr = 1 THEN "freed" ELSE r.st)
<1>1. PICK d \in Requests : d = drop_ref(r)
  BY Dropped
<1>2. /\ SameName(r, d) /\ d.ctr = r.ctr - 1 /\ d.lock = r.lock
      /\ d.st = (IF r.ctr = 1 THEN "freed" ELSE r.st)
  BY <1>1, Dropped
<1>3. f = [d EXCEPT !.func = None, !.ch = None]
  BY <1>1
<1>4. /\ f \in Requests /\ SameName(d, f) /\ f.func = None /\ f.ch = None
      /\ f.lock = d.lock /\ f.ctr = d.ctr /\ f.st = d.st
  BY <1>3 DEF Requests, SameName
<1> QED BY <1>2, <1>4 DEF SameName

(* A step that also changes the references to a channel.                   *)
LEMMA ChannelStep ==
  ASSUME SessInv, RefInv', Channels', chan' \in [Workers -> Int],
         conf' = conf, mt' = mt, se' \in SessionType, kern' = kern,
         NEW t \in Threads, thr' \in [Threads -> ThreadType], Others(t), Placed(t),
         req' \in Seq(Requests)
  PROVE  SessInv'
<1>1. Pool'
  BY PoolStep DEF SessInv
<1>2. SessType'
  BY DEF SessInv, SessType
<1> QED BY <1>1, <1>2 DEF SessInv

(* send_reply_iov and fuse_free_req: out of the list, one reference less,  *)
(* the channel given back.                                                 *)
LEMMA SendReplyKeeps ==
  ASSUME SessInv, NEW t \in Threads, send_reply(t)
  PROVE  SessInv'
<1> DEFINE i == thr[t].u
<1>1. SessType /\ RefInv /\ se \in SessionType /\ req \in Seq(Requests) /\ Channels /\ Pool
  BY DEF SessInv, SessType
<1>2. thr[t].pc \in {"reply", "free"} /\ thr[t].pc \in KeepPcs /\ thr[t].pc \in Holding
      /\ thr[t].pc \in OwnPcs \ {"prep"}
  BY DEF send_reply, At, KeepPcs, OwnPcs, Holding
<1>3. i \in Ids /\ req[i] \in Requests
  BY <1>1, <1>2, HandFacts
<1>4. CASE /\ thr[t].pc = "reply" /\ req' = fuse_send_msg(req, i) /\ Goto(t, "free")
           /\ UNCHANGED <<conf, se, mt, chan, kern>>
  <2>1. Frame(req, req', {})
    BY <1>1, <1>3, <1>4, FrameSent DEF Ids
  <2>2. req[thr[t].u].func = None
    BY <1>1, <1>2, <1>3, <1>4, NoFunction
  <2>3. SameLists /\ se' \in SessionType
    BY <1>1, <1>4 DEF SameLists
  <2>4. "free" \in (OwnPcs \ {"prep"}) \cup {"done"}
    BY DEF OwnPcs
  <2> QED BY <1>2, <1>4, <2>1, <2>2, <2>3, <2>4, GoesOnStep
<1>5. CASE /\ thr[t].pc = "free" /\ req' = fuse_free_req(req, i)
           /\ se' = [se EXCEPT !.list = @ \ {i}]
           /\ chan' = fuse_chan_put(chan, req[i].ch)
           /\ Goto(t, IF req[i].arg = "refused" THEN "exit" ELSE "done")
           /\ UNCHANGED <<conf, mt, kern>>
  <2>1. PICK q \in {"exit", "done"} : Goto(t, q)
    BY <1>5
  <2>2. q \in Pcs
    BY KeepPcsFacts
  <2>3. thr' \in [Threads -> ThreadType] /\ Moved(t, q)
    BY <1>1, <2>1, <2>2, Went
  <2>4. Others(t) /\ thr'[t].pc = q /\ thr'[t].u = i
    BY <2>3 DEF Moved, Others
  <2>5. /\ se' \in SessionType /\ se'.list = se.list \ {i} /\ se'.interrupts = se.interrupts
        /\ se'.held = se.held
    BY <1>1, <1>5 DEF SessionType
  <2>6. PICK f : f = [drop_ref(req[i]) EXCEPT !.func = None, !.ch = None]
    OBVIOUS
  <2>7. /\ f \in Requests /\ SameName(req[i], f) /\ f.func = None /\ f.ch = None
        /\ f.lock = req[i].lock /\ f.ctr = req[i].ctr - 1
        /\ f.st = (IF req[i].ctr = 1 THEN "freed" ELSE req[i].st)
    BY <1>3, <2>6, FreedReq
  <2>8. req' = [req EXCEPT ![i] = f]
    BY <1>5, <2>6 DEF fuse_free_req
  <2>9. Frame(req, req', {i}) /\ req'[i] = f /\ Ids' = Ids
    BY <1>1, <1>3, <2>7, <2>8, FrameOne
  <2>10. RefInv'
    BY <1>1, <1>5, <2>1, <2>4, <2>5, <2>7, <2>9, FreedKeeps
  <2>11. Placed(t)
    BY <1>1, <1>2, <2>1, <2>4, RequestPlaced
  <2>12. \A w \in Workers : Idle(w)' <=> Idle(w)
    BY <2>4, <2>11, PlacedIdle
  <2>13. /\ req' \in Seq(Requests)
         /\ \A j \in Ids : j # i => req'[j].ch = req[j].ch /\ req'[j].st = req[j].st
    BY <2>9 DEF Frame, SameReq, Ids
  <2>14. Channels' /\ chan' \in [Workers -> Int]
    <3>1. \A j \in Ids : j \in Ids' /\ (j # i => req'[j].ch = req[j].ch)
      BY <2>9, <2>13
    <3>2. \A j \in Ids : req'[j].st \in {"queued", "read"} =>
                          req[j].st \in {"queued", "read"} \/ req'[j].ch = None
      BY <2>7, <2>9, <2>13
    <3> QED BY <1>1, <1>3, <1>5, <2>7, <2>9, <2>12, <2>13, <3>1, <3>2, ChannelsPut
  <2> QED BY <1>5, <2>3, <2>4, <2>5, <2>10, <2>11, <2>13, <2>14, ChannelStep
<1> QED BY <1>4, <1>5 DEF send_reply, At

(* A request is made from the message that a thread has read, and gets the *)
(* channel of the thread.                                                  *)
LEMMA AllocatedReq ==
  ASSUME SessType, NEW t \in Threads, NEW r \in Requests, NEW f, f = fuse_ll_alloc_req(r, ChannelOf(t))
  PROVE  /\ f \in Requests /\ SameName(r, f) /\ f.st = "live" /\ f.ctr = 1
         /\ f.func = r.func /\ f.lock = r.lock /\ f.ch = ChannelOf(t) /\ f.uid = r.uid
         /\ ChannelOf(t) \in Workers \cup {None}
<1>1. PICK c \in Workers \cup {None} : c = ChannelOf(t)
  BY DEF ChannelOf
<1>2. PICK n \in Int, s \in {"queued", "read", "live", "freed"} : n = 1 /\ s = "live"
  OBVIOUS
<1>3. f = [r EXCEPT !.st = s, !.ctr = n, !.ch = c]
  BY <1>1, <1>2 DEF fuse_ll_alloc_req
<1> QED BY <1>1, <1>2, <1>3 DEF Requests, SameName

(* A request read from a channel has a reference to it.                    *)
LEMMA ChannelsGot ==
  ASSUME SessType, Channels, NEW i \in Ids, req[i].ch = None,
         NEW c \in Workers \cup {None},
         \A j \in Ids : j \in Ids' /\ (j # i => req'[j].ch = req[j].ch),
         \A j \in Ids' : j \notin Ids => req'[j].ch = None,
         req'[i].ch = c, req'[i].st \notin {"queued", "read"}, chan' = fuse_chan_get(chan, c),
         \A j \in Ids : req'[j].st \in {"queued", "read"} =>
                          req[j].st \in {"queued", "read"} \/ req'[j].ch = None,
         \A w \in Workers : Idle(w)' <=> Idle(w), conf' = conf
  PROVE  Channels' /\ chan' \in [Workers -> Int]
<1>1. chan \in [Workers -> Int] /\ None \notin Workers
  BY ThreadFacts DEF SessType, Threads
<1>2. chan' \in [Workers -> Int]
      /\ \A w \in Workers : chan'[w] = chan[w] + (IF w = c THEN 1 ELSE 0)
  BY <1>1 DEF fuse_chan_get
<1>3. \A j \in Ids' : req'[j].st \in {"queued", "read"} => req'[j].ch = None
  BY DEF Channels
<1>4. ASSUME conf.clone_fd, NEW w \in Workers
      PROVE  chan'[w] = (IF Idle(w)' THEN 0 ELSE 1) + Cardinality(ReadFrom(w)')
  <2>2. IsFiniteSet(ReadFrom(w)) /\ Cardinality(ReadFrom(w)) \in Nat
    BY ReadersFinite
  <2>3. chan[w] = (IF Idle(w) THEN 0 ELSE 1) + Cardinality(ReadFrom(w))
    BY <1>4 DEF Channels
  <2>4. CASE w = c
    <3>1. i \notin ReadFrom(w) /\ ReadFrom(w)' = ReadFrom(w) \cup {i}
      BY <1>1, <2>4 DEF ReadFrom
    <3>2. Cardinality(ReadFrom(w) \cup {i}) = Cardinality(ReadFrom(w)) + 1
      BY <2>2, <3>1, FS_AddElement
    <3> QED BY <1>2, <2>2, <2>3, <2>4, <3>1, <3>2
  <2>5. CASE w # c
    <3>1. ReadFrom(w)' = ReadFrom(w)
      BY <1>1, <2>5 DEF ReadFrom
    <3>2. chan'[w] = chan[w]
      BY <1>1, <1>2, <2>5
    <3> QED BY <2>3, <3>1, <3>2
  <2> QED BY <2>4, <2>5
<1>5. \A w \in Workers : Cardinality(ReadFrom(w))' = Cardinality(ReadFrom(w)')
  OBVIOUS
<1> QED BY <1>2, <1>3, <1>4, <1>5 DEF Channels

(* A request kept by one reference more.                                   *)
LEMMA KeptReq ==
  ASSUME NEW r \in Requests
  PROVE  /\ keep_ref(r) \in Requests /\ SameName(r, keep_ref(r)) /\ keep_ref(r).st = r.st
         /\ keep_ref(r).ctr = r.ctr + 1 /\ keep_ref(r).func = r.func
         /\ keep_ref(r).lock = r.lock /\ keep_ref(r).ch = r.ch
<1>1. PICK n \in Int : n = r.ctr + 1
  BY Fields
<1>2. keep_ref(r) = [r EXCEPT !.ctr = n]
  BY <1>1 DEF keep_ref, Requests
<1> QED BY <1>1, <1>2 DEF Requests, SameName

(* What a thread has when it begins with a message it read. *)
LEMMA WorkFacts ==
  ASSUME SessInv, NEW t \in Threads, thr[t].pc = "work"
  PROVE  /\ thr[t].u \in Ids /\ req[thr[t].u] \in Requests /\ req[thr[t].u].st = "read"
         /\ req[thr[t].u].func = None /\ req[thr[t].u].ch = None
         /\ thr[t].u \notin se.list /\ thr[t].u \notin ToSet(se.interrupts)
<1>1. SessType /\ RefInv /\ Channels
  BY DEF SessInv
<1>2. thr[t].pc \in FreshPcs /\ thr[t].pc \in Holding
  BY DEF Holding, FreshPcs
<1>3. thr[t].u \in Ids /\ req[thr[t].u] \in Requests /\ req[thr[t].u].st = "read"
  BY <1>1, <1>2, HandFacts
<1>4. req[thr[t].u].func = None
  BY <1>1, <1>2, <1>3, NoFunction
<1>5. req[thr[t].u].ch = None
  BY <1>1, <1>3 DEF Channels
<1>6. thr[t].u \notin se.list /\ thr[t].u \notin ToSet(se.interrupts)
  BY <1>1, <1>3, Listed
<1> QED BY <1>3, <1>4, <1>5, <1>6

(* A thread that begins with a message allocates the request, and another  *)
(* request may change but for its channel.                                 *)
LEMMA AllocStep ==
  ASSUME SessInv, RefInv', conf' = conf, mt' = mt, se' \in SessionType, kern' = kern,
         NEW t \in Threads, thr[t].pc = "work", thr' \in [Threads -> ThreadType], Others(t),
         thr'[t].pc \in KeepPcs \cup {"done"}, req' \in Seq(Requests),
         NEW i, i = thr[t].u, req'[i].ch = ChannelOf(t), req'[i].st \notin {"queued", "read"},
         chan' = fuse_chan_get(chan, ChannelOf(t)), Ids' = Ids,
         \A j \in Ids : j # i => /\ req'[j].ch = req[j].ch
                                 /\ req'[j].st \in {"queued", "read"} => req[j].st \in {"queued", "read"}
  PROVE  SessInv'
<1>1. SessType /\ RefInv /\ Channels /\ Pool
  BY DEF SessInv
<1>2. i \in Ids /\ req[i].ch = None
  BY WorkFacts
<1>3. Placed(t)
  BY <1>1, RequestPlaced
<1>4. \A w \in Workers : Idle(w)' <=> Idle(w)
  BY <1>3, PlacedIdle
<1>5. PICK c \in Workers \cup {None} : c = ChannelOf(t)
  BY DEF ChannelOf
<1>6. Channels' /\ chan' \in [Workers -> Int]
  BY <1>1, <1>2, <1>4, <1>5, ChannelsGot
<1> QED BY <1>3, <1>6, ChannelStep

(* do_interrupt: a hit, a repetition, or an interrupt kept for a request   *)
(* not yet read.                                                           *)
LEMMA InterruptRequestKeeps ==
  ASSUME SessInv, NEW t \in Threads, do_interrupt(t)
  PROVE  SessInv'
<1>1. SessType /\ RefInv /\ se \in SessionType /\ req \in Seq(Requests)
      /\ thr \in [Threads -> ThreadType]
  BY DEF SessInv, SessType
<1>2. PICK i, r, hit, j, again :
        /\ i = thr[t].u /\ r = fuse_ll_alloc_req(req[i], ChannelOf(t))
        /\ hit = {k \in se.list : req[k].uq = r.target}
        /\ j = (CHOOSE k \in hit : TRUE)
        /\ (again <=> \E k \in DOMAIN se.interrupts : req[se.interrupts[k]].target = r.target)
        /\ thr[t].pc = "work" /\ r.op = "interrupt"
        /\ chan' = fuse_chan_get(chan, r.ch)
        /\ UNCHANGED <<conf, mt, kern>>
        /\ CASE hit # {} -> /\ req' = [req EXCEPT ![i] = r, ![j] = keep_ref(@)]
                            /\ thr' = [thr EXCEPT ![t].pc = "intr", ![t].cur = j]
                            /\ UNCHANGED se
             [] hit = {} /\ again -> /\ SetReq(i, drop_ref(r)) /\ Goto(t, "done") /\ UNCHANGED se
             [] OTHER -> /\ SetReq(i, r) /\ Goto(t, "done")
                         /\ se' = [se EXCEPT !.interrupts = Append(@, i)]
  BY DEF do_interrupt, At
<1>3. /\ i \in Ids /\ req[i] \in Requests /\ req[i].st = "read" /\ req[i].func = None
      /\ i \notin se.list /\ i \in Nat
  BY <1>1, <1>2, WorkFacts, IdFacts
<1>4. /\ r \in Requests /\ SameName(req[i], r) /\ r.st = "live" /\ r.ctr = 1 /\ r.func = req[i].func
      /\ r.lock = req[i].lock /\ r.ch = ChannelOf(t)
  BY <1>1, <1>2, <1>3, AllocatedReq
<1>5. r.op = req[i].op /\ r.target = req[i].target
  BY <1>4 DEF SameName
<1>6. chan' = fuse_chan_get(chan, ChannelOf(t)) /\ thr[t].pc = "work" /\ UNCHANGED <<conf, mt, kern>>
      /\ req[i].op = "interrupt" /\ i = thr[t].u
  BY <1>2, <1>4, <1>5
<1>7. CASE /\ hit # {} /\ req' = [req EXCEPT ![i] = r, ![j] = keep_ref(@)]
           /\ thr' = [thr EXCEPT ![t].pc = "intr", ![t].cur = j] /\ UNCHANGED se
  <2>1. j \in hit
    BY <1>2, <1>7
  <2>2. j \in se.list /\ j \in Ids /\ j # i /\ j \in Nat /\ req[j] \in Requests /\ req[j].st = "live"
    <3>1. j \in se.list
      BY <1>2, <2>1
    <3>2. j \in Ids /\ req[j].st = "live"
      BY <1>1, <3>1, Listed
    <3>3. j \in Nat /\ req[j] \in Requests
      BY <1>1, <3>2, IdFacts
    <3> QED BY <1>3, <3>1, <3>2, <3>3
  <2>3. PICK k : k = keep_ref(req[j])
    OBVIOUS
  <2>4. /\ k \in Requests /\ SameName(req[j], k) /\ k.st = req[j].st /\ k.ctr = req[j].ctr + 1
        /\ k.func = req[j].func /\ k.lock = req[j].lock /\ k.ch = req[j].ch
    BY <2>2, <2>3, KeptReq
  <2>5. req' = [req EXCEPT ![i] = r, ![j] = k]
    BY <1>1, <1>3, <1>7, <2>2, <2>3 DEF Ids
  <2>6. /\ req' \in Seq(Requests) /\ Ids' = Ids /\ req'[i] = r /\ req'[j] = k
        /\ \A l \in Ids : l # i /\ l # j => req'[l] = req[l]
    BY <1>1, <1>3, <1>4, <2>2, <2>4, <2>5 DEF Ids
  <2>7. Frame(req, req', {i, j})
    BY <1>3, <1>4, <2>2, <2>4, <2>6 DEF Frame, Ids, SameName, SameReq
  <2>8. "intr" \in Pcs /\ "intr" \in KeepPcs
    BY DEF Pcs, InHand, KeepPcs, IntrPcs
  <2>9. /\ thr' \in [Threads -> ThreadType] /\ Others(t) /\ thr'[t].pc = "intr"
        /\ thr'[t].u = thr[t].u /\ thr'[t].cur = j
    BY <1>1, <1>7, <2>2, <2>8 DEF ThreadType, Others, Still
  <2>10. SameLists /\ se' \in SessionType
    BY <1>1, <1>7 DEF SameLists
  <2>11. RefInv'
    BY <1>1, <1>4, <1>6, <2>2, <2>4, <2>6, <2>7, <2>9, <2>10, InterruptHits
  <2>12. \A l \in Ids : l # i => /\ req'[l].ch = req[l].ch
                                 /\ req'[l].st \in {"queued", "read"} => req[l].st \in {"queued", "read"}
    BY <2>4, <2>6
  <2>13. req'[i].ch = ChannelOf(t) /\ req'[i].st \notin {"queued", "read"}
    BY <1>4, <2>6
  <2> QED BY <1>6, <2>6, <2>8, <2>9, <2>10, <2>11, <2>12, <2>13, AllocStep
<1>8. CASE hit = {} /\ Goto(t, "done")
           /\ \/ again /\ req' = [req EXCEPT ![i] = drop_ref(r)] /\ UNCHANGED se
              \/ /\ ~again /\ req' = [req EXCEPT ![i] = r]
                 /\ se' = [se EXCEPT !.interrupts = Append(@, i)]
  <2>1. "done" \in Pcs
    BY KeepPcsFacts
  <2>2. thr' \in [Threads -> ThreadType] /\ Moved(t, "done")
    BY <1>1, <1>8, <2>1, Went
  <2>3. Others(t) /\ thr'[t].pc = "done" /\ thr'[t].u = thr[t].u
    BY <2>2 DEF Moved, Others
  <2>4. PICK f : req' = [req EXCEPT ![i] = f] /\ f = (IF again THEN drop_ref(r) ELSE r)
    BY <1>8
  <2>5. /\ f \in Requests /\ SameName(r, f) /\ f.func = r.func /\ f.ch = r.ch
        /\ f.st = (IF again THEN "freed" ELSE "live") /\ (~again => f.ctr = 1)
    BY <1>4, <2>4, Dropped DEF SameName
  <2>6. SameName(req[i], f)
    BY <1>4, <2>5 DEF SameName
  <2>7. Frame(req, req', {i}) /\ req'[i] = f /\ Ids' = Ids
    BY <1>1, <1>3, <2>4, <2>5, <2>6, FrameOne
  <2>8. req' \in Seq(Requests)
        /\ \A l \in Ids : l # i => /\ req'[l].ch = req[l].ch
                                   /\ req'[l].st \in {"queued", "read"} => req[l].st \in {"queued", "read"}
    BY <2>7 DEF Frame, SameReq, Ids
  <2>9. req'[i].ch = ChannelOf(t) /\ req'[i].st \notin {"queued", "read"} /\ req'[i].func = req[i].func
    BY <1>4, <2>5, <2>7
  <2>10. RefInv' /\ se' \in SessionType
    <3>1. CASE again
      <4>1. SameLists /\ se' \in SessionType
        BY <1>1, <1>8, <3>1 DEF SameLists
      <4>2. req'[i].st = "freed"
        BY <2>5, <2>7, <3>1
      <4> QED BY <1>1, <1>6, <2>3, <2>7, <2>9, <4>1, <4>2, FreshKeeps
    <3>2. CASE ~again
      <4>1. /\ se' \in SessionType /\ se'.list = se.list /\ se'.held = se.held
            /\ se'.interrupts = Append(se.interrupts, i)
        <5>1. se.interrupts \in Seq(Nat)
          BY <1>1 DEF SessionType
        <5>2. PICK s \in Seq(Nat) : s = Append(se.interrupts, i)
          <6>1. \A s \in Seq(Nat), n \in Nat : Append(s, n) \in Seq(Nat)
            OBVIOUS
          <6> QED BY <1>3, <5>1, <6>1, Zenon
        <5>3. se' = [se EXCEPT !.interrupts = s]
          BY <1>8, <3>2, <5>2
        <5> QED BY <1>1, <5>2, <5>3 DEF SessionType
      <4>2. req'[i].st = "live" /\ req'[i].ctr = 1
        BY <2>5, <2>7, <3>2
      <4>3. \A l \in se.list : req[l].uq # req[i].target
        <5>1. {k \in se.list : req[k].uq = r.target} = {}
          BY <1>2, <1>8
        <5> QED BY <1>5, <5>1
      <4>4. \A k \in DOMAIN se.interrupts : req[se.interrupts[k]].target # req[i].target
        BY <1>2, <1>5, <3>2
      <4> QED BY <1>1, <1>6, <2>3, <2>7, <2>9, <4>1, <4>2, <4>3, <4>4, InterruptKept
    <3> QED BY <3>1, <3>2
  <2> QED BY <1>6, <2>2, <2>3, <2>7, <2>8, <2>9, <2>10, AllocStep
<1> QED BY <1>2, <1>7, <1>8 DEF SetReq

-----------------------------------------------------------------------------
(* A request enters the session.                                           *)

(* An interrupt taken out of the list of those kept for later.             *)
LEMMA TakenOut ==
  ASSUME SessType, RefInv, NEW k \in DOMAIN se.interrupts, NEW s, s = RemoveAt(se.interrupts, k)
  PROVE  /\ s \in Seq(Nat) /\ ToSet(s) = ToSet(se.interrupts) \ {se.interrupts[k]}
         /\ \A a, b \in DOMAIN s : s[a] = s[b] => a = b
         /\ \A a \in DOMAIN s : \E b \in DOMAIN se.interrupts : b # k /\ s[a] = se.interrupts[b]
<1> DEFINE o == se.interrupts
           f(a) == IF a < k THEN a ELSE a + 1
<1>1. o \in Seq(Nat) /\ \A a, b \in DOMAIN o : o[a] = o[b] => a = b
  BY Listed DEF RefInv, Lists
<1>2. s \in Seq(Nat) /\ Without(s, o, k)
  BY <1>1, Removed, Zenon
<1>3. \A a \in DOMAIN s : s[a] = o[f(a)] /\ f(a) \in DOMAIN o /\ f(a) # k
  BY <1>2 DEF Without
<1>4. \A a, b \in DOMAIN s : f(a) = f(b) => a = b
  BY <1>1, <1>2 DEF Without
<1> HIDE DEF f, o
<1>5. \A a, b \in DOMAIN s : s[a] = s[b] => a = b
  BY <1>1, <1>3, <1>4
<1>6. ToSet(s) = ToSet(o) \ {o[k]}
  <2>1. \A x \in ToSet(s) : x \in ToSet(o) \ {o[k]}
    BY <1>1, <1>3 DEF ToSet, o
  <2>2. \A x \in ToSet(o) \ {o[k]} : x \in ToSet(s)
    BY <1>2 DEF ToSet, Without
  <2> QED BY <2>1, <2>2
<1> QED BY <1>2, <1>3, <1>5, <1>6 DEF o

(* check_interrupt: the interrupt of the request itself is consumed, or    *)
(* the oldest other one is sent back.                                      *)
CheckedFor(uq, ci, k) ==
  \/ /\ ci.found = {k} /\ ci.back = {} /\ k \in DOMAIN se.interrupts
     /\ req[se.interrupts[k]].target = uq
  \/ /\ ci.found = {} /\ ci.back = {k} /\ k \in DOMAIN se.interrupts
     /\ \A l \in DOMAIN se.interrupts : req[se.interrupts[l]].target # uq
  \/ ci.found = {} /\ ci.back = {} /\ se.interrupts = << >>
LEMMA Checked ==
  ASSUME SessType, RefInv, NEW uq, NEW ci, ci = check_interrupt(req, uq), NEW k,
         k = (CHOOSE l \in ci.found \cup ci.back : TRUE)
  PROVE  CheckedFor(uq, ci, k)
<1> DEFINE own == {l \in DOMAIN se.interrupts : req[se.interrupts[l]].target = uq}
<1>1. se.interrupts \in Seq(Nat) /\ \A a, b \in own : a = b
  BY Listed DEF RefInv, Lists
<1>2. /\ ci.found = (IF own = {} THEN {} ELSE {Min(own)})
      /\ ci.back = (IF own = {} /\ se.interrupts # << >> THEN {1} ELSE {})
  BY DEF check_interrupt
<1>3. CASE own # {}
  <2>1. PICK m \in own : own = {m}
    BY <1>1, <1>3
  <2>2. m \in Nat
    BY <1>1, <2>1
  <2>3. Min(own) = m
    BY <2>1, <2>2 DEF Min
  <2>4. ci.found = {m} /\ ci.back = {}
    BY <1>2, <1>3, <2>3
  <2>5. k = m
    BY <2>4
  <2> QED BY <2>1, <2>4, <2>5 DEF CheckedFor
<1>4. CASE own = {} /\ se.interrupts # << >>
  <2>1. ci.found = {} /\ ci.back = {1}
    BY <1>2, <1>4
  <2>2. k = 1
    BY <2>1
  <2>3. 1 \in DOMAIN se.interrupts
    BY <1>1, <1>4
  <2> QED BY <1>4, <2>1, <2>2, <2>3 DEF CheckedFor
<1>5. CASE own = {} /\ se.interrupts = << >>
  BY <1>2, <1>5 DEF CheckedFor
<1> QED BY <1>3, <1>4, <1>5

(* Two requests changed.                                                   *)
LEMMA TwoChanged ==
  ASSUME SessType, NEW i \in Ids, NEW j \in Ids, NEW a \in Requests, NEW b \in Requests,
         SameName(req[i], a), SameName(req[j], b), req' \in Seq(Requests), Ids' = Ids,
         req'[i] = a, req'[j] = b, \A l \in Ids : l # i /\ l # j => req'[l] = req[l]
  PROVE  Frame(req, req', {i} \cup {j})
BY DEF Frame, Ids, SameName, SameReq

(* The new request, marked when its interrupt was waiting for it.          *)
(* The thread and the request of a step that enters a request.             *)
Enters(t, i, q) ==
  /\ thr[t].pc = "work" /\ i = thr[t].u /\ Goto(t, q) /\ req[i].op # "interrupt"
  /\ q \in {"prep", "run", "reply", "free", "init", "destroy", "notify_reply"}
  /\ q = "prep" => conf.intr /\ req[i].op \notin NoAnswer
  /\ UNCHANGED <<conf, mt, kern>>

(* A request enters the list of the session: its own interrupt is freed,   *)
(* another is sent back, or there is none.                                 *)
LEMMA EntersFacts ==
  ASSUME SessInv, NEW t \in Threads, NEW i, NEW q, Enters(t, i, q)
  PROVE  /\ thr' \in [Threads -> ThreadType] /\ Others(t) /\ thr'[t].pc = q
         /\ thr'[t].u = thr[t].u /\ q \in KeepPcs /\ q \in KeepPcs \cup {"done", "exit"}
         /\ i \in Ids /\ i \in Nat /\ req[i] \in Requests /\ req[i].func = None /\ req[i].ch = None
         /\ i \notin se.list /\ i \notin ToSet(se.interrupts)
<1>1. SessType
  BY DEF SessInv
<1>2. q \in Pcs /\ q \in KeepPcs
  BY DEF Enters, Pcs, InHand, KeepPcs, OwnPcs
<1>3. thr' \in [Threads -> ThreadType] /\ Moved(t, q)
  BY <1>1, <1>2, Went DEF Enters
<1>4. /\ i \in Ids /\ req[i] \in Requests /\ req[i].func = None /\ req[i].ch = None
      /\ i \notin se.list /\ i \notin ToSet(se.interrupts)
  BY WorkFacts DEF Enters
<1>5. i \in Nat
  BY <1>1, <1>4, IdFacts
<1> QED BY <1>2, <1>3, <1>4, <1>5 DEF Moved, Others

LEMMA SessionEntered ==
  ASSUME SessType, NEW i \in Nat, NEW s \in Seq(Nat),
         se' = [se EXCEPT !.list = @ \cup {i}, !.interrupts = s]
  PROVE  /\ se' \in SessionType /\ se'.list = se.list \cup {i} /\ se'.interrupts = s
         /\ se'.held = se.held
<1>1. se \in SessionType
  BY DEF SessType
<1>2. PICK S \in SUBSET Nat : S = se.list \cup {i}
  BY <1>1 DEF SessionType
<1>3. se' = [se EXCEPT !.list = S, !.interrupts = s]
  BY <1>2
<1> QED BY <1>1, <1>2, <1>3 DEF SessionType

(* A request enters the list of the session; R are the interrupts of the   *)
(* other list that go.                                                     *)
Entered(i, R) ==
  /\ R \subseteq ToSet(se.interrupts) /\ Frame(req, req', {i} \cup R)
  /\ req'[i].func = req[i].func /\ req'[i].st = "live" /\ req'[i].ctr = 1
  /\ \A j \in R : req'[j].st = "freed" /\ req'[j].func = None
  /\ se' \in SessionType /\ se'.list = se.list \cup {i} /\ se'.held = se.held
  /\ ToSet(se'.interrupts) = ToSet(se.interrupts) \ R
  /\ \A k \in DOMAIN se'.interrupts : req[se'.interrupts[k]].target # req[i].uq
  /\ \A k, l \in DOMAIN se'.interrupts : se'.interrupts[k] = se'.interrupts[l] => k = l

LEMMA EnteredRefs ==
  ASSUME SessInv, NEW t \in Threads, NEW i, NEW q, Enters(t, i, q), NEW R, Entered(i, R)
  PROVE  RefInv'
<1>a. SessType /\ RefInv
  BY DEF SessInv
<1>b. Others(t) /\ thr'[t].pc = q /\ thr'[t].u = thr[t].u
  BY EntersFacts
<1>c. /\ thr[t].pc = "work" /\ i = thr[t].u /\ req[i].op # "interrupt" /\ conf' = conf
      /\ thr'[t].pc \in {"prep", "run", "reply", "free", "init", "destroy", "notify_reply"}
      /\ thr'[t].pc = "prep" => conf.intr /\ req[i].op \notin NoAnswer
  BY <1>b DEF Enters
<1>d. ToSet(se.interrupts)' = ToSet(se.interrupts) \ R
  <2>1. ToSet(se.interrupts)' = ToSet(se'.interrupts)
    BY DEF ToSet
  <2> QED BY <2>1 DEF Entered
<1>e. /\ R \subseteq ToSet(se.interrupts) /\ Frame(req, req', {i} \cup R)
      /\ req'[i].func = req[i].func /\ req'[i].st = "live" /\ req'[i].ctr = 1
      /\ \A j \in R : req'[j].st = "freed" /\ req'[j].func = None
      /\ se'.list = se.list \cup {i} /\ se'.held = se.held
      /\ \A k \in DOMAIN se'.interrupts : req[se'.interrupts[k]].target # req[i].uq
      /\ \A k, l \in DOMAIN se'.interrupts : se'.interrupts[k] = se'.interrupts[l] => k = l
  BY DEF Entered
<1> USE <1>a, <1>b, <1>c, <1>d, <1>e
<1>1. /\ i \in Ids /\ req[i].st = "read" /\ thr[t].pc \in Holding /\ thr[t].pc \notin KeepPcs
      /\ i \notin se.held
  BY HandFacts DEF Holding, FreshPcs, KeepPcs, OwnPcs, IntrPcs
<1>2. /\ \A j \in Ids : j \in Ids' /\ SameName(req[j], req'[j])
      /\ \A j \in Ids : j # i /\ j \notin R => SameReq(req[j], req'[j])
      /\ \A j \in Ids' : j \notin Ids => req'[j].st = "queued" /\ req'[j].func = None
  BY DEF Frame, Ids, Unread
<1>3. i \notin se.list /\ i \notin ToSet(se.interrupts) /\ i \notin R
  BY <1>1, Listed
<1>4. \A j \in se.list : j \in Ids /\ j # i /\ j \notin R /\ req[j].st = "live" /\ req[j].op # "interrupt"
  BY <1>3, Listed
<1>5. \A j \in R : j \in Ids /\ req[j].st = "live" /\ req[j].op = "interrupt"
  BY Listed
<1>6. Lists /\ se.interrupts \in Seq(Nat)
  BY Listed DEF RefInv
<1>7. \A k \in DOMAIN se'.interrupts :
        /\ se'.interrupts[k] \in ToSet(se.interrupts) /\ se'.interrupts[k] \notin R
        /\ se'.interrupts[k] \in Ids /\ se'.interrupts[k] # i
        /\ SameReq(req[se'.interrupts[k]], req'[se'.interrupts[k]])
        /\ req[se'.interrupts[k]].st = "live" /\ req[se'.interrupts[k]].op = "interrupt"
  <2> SUFFICES ASSUME NEW k \in DOMAIN se'.interrupts
               PROVE  /\ se'.interrupts[k] \in ToSet(se.interrupts) /\ se'.interrupts[k] \notin R
                      /\ se'.interrupts[k] \in Ids /\ se'.interrupts[k] # i
                      /\ SameReq(req[se'.interrupts[k]], req'[se'.interrupts[k]])
                      /\ req[se'.interrupts[k]].st = "live" /\ req[se'.interrupts[k]].op = "interrupt"
    OBVIOUS
  <2>1. se'.interrupts[k] \in ToSet(se.interrupts) \ R
    <3>1. se'.interrupts[k] \in ToSet(se.interrupts)'
      BY DEF ToSet
    <3> QED BY <3>1
  <2> QED BY <1>2, <1>3, <2>1, Listed
<1>8. \A a, b \in ToSet(se.interrupts) : req[a].target = req[b].target => a = b
  BY <1>6 DEF Lists, ToSet
<1>9. Lists'
  <2>1. \A j \in se'.list : j \in Ids' /\ req'[j].st = "live" /\ req'[j].op # "interrupt"
    BY <1>1, <1>2, <1>4 DEF SameReq, SameName
  <2>2. \A k \in DOMAIN se'.interrupts :
          /\ se'.interrupts[k] \in Ids' /\ req'[se'.interrupts[k]].st = "live"
          /\ req'[se'.interrupts[k]].op = "interrupt"
          /\ req'[se'.interrupts[k]].target = req[se'.interrupts[k]].target
    BY <1>2, <1>7 DEF SameReq, SameName
  <2>3. \A k, l \in DOMAIN se'.interrupts :
          req'[se'.interrupts[k]].target = req'[se'.interrupts[l]].target => k = l
    BY <1>7, <1>8, <2>2
  <2>4. ASSUME NEW k \in DOMAIN se'.interrupts, NEW j \in se'.list
        PROVE  req'[j].uq # req'[se'.interrupts[k]].target
    <3>1. CASE j = i
      BY <1>1, <1>2, <2>2, <3>1 DEF SameName
    <3>2. CASE j \in se.list
      <4>1. req'[j].uq = req[j].uq
        BY <1>2, <1>4, <3>2 DEF SameName
      <4>2. PICK l \in DOMAIN se.interrupts : se.interrupts[l] = se'.interrupts[k]
        BY <1>7 DEF ToSet
      <4>3. req[j].uq # req[se.interrupts[l]].target
        BY <1>6, <3>2 DEF Lists, NoInterruptMissed
      <4> QED BY <2>2, <4>1, <4>2, <4>3
    <3> QED BY <3>1, <3>2
  <2>5. \A j \in se'.held : j \in se'.list /\ ~conf.intr
    BY <1>6 DEF Lists
  <2> QED BY <2>1, <2>2, <2>3, <2>4, <2>5 DEF Lists, NoInterruptMissed
<1>10. \A s \in Threads : s # t /\ thr[s].pc \in Holding => thr[s].u \in Ids /\ thr[s].u # i /\ thr[s].u \notin R
  <2> SUFFICES ASSUME NEW s \in Threads, s # t, thr[s].pc \in Holding
               PROVE  thr[s].u \in Ids /\ thr[s].u # i /\ thr[s].u \notin R
    OBVIOUS
  <2>1. thr[s].u \in Ids /\ thr[s].u # i
    BY <1>1, HandFacts DEF Holding
  <2>2. CASE thr[s].pc \in KeepPcs
    BY <2>1, <2>2, HandFacts
  <2>3. CASE thr[s].pc \in FreshPcs
    <3>1. req[thr[s].u].st = "read"
      BY <2>3, HandFacts
    <3> QED BY <1>5, <2>1, <3>1
  <2> QED BY <2>2, <2>3 DEF Holding
<1>11. \A s \in Threads : thr[s].pc \in IntrPcs =>
         /\ thr[s].cur \in Ids /\ req[thr[s].cur].st = "live" /\ thr[s].cur # i /\ thr[s].cur \notin R
  <2>1. \A s \in Threads : thr[s].pc \in IntrPcs =>
          /\ thr[s].cur \in Ids /\ req[thr[s].cur].st = "live" /\ req[thr[s].cur].op # "interrupt"
    BY HandFacts
  <2> QED BY <1>1, <1>5, <2>1
<1>12. Hands'
  <2>1. ASSUME NEW s \in Threads, s # t, thr[s].pc \in Holding PROVE Untouched(thr[s].u)
    <3>1. thr[s].u \in Ids /\ thr[s].u # i /\ thr[s].u \notin R
      BY <1>10, <2>1
    <3> QED BY <1>2, <3>1 DEF Untouched, SameReq
  <2>2. ASSUME NEW s \in Threads, s # t, thr[s].pc \in IntrPcs
        PROVE  thr[s].cur \in Ids' /\ SameName(req[thr[s].cur], req'[thr[s].cur])
                                   /\ req'[thr[s].cur].st = "live"
    BY <1>2, <1>11, <2>2 DEF SameReq
  <2>3. InHands(t)'
    BY <1>1, <1>2, <1>3 DEF InHands, KeepPcs, OwnPcs, IntrPcs, FreshPcs
  <2>4. \A s \in Threads : s # t /\ thr[s].pc \in Holding => thr[s].u # thr'[t].u
    BY <1>10
  <2> QED BY <2>1, <2>2, <2>3, <2>4, HandsStep DEF RefInv
<1>13. Counts'
  <2>1. ASSUME NEW j \in Ids', req'[j].st = "live", j # i PROVE SameRefs(t, j)
    <3>1. j \in Ids /\ j \notin R
      BY <1>2, <2>1
    <3>2. SameReq(req[j], req'[j])
      BY <1>2, <2>1, <3>1
    <3>3. thr[t].u # j /\ thr'[t].u # j /\ thr'[t].pc \notin IntrPcs /\ thr[t].pc \notin IntrPcs
      BY <2>1 DEF IntrPcs
    <3>4. j \in ToSet(se.interrupts)' <=> j \in ToSet(se.interrupts)
      BY <3>1
    <3>5. j \in se'.list <=> j \in se.list
      BY <2>1
    <3> QED BY <2>1, <3>1, <3>2, <3>3, <3>4, <3>5 DEF SameReq, SameRefs
  <2>2. Counted(i)'
    <3>1. Kept(i)'
      BY DEF Kept
    <3>2. \A s \in Threads : ~(thr'[s].pc \in IntrPcs /\ thr'[s].cur = i)
      BY <1>11 DEF Others, Still, IntrPcs
    <3> QED BY <3>1, <3>2, OneKeeper DEF Interrupters
  <2> QED BY <2>1, <2>2, CountsStep DEF RefInv
<1>14. Functs'
  <2>1. LockOk(t)'
    BY <1>1, <1>2 DEF LockOk, SameName
  <2>2. req[i].func = None
    BY <1>1, FuncHeld
  <2>3. \A j \in Ids' : req'[j].func # None => j \in Ids /\ req'[j].func = req[j].func
    BY <1>2, <2>2 DEF SameReq
  <2>4. \A j \in Ids : req[j].st = "live" /\ req[j].op # "interrupt"
                         => req'[j].lock = req[j].lock /\ req'[j].func = req[j].func
    BY <1>1, <1>2, <1>5 DEF SameReq
  <2> QED BY <1>2, <2>1, <2>3, <2>4, FreshFuncts
<1> QED BY <1>9, <1>12, <1>13, <1>14 DEF RefInv

(* The request enters and no channel but the thread's is used.             *)
LEMMA EnterStep ==
  ASSUME SessInv, NEW t \in Threads, NEW i, NEW q, Enters(t, i, q), NEW R, Entered(i, R),
         Ids' = Ids, req'[i].ch = ChannelOf(t), chan' = fuse_chan_get(chan, ChannelOf(t)),
         \A j \in R : j \in Ids => req'[j].ch = req[j].ch
  PROVE  SessInv'
<1>1. RefInv'
  BY EnteredRefs
<1>2. /\ thr' \in [Threads -> ThreadType] /\ Others(t) /\ thr'[t].pc = q
      /\ q \in KeepPcs
  BY EntersFacts
<1>3. thr[t].pc = "work" /\ i = thr[t].u /\ UNCHANGED <<conf, mt, kern>>
  BY DEF Enters
<1>4. /\ se' \in SessionType /\ Frame(req, req', {i} \cup R) /\ req'[i].st = "live"
      /\ \A j \in R : req'[j].st = "freed"
  BY DEF Entered
<1>5. /\ req' \in Seq(Requests)
      /\ \A l \in Ids : l # i => /\ req'[l].ch = req[l].ch
                                 /\ req'[l].st \in {"queued", "read"} => req[l].st \in {"queued", "read"}
  BY <1>4 DEF Frame, SameReq, Ids
<1> QED BY <1>1, <1>2, <1>3, <1>4, <1>5, AllocStep

(* The new request f in its place.                                         *)
NewRequest(t, i, f) ==
  /\ f \in Requests /\ SameName(req[i], f) /\ f.st = "live" /\ f.ctr = 1
  /\ f.func = req[i].func /\ f.ch = ChannelOf(t)

(* No interrupt waits.                                                     *)
EntersPlain(t, i, f) ==
  /\ se.interrupts = << >>
  /\ req' = [req EXCEPT ![i] = f]
  /\ chan' = fuse_chan_get(chan, ChannelOf(t))
  /\ se' = [se EXCEPT !.list = @ \cup {i}]

LEMMA EnterPlain ==
  ASSUME SessInv, NEW t \in Threads, NEW i, NEW q, Enters(t, i, q),
         NEW f, NewRequest(t, i, f), EntersPlain(t, i, f)
  PROVE  SessInv'
<1>1. SessType /\ RefInv /\ se \in SessionType
  BY DEF SessInv, SessType
<1>2. i \in Ids /\ i \in Nat
  BY EntersFacts
<1>3. Frame(req, req', {i}) /\ req'[i] = f /\ Ids' = Ids
  BY <1>1, <1>2, FrameOne DEF NewRequest, EntersPlain
<1>4. /\ se' \in SessionType /\ se'.list = se.list \cup {i} /\ se'.interrupts = << >>
      /\ se'.held = se.held
  BY <1>1, <1>2 DEF SessionType, EntersPlain
<1>5. Entered(i, {})
  <2>1. {} \subseteq ToSet(se.interrupts) /\ {i} \cup {} = {i}
    OBVIOUS
  <2>2. ToSet(se'.interrupts) = ToSet(se.interrupts) \ {} /\ DOMAIN se'.interrupts = {}
    BY <1>4 DEF EntersPlain
  <2> QED BY <1>3, <1>4, <2>1, <2>2 DEF Entered, NewRequest
<1>6. req'[i].ch = ChannelOf(t) /\ chan' = fuse_chan_get(chan, ChannelOf(t))
  BY <1>3 DEF NewRequest, EntersPlain
<1> QED BY <1>3, <1>5, <1>6, EnterStep

(* An interrupt that leaves the list of those kept for later.              *)
LEMMA OldInterrupt ==
  ASSUME SessInv, NEW t \in Threads, NEW i, NEW q, Enters(t, i, q), NEW k \in DOMAIN se.interrupts,
         NEW j, j = se.interrupts[k]
  PROVE  /\ j \in ToSet(se.interrupts) /\ j \in Ids /\ j # i /\ req[j] \in Requests
         /\ req[j].st = "live" /\ req[j].op = "interrupt" /\ req[j].func = None /\ req[j].ctr = 1
<1>1. SessType /\ RefInv
  BY DEF SessInv
<1>2. j \in ToSet(se.interrupts)
  BY <1>1, Listed
<1>3. j \in Ids /\ req[j].st = "live" /\ req[j].op = "interrupt"
  BY <1>1, <1>2, Listed
<1>4. j # i /\ req[j] \in Requests
  BY <1>1, <1>2, <1>3, EntersFacts, IdFacts
<1>5. req[j].func = None
  <2>1. j \notin se.list
    BY <1>1, <1>3, Listed
  <2> QED BY <1>1, <1>3, <2>1, FuncHeld
<1>6. Cardinality(Interrupters(j)) = 0
  BY <1>1, <1>3, NotInterrupted
<1>7. Kept(j) /\ Counted(j)
  BY <1>1, <1>2, <1>3 DEF Kept, RefInv, Counts
<1> QED BY <1>2, <1>3, <1>4, <1>5, <1>6, <1>7 DEF Counted

(* The lists of the session when interrupt k leaves.                       *)
LEMMA ListLeft ==
  ASSUME SessInv, NEW i \in Nat, NEW k \in DOMAIN se.interrupts,
         se' = [se EXCEPT !.list = @ \cup {i}, !.interrupts = RemoveAt(@, k)],
         \A l \in DOMAIN se.interrupts : l # k => req[se.interrupts[l]].target # req[i].uq
  PROVE  /\ se' \in SessionType /\ se'.list = se.list \cup {i} /\ se'.held = se.held
         /\ ToSet(se'.interrupts) = ToSet(se.interrupts) \ {se.interrupts[k]}
         /\ \A l \in DOMAIN se'.interrupts : req[se'.interrupts[l]].target # req[i].uq
         /\ \A a, b \in DOMAIN se'.interrupts : se'.interrupts[a] = se'.interrupts[b] => a = b
<1>1. SessType /\ RefInv
  BY DEF SessInv
<1>2. PICK s : s = RemoveAt(se.interrupts, k)
  OBVIOUS
<1>3. /\ s \in Seq(Nat) /\ ToSet(s) = ToSet(se.interrupts) \ {se.interrupts[k]}
      /\ \A a, b \in DOMAIN s : s[a] = s[b] => a = b
      /\ \A a \in DOMAIN s : \E b \in DOMAIN se.interrupts : b # k /\ s[a] = se.interrupts[b]
  BY <1>1, <1>2, TakenOut
<1>4. se' = [se EXCEPT !.list = @ \cup {i}, !.interrupts = s]
  BY <1>2
<1>5. /\ se' \in SessionType /\ se'.list = se.list \cup {i} /\ se'.interrupts = s
      /\ se'.held = se.held
  BY <1>1, <1>3, <1>4, SessionEntered
<1>6. \A l \in DOMAIN s : req[s[l]].target # req[i].uq
  BY <1>3
<1> QED BY <1>3, <1>5, <1>6

(* Its own interrupt waited for the request.                               *)
EntersFound(t, i, f, k) ==
  /\ k \in DOMAIN se.interrupts /\ req[se.interrupts[k]].target = req[i].uq
  /\ req' = [[req EXCEPT ![i] = f] EXCEPT ![se.interrupts[k]].st = "freed",
                                          ![se.interrupts[k]].ctr = 0]
  /\ chan' = fuse_chan_get(chan, ChannelOf(t))
  /\ se' = [se EXCEPT !.list = @ \cup {i}, !.interrupts = RemoveAt(@, k)]

LEMMA EnterFound ==
  ASSUME SessInv, NEW t \in Threads, NEW i, NEW q, Enters(t, i, q),
         NEW f, NewRequest(t, i, f), NEW k, EntersFound(t, i, f, k)
  PROVE  SessInv'
<1>1. SessType /\ RefInv /\ req \in Seq(Requests) /\ k \in DOMAIN se.interrupts
  BY DEF SessInv, SessType, EntersFound
<1>2. i \in Ids /\ i \in Nat /\ f \in Requests /\ SameName(req[i], f)
  BY EntersFacts DEF NewRequest
<1>3. PICK j : j = se.interrupts[k]
  OBVIOUS
<1>4. /\ j \in ToSet(se.interrupts) /\ j \in Ids /\ j # i /\ req[j] \in Requests
      /\ req[j].func = None
  BY <1>1, <1>3, OldInterrupt
<1>5. PICK n \in Int, z \in {"queued", "read", "live", "freed"} : n = 0 /\ z = "freed"
  OBVIOUS
<1> DEFINE g == [req[j] EXCEPT !.st = z, !.ctr = n]
<1>6. g \in Requests /\ SameName(req[j], g) /\ g.st = "freed" /\ g.func = req[j].func /\ g.ch = req[j].ch
  BY <1>4, <1>5 DEF Requests, SameName
<1>7. req' = [[req EXCEPT ![i] = f] EXCEPT ![j] = g]
  <2>1. PICK rs : rs = [req EXCEPT ![i] = f]
    OBVIOUS
  <2>2. rs[j] = req[j] /\ j \in DOMAIN rs
    BY <1>1, <1>2, <1>4, <2>1 DEF Ids
  <2>3. req' = [rs EXCEPT ![j].st = z, ![j].ctr = n]
    BY <1>3, <1>5, <2>1 DEF EntersFound
  <2>4. req' = [rs EXCEPT ![j] = g]
    BY <1>4, <2>2, <2>3 DEF Requests
  <2> QED BY <2>1, <2>4
<1> HIDE DEF g
<1>8. /\ req' \in Seq(Requests) /\ Ids' = Ids /\ req'[i] = f /\ req'[j] = g
      /\ \A l \in Ids : l # i /\ l # j => req'[l] = req[l]
  BY <1>1, <1>2, <1>4, <1>6, <1>7 DEF Ids
<1>9. Frame(req, req', {i} \cup {j})
  BY <1>1, <1>2, <1>4, <1>6, <1>8, TwoChanged
<1>10. /\ se' \in SessionType /\ se'.list = se.list \cup {i} /\ se'.held = se.held
       /\ ToSet(se'.interrupts) = ToSet(se.interrupts) \ {j}
       /\ \A l \in DOMAIN se'.interrupts : req[se'.interrupts[l]].target # req[i].uq
       /\ \A a, b \in DOMAIN se'.interrupts : se'.interrupts[a] = se'.interrupts[b] => a = b
  <2>1. \A l \in DOMAIN se.interrupts : l # k => req[se.interrupts[l]].target # req[i].uq
    BY <1>1 DEF RefInv, Lists, EntersFound
  <2>2. se' = [se EXCEPT !.list = @ \cup {i}, !.interrupts = RemoveAt(@, k)]
    BY DEF EntersFound
  <2> QED BY <1>1, <1>2, <1>3, <2>1, <2>2, ListLeft
<1>11. Entered(i, {j})
  <2>1. /\ req'[i].func = req[i].func /\ req'[i].st = "live" /\ req'[i].ctr = 1
        /\ \A l \in {j} : req'[l].st = "freed" /\ req'[l].func = None
    BY <1>4, <1>6, <1>8 DEF NewRequest
  <2>2. {j} \subseteq ToSet(se.interrupts)
    BY <1>4
  <2> QED BY <1>9, <1>10, <2>1, <2>2 DEF Entered
<1>12. /\ req'[i].ch = ChannelOf(t) /\ chan' = fuse_chan_get(chan, ChannelOf(t))
       /\ \A l \in {j} : l \in Ids => req'[l].ch = req[l].ch
  BY <1>6, <1>8 DEF NewRequest, EntersFound
<1> QED BY <1>8, <1>11, <1>12, EnterStep

(* One request gets a channel and another gives its own back.              *)
LEMMA ChannelsExchanged ==
  ASSUME SessType, Channels, NEW i \in Ids, NEW j \in Ids, i # j, req[i].ch = None,
         NEW c \in Workers \cup {None},
         \A l \in Ids : l \in Ids' /\ (l # i /\ l # j => req'[l].ch = req[l].ch),
         \A l \in Ids' : l \notin Ids => req'[l].ch = None,
         req'[i].ch = c, req'[i].st \notin {"queued", "read"}, req'[j].ch = None,
         NEW h, h = fuse_chan_get(chan, c), chan' = fuse_chan_put(h, req[j].ch),
         \A l \in Ids : req'[l].st \in {"queued", "read"} =>
                          req[l].st \in {"queued", "read"} \/ req'[l].ch = None,
         \A w \in Workers : Idle(w)' <=> Idle(w), conf' = conf
  PROVE  Channels' /\ chan' \in [Workers -> Int]
<1>1. chan \in [Workers -> Int] /\ req[j].ch \in Workers \cup {None} /\ None \notin Workers
  BY IdFacts, Fields, ThreadFacts DEF SessType, Threads
<1>2. h \in [Workers -> Int] /\ \A w \in Workers : h[w] = chan[w] + (IF w = c THEN 1 ELSE 0)
  BY <1>1 DEF fuse_chan_get
<1>5. chan' \in [Workers -> Int]
      /\ \A w \in Workers : chan'[w] = h[w] - (IF w = req[j].ch THEN 1 ELSE 0)
  <2>1. CASE req[j].ch = None
    <3>1. chan' = h
      BY <2>1 DEF fuse_chan_put
    <3>2. \A w \in Workers : w # req[j].ch /\ h[w] - 0 = h[w]
      BY <1>1, <1>2, <2>1
    <3> QED BY <1>2, <3>1, <3>2
  <2>2. CASE req[j].ch # None
    <3>1. chan' = [h EXCEPT ![req[j].ch] = h[req[j].ch] - 1]
      BY <2>2 DEF fuse_chan_put
    <3>2. req[j].ch \in Workers
      BY <1>1, <2>2
    <3> QED BY <1>2, <3>1, <3>2
  <2> QED BY <2>1, <2>2
<1>6. \A l \in Ids' : req'[l].st \in {"queued", "read"} => req'[l].ch = None
  BY DEF Channels
<1>7. ASSUME conf.clone_fd, NEW w \in Workers
      PROVE  chan'[w] = (IF Idle(w)' THEN 0 ELSE 1) + Cardinality(ReadFrom(w)')
  <2>1. IsFiniteSet(ReadFrom(w)) /\ Cardinality(ReadFrom(w)) \in Nat
    BY ReadersFinite
  <2>2. chan[w] = (IF Idle(w) THEN 0 ELSE 1) + Cardinality(ReadFrom(w))
    BY <1>7 DEF Channels
  <2>3. PICK S : S = IF w = req[j].ch THEN ReadFrom(w) \ {j} ELSE ReadFrom(w)
    OBVIOUS
  <2>4. /\ IsFiniteSet(S) /\ i \notin S
        /\ Cardinality(S) = Cardinality(ReadFrom(w)) - (IF w = req[j].ch THEN 1 ELSE 0)
    <3>1. i \notin S
      BY <1>1, <2>3 DEF ReadFrom
    <3>2. CASE w = req[j].ch
      <4>1. j \in ReadFrom(w)
        BY <3>2 DEF ReadFrom
      <4>2. IsFiniteSet(ReadFrom(w) \ {j}) /\ Cardinality(ReadFrom(w) \ {j}) = Cardinality(ReadFrom(w)) - 1
        BY <2>1, <4>1, FS_RemoveElement
      <4> QED BY <2>3, <3>1, <3>2, <4>2
    <3>3. CASE w # req[j].ch
      BY <2>1, <2>3, <3>1, <3>3
    <3> QED BY <3>2, <3>3
  <2>5. ReadFrom(w)' = IF w = c THEN S \cup {i} ELSE S
    <3>1. \A l \in Ids' : l \in Ids \/ req'[l].ch = None
      OBVIOUS
    <3>2. \A l : l \in S <=> l \in Ids /\ l # j /\ l # i /\ req[l].ch = w
      BY <1>1, <2>3 DEF ReadFrom
    <3>3. \A l : l \in ReadFrom(w)' <=> l \in Ids /\ req'[l].ch = w
      BY <1>1, <3>1 DEF ReadFrom
    <3>4. \A l \in Ids : req'[l].ch = w <=> ((l # i /\ l # j /\ req[l].ch = w) \/ (l = i /\ w = c))
      BY <1>1
    <3>5. ASSUME NEW l PROVE l \in ReadFrom(w)' <=> (l \in S \/ (l = i /\ w = c))
      BY <3>2, <3>3, <3>4
    <3>6. CASE w = c
      BY <3>5, <3>6
    <3>7. CASE w # c
      BY <3>5, <3>7
    <3> QED BY <3>6, <3>7
  <2>6. Cardinality(ReadFrom(w)') = Cardinality(S) + (IF w = c THEN 1 ELSE 0)
    <3>1. CASE w = c
      <4>1. Cardinality(S \cup {i}) = Cardinality(S) + 1
        BY <2>4, FS_AddElement
      <4> QED BY <2>5, <3>1, <4>1
    <3>2. CASE w # c
      <4>1. Cardinality(S) \in Nat
        BY <2>4, FS_CardinalityType
      <4> QED BY <2>5, <3>2, <4>1
    <3> QED BY <3>1, <3>2
  <2>7. chan'[w] = chan[w] + (IF w = c THEN 1 ELSE 0) - (IF w = req[j].ch THEN 1 ELSE 0)
    <3>1. h[w] = chan[w] + (IF w = c THEN 1 ELSE 0)
      BY <1>2
    <3>2. chan'[w] = h[w] - (IF w = req[j].ch THEN 1 ELSE 0)
      BY <1>5
    <3>3. chan[w] \in Int
      BY <1>1
    <3> QED BY <3>1, <3>2, <3>3
  <2>8. Idle(w)' <=> Idle(w)
    OBVIOUS
  <2>9. chan[w] \in Int
    BY <1>1
  <2> QED BY <2>1, <2>2, <2>4, <2>6, <2>7, <2>8, <2>9
<1>8. \A w \in Workers : Cardinality(ReadFrom(w))' = Cardinality(ReadFrom(w)')
  OBVIOUS
<1> QED BY <1>5, <1>6, <1>7, <1>8 DEF Channels

(* The oldest interrupt is sent back, and its request freed.               *)
EntersBack(t, i, f, k) ==
  /\ k \in DOMAIN se.interrupts
  /\ \A l \in DOMAIN se.interrupts : req[se.interrupts[l]].target # req[i].uq
  /\ req' = fuse_free_req(fuse_send_msg([req EXCEPT ![i] = f], se.interrupts[k]), se.interrupts[k])
  /\ chan' = fuse_chan_put(fuse_chan_get(chan, ChannelOf(t)), req[se.interrupts[k]].ch)
  /\ se' = [se EXCEPT !.list = @ \cup {i}, !.interrupts = RemoveAt(@, k)]

LEMMA EnterBack ==
  ASSUME SessInv, NEW t \in Threads, NEW i, NEW q, Enters(t, i, q),
         NEW f, NewRequest(t, i, f), NEW k, EntersBack(t, i, f, k)
  PROVE  SessInv'
<1>1. SessType /\ RefInv /\ Channels /\ Pool /\ req \in Seq(Requests) /\ k \in DOMAIN se.interrupts
  BY DEF SessInv, SessType, EntersBack
<1>2. i \in Ids /\ i \in Nat /\ f \in Requests /\ SameName(req[i], f) /\ req[i].ch = None
  BY EntersFacts DEF NewRequest
<1>3. PICK j : j = se.interrupts[k]
  OBVIOUS
<1>4. /\ j \in ToSet(se.interrupts) /\ j \in Ids /\ j # i /\ req[j] \in Requests
      /\ req[j].func = None /\ req[j].ctr = 1
  BY <1>1, <1>3, OldInterrupt
<1>5. PICK rs : rs = [req EXCEPT ![i] = f]
  OBVIOUS
<1>6. /\ rs \in Seq(Requests) /\ DOMAIN rs = Ids /\ rs[i] = f
      /\ \A l \in Ids : l # i => rs[l] = req[l]
  BY <1>1, <1>2, <1>5, Changed DEF Ids
<1>7. PICK qs : qs = fuse_send_msg(rs, j)
  OBVIOUS
<1>8. Frame(rs, qs, {})
  BY <1>4, <1>6, <1>7, FrameSent
<1>9. /\ qs \in Seq(Requests) /\ Ids \subseteq DOMAIN qs
      /\ \A l \in Ids : SameReq(rs[l], qs[l])
      /\ \A l \in DOMAIN qs : l \notin Ids => Unread(qs[l])
  BY <1>6, <1>8 DEF Frame
<1>10. PICK g : g = [drop_ref(qs[j]) EXCEPT !.func = None, !.ch = None]
  OBVIOUS
<1>11. qs[j] \in Requests /\ j \in DOMAIN qs
  BY <1>4, <1>9
<1>12. /\ g \in Requests /\ SameName(qs[j], g) /\ g.func = None /\ g.ch = None
       /\ g.st = (IF qs[j].ctr = 1 THEN "freed" ELSE qs[j].st)
  BY <1>10, <1>11, FreedReq
<1>13. SameName(req[j], g) /\ g.st = "freed"
  <2>1. SameReq(req[j], qs[j])
    BY <1>4, <1>6, <1>9
  <2> QED BY <1>4, <1>12, <2>1 DEF SameReq, SameName
<1>14. req' = [qs EXCEPT ![j] = g]
  BY <1>3, <1>5, <1>7, <1>10 DEF EntersBack, fuse_free_req
<1>15. /\ req' \in Seq(Requests) /\ DOMAIN req' = DOMAIN qs /\ req'[j] = g
       /\ \A l \in DOMAIN qs : l # j => req'[l] = qs[l]
  BY <1>9, <1>11, <1>12, <1>14, Changed
<1>16. SameReq(f, req'[i])
  BY <1>2, <1>4, <1>6, <1>9, <1>15
<1>17. \A l \in Ids : l # i /\ l # j => SameReq(req[l], req'[l])
  BY <1>6, <1>9, <1>15
<1>18. \A l \in Ids' : l \notin Ids => Unread(req'[l])
  BY <1>4, <1>9, <1>15 DEF Ids
<1>19. Frame(req, req', {i} \cup {j})
  <2>1. \A l \in Ids : SameName(req[l], req'[l])
    BY <1>2, <1>13, <1>15, <1>16, <1>17 DEF SameReq, SameName
  <2>2. DOMAIN req \subseteq DOMAIN req'
    BY <1>9, <1>15 DEF Ids
  <2> QED BY <1>15, <1>17, <1>18, <2>1, <2>2 DEF Frame, Ids
<1>20. /\ se' \in SessionType /\ se'.list = se.list \cup {i} /\ se'.held = se.held
       /\ ToSet(se'.interrupts) = ToSet(se.interrupts) \ {j}
       /\ \A l \in DOMAIN se'.interrupts : req[se'.interrupts[l]].target # req[i].uq
       /\ \A a, b \in DOMAIN se'.interrupts : se'.interrupts[a] = se'.interrupts[b] => a = b
  <2>1. \A l \in DOMAIN se.interrupts : l # k => req[se.interrupts[l]].target # req[i].uq
    BY DEF EntersBack
  <2>2. se' = [se EXCEPT !.list = @ \cup {i}, !.interrupts = RemoveAt(@, k)]
    BY DEF EntersBack
  <2> QED BY <1>1, <1>2, <1>3, <2>1, <2>2, ListLeft
<1>21. req'[i].func = req[i].func /\ req'[i].st = "live" /\ req'[i].ctr = 1 /\ req'[i].ch = ChannelOf(t)
  BY <1>16 DEF NewRequest, SameReq
<1>22. Entered(i, {j})
  <2>1. \A l \in {j} : req'[l].st = "freed" /\ req'[l].func = None
    BY <1>12, <1>13, <1>15
  <2>2. {j} \subseteq ToSet(se.interrupts)
    BY <1>4
  <2> QED BY <1>19, <1>20, <1>21, <2>1, <2>2 DEF Entered
<1>23. RefInv'
  BY <1>22, EnteredRefs
<1>24. /\ thr' \in [Threads -> ThreadType] /\ Others(t) /\ thr'[t].pc = q /\ q \in KeepPcs
  BY EntersFacts
<1>25. thr[t].pc = "work" /\ UNCHANGED <<conf, mt, kern>>
  BY DEF Enters
<1>26. Placed(t)
  BY <1>1, <1>24, <1>25, RequestPlaced
<1>27. \A w \in Workers : Idle(w)' <=> Idle(w)
  BY <1>24, <1>26, PlacedIdle
<1>28. Channels' /\ chan' \in [Workers -> Int]
  <2>1. PICK c \in Workers \cup {None} : c = ChannelOf(t)
    BY DEF ChannelOf
  <2>2. PICK h : h = fuse_chan_get(chan, c)
    OBVIOUS
  <2>3. chan' = fuse_chan_put(h, req[j].ch)
    BY <1>3, <2>1, <2>2 DEF EntersBack
  <2>4. /\ \A l \in Ids : l \in Ids' /\ (l # i /\ l # j => req'[l].ch = req[l].ch)
        /\ \A l \in Ids' : l \notin Ids => req'[l].ch = None
        /\ req'[j].ch = None /\ req'[i].ch = c /\ req'[i].st \notin {"queued", "read"}
    BY <1>9, <1>12, <1>15, <1>17, <1>18, <1>21, <2>1 DEF SameReq, Unread, Ids
  <2>5. \A l \in Ids : req'[l].st \in {"queued", "read"} =>
                          req[l].st \in {"queued", "read"} \/ req'[l].ch = None
    BY <1>13, <1>15, <1>17, <1>21 DEF SameReq
  <2> QED BY <1>1, <1>2, <1>4, <1>25, <1>27, <2>2, <2>3, <2>4, <2>5, ChannelsExchanged
<1> QED BY <1>15, <1>20, <1>23, <1>24, <1>25, <1>26, <1>28, ChannelStep

(* fuse_session_process_buf_int up to the call of the function of the      *)
(* table.                                                                  *)
LEMMA ProcessBufKeeps ==
  ASSUME SessInv, NEW t \in Threads, fuse_session_process_buf(t)
  PROVE  SessInv'
<1> DEFINE i == thr[t].u
           r == fuse_ll_alloc_req(req[i], ChannelOf(t))
           err == Refused([got_init |-> se.got_init, cuse |-> FALSE, deny_others |-> conf.deny_others],
                          r.op, r.uid)
           ci == check_interrupt(req, r.uq)
           how == fuse_ll_ops(conf.ops, [short |-> FALSE, flock |-> FALSE, dir |-> FALSE, cap |-> TRUE])[r.op]
           got == fuse_chan_get(chan, r.ch)
           rs == [req EXCEPT ![i] = [r EXCEPT !.interrupted = ci.found # {}]]
           k == CHOOSE k \in ci.found \cup ci.back : TRUE
           intr == se.interrupts[k]
<1>0. /\ thr[t].pc = "work" /\ UNCHANGED <<conf, mt, kern>>
      /\ \/ /\ req' = [req EXCEPT ![i].st = "freed", ![i].replies = @ + 1]
            /\ Goto(t, "done") /\ UNCHANGED <<se, chan>>
         \/ SetReq(i, r) /\ chan' = got /\ Goto(t, "reply") /\ UNCHANGED se
         \/ /\ err = "no" /\ r.op # "interrupt"
            /\ req' = CASE ci.found # {} -> [rs EXCEPT ![intr].st = "freed", ![intr].ctr = 0]
                        [] ci.back # {} -> fuse_free_req(fuse_send_msg(rs, intr), intr)
                        [] OTHER -> rs
            /\ chan' = IF ci.back # {} THEN fuse_chan_put(got, req[intr].ch) ELSE got
            /\ se' = [se EXCEPT !.list = list_add_req(@, i),
                                !.interrupts = IF ci.found \cup ci.back = {} THEN @ ELSE RemoveAt(@, k)]
            /\ Goto(t, AfterDispatch(t, r.op, how))
  BY Zenon DEF fuse_session_process_buf, At
<1>1. SessType /\ RefInv /\ se \in SessionType /\ req \in Seq(Requests)
  BY DEF SessInv, SessType
<1>2. i = thr[t].u
  OBVIOUS
<1>3. thr[t].pc = "work" /\ UNCHANGED <<conf, mt, kern>>
  BY <1>0
<1>4. i \in Ids /\ i \in Nat /\ req[i] \in Requests /\ req[i].func = None /\ req[i].ch = None
  BY <1>1, <1>3, WorkFacts, IdFacts
<1>5. r = fuse_ll_alloc_req(req[i], ChannelOf(t))
  BY Zenon
<1>51. err = Refused([got_init |-> se.got_init, cuse |-> FALSE, deny_others |-> conf.deny_others], r.op, r.uid)
  BY Zenon
<1>52. ci = check_interrupt(req, r.uq) /\ k = (CHOOSE l \in ci.found \cup ci.back : TRUE)
  BY Zenon
<1>53. how = fuse_ll_ops(conf.ops, [short |-> FALSE, flock |-> FALSE, dir |-> FALSE, cap |-> TRUE])[r.op]
  BY Zenon
<1>54. got = fuse_chan_get(chan, r.ch) /\ intr = se.interrupts[k]
       /\ rs = [req EXCEPT ![i] = [r EXCEPT !.interrupted = ci.found # {}]]
  BY Zenon
<1> HIDE DEF i, r, err, ci, how, got, rs, k, intr
<1>6. /\ r \in Requests /\ SameName(req[i], r) /\ r.st = "live" /\ r.ctr = 1
      /\ r.func = req[i].func /\ r.ch = ChannelOf(t)
  BY <1>1, <1>4, <1>5, AllocatedReq
<1>7. r.op = req[i].op /\ r.uq = req[i].uq
  BY <1>6 DEF SameName
<1>8. CASE /\ req' = [req EXCEPT ![i].st = "freed", ![i].replies = @ + 1]
           /\ Goto(t, "done") /\ UNCHANGED <<se, chan>>
  <2>1. thr' \in [Threads -> ThreadType] /\ Moved(t, "done")
    BY <1>1, <1>8, KeepPcsFacts, Went
  <2>2. Others(t) /\ thr'[t].pc = "done" /\ thr'[t].u = thr[t].u
    BY <2>1 DEF Moved, Others
  <2>3. PICK n \in Nat, z \in {"queued", "read", "live", "freed"} : n = req[i].replies + 1 /\ z = "freed"
    BY <1>4 DEF Requests
  <2> DEFINE g == [req[i] EXCEPT !.st = z, !.replies = n]
  <2>4. g \in Requests /\ SameName(req[i], g) /\ g.st = "freed" /\ g.func = req[i].func /\ g.ch = req[i].ch
    BY <1>4, <2>3 DEF Requests, SameName
  <2>5. req' = [req EXCEPT ![i] = g]
    BY <1>1, <1>4, <1>8, <2>3 DEF Ids, Requests
  <2> HIDE DEF g
  <2>6. Frame(req, req', {i}) /\ req'[i] = g /\ Ids' = Ids
    BY <1>1, <1>4, <2>4, <2>5, FrameOne
  <2>7. SameLists /\ se' \in SessionType
    BY <1>1, <1>8 DEF SameLists
  <2>8. RefInv'
    BY <1>1, <1>2, <1>3, <2>2, <2>4, <2>6, <2>7, FreshKeeps
  <2>9. SameChannels
    BY <1>1, <2>4, <2>6, FrameChannels
  <2>10. req' \in Seq(Requests)
    BY <2>6 DEF Frame
  <2> QED BY <1>3, <1>8, <2>1, <2>2, <2>7, <2>8, <2>9, <2>10, OneStep
<1>9. CASE SetReq(i, r) /\ chan' = got /\ Goto(t, "reply") /\ UNCHANGED se
  <2>1. "reply" \in Pcs /\ "reply" \in KeepPcs
    BY DEF Pcs, InHand, KeepPcs, OwnPcs
  <2>2. thr' \in [Threads -> ThreadType] /\ Moved(t, "reply")
    BY <1>1, <1>9, <2>1, Went
  <2>3. Others(t) /\ thr'[t].pc = "reply" /\ thr'[t].u = thr[t].u
    BY <2>2 DEF Moved, Others
  <2>4. Frame(req, req', {i}) /\ req'[i] = r /\ Ids' = Ids
    BY <1>1, <1>4, <1>6, <1>9, FrameOne DEF SetReq
  <2>5. SameLists /\ se' \in SessionType
    BY <1>1, <1>9 DEF SameLists
  <2>6. RefInv'
    BY <1>1, <1>2, <1>3, <1>6, <2>3, <2>4, <2>5, FreshKeeps
  <2>7. /\ req' \in Seq(Requests)
        /\ \A l \in Ids : l # i => /\ req'[l].ch = req[l].ch
                                   /\ req'[l].st \in {"queued", "read"} => req[l].st \in {"queued", "read"}
    BY <2>4 DEF Frame, SameReq, Ids
  <2>8. /\ req'[i].ch = ChannelOf(t) /\ req'[i].st \notin {"queued", "read"}
        /\ chan' = fuse_chan_get(chan, ChannelOf(t))
    BY <1>6, <1>9, <1>54, <2>4
  <2> QED BY <1>2, <1>3, <2>1, <2>2, <2>3, <2>4, <2>5, <2>6, <2>7, <2>8, AllocStep
<1>10. CASE /\ err = "no" /\ r.op # "interrupt"
            /\ req' = CASE ci.found # {} -> [rs EXCEPT ![intr].st = "freed", ![intr].ctr = 0]
                        [] ci.back # {} -> fuse_free_req(fuse_send_msg(rs, intr), intr)
                        [] OTHER -> rs
            /\ chan' = IF ci.back # {} THEN fuse_chan_put(got, req[intr].ch) ELSE got
            /\ se' = [se EXCEPT !.list = list_add_req(@, i),
                                !.interrupts = IF ci.found \cup ci.back = {} THEN @ ELSE RemoveAt(@, k)]
            /\ Goto(t, AfterDispatch(t, r.op, how))
  <2>1. PICK q : q = AfterDispatch(t, r.op, how)
    OBVIOUS
  <2>2. r.op \in fuse_opcode \ {"lseek", "interrupt"}
    <3>1. r.op \in fuse_opcode
      BY <1>6, Fields
    <3>2. r.op # "lseek"
      BY <1>10, <1>51 DEF Refused
    <3> QED BY <1>10, <3>1, <3>2
  <2>3. /\ q \in {"prep", "run", "reply", "free", "init", "destroy", "notify_reply"}
        /\ q = "prep" => conf.intr /\ r.op \notin NoAnswer
    BY <1>53, <2>1, <2>2, Dispatched
  <2>4. Enters(t, i, q)
    BY <1>2, <1>3, <1>7, <1>10, <2>1, <2>3 DEF Enters
  <2>5. PICK b \in BOOLEAN : b = (ci.found # {})
    OBVIOUS
  <2>6. PICK f : f = [fuse_ll_alloc_req(req[i], ChannelOf(t)) EXCEPT !.interrupted = b]
    OBVIOUS
  <2>7. NewRequest(t, i, f)
    <3>1. f = [r EXCEPT !.interrupted = b] /\ r \in Requests
      BY <1>5, <1>6, <2>6
    <3>2. f \in Requests /\ SameName(r, f) /\ f.st = r.st /\ f.ctr = r.ctr /\ f.func = r.func /\ f.ch = r.ch
      BY <3>1 DEF Requests, SameName
    <3> QED BY <1>6, <3>2 DEF NewRequest, SameName
  <2>8. rs = [req EXCEPT ![i] = f]
    BY <1>5, <1>54, <2>5, <2>6
  <2>9. \/ /\ ci.found = {k} /\ ci.back = {} /\ k \in DOMAIN se.interrupts
           /\ req[se.interrupts[k]].target = r.uq
        \/ /\ ci.found = {} /\ ci.back = {k} /\ k \in DOMAIN se.interrupts
           /\ \A l \in DOMAIN se.interrupts : req[se.interrupts[l]].target # r.uq
        \/ ci.found = {} /\ ci.back = {} /\ se.interrupts = << >>
    <3>1. CheckedFor(r.uq, ci, k)
      BY <1>1, <1>52, Checked, Zenon
    <3> QED BY <3>1 DEF CheckedFor
  <2>10. CASE /\ ci.found = {k} /\ ci.back = {} /\ k \in DOMAIN se.interrupts
              /\ req[se.interrupts[k]].target = r.uq
    <3>1. EntersFound(t, i, f, k)
      BY <1>6, <1>7, <1>10, <1>54, <2>8, <2>10, Zenon DEF EntersFound, list_add_req
    <3> QED BY <2>4, <2>7, <3>1, EnterFound
  <2>11. CASE /\ ci.found = {} /\ ci.back = {k} /\ k \in DOMAIN se.interrupts
              /\ \A l \in DOMAIN se.interrupts : req[se.interrupts[l]].target # r.uq
    <3>1. EntersBack(t, i, f, k)
      BY <1>6, <1>7, <1>10, <1>54, <2>8, <2>11, Zenon DEF EntersBack, list_add_req
    <3> QED BY <2>4, <2>7, <3>1, EnterBack
  <2>12. CASE ci.found = {} /\ ci.back = {} /\ se.interrupts = << >>
    <3>1. EntersPlain(t, i, f)
      BY <1>1, <1>6, <1>10, <1>54, <2>8, <2>12, Zenon DEF EntersPlain, list_add_req
    <3> QED BY <2>4, <2>7, <3>1, EnterPlain
  <2> QED BY <2>9, <2>10, <2>11, <2>12
<1> QED BY <1>0, <1>8, <1>9, <1>10

-----------------------------------------------------------------------------
(* Workers start and leave.                                                *)

(* A step in which threads change no request. *)
LEMMA OnlyThreads ==
  ASSUME SessInv, conf' = conf, req' = req, se' = se, \A s \in Threads : Quiet(s)
  PROVE  /\ RefInv'
         /\ \A i \in Ids' : req'[i].st \in {"queued", "read"} => req'[i].ch = None
         /\ \A w \in Workers : ReadFrom(w)' = ReadFrom(w)
<1>1. SessType /\ RefInv /\ Channels
  BY DEF SessInv
<1>2. Frame(req, req', {}) /\ SameLists
  BY <1>1, FrameSame DEF SameLists
<1>3. RefInv'
  BY <1>1, <1>2, QuietKeeps
<1> QED BY <1>1, <1>3 DEF Channels, ReadFrom, Ids

(* A worker w starts in a step of t, which goes to q. *)
Starts(t, q, w) ==
  /\ UNCHANGED <<conf, req, se, kern>>
  /\ w \in Workers /\ w # t /\ thr[w].pc = "none" /\ chan[w] = 0
  /\ mt'.list = Append(mt.list, w)
  /\ chan' = IF conf.clone_fd THEN [chan EXCEPT ![w] = 1] ELSE chan
  /\ thr'[w].pc = "check" /\ thr'[t].pc = q /\ thr'[t].u = thr[t].u
  /\ \A s \in Threads : s # t /\ s # w => Still(s)
LEMMA StartsKeeps ==
  ASSUME SessInv, NEW t \in Threads, NEW q, NEW w, Starts(t, q, w),
         thr' \in [Threads -> ThreadType], mt' \in PoolType,
         \/ thr[t].pc = "got" /\ q = "work"
         \/ thr[t].pc = "start" /\ t = Main /\ q = "loop"
  PROVE  SessInv'
<1>1. SessType /\ Pool /\ Channels
  BY DEF SessInv
<1>2. /\ w \in Workers /\ w # t /\ w # Main /\ w # Fs /\ thr[w].pc = "none" /\ chan[w] = 0
      /\ thr'[w].pc = "check" /\ thr'[t].pc = q
      /\ \A s \in Threads : s # t /\ s # w => thr'[s].pc = thr[s].pc
  BY SessionAssumption DEF Starts, Still
<1>3. \A s \in Threads : Quiet(s)
  BY DEF Starts, Quiet, KeepPcs, OwnPcs, IntrPcs, Holding, FreshPcs
<1>4. /\ RefInv'
      /\ \A i \in Ids' : req'[i].st \in {"queued", "read"} => req'[i].ch = None
      /\ \A v \in Workers : ReadFrom(v)' = ReadFrom(v)
  BY <1>3, OnlyThreads DEF Starts
<1>5. mt.list \in Seq(Workers) /\ mt'.list \in Seq(Workers)
  BY <1>1 DEF SessType, PoolType
<1>6. mt'.list = Append(mt.list, w)
  BY DEF Starts
<1>7. w \notin ToSet(mt.list) /\ \A k \in DOMAIN mt.list : mt.list[k] # w
  <2>1. w \notin ToSet(mt.list)
    BY <1>1, <1>2 DEF Pool, Idle
  <2> QED BY <2>1 DEF ToSet
<1>8. ToSet(mt'.list) = ToSet(mt.list) \cup {w}
  BY <1>5, <1>6 DEF ToSet
<1>9. \A k, l \in DOMAIN mt'.list : mt'.list[k] = mt'.list[l] => k = l
  BY <1>1, <1>5, <1>6, <1>7 DEF Pool
<1>10. \A v \in Workers : Idle(v)' <=> (Idle(v) /\ v # w)
  BY <1>2, ThreadFacts DEF Idle
<1>11. \A v \in Workers : Idle(v)' <=> v \notin ToSet(mt'.list)
  BY <1>1, <1>8, <1>10 DEF Pool
<1>12. thr'[Main].pc \in LoopPcs
  <2>1. CASE t = Main
    BY <1>1, <1>2, <2>1 DEF LoopPcs, Pool
  <2>2. CASE t # Main
    <3>1. thr[t].pc = "got" /\ t \in Workers
      BY <1>1, <2>2 DEF Threads, Pool
    <3>2. t \in ToSet(mt.list)
      BY <1>1, <3>1 DEF Pool, Idle
    <3>3. mt.list # << >>
      BY <3>2 DEF ToSet
    <3> QED BY <1>1, <1>2, <2>2, <3>3, ThreadFacts DEF Pool, LoopPcs
  <2> QED BY <2>1, <2>2
<1>13. thr'[Fs].pc \in FsPcs
  <2>1. t # Fs
    BY <1>1, ThreadFacts DEF Pool
  <2> QED BY <1>1, <1>2, <2>1, ThreadFacts DEF Pool, FsPcs
<1>14. Pool'
  BY <1>9, <1>11, <1>12, <1>13 DEF Pool, LoopPcs, FsPcs
<1>15. chan' \in [Workers -> Int] /\ chan \in [Workers -> Int]
  BY <1>1 DEF SessType, Starts
<1>16. ASSUME conf.clone_fd, NEW v \in Workers
       PROVE  chan'[v] = (IF Idle(v)' THEN 0 ELSE 1) + Cardinality(ReadFrom(v)')
  <2>1. chan[v] = (IF Idle(v) THEN 0 ELSE 1) + Cardinality(ReadFrom(v)) /\ ReadFrom(v)' = ReadFrom(v)
    BY <1>1, <1>4, <1>16 DEF Channels
  <2>2. chan'[v] = IF v = w THEN 1 ELSE chan[v]
    BY <1>15, <1>16 DEF Starts
  <2>3. Cardinality(ReadFrom(v)) \in Nat
    BY <1>1, ReadersFinite
  <2>4. CASE v = w
    <3>1. Idle(v) /\ ~ Idle(v)'
      BY <1>2, <1>10, <2>4 DEF Idle
    <3> QED BY <1>2, <2>1, <2>2, <2>3, <2>4, <3>1
  <2>5. CASE v # w
    BY <1>10, <2>1, <2>2, <2>5
  <2> QED BY <2>4, <2>5
<1>17. Channels'
  <2>1. \A v \in Workers : Cardinality(ReadFrom(v))' = Cardinality(ReadFrom(v)')
    OBVIOUS
  <2> QED BY <1>4, <1>16, <2>1 DEF Channels, Starts
<1>18. SessType'
  BY <1>1, <1>15 DEF SessType, Starts
<1> QED BY <1>4, <1>14, <1>17, <1>18 DEF SessInv

(* A worker w leaves the list. *)
Leaves(w) ==
  /\ UNCHANGED <<conf, req, se, kern>>
  /\ w \in Workers /\ thr[w].pc \in {"done", "ended"} /\ thr'[w].pc = "none"
  /\ ToSet(mt'.list) = ToSet(mt.list) \ {w}
  /\ \A k, l \in DOMAIN mt'.list : mt'.list[k] = mt'.list[l] => k = l
  /\ chan' = fuse_chan_put(chan, ChannelOf(w))
  /\ Others(w)
LEMMA LeavesKeeps ==
  ASSUME SessInv, NEW w, Leaves(w), thr' \in [Threads -> ThreadType], mt' \in PoolType
  PROVE  SessInv'
<1>1. SessType /\ Pool /\ Channels
  BY DEF SessInv
<1>2. /\ w \in Workers /\ w \in Threads /\ w # Main /\ w # Fs /\ w # None
      /\ thr[w].pc \in {"done", "ended"} /\ thr'[w].pc = "none"
      /\ \A s \in Threads : s # w => thr'[s].pc = thr[s].pc
  BY SessionAssumption DEF Leaves, Others, Still, Threads
<1>3. \A s \in Threads : Quiet(s)
  BY <1>2 DEF Leaves, Others, Quiet, KeepPcs, OwnPcs, IntrPcs, Holding, FreshPcs
<1>4. /\ RefInv'
      /\ \A i \in Ids' : req'[i].st \in {"queued", "read"} => req'[i].ch = None
      /\ \A v \in Workers : ReadFrom(v)' = ReadFrom(v)
  BY <1>3, OnlyThreads DEF Leaves
<1>5. \A v \in Workers : Idle(v)' <=> (Idle(v) \/ v = w)
  BY <1>2, ThreadFacts DEF Idle
<1>6. \A v \in Workers : Idle(v)' <=> v \notin ToSet(mt'.list)
  BY <1>1, <1>5 DEF Pool, Leaves
<1>7. mt.list # << >>
  <2>1. w \in ToSet(mt.list)
    BY <1>1, <1>2 DEF Pool, Idle
  <2> QED BY <2>1 DEF ToSet
<1>8. Pool'
  <2>1. /\ thr'[Main].pc \in {"loop", "wait", "cancel", "join"}
        /\ thr'[Fs].pc \in {"none", "send", "reply", "free", "exit", "done"}
    BY <1>1, <1>2, <1>7, ThreadFacts DEF Pool
  <2> QED BY <1>6, <2>1 DEF Pool, Leaves
<1>9. chan \in [Workers -> Int]
  BY <1>1 DEF SessType
<1>10. chan' \in [Workers -> Int]
  BY <1>2, <1>9 DEF Leaves, fuse_chan_put, ChannelOf
<1>11. ASSUME conf.clone_fd, NEW v \in Workers
       PROVE  chan'[v] = (IF Idle(v)' THEN 0 ELSE 1) + Cardinality(ReadFrom(v)')
  <2>1. \A u \in Workers : chan[u] = (IF Idle(u) THEN 0 ELSE 1) + Cardinality(ReadFrom(u))
    BY <1>1, <1>11 DEF Channels
  <2>2. ReadFrom(v)' = ReadFrom(v) /\ Cardinality(ReadFrom(v)) \in Nat /\ Cardinality(ReadFrom(w)) \in Nat
    BY <1>1, <1>2, <1>4, ReadersFinite
  <2>3. ~ Idle(w)
    BY <1>2 DEF Idle
  <2>4. chan[w] > 0
    BY <1>2, <2>1, <2>2, <2>3
  <2>5. chan' = [chan EXCEPT ![w] = @ - 1]
    BY <1>2, <1>11, <2>4 DEF Leaves, fuse_chan_put, ChannelOf
  <2>6. chan'[v] = IF v = w THEN chan[v] - 1 ELSE chan[v]
    BY <1>9, <2>5
  <2>7. CASE v = w
    BY <1>5, <1>9, <2>1, <2>2, <2>3, <2>6, <2>7
  <2>8. CASE v # w
    BY <1>5, <2>1, <2>2, <2>6, <2>8
  <2> QED BY <2>7, <2>8
<1>12. Channels'
  <2>1. \A v \in Workers : Cardinality(ReadFrom(v))' = Cardinality(ReadFrom(v)')
    OBVIOUS
  <2> QED BY <1>4, <1>11, <2>1 DEF Channels, Leaves
<1>13. SessType'
  BY <1>1, <1>10 DEF SessType, Leaves
<1> QED BY <1>4, <1>8, <1>12, <1>13 DEF SessInv

(* fuse_loop_start_thread with a free slot. *)
LEMMA ThreadsStarted ==
  ASSUME SessType, NEW t \in Threads, NEW w \in Threads, w # t, NEW q \in Pcs,
         thr' = [[thr EXCEPT ![w] = [@ EXCEPT !.pc = "check", !.cancelled = FALSE]] EXCEPT ![t].pc = q]
  PROVE  /\ thr' \in [Threads -> ThreadType] /\ thr'[w].pc = "check"
         /\ thr'[t].pc = q /\ thr'[t].u = thr[t].u
         /\ \A s \in Threads : s # t /\ s # w => Still(s)
<1>1. PICK p \in Pcs, b \in BOOLEAN : p = "check" /\ b = FALSE
  BY DEF Pcs
<1>2. thr \in [Threads -> ThreadType] /\ thr[w] \in ThreadType /\ thr[t] \in ThreadType
  BY DEF SessType
<1>3. PICK x : x = [thr[w] EXCEPT !.pc = p, !.cancelled = b]
  OBVIOUS
<1>4. x \in ThreadType /\ x.pc = p
  BY <1>2, <1>3 DEF ThreadType
<1>5. PICK y : y = [thr[t] EXCEPT !.pc = q]
  OBVIOUS
<1>6. y \in ThreadType /\ y.pc = q /\ y.u = thr[t].u
  BY <1>2, <1>5 DEF ThreadType
<1>7. thr' = [[thr EXCEPT ![w] = x] EXCEPT ![t] = y]
  BY <1>1, <1>2, <1>3, <1>5
<1>8. thr' \in [Threads -> ThreadType] /\ thr'[w] = x /\ thr'[t] = y
      /\ \A s \in Threads : s # t /\ s # w => thr'[s] = thr[s]
  BY <1>2, <1>4, <1>6, <1>7
<1> QED BY <1>1, <1>4, <1>6, <1>8 DEF Still

StartThread(t, q, m) ==
  LET s == fuse_loop_start_thread(FreeSlots, m, thr, chan)
  IN mt' = s.m /\ chan' = s.ch /\ thr' = [s.th EXCEPT ![t].pc = q]
LEMMA StartThreadKeeps ==
  ASSUME SessInv, NEW t \in Threads, NEW q \in Pcs, NEW m \in PoolType, m.list = mt.list,
         StartThread(t, q, m), FreeSlots # {}, UNCHANGED <<conf, req, se, kern>>,
         \/ thr[t].pc = "got" /\ q = "work"
         \/ thr[t].pc = "start" /\ t = Main /\ q = "loop"
  PROVE  SessInv'
<1>1. PICK w : w = (CHOOSE v \in FreeSlots : TRUE)
  OBVIOUS
<1>2. w \in Workers /\ thr[w].pc = "none" /\ chan[w] = 0
  BY <1>1 DEF FreeSlots, Idle
<1>3. w \in Threads /\ w # t
  BY <1>2, ThreadFacts
<1>4. /\ mt' = [m EXCEPT !.list = Append(@, w), !.numavail = @ + 1, !.numworker = @ + 1]
      /\ thr' = [[thr EXCEPT ![w] = [@ EXCEPT !.pc = "check", !.cancelled = FALSE]] EXCEPT ![t].pc = q]
      /\ chan' = IF conf.clone_fd THEN [chan EXCEPT ![w] = 1] ELSE chan
  BY <1>1, Zenon DEF StartThread, fuse_loop_start_thread
<1>5. /\ thr' \in [Threads -> ThreadType] /\ thr'[w].pc = "check"
      /\ thr'[t].pc = q /\ thr'[t].u = thr[t].u
      /\ \A s \in Threads : s # t /\ s # w => Still(s)
  BY <1>3, <1>4, ThreadsStarted, Zenon DEF SessInv
<1>6. mt' \in PoolType /\ mt'.list = Append(mt.list, w)
  <2>1. m.list \in Seq(Workers) /\ m.numavail \in Int /\ m.numworker \in Int
    BY DEF PoolType
  <2>11. \A z \in Seq(Workers), v \in Workers : Append(z, v) \in Seq(Workers)
    OBVIOUS
  <2>12. Append(m.list, w) \in Seq(Workers)
    BY <1>2, <2>1, <2>11, Zenon
  <2>13. m.numavail + 1 \in Int /\ m.numworker + 1 \in Int
    BY <2>1
  <2>2. PICK l \in Seq(Workers), a \in Int, n \in Int :
          l = Append(m.list, w) /\ a = m.numavail + 1 /\ n = m.numworker + 1
    BY <2>12, <2>13, Zenon
  <2>3. mt' = [m EXCEPT !.list = l, !.numavail = a, !.numworker = n]
    BY <1>4, <2>2
  <2> HIDE DEF StartThread
  <2>4. mt' \in PoolType /\ mt'.list = l
    BY <2>3 DEF PoolType
  <2> QED BY <2>2, <2>4
<1>7. Starts(t, q, w)
  BY <1>2, <1>3, <1>4, <1>5, <1>6, Zenon DEF Starts
<1> QED BY <1>5, <1>6, <1>7, StartsKeeps

(* The loop begins: one thread that reads, or a first worker.              *)
LEMMA LoopStartKeeps ==
  ASSUME SessInv, LoopStart
  PROVE  SessInv'
<1>1. /\ SessType /\ Pool /\ thr[Main].pc = "start" /\ mt.list = << >> /\ Main \in Threads /\ Main # Fs
      /\ UNCHANGED <<conf, req, se, kern>> /\ Main \notin Workers /\ mt \in PoolType
  BY ThreadFacts DEF SessInv, SessType, Pool, LoopStart, At
<1>2. \/ \E q \in {"check", "over"} : Goto(Main, q) /\ mt' = mt /\ chan' = chan
      \/ FreeSlots # {} /\ StartThread(Main, "loop", mt)
  <2>1. CASE conf.single
    BY <2>1 DEF LoopStart
  <2>2. CASE ~ conf.single /\ FreeSlots = {}
    BY <2>2, Zenon DEF LoopStart, fuse_loop_start_thread, Goto
  <2>3. CASE ~ conf.single /\ FreeSlots # {}
    BY <2>3, Zenon DEF LoopStart, fuse_loop_start_thread, StartThread
  <2> QED BY <2>1, <2>2, <2>3
<1>3. CASE \E q \in {"check", "over"} : Goto(Main, q) /\ mt' = mt /\ chan' = chan
  <2>1. PICK q \in {"check", "over"} : Goto(Main, q) /\ mt' = mt /\ chan' = chan
    BY <1>3
  <2>2. q \in Pcs /\ q \notin Holding /\ thr[Main].pc \notin KeepPcs /\ q # "got"
    BY <1>1 DEF Pcs, InHand, Holding, KeepPcs, OwnPcs, IntrPcs, FreshPcs
  <2>3. thr' \in [Threads -> ThreadType] /\ Moved(Main, q)
    BY <1>1, <2>1, <2>2, Went
  <2>4. SessType'
    BY <1>1, <2>1, <2>3 DEF SessType
  <2>5. Placed(Main)
    BY <1>1, <2>2, <2>3 DEF Placed, Moved
  <2>6. Frame(req, req', {}) /\ SameLists
    BY <1>1, FrameSame DEF SameLists
  <2> QED BY <1>1, <2>1, <2>2, <2>4, <2>5, <2>6, QuietGoto
<1>4. CASE FreeSlots # {} /\ StartThread(Main, "loop", mt)
  <2>1. "loop" \in Pcs
    BY DEF Pcs
  <2> QED BY <1>1, <1>4, <2>1, StartThreadKeeps
<1> QED BY <1>2, <1>3, <1>4

(* A worker that has read a message takes it, and may start another. *)
LEMMA WorkTakeKeeps ==
  ASSUME SessInv, NEW t \in Threads, WorkTake(t)
  PROVE  SessInv'
<1>1. /\ SessType /\ Pool /\ RefInv /\ thr[t].pc = "got" /\ mt \in PoolType
      /\ UNCHANGED <<conf, req, se, kern>> /\ t # Main /\ t # Fs
  BY ThreadFacts DEF SessInv, SessType, Pool, WorkTake, At
<1>2. PICK m \in PoolType : m.list = mt.list /\
        (\/ Goto(t, "ended") /\ mt' = mt /\ chan' = chan
         \/ Goto(t, "work") /\ mt' = m /\ chan' = chan
         \/ FreeSlots # {} /\ StartThread(t, "work", m))
  <2>1. PICK n \in Int : n = (IF isforget(t) THEN mt.numavail ELSE mt.numavail - 1)
    BY <1>1 DEF PoolType
  <2>2. PICK m : m = (IF isforget(t) THEN mt ELSE [mt EXCEPT !.numavail = @ - 1])
    OBVIOUS
  <2>3. m = [mt EXCEPT !.numavail = n]
    BY <1>1, <2>1, <2>2 DEF PoolType
  <2>4. \/ Goto(t, "ended") /\ mt' = mt /\ chan' = chan
        \/ Goto(t, "work") /\ mt' = m /\ chan' = chan
        \/ FreeSlots # {} /\ StartThread(t, "work", m)
    <3>1. CASE mt.exit
      BY <3>1 DEF WorkTake
    <3>2. CASE ~ mt.exit /\ m.numavail = 0
      <4>1. StartThread(t, "work", m)
        BY <2>2, <3>2, Zenon DEF WorkTake, StartThread
      <4>2. CASE FreeSlots = {}
        BY <4>1, <4>2, Zenon DEF StartThread, fuse_loop_start_thread, Goto
      <4> QED BY <4>1, <4>2
    <3>3. CASE ~ mt.exit /\ m.numavail # 0
      BY <2>2, <3>3, Zenon DEF WorkTake, Goto
    <3> QED BY <3>1, <3>2, <3>3
  <2>5. m \in PoolType /\ m.list = mt.list
    BY <1>1, <2>3 DEF PoolType
  <2> QED BY <2>4, <2>5
<1>3. m \in PoolType /\ m.list = mt.list
  BY <1>2
<1>4. Frame(req, req', {}) /\ SameLists
  BY <1>1, FrameSame DEF SameLists
<1>5. CASE \E q \in {"ended", "work"} : Goto(t, q) /\ mt' \in PoolType /\ mt'.list = mt.list /\ chan' = chan
  <2>1. PICK q \in {"ended", "work"} : Goto(t, q) /\ mt' \in PoolType /\ mt'.list = mt.list /\ chan' = chan
    BY <1>5
  <2>2. q \in Pcs /\ thr[t].pc \notin KeepPcs /\ "ended" \notin Holding
    BY <1>1 DEF Pcs, InHand, Holding, KeepPcs, OwnPcs, IntrPcs, FreshPcs
  <2>3. thr' \in [Threads -> ThreadType] /\ Moved(t, q)
    BY <1>1, <2>1, <2>2, Went
  <2>4. thr'[t].pc = q /\ Others(t)
    BY <2>3 DEF Moved, Others
  <2>5. SessType'
    BY <1>1, <2>1, <2>3 DEF SessType
  <2>6. Placed(t)
    BY <1>1, <2>4 DEF Placed
  <2>7. \A s \in Threads : Quiet(s)
    BY <1>1, <2>2, <2>3 DEF Quiet, Moved
  <2>8. RefInv'
    BY <1>1, <1>4, <2>7, QuietKeeps
  <2>9. SameChannels
    BY <1>1, <1>4, FrameChannels
  <2> QED BY <1>1, <2>1, <2>4, <2>5, <2>6, <2>8, <2>9, PlainStep
<1>6. CASE FreeSlots # {} /\ StartThread(t, "work", m)
  <2>1. "work" \in Pcs
    BY KeepPcsFacts
  <2> QED BY <1>1, <1>3, <1>6, <2>1, StartThreadKeeps
<1> QED BY <1>1, <1>2, <1>3, <1>5, <1>6

(* The list without one worker. *)
LEMMA WorkerLeft ==
  ASSUME Pool, mt.list \in Seq(Workers), NEW k \in DOMAIN mt.list, NEW l \in Seq(Workers),
         Without(l, mt.list, k)
  PROVE  /\ ToSet(l) = ToSet(mt.list) \ {mt.list[k]}
         /\ \A a, b \in DOMAIN l : l[a] = l[b] => a = b
<1> DEFINE o == mt.list
           f(a) == IF a < k THEN a ELSE a + 1
<1>1. o \in Seq(Workers) /\ \A a, b \in DOMAIN o : o[a] = o[b] => a = b
  BY DEF Pool
<1>2. \A a \in DOMAIN l : l[a] = o[f(a)] /\ f(a) \in DOMAIN o /\ f(a) # k
  BY DEF Without
<1>3. \A a, b \in DOMAIN l : a \in DOMAIN o /\ b \in DOMAIN o => (f(a) = f(b) => a = b)
  BY <1>1
<1>4. \A a \in DOMAIN l : a \in Int
  OBVIOUS
<1>5. \A a, b \in DOMAIN l : f(a) = f(b) => a = b
  BY <1>1, <1>4
<1> HIDE DEF f, o
<1>6. \A a, b \in DOMAIN l : l[a] = l[b] => a = b
  BY <1>1, <1>2, <1>5
<1>7. ToSet(l) = ToSet(o) \ {o[k]}
  <2>1. \A x \in ToSet(l) : x \in ToSet(o) \ {o[k]}
    BY <1>1, <1>2 DEF ToSet, o
  <2>2. \A x \in ToSet(o) \ {o[k]} : x \in ToSet(l)
    BY DEF ToSet, Without, o
  <2> QED BY <2>1, <2>2
<1> QED BY <1>6, <1>7 DEF o

(* A list without its first worker.                                        *)
LEMMA Tailed ==
  ASSUME NEW S, NEW s \in Seq(S), s # << >>, NEW l, l = Tail(s)
  PROVE  l \in Seq(S) /\ Without(l, s, 1)
<1>1. /\ l \in Seq(S) /\ Len(l) = Len(s) - 1 /\ Len(s) \in Nat \ {0}
      /\ \A j \in 1 .. Len(s) - 1 : l[j] = s[j + 1]
  OBVIOUS
<1>2. \A j \in DOMAIN l : l[j] = IF j < 1 THEN s[j] ELSE s[j + 1]
  BY <1>1
<1>3. \A j \in DOMAIN l : (IF j < 1 THEN j ELSE j + 1) \in DOMAIN s \ {1}
  BY <1>1
<1>4. ASSUME NEW j \in DOMAIN s, j # 1 PROVE \E i \in DOMAIN l : l[i] = s[j]
  <2>1. j - 1 \in DOMAIN l /\ (j - 1) + 1 = j
    BY <1>1, <1>4
  <2>2. l[j - 1] = s[j]
    BY <1>1, <2>1
  <2> QED BY <2>1, <2>2
<1> QED BY <1>1, <1>2, <1>3, <1>4 DEF Without

(* fuse_join_worker: the first of the list, when it has ended.             *)
LEMMA JoinWorkerKeeps ==
  ASSUME SessInv, fuse_join_worker
  PROVE  SessInv'
<1>1. /\ SessType /\ Pool /\ mt \in PoolType /\ mt.list \in Seq(Workers) /\ mt.list # << >>
      /\ thr[Head(mt.list)].pc = "ended" /\ UNCHANGED <<conf, req, se, kern>>
      /\ mt' = [mt EXCEPT !.list = Tail(@)]
      /\ chan' = fuse_chan_put(chan, ChannelOf(Head(mt.list)))
      /\ Goto(Head(mt.list), "none")
  BY DEF SessInv, SessType, PoolType, fuse_join_worker, At, Goto
<1>2. PICK w : w = Head(mt.list)
  OBVIOUS
<1>3. 1 \in DOMAIN mt.list /\ mt.list[1] = w /\ w \in Workers
  BY <1>1, <1>2
<1>4. PICK l : l = Tail(mt.list)
  OBVIOUS
<1>5. l \in Seq(Workers) /\ Without(l, mt.list, 1)
  BY <1>1, <1>4, Tailed, Zenon
<1>6. /\ ToSet(l) = ToSet(mt.list) \ {w}
      /\ \A a, b \in DOMAIN l : l[a] = l[b] => a = b
  BY <1>1, <1>3, <1>5, WorkerLeft
<1>7. mt' \in PoolType /\ mt'.list = l
  BY <1>1, <1>4, <1>5 DEF PoolType
<1>8. w \in Threads /\ "none" \in Pcs
  BY <1>3, ThreadFacts DEF Pcs
<1>9. thr' \in [Threads -> ThreadType] /\ Moved(w, "none")
  BY <1>1, <1>2, <1>8, Went
<1>10. /\ chan' = fuse_chan_put(chan, ChannelOf(w)) /\ thr[w].pc = "ended"
       /\ UNCHANGED <<conf, req, se, kern>>
  BY <1>1, <1>2, Zenon
<1>11. Leaves(w)
  BY <1>3, <1>6, <1>7, <1>9, <1>10 DEF Leaves, Moved, Others
<1> QED BY <1>7, <1>9, <1>11, LeavesKeeps

(* A worker goes back to the loop, ends, or is one too many and leaves the *)
(* list.                                                                   *)
LEMMA WorkDoneKeeps ==
  ASSUME SessInv, NEW t \in Threads, WorkDone(t)
  PROVE  SessInv'
<1>1. /\ SessType /\ Pool /\ thr[t].pc = "done" /\ mt \in PoolType /\ mt.list \in Seq(Workers)
      /\ UNCHANGED <<conf, req, se, kern>>
  BY DEF SessInv, SessType, PoolType, WorkDone, At
<1>2. PICK a : a = mt.numavail + (IF isforget(t) THEN 0 ELSE 1)
  OBVIOUS
<1>3. a \in Int /\ a - 1 \in Int /\ mt.numworker - 1 \in Int
  BY <1>1, <1>2 DEF PoolType
<1>4. \/ /\ t \notin Workers /\ Goto(t, IF t = Main THEN "check" ELSE "none") /\ UNCHANGED <<mt, chan>>
      \/ /\ t \in Workers /\ mt' = [mt EXCEPT !.numavail = a] /\ UNCHANGED chan
         /\ (Goto(t, "check") \/ Goto(t, "ended"))
      \/ /\ t \in Workers
         /\ mt' = [mt EXCEPT !.numavail = a - 1, !.numworker = @ - 1, !.list = list_del_worker(@, t)]
         /\ chan' = fuse_chan_put(chan, ChannelOf(t)) /\ Goto(t, "none")
  <2>1. CASE t \notin Workers
    BY <2>1 DEF WorkDone
  <2>2. CASE t \in Workers /\ a <= IdleLimit
    BY <1>2, <2>2 DEF WorkDone
  <2>3. CASE t \in Workers /\ ~ (a <= IdleLimit)
    <3>1. a > IdleLimit
      BY <1>3, <2>3, SessionAssumption
    <3> QED BY <1>2, <2>3, <3>1 DEF WorkDone
  <2> QED BY <2>1, <2>2, <2>3
<1>5. CASE \E q \in {"check", "ended", "none"} :
             /\ Goto(t, q) /\ chan' = chan /\ mt' \in PoolType /\ mt'.list = mt.list
             /\ t = Main => q = "check"
             /\ t = Fs => q = "none"
             /\ t \in Workers => q # "none"
  <2>1. PICK q \in {"check", "ended", "none"} :
             /\ Goto(t, q) /\ chan' = chan /\ mt' \in PoolType /\ mt'.list = mt.list
             /\ t = Main => q = "check"
             /\ t = Fs => q = "none"
             /\ t \in Workers => q # "none"
    BY <1>5
  <2>2. q \in Pcs /\ thr[t].pc \notin KeepPcs /\ q \notin Holding
    BY <1>1 DEF Pcs, InHand, Holding, KeepPcs, OwnPcs, IntrPcs, FreshPcs
  <2>3. thr' \in [Threads -> ThreadType] /\ thr'[t].pc = q
    BY <1>1, <2>1, <2>2, Went DEF Moved
  <2>4. SessType'
    BY <1>1, <2>1, <2>3 DEF SessType
  <2>5. Placed(t)
    <3>1. t = Main => mt.list = << >>
      BY <1>1 DEF Pool
    <3> QED BY <1>1, <2>1, <2>3, <3>1 DEF Placed, FsPcs
  <2>6. Frame(req, req', {}) /\ SameLists
    BY <1>1, FrameSame DEF SameLists
  <2> QED BY <1>1, <2>1, <2>2, <2>4, <2>5, <2>6, QuietGoto
<1>6. CASE /\ t \notin Workers /\ Goto(t, IF t = Main THEN "check" ELSE "none") /\ UNCHANGED <<mt, chan>>
  BY <1>1, <1>5, <1>6, ThreadFacts
<1>7. CASE /\ t \in Workers /\ mt' = [mt EXCEPT !.numavail = a] /\ UNCHANGED chan
           /\ (Goto(t, "check") \/ Goto(t, "ended"))
  <2>1. mt' \in PoolType /\ mt'.list = mt.list
    BY <1>1, <1>3, <1>7 DEF PoolType
  <2> QED BY <1>5, <1>7, <2>1, ThreadFacts
<1>8. CASE /\ t \in Workers
           /\ mt' = [mt EXCEPT !.numavail = a - 1, !.numworker = @ - 1, !.list = list_del_worker(@, t)]
           /\ chan' = fuse_chan_put(chan, ChannelOf(t)) /\ Goto(t, "none")
  <2>1. t \in ToSet(mt.list)
    BY <1>1, <1>8 DEF Pool, Idle
  <2>2. PICK k : k = (CHOOSE j \in DOMAIN mt.list : mt.list[j] = t)
    OBVIOUS
  <2>3. k \in DOMAIN mt.list /\ mt.list[k] = t
    BY <2>1, <2>2 DEF ToSet
  <2>4. PICK l : l = RemoveAt(mt.list, k)
    OBVIOUS
  <2>5. l \in Seq(Workers) /\ Without(l, mt.list, k)
    BY <1>1, <2>3, <2>4, Removed, Zenon
  <2>6. /\ ToSet(l) = ToSet(mt.list) \ {t}
        /\ \A x, y \in DOMAIN l : l[x] = l[y] => x = y
    BY <1>1, <2>3, <2>5, WorkerLeft
  <2>7. list_del_worker(mt.list, t) = l
    BY <2>2, <2>4, Zenon DEF list_del_worker
  <2>8. PICK b \in Int, n \in Int : b = a - 1 /\ n = mt.numworker - 1
    BY <1>3
  <2>9. mt' = [mt EXCEPT !.numavail = b, !.numworker = n, !.list = l]
    BY <1>8, <2>7, <2>8
  <2>10. mt' \in PoolType /\ mt'.list = l
    BY <1>1, <2>5, <2>8, <2>9 DEF PoolType
  <2>11. "none" \in Pcs
    BY DEF Pcs
  <2>12. thr' \in [Threads -> ThreadType] /\ Moved(t, "none")
    BY <1>1, <1>8, <2>11, Went
  <2>13. Leaves(t)
    BY <1>1, <1>8, <2>6, <2>10, <2>12 DEF Leaves, Moved, Others
  <2> QED BY <2>10, <2>12, <2>13, LeavesKeeps
<1> QED BY <1>4, <1>6, <1>7, <1>8

-----------------------------------------------------------------------------
(* The invariant.                                                          *)

(* The initial states.                                                     *)
LEMMA InitSess ==
  ASSUME Init
  PROVE  SessInv
<1>1. /\ conf \in Configs /\ req = << >> /\ Ids = {} /\ chan = [w \in Workers |-> 0]
      /\ se.list = {} /\ se.held = {} /\ se.interrupts = << >> /\ mt.list = << >>
  BY DEF Init, Ids
<1>2. /\ thr[Main].pc = "start"
      /\ \A t \in Threads : t # Main => thr[t].pc = "none"
  BY ThreadFacts DEF Init
<1>3. \A t \in Threads : thr[t].pc \notin Holding /\ thr[t].pc \notin {"kill", "killed", "prep"}
  <2>1. \A t \in Threads : thr[t].pc \in {"start", "none"}
    BY <1>2
  <2> QED BY <2>1 DEF Holding, KeepPcs, OwnPcs, IntrPcs, FreshPcs
<1>4. SessType
  <2>1. thr \in [Threads -> ThreadType]
    <3>1. PICK x \in BOOLEAN, z \in Nat : x = FALSE /\ z = 0
      OBVIOUS
    <3>2. PICK f : f = [t \in Threads |-> IF t = Main THEN "start" ELSE "none"]
      OBVIOUS
    <3>3. \A t \in Threads : f[t] \in Pcs /\ f[t] = (IF t = Main THEN "start" ELSE "none")
      BY <3>2 DEF Pcs
    <3>4. thr = [t \in Threads |-> [pc |-> f[t], u |-> z, cur |-> z, d |-> None,
                                    cancelled |-> x, fin |-> x, sig |-> x]]
      BY <3>1, <3>3 DEF Init
    <3> QED BY <3>3, <3>4 DEF ThreadType
  <2>2. se \in SessionType
    BY DEF Init, SessionType
  <2>3. mt \in PoolType
    BY DEF Init, PoolType
  <2>4. kern \in KernelType
    BY DEF Init, KernelType
  <2>5. chan \in [Workers -> Int] /\ req \in Seq(Requests)
    BY <1>1
  <2> QED BY <1>1, <2>1, <2>2, <2>3, <2>4, <2>5 DEF SessType
<1>5. Pool
  <2>1. ToSet(mt.list) = {}
    BY <1>1 DEF ToSet
  <2> QED BY <1>1, <1>2, <2>1, ThreadFacts DEF Pool, Idle
<1>6. Lists
  BY <1>1 DEF Lists, NoInterruptMissed
<1>7. Hands
  BY <1>3 DEF Hands, InHands, Holding, KeepPcs
<1>8. Counts /\ Functs
  BY <1>1, <1>3 DEF Counts, Functs, LockOk
<1>9. Channels
  <2>1. ASSUME NEW w \in Workers
        PROVE  chan[w] = (IF Idle(w) THEN 0 ELSE 1) + Cardinality(ReadFrom(w))
    <3>1. ReadFrom(w) = {}
      BY <1>1 DEF ReadFrom
    <3>2. Cardinality(ReadFrom(w)) = 0
      BY <3>1, FS_EmptySet
    <3>3. Idle(w) /\ chan[w] = 0
      BY <1>1, <1>2, ThreadFacts DEF Idle
    <3> QED BY <3>2, <3>3
  <2> QED BY <1>1, <2>1 DEF Channels
<1> QED BY <1>4, <1>5, <1>6, <1>7, <1>8, <1>9 DEF SessInv, RefInv

(* Every step of a thread, and every step.                                 *)
LEMMA StepKeeps ==
  ASSUME SessInv, NEW t \in Threads, Step(t)
  PROVE  SessInv'
<1>1. CASE find_interrupted(t)
  <2>1. thr[t].pc = "intr" \/ thr[t].pc = "unref"
    BY <1>1 DEF find_interrupted, At
  <2> QED BY <1>1, <2>1, FindKeeps, UnrefStep
<1>2. CASE WorkTest(t) \/ fuse_session_receive_buf(t) \/ ReceiveFails(t) \/ WorkBreak(t) \/ Cancelled(t)
  BY <1>2, WorkTestKeeps, ReceiveKeeps, ReceiveFailsKeeps, WorkBreakKeeps, CancelledKeeps
<1>3. CASE WorkTake(t) \/ WorkDone(t) \/ fuse_session_process_buf(t) \/ do_interrupt(t)
  BY <1>3, WorkTakeKeeps, WorkDoneKeeps, ProcessBufKeeps, InterruptRequestKeeps
<1>4. CASE fuse_interrupt(t) \/ fuse_prepare_interrupt(t) \/ FsCall(t) \/ fuse_finish_interrupt(t)
  BY <1>4, FuseInterruptKeeps, PrepareKeeps, FsCallKeeps, FinishKeeps
<1>5. CASE send_reply(t) \/ do_init(t) \/ do_destroy(t) \/ do_notify_reply(t)
  BY <1>5, SendReplyKeeps, InitKeeps, DestroyRequestKeeps, NotifyReplyKeeps
<1> QED BY <1>1, <1>2, <1>3, <1>4, <1>5 DEF Step

LEMMA NextSess ==
  ASSUME SessInv, [Next]_vars
  PROVE  SessInv'
<1>1. CASE Loop
  BY <1>1, LoopStartKeeps, LoopTestKeeps, LoopWaitKeeps, LoopCancelKeeps, JoinWorkerKeeps, LoopReturnKeeps
     DEF Loop
<1>2. CASE fuse_session_destroy
  BY <1>2, DestroyKeeps
<1>3. CASE \E t \in Threads : Step(t)
  BY <1>3, StepKeeps
<1>4. CASE FsReply \/ fuse_lowlevel_notify_retrieve
  BY <1>4, FsReplyKeeps, RetrieveKeeps
<1>5. CASE KernelSend \/ KernelInterrupt \/ KernelAbort \/ exit_handler
  BY <1>5, KernelSendKeeps, KernelInterruptKeeps, KernelAbortKeeps, ExitHandlerKeeps
<1>6. CASE UNCHANGED vars
  <2>1. /\ req' = req /\ se' = se /\ thr' = thr /\ conf' = conf /\ chan' = chan /\ mt' = mt /\ kern' = kern
    BY <1>6 DEF vars
  <2>2. SessType /\ SessType'
    BY <2>1 DEF SessInv, SessType
  <2>3. Frame(req, req', {}) /\ SameLists
    BY <2>1, <2>2, FrameSame DEF SameLists
  <2> QED BY <2>1, <2>2, <2>3, StillStep
<1> QED BY <1>1, <1>2, <1>3, <1>4, <1>5, <1>6 DEF Next

(* The inductive invariant of the session: who has references to a request *)
(* (fuse_ll_alloc_req, list_add_req, fuse_free_req), a function stored in  *)
(* it, a channel (fuse_chan_get and _put) or a place in the list of        *)
(* workers.                                                                *)
THEOREM SessionInvariant == Spec => []SessInv
<1>1. Init => SessInv
  BY InitSess
<1>2. SessInv /\ [Next]_vars => SessInv'
  BY NextSess
<1> QED BY <1>1, <1>2, PTL DEF Spec

(* No interrupt is missed or runs for another request: find_interrupted    *)
(* and check_interrupt leave none in se->interrupts whose request is being *)
(* worked on, and while fuse_interrupt signals a thread that thread is in  *)
(* the call for the same request, with its data on its stack.              *)
THEOREM InterruptsFind == Spec => []InterruptsHit
<1>1. ASSUME SessInv PROVE InterruptsHit
  <2>1. SessType /\ RefInv /\ NoInterruptMissed
    BY <1>1 DEF SessInv, RefInv, Lists
  <2>2. ASSUME NEW t \in Threads, thr[t].pc \in {"kill", "killed"}
        PROVE  thr[thr[t].d].u = thr[t].cur /\ thr[thr[t].d].pc \in {"run", "finish", "withdraw"}
    <3>1. thr[t].cur \in Ids
      BY <2>1, <2>2, HandFacts DEF IntrPcs
    <3>2. req[thr[t].cur].func = thr[t].d /\ thr[t].d # None
      BY <2>1, <2>2 DEF RefInv, Functs, LockOk
    <3> QED BY <2>1, <3>1, <3>2 DEF RefInv, Functs, FuncOk
  <2> QED BY <2>1, <2>2 DEF InterruptsHit, InterruptInScope
<1> QED BY <1>1, SessionInvariant, PTL

(* No thread, list or late answer has a request that fuse_free_req or      *)
(* find_interrupted freed, a cloned channel has one reference for its      *)
(* worker and one for each request read from it, and the list that         *)
(* fuse_session_loop_mt cancels and joins holds the workers that run.      *)
THEOREM LifetimesKept == Spec => []Lifetimes
<1>1. ASSUME SessInv PROVE Lifetimes
  <2>1. SessType /\ Pool /\ RefInv /\ Channels
    BY <1>1 DEF SessInv
  <2>2. NoUseAfterFree
    <3>1. \A t \in Threads : thr[t].pc \in {"prep", "run", "finish", "withdraw", "reply", "free", "init"}
                               => req[thr[t].u].st = "live"
      BY <2>1, HandFacts DEF KeepPcs, OwnPcs
    <3>2. \A t \in Threads : thr[t].pc \in {"intr", "kill", "killed", "unref"}
                               => req[thr[t].u].st = "live" /\ req[thr[t].cur].st = "live"
      BY <2>1, HandFacts DEF KeepPcs, IntrPcs
    <3>3. \A i \in se.list \cup ToSet(se.interrupts) : req[i].st = "live"
      BY <2>1, Listed
    <3> QED BY <3>1, <3>2, <3>3 DEF NoUseAfterFree
  <2>3. ChannelRefs
    <3>1. ASSUME NEW w \in Workers, conf.clone_fd
          PROVE  chan[w] = (IF Idle(w) THEN 0 ELSE 1)
                           + Cardinality({i \in Ids : req[i].st = "live" /\ req[i].ch = w})
                           + Cardinality({i \in Ids : req[i].st = "freed" /\ req[i].ch = w})
      <4> DEFINE A == {i \in Ids : req[i].st = "live" /\ req[i].ch = w}
                 B == {i \in Ids : req[i].st = "freed" /\ req[i].ch = w}
      <4>1. A \cup B = ReadFrom(w)
        <5>1. \A i \in Ids : req[i].st \in {"queued", "read", "live", "freed"}
          BY <2>1, IdFacts, Fields
        <5>2. w # None
          BY SessionAssumption
        <5> QED BY <2>1, <5>1, <5>2 DEF ReadFrom, Channels
      <4>2. A \cap B = {}
        OBVIOUS
      <4>3. chan[w] = (IF Idle(w) THEN 0 ELSE 1) + Cardinality(ReadFrom(w)) /\ IsFiniteSet(ReadFrom(w))
        BY <2>1, <3>1, ReadersFinite DEF Channels
      <4> HIDE DEF A, B
      <4>4. IsFiniteSet(A) /\ IsFiniteSet(B)
        <5>1. A \subseteq ReadFrom(w) /\ B \subseteq ReadFrom(w)
          BY <4>1
        <5> QED BY <4>3, <5>1, FS_Subset
      <4>5. Cardinality(A \cup B) = Cardinality(A) + Cardinality(B) - Cardinality(A \cap B)
        BY <4>4, FS_Union
      <4>6. Cardinality(A \cap B) = 0
        BY <4>2, FS_EmptySet
      <4>7. Cardinality(A) \in Nat /\ Cardinality(B) \in Nat
        BY <4>4, FS_CardinalityType
      <4>8. chan[w] = (IF Idle(w) THEN 0 ELSE 1) + Cardinality(A) + Cardinality(B)
        <5>1. PICK a \in Nat, b \in Nat, e \in Nat, n \in Nat :
                a = Cardinality(A) /\ b = Cardinality(B) /\ e = (IF Idle(w) THEN 0 ELSE 1)
                /\ n = Cardinality(ReadFrom(w))
          BY <2>1, <4>7, ReadersFinite
        <5>2. n = a + b - 0 /\ chan[w] = e + n
          BY <4>1, <4>3, <4>5, <4>6, <5>1
        <5>3. e + n = e + a + b
          BY <5>2
        <5> QED BY <5>1, <5>2, <5>3
      <4> QED BY <4>8 DEF A, B
    <3> QED BY <3>1 DEF ChannelRefs
  <2>4. JoinsOnlyRunning
    <3>1. ASSUME thr[Main].pc \in {"over", "gone"}, NEW w \in Workers
          PROVE  Idle(w)
      <4>1. mt.list = << >>
        BY <2>1, <3>1 DEF Pool
      <4>2. ToSet(mt.list) = {}
        BY <4>1 DEF ToSet
      <4> QED BY <2>1, <4>2 DEF Pool
    <3> QED BY <2>1, <3>1 DEF JoinsOnlyRunning, Pool
  <2> QED BY <2>2, <2>3, <2>4 DEF Lifetimes
<1> QED BY <1>1, SessionInvariant, PTL
=============================================================================
