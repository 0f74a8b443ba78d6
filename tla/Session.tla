------------------------------ MODULE Session ------------------------------
(***************************************************************************)
(* The session of libfuse: the worker threads of fuse_loop_mt.c (or the    *)
(* one thread of fuse_loop.c) that read requests from the kernel, the      *)
(* requests of fuse_lowlevel.c with their reference counts, interrupts     *)
(* (find_interrupted, check_interrupt and fuse_interrupt of fuse.c),       *)
(* retrieve notifications, cloned channels, and the end of the loop by a   *)
(* signal, an unmount or an error.                                         *)
(*                                                                         *)
(* A step is a section under one of the locks mt->lock, se->lock,          *)
(* req->lock and f->lock, or a system call.  A request is known by the     *)
(* number the kernel gave it; its fields are those of struct fuse_req.     *)
(***************************************************************************)
EXTENDS Integers, FiniteSets, SequencesExt, Dispatch

CONSTANTS Workers,      \* slots for the threads of the multi-threaded loop
          Main, Fs,     \* the thread in the loop function, a thread of the file system
          None,         \* a NULL pointer
          IdleLimit,    \* workers that may wait at once (10 in fuse_do_work)
          Configs       \* what the session is asked for, see TypeOK

ASSUME SessionAssumption ==
  /\ None \notin Workers \cup {Main, Fs} /\ Main \notin Workers /\ Fs \notin Workers
  /\ Main # Fs /\ IdleLimit \in Nat \ {0} /\ IsFiniteSet(Workers)

Args == {"", "old", "newer", "refused"}     \* what do_init finds in an INIT

\* The kernel makes up interrupts by itself; a library with the option intr (fuse.c)
\* answers in the call.
ASSUME ConfigsAssumption ==
  \A c \in Configs :
    /\ c.single \in BOOLEAN /\ c.clone_fd \in BOOLEAN
    /\ ~(c.intr /\ c.defer)
    /\ c.script \in Seq([op : fuse_opcode \ {"interrupt"}, uid : {Owner, Root, Other}, arg : Args])

VARIABLES conf,     \* the configuration, one of Configs
          req,      \* the requests by number: struct fuse_req and what the kernel knows
          se,       \* struct fuse_session
          mt,       \* struct fuse_mt
          thr,      \* the threads: program counter, request in hand, interrupt data
          chan,     \* the reference counts of the cloned channels
          kern      \* the kernel: messages to send, connection aborted, retrieves

vars == <<conf, req, se, mt, thr, chan, kern>>

Threads == Workers \cup {Main, Fs}
Ids == DOMAIN req
Waiting(r) == r.op \notin NoAnswer /\ r.replies = 0     \* the kernel waits for an answer

-----------------------------------------------------------------------------
(* Requests                                                                *)

\* A message in the kernel's queue.  uq is in->unique, target the unique of an
\* interrupt's argument, arg the argument of an INIT.
Message(op, uid, arg, uq, target) ==
  [op |-> op, uid |-> uid, arg |-> arg, uq |-> uq, target |-> target, st |-> "queued",
   replies |-> 0, ctr |-> 0, interrupted |-> FALSE, func |-> None, lock |-> None, ch |-> None]
Interrupt(target) == Message("interrupt", Owner, "", 0, target)

\* fuse_ll_alloc_req and what process_buf stores in the new request
fuse_ll_alloc_req(r, ch) == [r EXCEPT !.st = "live", !.ctr = 1, !.ch = ch]

keep_ref_not(r) == r
keep_ref(r) == [r EXCEPT !.ctr = @ + 1]

\* The last reference frees the request.
drop_ref(r) == [r EXCEPT !.ctr = @ - 1, !.st = IF r.ctr = 1 THEN "freed" ELSE @]

fuse_chan_get(c, ch) == IF ch = None THEN c ELSE [c EXCEPT ![ch] = @ + 1]
fuse_chan_put(c, ch) == IF ch = None THEN c ELSE [c EXCEPT ![ch] = @ - 1]

\* The answer as the kernel sees it: an interrupt sent back with EAGAIN is
\* queued again while the request it is about waits for its answer.
fuse_send_msg(rs, i) ==
  IF rs[i].op # "interrupt" THEN [rs EXCEPT ![i].replies = @ + 1]
  ELSE IF \E j \in DOMAIN rs : rs[j].uq = rs[i].target /\ Waiting(rs[j])
       THEN Append(rs, Interrupt(rs[i].target)) ELSE rs

fuse_free_req(rs, i) ==
  [rs EXCEPT ![i] = [drop_ref(rs[i]) EXCEPT !.func = None, !.ch = None]]

-----------------------------------------------------------------------------
(* The multi-threaded loop                                                 *)

Idle(t) == thr[t].pc = "none"
At(t, pc) == thr[t].pc = pc
Goto(t, pc) == thr' = [thr EXCEPT ![t].pc = pc]

list_del_worker(l, w) == RemoveAt(l, CHOOSE k \in DOMAIN l : l[k] = w)

\* A thread that cannot be created: the limit of threads is reached.
fuse_loop_start_thread(free, m, th, ch) ==
  IF free = {} THEN [m |-> m, th |-> th, ch |-> ch, err |-> TRUE]
  ELSE LET w == CHOOSE w \in free : TRUE
       IN [m |-> [m EXCEPT !.list = Append(@, w), !.numavail = @ + 1, !.numworker = @ + 1],
           th |-> [th EXCEPT ![w] = [@ EXCEPT !.pc = "check", !.cancelled = FALSE]],
           ch |-> IF conf.clone_fd THEN [ch EXCEPT ![w] = 1] ELSE ch, err |-> FALSE]

FreeSlots == IF conf.threads <= Len(mt.list) THEN {}
             ELSE {w \in Workers : Idle(w) /\ chan[w] = 0}

ChannelOf(t) == IF t \in Workers /\ conf.clone_fd /\ chan[t] > 0 THEN t ELSE None

LoopStart ==
  /\ At(Main, "start")
  /\ IF conf.single
     THEN Goto(Main, "check") /\ UNCHANGED <<mt, chan>>
     ELSE LET s == fuse_loop_start_thread(FreeSlots, mt, thr, chan)
          IN mt' = s.m /\ chan' = s.ch
             /\ thr' = [s.th EXCEPT ![Main].pc = IF s.err THEN "over" ELSE "loop"]
  /\ UNCHANGED <<conf, req, se, kern>>

\* while (!fuse_session_exited(se)) sem_wait(&mt.finish)
LoopTest == /\ At(Main, "loop")
            /\ Goto(Main, IF se.exited THEN "cancel" ELSE "wait")
            /\ UNCHANGED <<conf, req, se, mt, chan, kern>>
LoopWait == /\ At(Main, "wait") /\ mt.finish > 0
            /\ mt' = [mt EXCEPT !.finish = @ - 1]
            /\ Goto(Main, "loop")
            /\ UNCHANGED <<conf, req, se, chan, kern>>

LoopCancel ==
  /\ At(Main, "cancel")
  /\ mt' = [mt EXCEPT !.exit = TRUE]
  /\ thr' = [t \in Threads |-> IF t = Main THEN [thr[t] EXCEPT !.pc = "join"]
                               ELSE [thr[t] EXCEPT !.cancelled = @ \/ t \in ToSet(mt.list)]]
  /\ UNCHANGED <<conf, req, se, chan, kern>>

fuse_join_worker ==
  /\ At(Main, "join") /\ mt.list # << >> /\ At(Head(mt.list), "ended")
  /\ mt' = [mt EXCEPT !.list = Tail(@)]
  /\ chan' = fuse_chan_put(chan, ChannelOf(Head(mt.list)))
  /\ thr' = [thr EXCEPT ![Head(mt.list)].pc = "none"]
  /\ UNCHANGED <<conf, req, se, kern>>

\* The value of the loop function, and fuse_session_reset
LoopReturn ==
  /\ \/ At(Main, "join") /\ mt.list = << >>
     \/ At(Main, "ended")
  /\ se' = [se EXCEPT !.exited = FALSE, !.error = 0,
                      !.result = IF se.error # 0 THEN se.error ELSE mt.error]
  /\ Goto(Main, "over")
  /\ UNCHANGED <<conf, req, mt, chan, kern>>

\* fuse_session_unmount, then fuse_session_destroy
fuse_session_destroy ==
  /\ At(Main, "over")
  /\ kern' = [kern EXCEPT !.aborted = TRUE]
  /\ se' = [se EXCEPT !.destroys = IF se.got_init /\ ~se.got_destroy THEN @ + 1 ELSE @]
  /\ Goto(Main, "gone")
  /\ UNCHANGED <<conf, req, mt, chan>>

\* fuse_do_work and fuse_session_loop: the head of the loop of a thread
WorkTest(t) ==
  /\ At(t, "check")
  /\ IF ~se.exited THEN Goto(t, "read") /\ UNCHANGED mt
     ELSE /\ Goto(t, "ended")
          /\ mt' = IF t = Main THEN mt ELSE [mt EXCEPT !.finish = @ + 1]
  /\ UNCHANGED <<conf, req, se, chan, kern>>

Queued == {i \in Ids : req[i].st = "queued"}

\* fuse_session_receive_buf_int with a message in the kernel's queue.  A thread
\* that finds the session exited drops the message and ends.
fuse_session_receive_buf(t) ==
  /\ At(t, "read") /\ ~thr[t].cancelled /\ ~kern.aborted
  /\ \E i \in Queued :
       /\ \A j \in Queued : req[j].op = req[i].op => i <= j
       /\ req' = [req EXCEPT ![i].st = "read"]
       /\ thr' = [thr EXCEPT ![t].pc = IF se.exited THEN "break" ELSE IF t = Main THEN "work" ELSE "got",
                             ![t].u = i]
  /\ UNCHANGED <<conf, se, mt, chan, kern>>

\* The same without a message: the connection is gone (ENODEV), the call was
\* interrupted (EINTR), or it failed, which ends the session with an error.
ReceiveFails(t) ==
  /\ At(t, "read") /\ ~thr[t].cancelled
  /\ \/ /\ kern.aborted
        /\ se' = [se EXCEPT !.exited = TRUE]
        /\ Goto(t, "break") /\ UNCHANGED mt
     \/ /\ conf.readfail /\ ~se.exited
        /\ se' = [se EXCEPT !.exited = (t # Main)]
        /\ mt' = [mt EXCEPT !.error = -1]
        /\ Goto(t, "break")
  /\ UNCHANGED <<conf, req, chan, kern>>

\* break, and sem_post(&mt->finish)
WorkBreak_silent(t) ==
  /\ At(t, "break") /\ Goto(t, "ended")
  /\ UNCHANGED <<conf, req, se, mt, chan, kern>>
WorkBreak(t) ==
  /\ At(t, "break")
  /\ mt' = IF t = Main THEN mt ELSE [mt EXCEPT !.finish = @ + 1]
  /\ Goto(t, "ended")
  /\ UNCHANGED <<conf, req, se, chan, kern>>

\* pthread_cancel takes effect in the call of read only.
Cancelled(t) == /\ At(t, "read") /\ thr[t].cancelled
                /\ Goto(t, "ended")
                /\ UNCHANGED <<conf, req, se, mt, chan, kern>>

isforget(t) == thr[t].u # 0 /\ req[thr[t].u].op \in {"forget", "batch_forget"}

WorkTake(t) ==
  /\ At(t, "got")
  /\ IF mt.exit
     THEN Goto(t, "ended") /\ UNCHANGED <<mt, chan>>
     ELSE LET m == IF isforget(t) THEN mt ELSE [mt EXCEPT !.numavail = @ - 1]
              s == IF m.numavail = 0 THEN fuse_loop_start_thread(FreeSlots, m, thr, chan)
                   ELSE [m |-> m, th |-> thr, ch |-> chan]
          IN mt' = s.m /\ chan' = s.ch /\ thr' = [s.th EXCEPT ![t].pc = "work"]
  /\ UNCHANGED <<conf, req, se, kern>>

\* A worker more than IdleLimit leaves; the others go back to the loop.
WorkDone(t) ==
  /\ At(t, "done")
  /\ LET avail == mt.numavail + (IF isforget(t) THEN 0 ELSE 1)
     IN CASE t \notin Workers ->
               Goto(t, IF t = Main THEN "check" ELSE "none") /\ UNCHANGED <<mt, chan>>
          [] t \in Workers /\ avail <= IdleLimit ->
               /\ mt' = [mt EXCEPT !.numavail = avail]
               /\ Goto(t, "check") /\ UNCHANGED chan
          [] t \in Workers /\ avail > IdleLimit /\ mt.exit ->
               /\ mt' = [mt EXCEPT !.numavail = avail]
               /\ Goto(t, "ended") /\ UNCHANGED chan
          [] OTHER ->
               /\ mt' = [mt EXCEPT !.numavail = avail - 1, !.numworker = @ - 1,
                                   !.list = list_del_worker(@, t)]
               /\ chan' = fuse_chan_put(chan, ChannelOf(t))
               /\ Goto(t, "none")
  /\ UNCHANGED <<conf, req, se, kern>>

-----------------------------------------------------------------------------
(* Processing a request                                                    *)

SetReq(i, r) == req' = [req EXCEPT ![i] = r]

list_add_req(l, i) == l \cup {i}

\* check_interrupt under se->lock, followed by list_add_req: the request's own
\* interrupt is consumed, or the oldest other one is taken to be sent back.
check_interrupt_never(rs, uq) == [found |-> {}, back |-> {}]
check_interrupt(rs, uq) ==
  LET own == {k \in DOMAIN se.interrupts : rs[se.interrupts[k]].target = uq}
  IN [found |-> IF own = {} THEN {} ELSE {Min(own)},
      back  |-> IF own = {} /\ se.interrupts # << >> THEN {1} ELSE {}]

AfterDispatch(t, op, how) ==
  CASE how[1] = "call" -> IF conf.intr /\ op \notin NoAnswer THEN "prep" ELSE "run"
    [] how[1] = "reply" -> "reply"
    [] how[1] = "none" -> "free"
    [] OTHER -> how[1]

\* fuse_session_process_buf_int up to the call of the function of the table
fuse_session_process_buf(t) ==
  LET i == thr[t].u
      r == fuse_ll_alloc_req(req[i], ChannelOf(t))
      err == Refused([got_init |-> se.got_init, cuse |-> FALSE, deny_others |-> conf.deny_others],
                     r.op, r.uid)
      ci == check_interrupt(req, r.uq)
      how == fuse_ll_ops(conf.ops, [short |-> FALSE, flock |-> FALSE, dir |-> FALSE, cap |-> TRUE])[r.op]
      got == fuse_chan_get(chan, r.ch)
  IN /\ At(t, "work")
     /\ \/ /\ conf.nomem                 \* no memory: ENOMEM without a request
           /\ req' = [req EXCEPT ![i].st = "freed", ![i].replies = @ + 1]
           /\ Goto(t, "done") /\ UNCHANGED <<se, chan>>
        \/ /\ err # "no"
           /\ SetReq(i, r) /\ chan' = got /\ Goto(t, "reply") /\ UNCHANGED se
        \/ /\ err = "no" /\ r.op # "interrupt"
           /\ LET rs == [req EXCEPT ![i] = [r EXCEPT !.interrupted = ci.found # {}]]
                  k == CHOOSE k \in ci.found \cup ci.back : TRUE
                  intr == se.interrupts[k]
              IN /\ req' = CASE ci.found # {} -> [rs EXCEPT ![intr].st = "freed", ![intr].ctr = 0]
                             [] ci.back # {} -> fuse_free_req(fuse_send_msg(rs, intr), intr)
                             [] OTHER -> rs
                 /\ chan' = IF ci.back # {} THEN fuse_chan_put(got, req[intr].ch) ELSE got
                 /\ se' = [se EXCEPT !.list = list_add_req(@, i),
                                     !.interrupts = IF ci.found \cup ci.back = {} THEN @ ELSE RemoveAt(@, k)]
           /\ Goto(t, AfterDispatch(t, r.op, how))
     /\ UNCHANGED <<conf, mt, kern>>

\* do_interrupt under se->lock: the request it is about is in the list (it is
\* kept by a reference while se->lock is released), an equal interrupt is
\* pending, or this one is kept until the request arrives.
do_interrupt(t) ==
  LET i == thr[t].u
      r == fuse_ll_alloc_req(req[i], ChannelOf(t))
      hit == {j \in se.list : req[j].uq = r.target}
      j == CHOOSE j \in hit : TRUE
      again == \E k \in DOMAIN se.interrupts : req[se.interrupts[k]].target = r.target
  IN /\ At(t, "work") /\ r.op = "interrupt"
     /\ Refused([got_init |-> se.got_init, cuse |-> FALSE, deny_others |-> conf.deny_others], r.op, r.uid) = "no"
     /\ chan' = fuse_chan_get(chan, r.ch)
     /\ CASE hit # {} -> /\ req' = [req EXCEPT ![i] = r, ![j] = keep_ref(@)]
                         /\ thr' = [thr EXCEPT ![t].pc = "intr", ![t].cur = j]
                         /\ UNCHANGED se
          [] hit = {} /\ again -> /\ SetReq(i, drop_ref(r)) /\ Goto(t, "done") /\ UNCHANGED se
          [] OTHER -> /\ SetReq(i, r) /\ Goto(t, "done")
                      /\ se' = [se EXCEPT !.interrupts = Append(@, i)]
     /\ UNCHANGED <<conf, mt, kern>>

\* The rest of find_interrupted, one step per lock: take curr->lock and read the
\* function, call it, drop the reference.
find_interrupted(t) ==
  LET j == thr[t].cur
  IN \/ /\ At(t, "intr") /\ req[j].lock = None
        /\ req' = [req EXCEPT ![j].interrupted = TRUE,
                              ![j].lock = IF req[j].func = None THEN None ELSE t]
        /\ thr' = [thr EXCEPT ![t].pc = IF req[j].func = None THEN "unref" ELSE "kill",
                              ![t].d = req[j].func]
        /\ UNCHANGED <<conf, se, mt, chan, kern>>
     \/ /\ At(t, "unref")
        /\ req' = [req EXCEPT ![j] = drop_ref(@), ![thr[t].u] = drop_ref(@)]
        /\ Goto(t, "done")
        /\ UNCHANGED <<conf, se, mt, chan, kern>>

\* fuse_interrupt: signal the thread of the request until it has finished
fuse_interrupt_locked(t) ==
  /\ \/ /\ At(t, "kill") /\ ~thr[thr[t].d].fin
        /\ thr' = [thr EXCEPT ![t].pc = "killed", ![thr[t].d].sig = TRUE]
     \/ thr[t].pc \in {"kill", "killed"} /\ thr[thr[t].d].fin /\ Goto(t, "unref")
  /\ UNCHANGED <<conf, req, se, mt, chan, kern>>
fuse_interrupt(t) ==
  /\ \/ /\ At(t, "kill") /\ ~thr[thr[t].d].fin
        /\ thr' = [thr EXCEPT ![t].pc = "killed", ![thr[t].d].sig = TRUE]
        /\ UNCHANGED req
     \/ /\ thr[t].pc \in {"kill", "killed"} /\ thr[thr[t].d].fin
        /\ Goto(t, "unref")
        /\ req' = [req EXCEPT ![thr[t].cur].lock = None]
  /\ UNCHANGED <<conf, se, mt, chan, kern>>

\* fuse_do_prepare_interrupt; the function called by fuse_req_interrupt_func for
\* a request already interrupted returns at once in the request's own thread.
fuse_prepare_interrupt(t) ==
  /\ At(t, "prep") /\ req[thr[t].u].lock = None
  /\ req' = [req EXCEPT ![thr[t].u].func = t]
  /\ thr' = [thr EXCEPT ![t].pc = "run", ![t].fin = FALSE, ![t].sig = FALSE]
  /\ UNCHANGED <<conf, se, mt, chan, kern>>

\* The operation of the file system returns; one that answers later keeps the
\* request and answers from a thread of its own.
FsCall(t) ==
  LET op == req[thr[t].u].op
  IN /\ At(t, "run")
     /\ \/ /\ Goto(t, CASE op \in NoAnswer -> "free"
                      [] conf.intr /\ op \notin NoAnswer -> "finish"
                      [] OTHER -> "reply")
           /\ UNCHANGED se
        \/ /\ conf.defer /\ op \notin NoAnswer
           /\ se' = [se EXCEPT !.held = @ \cup {thr[t].u}]
           /\ Goto(t, "done")
     /\ UNCHANGED <<conf, req, mt, chan, kern>>

\* fuse_do_finish_interrupt: finished under f->lock, then the function is
\* withdrawn under req->lock, which waits for a call of it to end.
fuse_finish_interrupt(t) ==
  /\ \/ /\ At(t, "finish")
        /\ thr' = [thr EXCEPT ![t].pc = "withdraw", ![t].fin = TRUE]
        /\ UNCHANGED req
     \/ /\ At(t, "withdraw") /\ req[thr[t].u].lock = None
        /\ req' = [req EXCEPT ![thr[t].u].func = None]
        /\ Goto(t, "reply")
  /\ UNCHANGED <<conf, se, mt, chan, kern>>

\* send_reply_iov: send the answer, then fuse_free_req.  A failed INIT has still
\* to end the session.
send_reply(t) ==
  \/ /\ At(t, "reply")
     /\ req' = fuse_send_msg(req, thr[t].u)
     /\ Goto(t, "free")
     /\ UNCHANGED <<conf, se, mt, chan, kern>>
  \/ /\ At(t, "free")
     /\ req' = fuse_free_req(req, thr[t].u)
     /\ se' = [se EXCEPT !.list = @ \ {thr[t].u}]
     /\ chan' = fuse_chan_put(chan, req[thr[t].u].ch)
     /\ Goto(t, IF req[thr[t].u].arg = "refused" THEN "exit" ELSE "done")
     /\ UNCHANGED <<conf, mt, kern>>

\* do_init: a kernel of major version 6 is refused, one of version 8 is asked for
\* a second INIT; a file system that wants what the kernel lacks ends the session.
do_init(t) ==
  /\ \/ At(t, "init") /\ Goto(t, "reply")
        /\ se' = [se EXCEPT !.got_init = req[thr[t].u].arg \notin {"old", "newer"}]
     \/ At(t, "exit") /\ Goto(t, "done")
        /\ se' = [se EXCEPT !.error = -71, !.exited = TRUE]
  /\ UNCHANGED <<conf, req, mt, chan, kern>>

do_destroy_unnoted(t) ==
  /\ At(t, "destroy")
  /\ se' = [se EXCEPT !.destroys = @ + 1]
  /\ Goto(t, "reply")
  /\ UNCHANGED <<conf, req, mt, chan, kern>>
do_destroy(t) ==
  /\ At(t, "destroy")
  /\ se' = [se EXCEPT !.got_destroy = TRUE, !.destroys = @ + 1]
  /\ Goto(t, "reply")
  /\ UNCHANGED <<conf, req, mt, chan, kern>>

\* The reply to a retrieve: freed by fuse_ll_retrieve_reply, or left in the list
\* when no retrieve of that number is known.
do_notify_reply(t) ==
  LET n == req[thr[t].u].uq
  IN /\ At(t, "notify_reply")
     /\ se' = [se EXCEPT !.notify = @ \ {n}]
     /\ Goto(t, IF n \in se.notify THEN "free" ELSE "done")
     /\ UNCHANGED <<conf, req, mt, chan, kern>>

-----------------------------------------------------------------------------
(* A thread of the file system                                             *)

FsReply ==
  /\ Idle(Fs)
  /\ \E i \in se.held : /\ thr' = [thr EXCEPT ![Fs].pc = "reply", ![Fs].u = i]
                        /\ se' = [se EXCEPT !.held = @ \ {i}]
  /\ UNCHANGED <<conf, req, mt, chan, kern>>

\* fuse_lowlevel_notify_retrieve: enter the request, send it, and take it out
\* again when it could not be sent.
fuse_lowlevel_notify_retrieve ==
  \/ /\ Idle(Fs) /\ conf.retrieves >= se.notify_ctr
     /\ se' = [se EXCEPT !.notify = @ \cup {se.notify_ctr}, !.notify_ctr = @ + 1]
     /\ thr' = [thr EXCEPT ![Fs].pc = "send", ![Fs].cur = se.notify_ctr]
     /\ UNCHANGED <<conf, req, mt, chan, kern>>
  \/ /\ At(Fs, "send") /\ se.got_init /\ ~kern.aborted
     /\ req' = Append(req, Message("notify_reply", Owner, "", thr[Fs].cur, 0))
     /\ Goto(Fs, "none")
     /\ UNCHANGED <<conf, se, mt, chan, kern>>
  \/ /\ At(Fs, "send")
     /\ se' = [se EXCEPT !.notify = @ \ {thr[Fs].cur}]
     /\ Goto(Fs, "none")
     /\ UNCHANGED <<conf, req, mt, chan, kern>>

-----------------------------------------------------------------------------
(* The kernel and signals                                                  *)

\* The kernel sends the next request of the script; it waits for the answer to
\* INIT before it sends others.
KernelSend ==
  /\ kern.sent < Len(conf.script) /\ ~kern.aborted
  /\ \A i \in Ids : req[i].op = "init" => req[i].replies > 0
  /\ LET m == conf.script[kern.sent + 1]
     IN req' = Append(req, Message(m.op, m.uid, m.arg, kern.sent + 1, 0))
  /\ kern' = [kern EXCEPT !.sent = @ + 1]
  /\ UNCHANGED <<conf, se, mt, thr, chan>>

\* The caller of a request that a thread has read is interrupted.
KernelInterrupt ==
  /\ kern.intrs < conf.interrupts /\ ~kern.aborted
  /\ \E i \in Ids : /\ req[i].st \in {"read", "live"} /\ Waiting(req[i]) /\ req[i].op # "init"
                    /\ ~\E j \in Ids : req[j].target = req[i].uq
                    /\ req' = Append(req, Interrupt(req[i].uq))
  /\ kern' = [kern EXCEPT !.intrs = @ + 1]
  /\ UNCHANGED <<conf, se, mt, thr, chan>>

KernelAbort ==
  /\ conf.abort /\ ~kern.aborted /\ kern' = [kern EXCEPT !.aborted = TRUE]
  /\ UNCHANGED <<conf, req, se, mt, thr, chan>>

\* exit_handler runs in the main thread.  It ends a sem_wait or read that is under
\* way, but not one that is only about to begin.
exit_handler ==
  /\ conf.signal /\ ~kern.signalled /\ thr[Main].pc \notin {"start", "over", "gone"}
  /\ se' = [se EXCEPT !.exited = TRUE, !.error = 15]
  /\ kern' = [kern EXCEPT !.signalled = TRUE]
  /\ \/ UNCHANGED thr
     \/ At(Main, "wait") /\ Goto(Main, "loop")
     \/ At(Main, "read") /\ Goto(Main, "check")
  /\ UNCHANGED <<conf, req, mt, chan>>

-----------------------------------------------------------------------------
Init ==
  /\ conf \in Configs
  /\ req = << >>
  /\ se = [got_init |-> FALSE, got_destroy |-> FALSE, exited |-> FALSE, error |-> 0, result |-> 0,
           list |-> {}, interrupts |-> << >>, notify |-> {}, notify_ctr |-> 1,
           held |-> {}, destroys |-> 0]
  /\ mt = [list |-> << >>, numworker |-> 0, numavail |-> 0, finish |-> 0, exit |-> FALSE, error |-> 0]
  /\ thr = [t \in Threads |-> [pc |-> IF t = Main THEN "start" ELSE "none", u |-> 0, cur |-> 0,
                               d |-> None, cancelled |-> FALSE, fin |-> FALSE, sig |-> FALSE]]
  /\ chan = [w \in Workers |-> 0]
  /\ kern = [sent |-> 0, intrs |-> 0, aborted |-> FALSE, signalled |-> FALSE]

Step(t) ==
  \/ WorkTest(t) \/ fuse_session_receive_buf(t) \/ ReceiveFails(t) \/ WorkBreak(t) \/ Cancelled(t)
  \/ WorkTake(t) \/ WorkDone(t) \/ fuse_session_process_buf(t) \/ do_interrupt(t)
  \/ find_interrupted(t) \/ fuse_interrupt(t) \/ fuse_prepare_interrupt(t) \/ FsCall(t)
  \/ fuse_finish_interrupt(t) \/ send_reply(t) \/ do_init(t) \/ do_destroy(t) \/ do_notify_reply(t)

Loop == LoopStart \/ LoopTest \/ LoopWait \/ LoopCancel \/ fuse_join_worker \/ LoopReturn

Next ==
  \/ Loop \/ fuse_session_destroy
  \/ \E t \in Threads : Step(t)
  \/ FsReply \/ fuse_lowlevel_notify_retrieve
  \/ KernelSend \/ KernelInterrupt \/ KernelAbort \/ exit_handler

\* A thread that could go on: it neither waits for a lock, for the kernel, nor for
\* the end of an operation.
Ready(t) ==
  CASE thr[t].pc = "read" -> thr[t].cancelled \/ kern.aborted \/ Queued # {} \/ (conf.readfail /\ ~se.exited)
    [] thr[t].pc \in {"prep", "withdraw"} -> req[thr[t].u].lock = None
    [] thr[t].pc = "intr" -> req[thr[t].cur].lock = None
    [] thr[t].pc = "killed" -> thr[thr[t].d].fin
    [] thr[t].pc \in {"wait", "join"} -> IF thr[t].pc = "wait" THEN mt.finish > 0
                                        ELSE mt.list = << >> \/ At(Head(mt.list), "ended")
    [] thr[t].pc = "none" -> t = Fs /\ se.held # {}
    [] OTHER -> thr[t].pc \notin {"gone", "ended", "over"} \/ (t = Main /\ At(t, "ended"))

\* Weak fairness of every thread, the thread of the file system that answers late
\* included: one that stays ready takes a step.
Fairness == \A t \in Threads : <>[]Ready(t) => []<><<thr'[t].pc # thr[t].pc>>_thr
Spec == Init /\ [][Next]_vars /\ Fairness

-----------------------------------------------------------------------------
(* Properties                                                              *)

InHand == {"work", "prep", "run", "finish", "withdraw", "reply", "free", "init", "exit",
           "destroy", "notify_reply", "intr", "kill", "killed", "unref", "done"}
Pcs == InHand \cup {"none", "start", "loop", "wait", "cancel", "join", "over", "gone",
                    "check", "read", "break", "ended", "got", "send"}

TypeOK ==
  /\ conf \in Configs
  /\ \A i \in Ids : /\ req[i].st \in {"queued", "read", "live", "freed"} /\ req[i].ctr \in 0..3
                    /\ req[i].func \in Threads \cup {None} /\ req[i].lock \in Threads \cup {None}
                    /\ req[i].ch \in Workers \cup {None} /\ req[i].replies \in Nat
  /\ se.list \subseteq Ids /\ ToSet(se.interrupts) \subseteq Ids /\ se.held \subseteq se.list
  /\ ToSet(mt.list) \subseteq Workers
  /\ mt.numworker \in 0..Cardinality(Workers) /\ mt.numavail \in 0..Cardinality(Workers)
  /\ \A t \in Threads : thr[t].pc \in Pcs /\ thr[t].u \in 0..Len(req)
  /\ \A w \in Workers : chan[w] \in Nat

\* No thread works on a request that is freed, whoever holds the other references
\* to it: its own thread, a thread that interrupts it, a thread of the file system
\* that answers late, and the two lists of the session.
NoUseAfterFree ==
  /\ \A t \in Threads :
       /\ thr[t].pc \in {"prep", "run", "finish", "withdraw", "reply", "free", "init"}
            => req[thr[t].u].st = "live"
       /\ thr[t].pc \in {"intr", "kill", "killed", "unref"}
            => req[thr[t].u].st = "live" /\ req[thr[t].cur].st = "live"
  /\ \A i \in se.list \cup ToSet(se.interrupts) : req[i].st = "live"

\* fuse_interrupt works on data on the stack of the thread it interrupts: while it
\* runs that thread is still in the call for the same request.
InterruptInScope ==
  \A t \in Threads : thr[t].pc \in {"kill", "killed"} =>
     LET d == thr[t].d IN thr[d].u = thr[t].cur /\ thr[d].pc \in {"run", "finish", "withdraw"}

\* No interrupt is kept for later while the request it is about is being worked on,
\* in whatever order the two were read and by whatever threads.
NoInterruptMissed ==
  \A k \in DOMAIN se.interrupts, i \in se.list :
     req[i].uq # req[se.interrupts[k]].target

\* The kernel gets one answer for a request it waits for, before the request is freed.
AnsweredOnce ==
  \A i \in Ids : /\ req[i].replies <= 1
                 /\ req[i].st = "freed" /\ req[i].op \notin NoAnswer => req[i].replies = 1
                 /\ req[i].op \in NoAnswer /\ ~conf.nomem => req[i].replies = 0

Busy(w) == thr[w].pc \in InHand /\ ~isforget(w)

\* numavail is the number of workers that do not work on a request (forgets do not
\* count), and numworker the length of the list: while threads can be created there
\* is always a worker left to read the next request, an interrupt for instance.
SomeoneReads ==
  /\ ~mt.exit => /\ mt.numavail = Cardinality({w \in ToSet(mt.list) : ~Busy(w)})
                 /\ mt.numworker = Len(mt.list)
  /\ thr[Main].pc \in {"loop", "wait"} /\ Len(mt.list) < conf.threads /\ ~conf.clone_fd
       => \E w \in ToSet(mt.list) : ~Busy(w)

\* The list holds the workers that run, so that the main thread never cancels or
\* joins one that has detached and freed itself.
JoinsOnlyRunning ==
  /\ \A w \in Workers : Idle(w) <=> w \notin ToSet(mt.list)
  /\ thr[Main].pc \in {"over", "gone"} => \A w \in Workers : Idle(w)

\* A cloned channel stays open while its worker or a request read from it may still
\* write to it; the references of the interrupts that were consumed are never given
\* back.
ChannelRefs ==
  \A w \in Workers : conf.clone_fd =>
     chan[w] = (IF Idle(w) THEN 0 ELSE 1)
               + Cardinality({i \in Ids : req[i].st = "live" /\ req[i].ch = w})
               + Cardinality({i \in Ids : req[i].st = "freed" /\ req[i].ch = w})

\* The file system's destroy is called once, by the kernel's request or when the
\* session is destroyed.
DestroyOnce ==
  /\ se.destroys <= 1
  /\ At(Main, "gone") /\ se.got_init => se.destroys = 1

\* A request the kernel has queued is answered, unless the session ends.
AllAnswered ==
  \A i \in 1..4 : (i \in Ids /\ Waiting(req[i])) ~>
                 ((i \in Ids /\ ~Waiting(req[i])) \/ thr[Main].pc \in {"over", "gone"})

\* After the file system is unmounted the loop returns, with every worker joined.
UnmountEndsLoop == kern.aborted ~> thr[Main].pc \in {"over", "gone"}

\* Lifetimes under the counts of fuse_req and fuse_chan: no freed request or channel is
\* used, a channel goes with its last user, and the loop joins only workers it started.
Lifetimes == NoUseAfterFree /\ ChannelRefs /\ JoinsOnlyRunning

\* FUSE_INTERRUPT finds its request in se->list, or waits in se->interrupts for one that
\* is read later (check_interrupt), and its function runs for no other request.
InterruptsHit == InterruptInScope /\ NoInterruptMissed

\* While the session lasts some worker reads the device or is about to, a request is
\* answered at most once, and destroy is called once, by do_destroy or
\* fuse_session_destroy.
ServedOnce == TypeOK /\ AnsweredOnce /\ DestroyOnce /\ SomeoneReads
=============================================================================
