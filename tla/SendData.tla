----------------------------- MODULE SendData -----------------------------
(***************************************************************************)
(* fuse_reply_data: a reply whose data is in buffers or behind file        *)
(* descriptors goes to the device by way of the thread's pipe (vmsplice of *)
(* the header, splice of the data, splice of the whole into the device)    *)
(* or, whenever a step says no, by way of memory.  What the source has     *)
(* already given must not be lost on the way, and what a failed reply      *)
(* leaves in the pipe must not come before the next one.                   *)
(*                                                                         *)
(* A byte is <<reply, place>>: places 1..n are data of the source, 0 is a  *)
(* byte of the header.  The header in the pipe is the caller's own page,   *)
(* so that its length is the one stored when the device takes the message. *)
(* fuse_buf_copy is taken as module BufCopy checks it: an error and        *)
(* nothing moved, or the next bytes of the source in order.                *)
(***************************************************************************)
EXTENDS Integers, SequencesExt

CONSTANTS SendThreads,
          MaxReplies,  \* bound on the replies of all threads together
          Sources,     \* [n, has, mem, big]: size asked, bytes there, one buffer of memory,
                       \* large enough to be spliced
          HeaderLen    \* size of struct fuse_out_header, in bytes of the model

ASSUME HeaderAssumption == HeaderLen \in Nat
ASSUME SourcesAssumption ==
  \A s \in Sources : s \in [n : Nat, has : Nat, mem : BOOLEAN, big : BOOLEAN]

VARIABLES llp,      \* struct fuse_ll_pipe of each thread, or NoPipe
          broken,   \* se->broken_splice_nonblock
          send,     \* the reply each thread is sending
          device    \* the messages the kernel has taken

sendVars == <<llp, broken, send, device>>
NoPipe == [bytes |-> << >>, size |-> 0, can_grow |-> FALSE]
Quiet  == [pc |-> "quiet", no |-> 0, src |-> [n |-> 0, has |-> 0, mem |-> FALSE, big |-> FALSE],
           taken |-> 0, len |-> 0, buf |-> << >>]

Sending(t) == send[t]
Replies == FoldFunction(LAMBDA s, n : s.no + n, 0, send)
ReplyId(t) == <<t, Sending(t).no>>
OutHeader(t) == [i \in 1..HeaderLen |-> <<ReplyId(t), 0>>]
\* The next k bytes of the source, and the vector after they are taken.
NextBytes(t, k) == [i \in 1..k |-> <<ReplyId(t), Sending(t).taken + i>>]
Taken(s, k) == [s EXCEPT !.taken = @ + k]
\* What one fuse_buf_copy may move: any part of what is left.
SrcLeft(t) == 0 .. (Min({Sending(t).src.has, Sending(t).src.n}) - Sending(t).taken)

\* fuse_send_msg; the device takes a whole message or refuses it.
DevMessage(t, len, bytes, error) ==
  [unique |-> ReplyId(t), len |-> len, bytes |-> bytes, error |-> error, taken |-> Sending(t).taken]
fuse_send_msg(m) == device' = Append(device, m) \/ UNCHANGED device
SendDone(t) == send' = [send EXCEPT ![t].pc = "quiet"]
SendGoto(t, pc) == send' = [send EXCEPT ![t].pc = pc]

\* The first tests of fuse_send_data_iov: is the data to go through the pipe?
Spliced(src, flags) == ~broken /\ ~flags.nosplice /\ src.big /\ flags.want
fuse_reply_data(t, src, flags) ==
  /\ Sending(t).pc = "quiet" /\ Replies < MaxReplies
  /\ send' = [send EXCEPT ![t] =
       [pc |-> IF Spliced(src, flags) THEN "pipe" ELSE "fallback",
        no |-> @.no + 1, src |-> src, taken |-> 0, len |-> HeaderLen + src.n, buf |-> << >>]]
  /\ UNCHANGED <<llp, broken, device>>

\* The thread's pipe, made at its first use.
fuse_ll_get_pipe(t) == IF llp[t] = NoPipe THEN [bytes |-> << >>, size |-> HeaderLen, can_grow |-> TRUE] ELSE llp[t]
\* Making the pipe may fail; one that is too small is grown (F_SETPIPE_SZ), unless that
\* has failed before.
GrowPipe(t) ==
  LET p == fuse_ll_get_pipe(t)
  IN /\ Sending(t).pc = "pipe"
     /\ \/ llp[t] = NoPipe /\ SendGoto(t, "fallback") /\ UNCHANGED llp
        \/ p.size >= Sending(t).len /\ SendGoto(t, "vmsplice") /\ llp' = [llp EXCEPT ![t] = p]
        \/ p.size < Sending(t).len /\ ~p.can_grow /\ SendGoto(t, "fallback") /\ llp' = [llp EXCEPT ![t] = p]
        \/ /\ p.size < Sending(t).len /\ p.can_grow
           /\ \/ SendGoto(t, "vmsplice") /\ llp' = [llp EXCEPT ![t] = [p EXCEPT !.size = Sending(t).len]]
              \/ SendGoto(t, "fallback") /\ llp' = [llp EXCEPT ![t] = [p EXCEPT !.can_grow = FALSE]]
     /\ UNCHANGED <<broken, device>>

fuse_ll_clear_pipe(t) == llp' = [llp EXCEPT ![t] = NoPipe]
\* clear_pipe: a positive error is reported to the kernel, a negative one ends the request.
clear_pipe(t, pc) == fuse_ll_clear_pipe(t) /\ SendGoto(t, pc)

vmsplice(t) ==
  /\ Sending(t).pc = "vmsplice"
  /\ \/ SendGoto(t, "fallback") /\ UNCHANGED llp
     \/ SendGoto(t, "copy") /\ llp' = [llp EXCEPT ![t].bytes = @ \o OutHeader(t)]
     \/ clear_pipe(t, "quiet")    \* short
  /\ UNCHANGED <<broken, device>>

\* fuse_buf_copy into the pipe with FUSE_BUF_FORCE_SPLICE.
CopyToPipe(t) ==
  /\ Sending(t).pc = "copy"
  /\ \/ \E k \in SrcLeft(t) :
          /\ llp' = [llp EXCEPT ![t].bytes = @ \o NextBytes(t, k)]
          /\ send' = [send EXCEPT ![t] = [Taken(@, k) EXCEPT !.len = HeaderLen + k,
                                          !.pc = IF k # 0 /\ k < Sending(t).src.n THEN "rest" ELSE "splice"]]
          /\ UNCHANGED broken
     \/ /\ clear_pipe(t, "fallback")      \* EAGAIN, EINVAL
        /\ broken' \in {broken, TRUE}
     \/ clear_pipe(t, "error") /\ UNCHANGED broken
  /\ UNCHANGED device

\* After a short count: the rest of the source, into memory.  When there is more, what
\* the pipe holds is read back in front of it.
CopyRest(t) ==
  /\ Sending(t).pc = "rest"
  /\ \/ \E k \in SrcLeft(t) : send' = [send EXCEPT ![t] = [Taken(@, k) EXCEPT !.buf = NextBytes(t, k),
                                                        !.pc = IF k > 0 THEN "back" ELSE "splice"]]
        /\ UNCHANGED llp
     \/ SendGoto(t, "splice") /\ UNCHANGED llp      \* the copy fails
     \/ clear_pipe(t, "error")                  \* no memory
  /\ UNCHANGED <<broken, device>>

\* read_back: the data that the pipe holds behind the header, which is thrown away, and
\* what stays in the pipe.
read_back_headerkept(bytes, now_len) == [mbuf |-> SubSeq(bytes, 1, now_len), rest |-> << >>]
read_back(bytes, now_len) == [mbuf |-> SubSeq(bytes, HeaderLen + 1, HeaderLen + now_len),
                              rest |-> SubSeq(bytes, HeaderLen + now_len + 1, Len(bytes))]
\* "Trickiest case: got more data."
GotMore(t) ==
  /\ Sending(t).pc = "back"
  /\ \/ LET r == read_back(llp[t].bytes, Sending(t).len - HeaderLen)
            data == r.mbuf \o Sending(t).buf
        IN /\ llp' = [llp EXCEPT ![t].bytes = r.rest]
           /\ fuse_send_msg(DevMessage(t, HeaderLen + Len(data), OutHeader(t) \o data, FALSE))
           /\ SendDone(t)
     \/ clear_pipe(t, "error") /\ UNCHANGED device   \* no memory
     \/ clear_pipe(t, "quiet") /\ UNCHANGED device   \* short read
  /\ UNCHANGED broken

\* splice of out->len bytes into the device.
splice(t) ==
  /\ Sending(t).pc = "splice"
  /\ \/ /\ Len(llp[t].bytes) >= Sending(t).len
        /\ device' = Append(device, DevMessage(t, Sending(t).len, SubSeq(llp[t].bytes, 1, Sending(t).len), FALSE))
        /\ llp' = [llp EXCEPT ![t].bytes = SubSeq(@, Sending(t).len + 1, Len(@))]
        /\ SendDone(t)
     \/ clear_pipe(t, "quiet") /\ UNCHANGED device
  /\ UNCHANGED broken

fuse_send_data_iov_fallback(t) ==
  /\ Sending(t).pc = "fallback"
  /\ IF Sending(t).src.mem
     THEN /\ fuse_send_msg([DevMessage(t, Sending(t).len, OutHeader(t) \o NextBytes(t, Sending(t).src.n), FALSE)
                              EXCEPT !.taken = Sending(t).src.n])
          /\ SendDone(t)
     ELSE \/ SendGoto(t, "error") /\ UNCHANGED device
          \/ \E k \in SrcLeft(t) :
               /\ fuse_send_msg([DevMessage(t, HeaderLen + k, OutHeader(t) \o NextBytes(t, k), FALSE)
                                   EXCEPT !.taken = Sending(t).taken + k])
               /\ send' = [send EXCEPT ![t] = [Taken(@, k) EXCEPT !.pc = "quiet"]]
  /\ UNCHANGED <<llp, broken>>

\* fuse_reply_data: fuse_reply_err for a positive result.
ReplyError(t) ==
  /\ Sending(t).pc = "error"
  /\ fuse_send_msg(DevMessage(t, HeaderLen, OutHeader(t), TRUE))
  /\ SendDone(t) /\ UNCHANGED <<llp, broken>>

SendInit == /\ llp = [t \in SendThreads |-> NoPipe] /\ broken = FALSE
            /\ send = [t \in SendThreads |-> Quiet] /\ device = << >>
SendNext ==
  \E t \in SendThreads :
    \/ \E src \in Sources : \E flags \in [nosplice : BOOLEAN, want : BOOLEAN] : fuse_reply_data(t, src, flags)
    \/ GrowPipe(t) \/ vmsplice(t) \/ CopyToPipe(t) \/ CopyRest(t) \/ GotMore(t) \/ splice(t)
    \/ fuse_send_data_iov_fallback(t) \/ ReplyError(t)
SendSpec == SendInit /\ [][SendNext]_sendVars

-----------------------------------------------------------------------------
(* Properties                                                              *)

\* Every message the kernel takes is one header, whose length is the message's, and
\* then the first bytes of the data of its own reply, in order, each once; no request
\* is answered twice (fuse_send_data_iov and its fallback).
MessagesWhole ==
  /\ \A i \in DOMAIN device :
       LET m == device[i] IN
       /\ m.len = Len(m.bytes)
       /\ m.bytes = [k \in 1..Len(m.bytes) |-> <<m.unique, IF k <= HeaderLen THEN 0 ELSE k - HeaderLen>>]
  /\ \A i, j \in DOMAIN device : device[i].unique = device[j].unique => i = j

\* A successful reply carries everything that was taken from its source: what a pipe or
\* a socket has given is never thrown away (the read_back path).
NothingDropped ==
  \A i \in DOMAIN device : ~device[i].error => Len(device[i].bytes) = HeaderLen + device[i].taken

\* Between two replies the thread's pipe is empty, whatever failed in the first
\* (clear_pipe).
PipeEmpty == \A t \in SendThreads : send[t].pc \in {"quiet", "pipe", "fallback", "error"} => llp[t].bytes = << >>

\* fuse_send_data_iov: the device gets whole messages, each with all the data taken for
\* it and nothing a failed reply left in the thread's pipe.
MessagesExact == MessagesWhole /\ NothingDropped /\ PipeEmpty
=============================================================================
