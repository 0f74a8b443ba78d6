------------------------------ MODULE BufCopy ------------------------------
(***************************************************************************)
(* fuse_buf_copy: data goes from one vector of buffers to another, each    *)
(* buffer being memory or a file descriptor, by memcpy, write, read,       *)
(* splice, or read and write through a page of memory.  Every system call  *)
(* may move fewer bytes than asked, none, or fail, and a buffer may ask    *)
(* for the call to be repeated.                                            *)
(*                                                                         *)
(* A byte is named by its buffer and its place in it.  A descriptor        *)
(* without FUSE_BUF_FD_SEEK is a stream: what is read from it is gone.     *)
(***************************************************************************)
EXTENDS Integers, SequencesExt

CONSTANTS SrcVecs, DstVecs,  \* vectors: sequences of [size, fd, seek, retry]
          TmpSize            \* the 4096 bytes of fuse_buf_fd_to_fd

VARIABLES vec,    \* the two vectors of this call and its flags
          cp,     \* the call: where it is, indexes and offsets, counters
          stream, \* bytes taken from and put into the streams: src, dst
          moved   \* history: the bytes moved, <<source byte, destination byte>>

copyVars == <<vec, cp, stream, moved>>
Smaller(a, b) == IF a < b THEN a ELSE b
fuse_buf_size(v) == FoldLeft(LAMBDA n, b : n + b.size, 0, v)
Src == vec.src[cp.s]
Dst == vec.dst[cp.d]
Left == cp.len - cp.inner

SrcByte(i) == IF Src.fd /\ ~Src.seek THEN <<cp.s, stream.src[cp.s] + i>> ELSE <<cp.s, cp.so + cp.inner + i>>
DstByte(i) == IF Dst.fd /\ ~Dst.seek THEN <<cp.d, stream.dst[cp.d] + i>> ELSE <<cp.d, cp.do + cp.inner + i>>
Streams(r, w) == [src |-> [stream.src EXCEPT ![cp.s] = @ + r], dst |-> [stream.dst EXCEPT ![cp.d] = @ + w]]
Move(n) ==
  /\ moved' = moved \o [i \in 1..n |-> <<SrcByte(i), DstByte(i)>>]
  /\ stream' = Streams(n, n)

Return(c, r) == [c EXCEPT !.pc = "done", !.ret = r]
\* off and idx of a vector after n more bytes
fuse_bufvec_advance_sameoff(idx, off, v, n) ==
  IF off + n = v[idx].size THEN [idx |-> idx + 1, off |-> off + n, more |-> idx < Len(v)]
  ELSE [idx |-> idx, off |-> off + n, more |-> TRUE]
fuse_bufvec_advance(idx, off, v, n) ==
  IF off + n = v[idx].size THEN [idx |-> idx + 1, off |-> IF idx = Len(v) THEN off + n ELSE 0, more |-> idx < Len(v)]
  ELSE [idx |-> idx, off |-> off + n, more |-> TRUE]

\* What fuse_buf_copy does with the result of one fuse_buf_copy_one; the
\* destination is not advanced when the source is at its end.
CopyResult(c, res) ==
  LET a == fuse_bufvec_advance(c.s, c.so, vec.src, res)
      b == fuse_bufvec_advance(c.d, c.do, vec.dst, res)
      m == [c EXCEPT !.copied = @ + res, !.s = a.idx, !.so = a.off]
      n == IF a.more THEN [m EXCEPT !.d = b.idx, !.do = b.off] ELSE m
  IN IF res < 0 THEN Return(c, IF c.copied = 0 THEN res ELSE c.copied)
     ELSE IF ~a.more \/ ~b.more \/ res < c.len THEN Return(n, n.copied)
     ELSE [n EXCEPT !.pc = "top"]

\* The loop of fuse_buf_copy and the choice in fuse_buf_copy_one.
fuse_buf_copy ==
  /\ cp.pc = "top"
  /\ LET len == Smaller(Src.size - cp.so, Dst.size - cp.do)
         c == [cp EXCEPT !.len = len, !.inner = 0, !.tmp = << >>]
     IN IF ~Src.fd /\ ~Dst.fd
        THEN /\ cp' = CopyResult(c, len)
             /\ moved' = moved \o [i \in 1..len |-> << <<cp.s, cp.so + i>>, <<cp.d, cp.do + i>> >>]
             /\ UNCHANGED stream
        ELSE /\ cp' = [c EXCEPT !.pc = IF ~Src.fd THEN "write" ELSE IF ~Dst.fd THEN "read"
                                       ELSE IF vec.nosplice THEN "fd_read" ELSE "splice"]
             /\ UNCHANGED <<moved, stream>>
  /\ UNCHANGED vec

\* One call in a loop that goes on while `again': -1 is an error, 0 the end.
IoError(c, n) == IF n = -1 /\ c.inner = 0 THEN -1 ELSE c.inner
Ended == [cp EXCEPT !.ended = TRUE]
IoStep(pc, again) ==
  /\ cp.pc = pc /\ Left > 0
  /\ \E n \in -1..Left :
       IF n <= 0 THEN /\ cp' = CopyResult(Ended, IoError(cp, n))
                      /\ UNCHANGED <<moved, stream>>
       ELSE /\ Move(n)
            /\ LET c == [cp EXCEPT !.inner = @ + n]
               IN cp' = IF again /\ n < Left THEN c ELSE CopyResult(c, c.inner)
  /\ UNCHANGED vec
\* Nothing to do for a buffer of no size.
EmptyStep == /\ cp.pc \in {"write", "read", "splice", "fd_read"} /\ Left = 0
             /\ cp' = CopyResult(cp, cp.inner) /\ UNCHANGED <<vec, moved, stream>>

fuse_buf_write == IoStep("write", Dst.retry)
fuse_buf_read == IoStep("read", Src.retry)
fuse_buf_splice == IoStep("splice", Src.retry \/ Dst.retry)
\* A splice that fails at once because the descriptors cannot be spliced becomes a
\* read and a write.
SpliceRefused ==
  /\ cp.pc = "splice" /\ Left > 0 /\ cp.inner = 0 /\ ~vec.force
  /\ cp' = [cp EXCEPT !.pc = "fd_read"] /\ UNCHANGED <<vec, moved, stream>>

\* fuse_buf_fd_to_fd: read into the page ...
TmpRead ==
  LET want == Smaller(TmpSize, Left)
      room == want - Len(cp.tmp)
  IN /\ cp.pc = "fd_read" /\ Left > 0 /\ room > 0
     /\ \E n \in -1..room :
          LET got == cp.tmp \o [i \in 1..n |-> IF Src.seek THEN <<cp.s, cp.so + cp.inner + Len(cp.tmp) + i>>
                                               ELSE SrcByte(i)]
          IN IF n > 0
             THEN /\ stream' = Streams(n, 0)
                  /\ cp' = [cp EXCEPT !.tmp = got, !.want = want, !.put = 0,
                                      !.pc = IF Src.retry /\ n < room THEN "fd_read" ELSE "fd_write"]
             ELSE /\ cp' = IF cp.tmp # << >> THEN [Ended EXCEPT !.pc = "fd_write", !.want = want, !.put = 0]
                           ELSE CopyResult(Ended, IoError(cp, n))
                  /\ UNCHANGED stream
  /\ UNCHANGED <<vec, moved>>
\* ... and write it; a short write ends the copy.
TmpWrite ==
  /\ cp.pc = "fd_write"
  /\ LET rest == Len(cp.tmp) - cp.put
         Finish(c, put) ==
           LET d == [c EXCEPT !.inner = @ + put, !.tmp = << >>]
           IN IF put < c.want \/ d.inner = d.len THEN CopyResult(d, d.inner) ELSE [d EXCEPT !.pc = "fd_read"]
     IN \E n \in -1..rest :
          IF n > 0
          THEN /\ moved' = moved \o [i \in 1..n |-> <<cp.tmp[cp.put + i],
                                       IF Dst.seek THEN <<cp.d, cp.do + cp.inner + cp.put + i>> ELSE <<cp.d, stream.dst[cp.d] + i>> >>]
               /\ stream' = Streams(0, n)
               /\ cp' = IF Dst.retry /\ n < rest THEN [cp EXCEPT !.put = @ + n] ELSE Finish(cp, cp.put + n)
          ELSE /\ cp' = IF cp.put > 0 THEN Finish(Ended, cp.put)
                        ELSE CopyResult(Ended, IoError(cp, n))
               /\ UNCHANGED <<moved, stream>>
  /\ UNCHANGED vec

Zeros(v) == [k \in DOMAIN v |-> 0]
CopyInit ==
  /\ vec \in [src : SrcVecs, dst : DstVecs, nosplice : BOOLEAN, force : BOOLEAN]
  /\ cp = [pc |-> "top", s |-> 1, so |-> 0, d |-> 1, do |-> 0, copied |-> 0, len |-> 0, inner |-> 0,
           tmp |-> << >>, want |-> 0, put |-> 0, ret |-> 0,
           ended |-> FALSE]  \* history: a system call has failed or met the end
  /\ stream = [src |-> Zeros(vec.src), dst |-> Zeros(vec.dst)]
  /\ moved = << >>
CopyNext ==
  fuse_buf_copy \/ fuse_buf_write \/ fuse_buf_read \/ fuse_buf_splice \/ SpliceRefused \/ EmptyStep \/ TmpRead \/ TmpWrite

-----------------------------------------------------------------------------
(* Properties                                                              *)

RECURSIVE AllBytes(_, _)
AllBytes(v, k) == IF k > Len(v) THEN << >> ELSE [i \in 1..v[k].size |-> <<k, i>>] \o AllBytes(v, k + 1)

\* The bytes that arrive are the first ones of the source, each once and each at the
\* place with the same number in the destination, however the system calls cut them.
InOrder ==
  \A i \in DOMAIN moved : moved[i] = <<AllBytes(vec.src, 1)[i], AllBytes(vec.dst, 1)[i]>>

\* The call returns the number of bytes that arrived, or an error when none did.
CountRight == cp.pc = "done" => cp.ret = (IF cp.ret < 0 THEN -1 ELSE Len(moved)) /\ (cp.ret < 0 => moved = << >>)

\* FUSE_BUF_FD_RETRY on every descriptor: the call moves all that the shorter vector
\* holds unless a system call failed or met the end, however short its transfers are.
RetryCompletes ==
  (/\ cp.pc = "done" /\ ~cp.ended
   /\ \A v \in {vec.src, vec.dst} : \A k \in DOMAIN v : v[k].fd => v[k].retry)
    => cp.ret = Smaller(fuse_buf_size(vec.src), fuse_buf_size(vec.dst))

\* fuse_buf_copy moves the bytes of the source in order, reports how many it moved, and
\* with FUSE_BUF_FD_RETRY moves all, however short the system calls fall.
CopyExact == InOrder /\ CountRight /\ RetryCompletes
=============================================================================
