--------------------------- MODULE Library_proofs ---------------------------
(***************************************************************************)
(* Parts of libfuse that keep state of their own (MCLibrary checks them    *)
(* together): replies with data, record locks, the table of nodes, the     *)
(* reading of directories and the option remember.                         *)
(*                                                                         *)
(* Replies: the messages of fuse_send_data_iov are whole and exact for     *)
(* every number of threads and replies, all sources and every length of    *)
(* the header.  What the device takes from the pipe is decided steps       *)
(* before: the inductive invariant says what the pipe of a thread and the  *)
(* memory beside it hold at each point of a reply, how much the source has *)
(* given, and that a reply still under way is not among the messages.      *)
(*                                                                         *)
(* Record locks: the list that the library keeps agrees with the locks of  *)
(* the file system, for every number of owners and every last offset.  The *)
(* list is read through Held: who holds which type at which offset.  The   *)
(* loop of locks_insert is followed turn by turn: outside the new lock     *)
(* nothing changes, behind the position nothing is in its way.             *)
(*                                                                         *)
(* The table of nodes: what it holds is a function of its size, its split  *)
(* point and the ids in use (TableAs), for every hash of ids to numbers;   *)
(* each operation leads from one such table to another.                    *)
(*                                                                         *)
(* Reading a directory: each page is what follows its offset, for every    *)
(* directory, all sizes of buffers and every file system that passes       *)
(* offsets, none, or some.  The loops that fill a page are followed entry  *)
(* by entry: what the file system has offered so far (Offered), what was   *)
(* taken from the list (Paged), and what one request replies (Served).     *)
(*                                                                         *)
(* The option remember: lookups, references and the list of nodes agree,   *)
(* and no named node is dropped early, for every number of nodes and files *)
(* and every remember.  The invariant holds between two references given   *)
(* up as well (RemStruct says of which nodes one is owed), so that each    *)
(* function of fuse.c has a lemma, and the walk of fuse_clean_cache one    *)
(* for each node it passes (WalkedTo).                                     *)
(***************************************************************************)
EXTENDS RecordLocks, SendData, NodeTable, ReadDir, Remember, Induction_proofs, SequenceTheorems, FiniteSetTheorems

-----------------------------------------------------------------------------
(* Replies with data *)

SendPcs == {"quiet", "pipe", "vmsplice", "copy", "rest", "back", "splice", "fallback", "error"}
ReplyIds == SendThreads \X Nat
SentBytes == ReplyIds \X Nat
SourceType == [n : Nat, has : Nat, mem : BOOLEAN, big : BOOLEAN]
SendType == [pc : SendPcs, no : Nat, src : SourceType, taken : Nat, len : Nat, buf : Seq(SentBytes)]
PipeType == [bytes : Seq(SentBytes), size : Nat, can_grow : BOOLEAN]

(* The first n bytes of a message: the header, then the data in order. *)
Whole(id, n) == [i \in 1..n |-> <<id, IF i <= HeaderLen THEN 0 ELSE i - HeaderLen>>]
(* j bytes of the data of a reply, after the first k. *)
Data(id, k, j) == [i \in 1..j |-> <<id, k + i>>]

TypesOK == /\ llp \in [SendThreads -> PipeType]
           /\ send \in [SendThreads -> SendType]
           /\ device \in Seq([unique : ReplyIds, len : Nat, bytes : Seq(SentBytes), error : BOOLEAN, taken : Nat])

(* What the pipe of t and its memory hold. *)
Holds(t) ==
  LET s == send[t]  id == <<t, s.no>>  now == s.len - HeaderLen IN
  /\ s.pc \in {"quiet", "pipe", "vmsplice", "fallback", "error"} => llp[t].bytes = << >>
  /\ s.pc \in {"pipe", "vmsplice", "copy", "fallback"} => s.taken = 0 /\ s.len = HeaderLen + s.src.n
  /\ s.pc = "copy" => llp[t].bytes = Whole(id, HeaderLen)
  /\ s.pc \in {"rest", "back", "splice"} => s.len >= HeaderLen /\ llp[t].bytes = Whole(id, s.len)
  /\ s.pc \in {"rest", "splice"} => s.taken = now
  /\ s.pc = "back" => s.taken = now + Len(s.buf) /\ s.buf = Data(id, now, Len(s.buf))

(* A message is whole, carries what was taken and is the last of no reply  *)
(* that is still under way.                                                *)
Good(m) ==
  /\ m.len = Len(m.bytes) /\ m.bytes = Whole(m.unique, Len(m.bytes))
  /\ ~m.error => Len(m.bytes) = HeaderLen + m.taken
Past(m) == /\ m.unique[2] <= send[m.unique[1]].no
           /\ m.unique[2] = send[m.unique[1]].no => send[m.unique[1]].pc = "quiet"

SendInv ==
  /\ TypesOK
  /\ \A t \in SendThreads : Holds(t)
  /\ \A i \in DOMAIN device : Good(device[i]) /\ Past(device[i])
  /\ \A i, j \in DOMAIN device : device[i].unique = device[j].unique => i = j

-----------------------------------------------------------------------------
(* Pieces of a message. *)
LEMMA WholeSeq ==
  ASSUME NEW id \in ReplyIds, NEW n \in Nat
  PROVE  Whole(id, n) \in Seq(SentBytes) /\ Len(Whole(id, n)) = n
BY HeaderAssumption DEF Whole, SentBytes

LEMMA DataSeq ==
  ASSUME NEW id \in ReplyIds, NEW k \in Nat, NEW j \in Nat
  PROVE  Data(id, k, j) \in Seq(SentBytes) /\ Len(Data(id, k, j)) = j
BY DEF Data, SentBytes

LEMMA JoinData ==
  ASSUME NEW id \in ReplyIds, NEW k \in Nat, NEW j \in Nat
  PROVE  Whole(id, HeaderLen + k) \o Data(id, k, j) = Whole(id, HeaderLen + (k + j))
<1> DEFINE a == Whole(id, HeaderLen + k)  b == Data(id, k, j)  c == Whole(id, HeaderLen + (k + j))
<1>1. HeaderLen \in Nat
  BY HeaderAssumption
<1>2. a \in Seq(SentBytes) /\ b \in Seq(SentBytes) /\ c \in Seq(SentBytes)
      /\ Len(a) = HeaderLen + k /\ Len(b) = j /\ Len(c) = HeaderLen + (k + j)
  BY <1>1, WholeSeq, DataSeq
<1>3. \A i \in 1..(HeaderLen + k) : a[i] = c[i]
  BY <1>1 DEF Whole
<1>4. \A i \in 1..j : b[i] = c[HeaderLen + k + i]
  BY <1>1 DEF Whole, Data
<1> HIDE DEF a, b, c
<1>5. a \o b \in Seq(SentBytes) /\ Len(a \o b) = Len(c)
  <2>1. a \o b \in Seq(SentBytes) /\ Len(a \o b) = Len(a) + Len(b)
    BY <1>2, ConcatProperties
  <2> QED BY <1>1, <1>2, <2>1
<1>6. \A i \in 1..Len(c) : (a \o b)[i] = c[i]
  <2> SUFFICES ASSUME NEW i \in 1..Len(c) PROVE (a \o b)[i] = c[i]
    OBVIOUS
  <2>1. CASE i <= HeaderLen + k
    BY <1>1, <1>2, <1>3, <2>1
  <2>2. CASE i > HeaderLen + k
    <3>1. i - (HeaderLen + k) \in 1..j
      BY <1>1, <1>2, <2>2
    <3>2. (a \o b)[i] = b[i - (HeaderLen + k)]
      BY <1>1, <1>2, <2>2
    <3>3. b[i - (HeaderLen + k)] = c[HeaderLen + k + (i - (HeaderLen + k))]
      BY <1>4, <3>1
    <3>4. HeaderLen + k + (i - (HeaderLen + k)) = i
      BY <1>1, <1>2
    <3> QED BY <3>2, <3>3, <3>4
  <2> QED BY <1>1, <1>2, <2>1, <2>2
<1>7. a \o b = c
  BY <1>2, <1>5, <1>6, SeqEqual
<1> QED BY <1>7 DEF a, b, c

(* What is read back from the pipe behind the header, and what stays. *)
LEMMA ReadBack ==
  ASSUME NEW id \in ReplyIds, NEW k \in Nat
  PROVE  /\ SubSeq(Whole(id, HeaderLen + k), HeaderLen + 1, HeaderLen + k) = Data(id, 0, k)
         /\ SubSeq(Whole(id, HeaderLen + k), HeaderLen + k + 1, HeaderLen + k) = << >>
         /\ SubSeq(Whole(id, HeaderLen + k), 1, HeaderLen + k) = Whole(id, HeaderLen + k)
<1> DEFINE a == Whole(id, HeaderLen + k)  b == Data(id, 0, k)
<1>1. HeaderLen \in Nat
  BY HeaderAssumption
<1>2. a \in Seq(SentBytes) /\ Len(a) = HeaderLen + k /\ b \in Seq(SentBytes) /\ Len(b) = k
  BY <1>1, WholeSeq, DataSeq
<1>3. \A i \in 1..k : a[HeaderLen + i] = b[i]
  BY <1>1 DEF Whole, Data
<1> HIDE DEF a, b
<1>4. SubSeq(a, HeaderLen + 1, HeaderLen + k) = b
  <2>1. SubSeq(a, HeaderLen + 1, HeaderLen + k) \in Seq(SentBytes)
        /\ Len(SubSeq(a, HeaderLen + 1, HeaderLen + k)) = k
    BY <1>1, <1>2
  <2>2. \A i \in 1..k : SubSeq(a, HeaderLen + 1, HeaderLen + k)[i] = a[HeaderLen + i]
    BY <1>1, <1>2
  <2> QED BY <1>2, <1>3, <2>1, <2>2, SeqEqual
<1>5. SubSeq(a, HeaderLen + k + 1, HeaderLen + k) = << >>
  BY <1>1, <1>2
<1>6. SubSeq(a, 1, HeaderLen + k) = a
  BY <1>1, <1>2
<1> QED BY <1>4, <1>5, <1>6 DEF a, b

-----------------------------------------------------------------------------
MessageType == [unique : ReplyIds, len : Nat, bytes : Seq(SentBytes), error : BOOLEAN, taken : Nat]

(* A step of thread t: it goes on with its reply, or ends it with at most  *)
(* one message, or begins the next.                                        *)
Went(t) ==
  \/ send[t].pc # "quiet" /\ send'[t].no = send[t].no /\ device' = device
  \/ /\ send[t].pc # "quiet" /\ send'[t].no = send[t].no /\ send'[t].pc = "quiet"
     /\ \E m \in MessageType : Good(m) /\ m.unique = <<t, send[t].no>> /\ device' = Append(device, m)
  \/ send'[t].no = send[t].no + 1 /\ device' = device

LEMMA StepOf ==
  ASSUME SendInv, NEW t \in SendThreads,
         llp' \in [SendThreads -> PipeType], send' \in [SendThreads -> SendType],
         \A u \in SendThreads \ {t} : send'[u] = send[u] /\ llp'[u] = llp[u],
         Holds(t)', Went(t)
  PROVE  SendInv'
<1>1. /\ send \in [SendThreads -> SendType] /\ device \in Seq(MessageType)
      /\ \A u \in SendThreads : Holds(u)
      /\ \A i \in DOMAIN device : Good(device[i]) /\ Past(device[i])
      /\ \A i, j \in DOMAIN device : device[i].unique = device[j].unique => i = j
  BY DEF SendInv, TypesOK, MessageType
<1>2. \A u \in SendThreads : Holds(u)'
  <2> SUFFICES ASSUME NEW u \in SendThreads \ {t} PROVE Holds(u)'
    OBVIOUS
  <2>1. send'[u] = send[u] /\ llp'[u] = llp[u] /\ Holds(u)
    BY <1>1
  <2> QED BY <2>1 DEF Holds
<1>3. send[t].no \in Nat
  BY <1>1 DEF SendType
<1>5. ASSUME NEW m \in MessageType, Past(m) PROVE Past(m)'
  <2>1. m.unique[1] \in SendThreads /\ m.unique[2] \in Nat
    BY DEF MessageType, ReplyIds
  <2>2. CASE m.unique[1] # t
    BY <1>5, <2>1, <2>2 DEF Past
  <2>3. CASE m.unique[1] = t
    BY <1>3, <1>5, <2>1, <2>3 DEF Past, Went
  <2> QED BY <2>2, <2>3
<1>6. CASE device' = device
  <2>1. \A i \in DOMAIN device' : Good(device'[i])
    BY <1>1, <1>6
  <2>2. \A i \in DOMAIN device' : Past(device[i])'
    <3> SUFFICES ASSUME NEW i \in DOMAIN device', NEW m, m = device'[i] PROVE Past(m)'
      BY DEF Past
    <3> QED BY <1>1, <1>5, <1>6
  <2> QED BY <1>1, <1>2, <1>6, <2>1, <2>2 DEF SendInv, TypesOK, MessageType, Good
<1>7. ASSUME send[t].pc # "quiet", send'[t].no = send[t].no, send'[t].pc = "quiet",
             NEW m \in MessageType, Good(m), m.unique = <<t, send[t].no>>, device' = Append(device, m)
      PROVE  SendInv'
  <2>1. device' \in Seq(MessageType) /\ Len(device') = Len(device) + 1
    BY <1>1, <1>7
  <2>2. ASSUME NEW i \in DOMAIN device'
        PROVE  \/ i \in DOMAIN device /\ device'[i] = device[i]
               \/ i = Len(device) + 1 /\ device'[i] = m
    BY <1>1, <1>7, <2>2
  <2>3. \A i \in DOMAIN device' : Good(device'[i])
    BY <1>1, <1>7, <2>2
  <2>4. Past(m)'
    BY <1>3, <1>7 DEF Past
  <2>5. \A i \in DOMAIN device' : Past(device[i])'
    <3> SUFFICES ASSUME NEW i \in DOMAIN device', NEW n, n = device'[i] PROVE Past(n)'
      BY DEF Past
    <3>1. CASE n = m
      BY <2>4, <3>1
    <3>2. CASE i \in DOMAIN device /\ n = device[i]
      BY <1>1, <1>5, <3>2
    <3> QED BY <2>2, <3>1, <3>2
  <2>6. \A i \in DOMAIN device : device[i].unique # m.unique
    <3> SUFFICES ASSUME NEW i \in DOMAIN device, device[i].unique = m.unique PROVE FALSE
      OBVIOUS
    <3>1. device[i].unique[1] = t /\ device[i].unique[2] = send[t].no
      BY <1>7
    <3> QED BY <1>1, <1>7, <3>1 DEF Past
  <2>7. ASSUME NEW i \in DOMAIN device', NEW j \in DOMAIN device', device'[i].unique = device'[j].unique
        PROVE  i = j
    BY <1>1, <2>2, <2>6, <2>7
  <2> QED BY <1>2, <2>1, <2>3, <2>5, <2>7 DEF SendInv, TypesOK, MessageType, Good
<1> QED BY <1>6, <1>7 DEF Went

-----------------------------------------------------------------------------
(* What a step writes of its reply and of its pipe. *)
LEMMA GotoFacts ==
  ASSUME TypesOK, NEW t \in SendThreads, NEW pc \in SendPcs, SendGoto(t, pc)
  PROVE  /\ send' \in [SendThreads -> SendType]
         /\ \A u \in SendThreads \ {t} : send'[u] = send[u]
         /\ send'[t].pc = pc /\ send'[t].no = send[t].no /\ send'[t].src = send[t].src
         /\ send'[t].taken = send[t].taken /\ send'[t].len = send[t].len /\ send'[t].buf = send[t].buf
<1>1. send \in [SendThreads -> SendType] /\ send[t] \in SendType
  BY DEF TypesOK
<1> DEFINE r == [send[t] EXCEPT !.pc = pc]
<1>2. send' = [send EXCEPT ![t] = r]
  BY DEF SendGoto
<1>3. /\ r \in SendType
      /\ r.pc = pc /\ r.no = send[t].no /\ r.src = send[t].src
      /\ r.taken = send[t].taken /\ r.len = send[t].len /\ r.buf = send[t].buf
  BY <1>1 DEF SendType
<1> HIDE DEF r
<1> QED BY <1>1, <1>2, <1>3

LEMMA PipeFacts ==
  ASSUME TypesOK, NEW t \in SendThreads, NEW b \in Seq(SentBytes), llp' = [llp EXCEPT ![t].bytes = b]
  PROVE  /\ llp' \in [SendThreads -> PipeType] /\ llp'[t].bytes = b
         /\ \A u \in SendThreads \ {t} : llp'[u] = llp[u]
<1>1. llp \in [SendThreads -> PipeType] /\ llp[t] \in PipeType
  BY DEF TypesOK
<1> DEFINE r == [llp[t] EXCEPT !.bytes = b]
<1>2. llp' = [llp EXCEPT ![t] = r]
  OBVIOUS
<1>3. r \in PipeType /\ r.bytes = b
  BY <1>1 DEF PipeType
<1> HIDE DEF r
<1> QED BY <1>1, <1>2, <1>3

LEMMA ClearFacts ==
  ASSUME TypesOK, NEW t \in SendThreads, fuse_ll_clear_pipe(t)
  PROVE  /\ llp' \in [SendThreads -> PipeType] /\ llp'[t].bytes = << >>
         /\ \A u \in SendThreads \ {t} : llp'[u] = llp[u]
<1>1. NoPipe \in PipeType /\ NoPipe.bytes = << >>
  BY DEF NoPipe, PipeType
<1> QED BY <1>1 DEF TypesOK, fuse_ll_clear_pipe

(* A reply that ends, or that is to be answered with an error, leaves the  *)
(* pipe empty.                                                             *)
LEMMA HoldsNothing ==
  ASSUME NEW t \in SendThreads, send'[t].pc \in {"quiet", "error"}, llp'[t].bytes = << >>
  PROVE  Holds(t)'
BY DEF Holds

LEMMA Cleared ==
  ASSUME SendInv, NEW t \in SendThreads, send[t].pc # "quiet", device' = device,
         NEW pc \in {"quiet", "error"}, clear_pipe(t, pc)
  PROVE  SendInv'
<1>1. TypesOK /\ pc \in SendPcs
  BY DEF SendInv, SendPcs
<1>2. SendGoto(t, pc) /\ fuse_ll_clear_pipe(t)
  BY DEF clear_pipe
<1>3. Holds(t)'
  BY <1>1, <1>2, GotoFacts, ClearFacts, HoldsNothing
<1>4. Went(t)
  BY <1>1, <1>2, GotoFacts DEF Went
<1> QED BY <1>1, <1>2, <1>3, <1>4, GotoFacts, ClearFacts, StepOf

(* A reply that goes on by way of memory, or with the pipe still empty. *)
LEMMA StillEmpty ==
  ASSUME SendInv, NEW t \in SendThreads, send[t].pc \in {"pipe", "vmsplice", "copy"}, device' = device,
         NEW pc \in {"vmsplice", "fallback"}, SendGoto(t, pc),
         llp' \in [SendThreads -> PipeType], llp'[t].bytes = << >>,
         \A u \in SendThreads \ {t} : llp'[u] = llp[u]
  PROVE  SendInv'
<1>1. TypesOK /\ Holds(t) /\ pc \in SendPcs
  BY DEF SendInv, SendPcs
<1>2. /\ send' \in [SendThreads -> SendType]
      /\ \A u \in SendThreads \ {t} : send'[u] = send[u]
      /\ send'[t].pc = pc /\ send'[t].no = send[t].no /\ send'[t].src = send[t].src
      /\ send'[t].taken = send[t].taken /\ send'[t].len = send[t].len /\ send'[t].buf = send[t].buf
  BY <1>1, GotoFacts
<1>3. Holds(t)'
  BY <1>1, <1>2 DEF Holds
<1>4. Went(t)
  BY <1>2 DEF Went
<1> QED BY <1>2, <1>3, <1>4, StepOf

(* The bytes of a reply. *)
LEMMA ReplyBytes ==
  ASSUME TypesOK, NEW t \in SendThreads
  PROVE  /\ send[t].no \in Nat /\ send[t].taken \in Nat /\ send[t].len \in Nat /\ send[t].pc \in SendPcs
         /\ send[t].src.n \in Nat /\ send[t].buf \in Seq(SentBytes)
         /\ ReplyId(t) = <<t, send[t].no>> /\ ReplyId(t) \in ReplyIds
         /\ OutHeader(t) = Whole(ReplyId(t), HeaderLen)
         /\ \A k : NextBytes(t, k) = Data(ReplyId(t), send[t].taken, k)
         /\ \A k \in SrcLeft(t) : k \in Nat
<1>1. send[t] \in SendType
  BY DEF TypesOK
<1>2. /\ send[t].no \in Nat /\ send[t].taken \in Nat /\ send[t].len \in Nat /\ send[t].pc \in SendPcs
      /\ send[t].src.n \in Nat /\ send[t].buf \in Seq(SentBytes)
  BY <1>1 DEF SendType, SourceType
<1>3. ReplyId(t) = <<t, send[t].no>> /\ ReplyId(t) \in ReplyIds
  BY <1>2 DEF ReplyId, Sending, ReplyIds
<1>4. OutHeader(t) = Whole(ReplyId(t), HeaderLen)
  BY HeaderAssumption DEF OutHeader, Whole
<1>5. \A k : NextBytes(t, k) = Data(ReplyId(t), send[t].taken, k)
  BY DEF NextBytes, Data, Sending
<1>6. \A k \in SrcLeft(t) : k \in Nat
  BY DEF SrcLeft
<1> QED BY <1>2, <1>3, <1>4, <1>5, <1>6

(* The reply t sends, with or without success, is exact. *)
LEMMA Sent ==
  ASSUME SendInv, NEW t \in SendThreads, send[t].pc # "quiet",
         NEW m \in MessageType, Good(m), m.unique = <<t, send[t].no>>, fuse_send_msg(m),
         send' \in [SendThreads -> SendType], llp' \in [SendThreads -> PipeType],
         \A u \in SendThreads \ {t} : send'[u] = send[u] /\ llp'[u] = llp[u],
         send'[t].no = send[t].no, send'[t].pc = "quiet", llp'[t].bytes = << >>
  PROVE  SendInv'
<1>1. Holds(t)'
  BY HoldsNothing
<1>2. Went(t)
  BY DEF Went, fuse_send_msg
<1> QED BY <1>1, <1>2, StepOf

-----------------------------------------------------------------------------
(* The steps of a reply, one by one. *)
LEMMA Begins ==
  ASSUME SendInv, NEW t \in SendThreads, NEW src \in Sources,
         NEW flags \in [nosplice : BOOLEAN, want : BOOLEAN], fuse_reply_data(t, src, flags)
  PROVE  SendInv'
<1>1. TypesOK /\ Holds(t) /\ send[t].no \in Nat /\ HeaderLen \in Nat
  BY HeaderAssumption, ReplyBytes DEF SendInv
<1>2. src \in SourceType /\ src.n \in Nat
  BY SourcesAssumption DEF SourceType
<1> DEFINE to == IF Spliced(src, flags) THEN "pipe" ELSE "fallback"
           r == [pc |-> to, no |-> send[t].no + 1, src |-> src, taken |-> 0,
                 len |-> HeaderLen + src.n, buf |-> << >>]
<1>3. /\ send' = [send EXCEPT ![t] = r] /\ llp' = llp /\ device' = device /\ send[t].pc = "quiet"
  BY DEF fuse_reply_data, Sending
<1>4. to \in {"pipe", "fallback"} /\ to \in SendPcs
  BY DEF SendPcs
<1> HIDE DEF to
<1>5. r \in SendType
  BY <1>1, <1>2, <1>4 DEF SendType
<1>6. /\ r.pc = to /\ r.no = send[t].no + 1 /\ r.src = src /\ r.taken = 0 /\ r.len = HeaderLen + src.n
  OBVIOUS
<1> HIDE DEF r
<1>7. /\ send' \in [SendThreads -> SendType] /\ send'[t] = r
      /\ \A u \in SendThreads \ {t} : send'[u] = send[u]
  BY <1>1, <1>3, <1>5 DEF TypesOK
<1>8. Holds(t)'
  BY <1>1, <1>3, <1>4, <1>6, <1>7 DEF Holds
<1>9. Went(t)
  BY <1>3, <1>6, <1>7 DEF Went
<1>10. llp' \in [SendThreads -> PipeType]
  BY <1>1, <1>3 DEF TypesOK
<1> QED BY <1>3, <1>7, <1>8, <1>9, <1>10, StepOf

LEMMA Grows == ASSUME SendInv, NEW t \in SendThreads, GrowPipe(t) PROVE SendInv'
<1>1. TypesOK /\ Holds(t) /\ HeaderLen \in Nat /\ llp \in [SendThreads -> PipeType]
      /\ send[t].len \in Nat
  BY HeaderAssumption, ReplyBytes DEF SendInv, TypesOK
<1> DEFINE p == fuse_ll_get_pipe(t)
<1>2. send[t].pc = "pipe" /\ device' = device /\ llp[t].bytes = << >> /\ llp[t] \in PipeType
  BY <1>1 DEF GrowPipe, Holds, Sending
<1>3. p \in PipeType /\ p.bytes = << >>
  BY <1>1, <1>2 DEF fuse_ll_get_pipe, PipeType
<1>4. \E pc \in {"vmsplice", "fallback"} : SendGoto(t, pc)
  BY DEF GrowPipe
<1>5. \/ llp' = llp \/ llp' = [llp EXCEPT ![t] = p]
      \/ llp' = [llp EXCEPT ![t] = [p EXCEPT !.size = send[t].len]]
      \/ llp' = [llp EXCEPT ![t] = [p EXCEPT !.can_grow = FALSE]]
  BY DEF GrowPipe, Sending
<1> HIDE DEF p
<1>6. \E r \in PipeType : r.bytes = << >> /\ llp' = [llp EXCEPT ![t] = r]
  <2>1. CASE llp' = llp
    BY <1>1, <1>2, <2>1
  <2>2. CASE llp' = [llp EXCEPT ![t] = p]
    BY <1>3, <2>2
  <2>3. CASE llp' = [llp EXCEPT ![t] = [p EXCEPT !.size = send[t].len]]
    <3>1. [p EXCEPT !.size = send[t].len] \in PipeType /\ [p EXCEPT !.size = send[t].len].bytes = << >>
      BY <1>1, <1>3 DEF PipeType
    <3> QED BY <2>3, <3>1
  <2>4. CASE llp' = [llp EXCEPT ![t] = [p EXCEPT !.can_grow = FALSE]]
    <3>1. [p EXCEPT !.can_grow = FALSE] \in PipeType /\ [p EXCEPT !.can_grow = FALSE].bytes = << >>
      BY <1>3 DEF PipeType
    <3> QED BY <2>4, <3>1
  <2> QED BY <1>5, <2>1, <2>2, <2>3, <2>4
<1>7. /\ llp' \in [SendThreads -> PipeType] /\ llp'[t].bytes = << >>
      /\ \A u \in SendThreads \ {t} : llp'[u] = llp[u]
  BY <1>1, <1>6
<1> QED BY <1>2, <1>4, <1>7, StillEmpty

LEMMA Vmspliced == ASSUME SendInv, NEW t \in SendThreads, vmsplice(t) PROVE SendInv'
<1>1. TypesOK /\ Holds(t) /\ HeaderLen \in Nat /\ llp \in [SendThreads -> PipeType]
  BY HeaderAssumption DEF SendInv, TypesOK
<1>2. send[t].pc = "vmsplice" /\ device' = device /\ llp[t].bytes = << >>
  BY <1>1 DEF vmsplice, Holds, Sending
<1>3. CASE SendGoto(t, "fallback") /\ UNCHANGED llp
  BY <1>1, <1>2, <1>3, StillEmpty
<1>4. CASE clear_pipe(t, "quiet")
  BY <1>2, <1>4, Cleared
<1>5. CASE SendGoto(t, "copy") /\ llp' = [llp EXCEPT ![t].bytes = @ \o OutHeader(t)]
  <2> DEFINE id == <<t, send[t].no>>
  <2>1. OutHeader(t) = Whole(id, HeaderLen) /\ id \in ReplyIds
    BY <1>1, ReplyBytes
  <2>2. Whole(id, HeaderLen) \in Seq(SentBytes)
    BY <1>1, <2>1, WholeSeq
  <2>3. << >> \o Whole(id, HeaderLen) = Whole(id, HeaderLen)
    BY <2>2, ConcatEmptySeq
  <2>4. llp' = [llp EXCEPT ![t].bytes = Whole(id, HeaderLen)]
    BY <1>2, <1>5, <2>1, <2>3
  <2>5. /\ send' \in [SendThreads -> SendType]
        /\ \A u \in SendThreads \ {t} : send'[u] = send[u]
        /\ send'[t].pc = "copy" /\ send'[t].no = send[t].no /\ send'[t].src = send[t].src
        /\ send'[t].taken = send[t].taken /\ send'[t].len = send[t].len /\ send'[t].buf = send[t].buf
    BY <1>1, <1>5, GotoFacts DEF SendPcs
  <2>6. /\ llp' \in [SendThreads -> PipeType] /\ llp'[t].bytes = Whole(id, HeaderLen)
        /\ \A u \in SendThreads \ {t} : llp'[u] = llp[u]
    BY <1>1, <2>2, <2>4, PipeFacts
  <2>7. Holds(t)'
    BY <1>1, <1>2, <2>5, <2>6 DEF Holds
  <2>8. Went(t)
    BY <1>2, <2>5 DEF Went
  <2> QED BY <2>5, <2>6, <2>7, <2>8, StepOf
<1> QED BY <1>3, <1>4, <1>5 DEF vmsplice

LEMMA TakenFacts ==
  ASSUME NEW s \in SendType, NEW k \in Nat
  PROVE  /\ Taken(s, k) \in SendType /\ Taken(s, k).taken = s.taken + k /\ s.taken \in Nat
         /\ Taken(s, k).no = s.no /\ Taken(s, k).len = s.len /\ Taken(s, k).src = s.src
BY DEF Taken, SendType

LEMMA Copied == ASSUME SendInv, NEW t \in SendThreads, CopyToPipe(t) PROVE SendInv'
<1>1. TypesOK /\ Holds(t) /\ HeaderLen \in Nat /\ send[t] \in SendType
  BY HeaderAssumption DEF SendInv, TypesOK
<1>2. send[t].pc = "copy" /\ device' = device
  BY DEF CopyToPipe, Sending
<1>3. CASE clear_pipe(t, "fallback")
  BY <1>1, <1>2, <1>3, ClearFacts, StillEmpty DEF clear_pipe
<1>4. CASE clear_pipe(t, "error")
  BY <1>2, <1>4, Cleared
<1>5. ASSUME NEW k \in SrcLeft(t),
             llp' = [llp EXCEPT ![t].bytes = @ \o NextBytes(t, k)],
             send' = [send EXCEPT ![t] = [Taken(@, k) EXCEPT !.len = HeaderLen + k,
                                          !.pc = IF k # 0 /\ k < Sending(t).src.n THEN "rest" ELSE "splice"]]
      PROVE  SendInv'
  <2> DEFINE id == <<t, send[t].no>>
             to == IF k # 0 /\ k < Sending(t).src.n THEN "rest" ELSE "splice"
             q == Taken(send[t], k)
             r == [q EXCEPT !.len = HeaderLen + k, !.pc = to]
  <2>1. /\ k \in Nat /\ id \in ReplyIds /\ send[t].no \in Nat /\ send[t].taken = 0
        /\ llp[t].bytes = Whole(id, HeaderLen) /\ NextBytes(t, k) = Data(id, 0, k)
    BY <1>1, <1>2, ReplyBytes DEF Holds
  <2>2. Whole(id, HeaderLen) \o Data(id, 0, k) = Whole(id, HeaderLen + k)
    <3>1. Whole(id, HeaderLen + 0) \o Data(id, 0, k) = Whole(id, HeaderLen + (0 + k))
      <4> HIDE DEF id
      <4> QED BY <2>1, 0 \in Nat, JoinData
    <3>2. HeaderLen + 0 = HeaderLen /\ 0 + k = k
      BY <1>1, <2>1
    <3> QED BY <3>1, <3>2
  <2>3. llp' = [llp EXCEPT ![t].bytes = Whole(id, HeaderLen + k)]
    BY <1>5, <2>1, <2>2
  <2>4. Whole(id, HeaderLen + k) \in Seq(SentBytes) /\ HeaderLen + k \in Nat
    BY <1>1, <2>1, WholeSeq
  <2>5. /\ llp' \in [SendThreads -> PipeType] /\ llp'[t].bytes = Whole(id, HeaderLen + k)
        /\ \A u \in SendThreads \ {t} : llp'[u] = llp[u]
    BY <1>1, <2>3, <2>4, PipeFacts
  <2>6. send' = [send EXCEPT ![t] = r]
    BY <1>5
  <2>7. to \in {"rest", "splice"} /\ to \in SendPcs
    BY DEF SendPcs
  <2> HIDE DEF to
  <2>8. r \in SendType /\ r.pc = to /\ r.no = send[t].no /\ r.taken = k /\ r.len = HeaderLen + k
    <3>1. q \in SendType /\ q.no = send[t].no /\ q.taken = k
      <4>1. k \in Nat /\ send[t] \in SendType /\ send[t].taken = 0
        BY <1>1, <2>1
      <4>2. q \in SendType /\ q.no = send[t].no /\ q.taken = send[t].taken + k
        BY <4>1, TakenFacts
      <4> HIDE DEF q
      <4> QED BY <4>1, <4>2
    <3> HIDE DEF q
    <3> QED BY <2>4, <2>7, <3>1 DEF SendType
  <2> HIDE DEF q, r
  <2>9. /\ send' \in [SendThreads -> SendType] /\ send'[t] = r
        /\ \A u \in SendThreads \ {t} : send'[u] = send[u]
    BY <1>1, <2>6, <2>8 DEF TypesOK
  <2>10. Holds(t)'
    <3>1. /\ send'[t].pc = to /\ send'[t].no = send[t].no /\ send'[t].taken = k
          /\ send'[t].len = HeaderLen + k /\ k = (HeaderLen + k) - HeaderLen /\ HeaderLen + k >= HeaderLen
      BY <1>1, <2>1, <2>8, <2>9
    <3> QED BY <2>5, <2>7, <3>1 DEF Holds
  <2>11. Went(t)
    BY <1>2, <2>8, <2>9 DEF Went
  <2> QED BY <2>5, <2>9, <2>10, <2>11, StepOf
<1> QED BY <1>3, <1>4, <1>5 DEF CopyToPipe

LEMMA RestCopied == ASSUME SendInv, NEW t \in SendThreads, CopyRest(t) PROVE SendInv'
<1>1. TypesOK /\ Holds(t) /\ HeaderLen \in Nat /\ send[t] \in SendType
  BY HeaderAssumption DEF SendInv, TypesOK
<1>2. send[t].pc = "rest" /\ device' = device
  BY DEF CopyRest, Sending
<1> DEFINE id == <<t, send[t].no>>
           now == send[t].len - HeaderLen
<1>3. /\ id \in ReplyIds /\ send[t].no \in Nat /\ send[t].len \in Nat /\ send[t].taken = now /\ now \in Nat
      /\ send[t].len >= HeaderLen /\ llp[t].bytes = Whole(id, send[t].len)
  BY <1>1, <1>2, ReplyBytes DEF Holds
<1>4. CASE SendGoto(t, "splice") /\ UNCHANGED llp
  <2>1. /\ send' \in [SendThreads -> SendType]
        /\ \A u \in SendThreads \ {t} : send'[u] = send[u]
        /\ send'[t].pc = "splice" /\ send'[t].no = send[t].no
        /\ send'[t].taken = send[t].taken /\ send'[t].len = send[t].len
    BY <1>1, <1>4, GotoFacts DEF SendPcs
  <2>2. Holds(t)'
    BY <1>3, <1>4, <2>1 DEF Holds
  <2>3. Went(t)
    BY <1>2, <2>1 DEF Went
  <2> QED BY <1>1, <1>4, <2>1, <2>2, <2>3, StepOf DEF TypesOK
<1>5. CASE clear_pipe(t, "error")
  BY <1>2, <1>5, Cleared
<1>6. ASSUME NEW k \in SrcLeft(t), llp' = llp,
             send' = [send EXCEPT ![t] = [Taken(@, k) EXCEPT !.buf = NextBytes(t, k),
                                                             !.pc = IF k > 0 THEN "back" ELSE "splice"]]
      PROVE  SendInv'
  <2> DEFINE to == IF k > 0 THEN "back" ELSE "splice"
             b == NextBytes(t, k)
             q == Taken(send[t], k)
             r == [q EXCEPT !.buf = b, !.pc = to]
  <2>1. k \in Nat /\ b = Data(id, now, k)
    BY <1>1, <1>3, ReplyBytes
  <2>2. b \in Seq(SentBytes) /\ Len(b) = k
    <3> HIDE DEF id, now
    <3> QED BY <1>3, <2>1, DataSeq
  <2>3. to \in SendPcs /\ (to = "splice" => k = 0) /\ to \in {"back", "splice"}
    BY <2>1 DEF SendPcs
  <2>4. q \in SendType /\ q.no = send[t].no /\ q.taken = send[t].taken + k /\ q.len = send[t].len
    BY <1>1, <2>1, TakenFacts
  <2>5. send' = [send EXCEPT ![t] = r]
    BY <1>6
  <2> HIDE DEF to, b, q
  <2>6. r \in SendType /\ r.pc = to /\ r.buf = b /\ r.no = q.no /\ r.taken = q.taken /\ r.len = q.len
    BY <2>2, <2>3, <2>4 DEF SendType
  <2> HIDE DEF r
  <2>7. /\ send' \in [SendThreads -> SendType] /\ send'[t] = r
        /\ \A u \in SendThreads \ {t} : send'[u] = send[u]
    BY <1>1, <2>5, <2>6 DEF TypesOK
  <2>8. Holds(t)'
    <3>1. /\ send'[t].pc = to /\ send'[t].buf = b /\ send'[t].no = send[t].no /\ send'[t].len = send[t].len
          /\ send'[t].taken = now + k
      BY <1>3, <2>4, <2>6, <2>7
    <3>2. to = "splice" => send'[t].taken = now
      BY <1>3, <2>3, <3>1
    <3> QED BY <1>3, <1>6, <2>1, <2>2, <2>3, <3>1, <3>2 DEF Holds
  <2>9. Went(t)
    BY <1>2, <2>4, <2>6, <2>7 DEF Went
  <2>10. llp' \in [SendThreads -> PipeType]
    BY <1>1, <1>6 DEF TypesOK
  <2> QED BY <1>6, <2>7, <2>8, <2>9, <2>10, StepOf
<1> QED BY <1>4, <1>5, <1>6 DEF CopyRest

(* The message t sends. *)
LEMMA TheMessage ==
  ASSUME TypesOK, NEW t \in SendThreads, NEW n \in Nat, NEW k \in Nat, NEW e \in BOOLEAN,
         NEW m, ~e => n = HeaderLen + k,
         m = [unique |-> <<t, send[t].no>>, len |-> n, bytes |-> Whole(<<t, send[t].no>>, n),
              error |-> e, taken |-> k]
  PROVE  m \in MessageType /\ Good(m) /\ m.unique = <<t, send[t].no>>
<1> DEFINE id == <<t, send[t].no>>
<1>1. id \in ReplyIds
  BY ReplyBytes
<1> HIDE DEF id
<1>2. Whole(id, n) \in Seq(SentBytes) /\ Len(Whole(id, n)) = n
  BY <1>1, WholeSeq
<1>3. /\ m.unique = id /\ m.len = n /\ m.bytes = Whole(id, n) /\ m.error = e /\ m.taken = k
      /\ m = [unique |-> id, len |-> n, bytes |-> Whole(id, n), error |-> e, taken |-> k]
  BY DEF id
<1>4. m \in MessageType
  BY <1>1, <1>2, <1>3 DEF MessageType
<1> QED BY <1>2, <1>3, <1>4 DEF Good, id

LEMMA MoreGot == ASSUME SendInv, NEW t \in SendThreads, GotMore(t) PROVE SendInv'
<1>1. TypesOK /\ Holds(t) /\ HeaderLen \in Nat /\ send[t] \in SendType
  BY HeaderAssumption DEF SendInv, TypesOK
<1>2. send[t].pc = "back"
  BY DEF GotMore, Sending
<1>3. CASE (clear_pipe(t, "error") \/ clear_pipe(t, "quiet")) /\ UNCHANGED device
  BY <1>2, <1>3, Cleared
<1> DEFINE id == <<t, send[t].no>>
           k == send[t].len - HeaderLen
           j == Len(send[t].buf)
           back == read_back(llp[t].bytes, k)
           data == back.mbuf \o send[t].buf
           m == DevMessage(t, HeaderLen + Len(data), OutHeader(t) \o data, FALSE)
<1>4. CASE llp' = [llp EXCEPT ![t].bytes = back.rest] /\ fuse_send_msg(m) /\ SendDone(t)
  <2>1. /\ id \in ReplyIds /\ id = ReplyId(t) /\ k \in Nat /\ j \in Nat
        /\ send[t].taken = k + j /\ send[t].buf = Data(id, k, j) /\ OutHeader(t) = Whole(id, HeaderLen)
    BY <1>1, <1>2, ReplyBytes, SMTT(30) DEF Holds
  <2>2. llp[t].bytes = Whole(id, HeaderLen + k)
    <3>1. send[t].len \in Nat /\ llp[t].bytes = Whole(id, send[t].len)
      BY <1>1, <1>2, ReplyBytes DEF Holds
    <3>2. HeaderLen + k = send[t].len
      BY <1>1, <3>1
    <3> QED BY <3>1, <3>2
  <2> HIDE DEF id, k, j
  <2>3. back.mbuf = Data(id, 0, k) /\ back.rest = << >>
    <3>1. Len(Whole(id, HeaderLen + k)) = HeaderLen + k
      BY <1>1, <2>1, WholeSeq
    <3> QED BY <2>1, <2>2, <3>1, ReadBack DEF read_back
  <2> HIDE DEF back
  <2>4. data = Data(id, 0, k + j)
    <3>1. Data(id, 0, k) \in Seq(SentBytes) /\ Len(Data(id, 0, k)) = k
          /\ Data(id, k, j) \in Seq(SentBytes) /\ Len(Data(id, k, j)) = j
          /\ Data(id, 0, k + j) \in Seq(SentBytes) /\ Len(Data(id, 0, k + j)) = k + j
      BY <2>1, DataSeq
    <3>2. ASSUME NEW i \in 1..(k + j) PROVE (Data(id, 0, k) \o Data(id, k, j))[i] = Data(id, 0, k + j)[i]
      <4>1. (Data(id, 0, k) \o Data(id, k, j))[i] =
              IF i <= k THEN Data(id, 0, k)[i] ELSE Data(id, k, j)[i - k]
        BY <2>1, <3>1, ConcatProperties
      <4>2. Data(id, 0, k + j)[i] = <<id, i>>
        BY <2>1 DEF Data
      <4>3. i <= k => Data(id, 0, k)[i] = <<id, i>>
        BY <2>1 DEF Data
      <4>4. ~(i <= k) => Data(id, k, j)[i - k] = <<id, i>>
        BY <2>1 DEF Data
      <4> QED BY <4>1, <4>2, <4>3, <4>4
    <3>3. Data(id, 0, k) \o Data(id, k, j) \in Seq(SentBytes)
          /\ Len(Data(id, 0, k) \o Data(id, k, j)) = k + j
      BY <3>1, ConcatProperties
    <3>4. Data(id, 0, k) \o Data(id, k, j) = Data(id, 0, k + j)
      BY <3>1, <3>2, <3>3, SeqEqual
    <3> QED BY <2>1, <2>3, <3>4
  <2>5. Len(data) = k + j
    BY <2>1, <2>4, DataSeq
  <2>6. OutHeader(t) \o data = Whole(id, HeaderLen + (k + j))
    <3>1. k + j \in Nat
      BY <2>1
    <3>2. Whole(id, HeaderLen + 0) \o Data(id, 0, k + j) = Whole(id, HeaderLen + (0 + (k + j)))
      BY <2>1, <3>1, 0 \in Nat, JoinData
    <3>3. HeaderLen + 0 = HeaderLen /\ 0 + (k + j) = k + j
      BY <1>1, <3>1
    <3> QED BY <2>1, <2>4, <3>2, <3>3
  <2> HIDE DEF data
  <2>7. m = [unique |-> id, len |-> HeaderLen + (k + j), bytes |-> Whole(id, HeaderLen + (k + j)),
             error |-> FALSE, taken |-> k + j]
    BY <2>1, <2>5, <2>6 DEF DevMessage, Sending
  <2> HIDE DEF m
  <2>8. m \in MessageType /\ Good(m) /\ m.unique = <<t, send[t].no>>
    <3>1. k + j \in Nat /\ HeaderLen + (k + j) \in Nat
      BY <1>1, <2>1
    <3> QED BY <1>1, <2>7, <3>1, TheMessage DEF id
  <2>9. /\ send' \in [SendThreads -> SendType]
        /\ \A u \in SendThreads \ {t} : send'[u] = send[u]
        /\ send'[t].pc = "quiet" /\ send'[t].no = send[t].no
    BY <1>1, <1>4, GotoFacts DEF SendPcs, SendDone, SendGoto
  <2>10. /\ llp' \in [SendThreads -> PipeType] /\ llp'[t].bytes = << >>
         /\ \A u \in SendThreads \ {t} : llp'[u] = llp[u]
    <3>1. << >> \in Seq(SentBytes)
      OBVIOUS
    <3> QED BY <1>1, <1>4, <2>3, <3>1, PipeFacts
  <2> QED BY <1>2, <1>4, <2>8, <2>9, <2>10, Sent
<1> QED BY <1>3, <1>4 DEF GotMore, Sending

LEMMA SplicedOut == ASSUME SendInv, NEW t \in SendThreads, splice(t) PROVE SendInv'
<1>1. TypesOK /\ Holds(t) /\ HeaderLen \in Nat
  BY HeaderAssumption DEF SendInv
<1>2. send[t].pc = "splice"
  BY DEF splice, Sending
<1>3. CASE clear_pipe(t, "quiet") /\ UNCHANGED device
  BY <1>2, <1>3, Cleared
<1> DEFINE id == <<t, send[t].no>>
           k == send[t].len - HeaderLen
           m == DevMessage(t, send[t].len, SubSeq(llp[t].bytes, 1, send[t].len), FALSE)
<1>4. CASE /\ device' = Append(device, m) /\ SendDone(t)
           /\ llp' = [llp EXCEPT ![t].bytes = SubSeq(@, send[t].len + 1, Len(@))]
  <2>1. /\ id \in ReplyIds /\ id = ReplyId(t) /\ k \in Nat /\ send[t].taken = k
        /\ llp[t].bytes = Whole(id, send[t].len) /\ send[t].len = HeaderLen + k
    <3>1. /\ send[t].len \in Nat /\ send[t].len >= HeaderLen
          /\ llp[t].bytes = Whole(id, send[t].len) /\ send[t].taken = k
      BY <1>1, <1>2, ReplyBytes DEF Holds
    <3>2. k \in Nat /\ send[t].len = HeaderLen + k
      BY <1>1, <3>1
    <3>3. id \in ReplyIds /\ id = ReplyId(t)
      BY <1>1, ReplyBytes
    <3> QED BY <3>1, <3>2, <3>3
  <2> HIDE DEF id, k
  <2>2. Len(Whole(id, HeaderLen + k)) = HeaderLen + k
    BY <1>1, <2>1, WholeSeq
  <2>3. /\ SubSeq(llp[t].bytes, 1, send[t].len) = Whole(id, HeaderLen + k)
        /\ SubSeq(llp[t].bytes, send[t].len + 1, Len(llp[t].bytes)) = << >>
    BY <2>1, <2>2, ReadBack
  <2>4. m = [unique |-> id, len |-> HeaderLen + k, bytes |-> Whole(id, HeaderLen + k),
             error |-> FALSE, taken |-> k]
    BY <2>1, <2>3 DEF DevMessage, Sending
  <2> HIDE DEF m
  <2>5. m \in MessageType /\ Good(m) /\ m.unique = <<t, send[t].no>>
    <3>1. HeaderLen + k \in Nat
      BY <1>1, <2>1
    <3> QED BY <1>1, <2>1, <2>4, <3>1, TheMessage DEF id
  <2>6. /\ send' \in [SendThreads -> SendType]
        /\ \A u \in SendThreads \ {t} : send'[u] = send[u]
        /\ send'[t].pc = "quiet" /\ send'[t].no = send[t].no
    BY <1>1, <1>4, GotoFacts DEF SendPcs, SendDone, SendGoto
  <2>7. /\ llp' \in [SendThreads -> PipeType] /\ llp'[t].bytes = << >>
        /\ \A u \in SendThreads \ {t} : llp'[u] = llp[u]
    <3>1. llp' = [llp EXCEPT ![t].bytes = SubSeq(llp[t].bytes, send[t].len + 1, Len(llp[t].bytes))]
      BY <1>4
    <3>2. llp' = [llp EXCEPT ![t].bytes = << >>]
      BY <2>3, <3>1
    <3>3. << >> \in Seq(SentBytes)
      OBVIOUS
    <3> QED BY <1>1, <3>2, <3>3, PipeFacts
  <2> QED BY <1>2, <1>4, <2>5, <2>6, <2>7, Sent DEF fuse_send_msg
<1> QED BY <1>3, <1>4 DEF splice, Sending

LEMMA FallenBack == ASSUME SendInv, NEW t \in SendThreads, fuse_send_data_iov_fallback(t) PROVE SendInv'
<1>1. TypesOK /\ Holds(t) /\ HeaderLen \in Nat /\ send[t] \in SendType /\ llp \in [SendThreads -> PipeType]
  BY HeaderAssumption DEF SendInv, TypesOK
<1>2. send[t].pc = "fallback" /\ llp' = llp /\ llp[t].bytes = << >> /\ send[t].taken = 0
      /\ send[t].len = HeaderLen + send[t].src.n
  BY <1>1 DEF fuse_send_data_iov_fallback, Sending, Holds
<1> DEFINE id == <<t, send[t].no>>
<1>3. id \in ReplyIds /\ id = ReplyId(t) /\ OutHeader(t) = Whole(id, HeaderLen) /\ send[t].src.n \in Nat
  BY <1>1, ReplyBytes
<1>4. ASSUME NEW k \in Nat PROVE OutHeader(t) \o NextBytes(t, k) = Whole(id, HeaderLen + k)
  <2>1. NextBytes(t, k) = Data(id, 0, k)
    BY <1>1, <1>2, <1>3, ReplyBytes
  <2> HIDE DEF id
  <2>2. Whole(id, HeaderLen + 0) \o Data(id, 0, k) = Whole(id, HeaderLen + (0 + k))
    BY <1>3, 0 \in Nat, JoinData
  <2>3. HeaderLen + 0 = HeaderLen /\ 0 + k = k
    BY <1>1
  <2> QED BY <1>3, <2>1, <2>2, <2>3
<1>5. ASSUME NEW k \in Nat, NEW m,
             m = [DevMessage(t, HeaderLen + k, OutHeader(t) \o NextBytes(t, k), FALSE) EXCEPT !.taken = k]
      PROVE  m \in MessageType /\ Good(m) /\ m.unique = <<t, send[t].no>>
  <2>1. m = [unique |-> id, len |-> HeaderLen + k, bytes |-> Whole(id, HeaderLen + k),
             error |-> FALSE, taken |-> k]
    BY <1>3, <1>4, <1>5 DEF DevMessage
  <2>2. HeaderLen + k \in Nat
    BY <1>1
  <2> QED BY <1>1, <2>1, <2>2, TheMessage
<1>6. CASE SendGoto(t, "error") /\ UNCHANGED device
  <2>1. /\ send' \in [SendThreads -> SendType]
        /\ \A u \in SendThreads \ {t} : send'[u] = send[u]
        /\ send'[t].pc = "error" /\ send'[t].no = send[t].no
    BY <1>1, <1>6, GotoFacts DEF SendPcs
  <2>2. Holds(t)'
    BY <1>2, <2>1, HoldsNothing
  <2>3. Went(t)
    BY <1>2, <1>6, <2>1 DEF Went
  <2> QED BY <1>1, <1>2, <2>1, <2>2, <2>3, StepOf
<1>7. CASE /\ fuse_send_msg([DevMessage(t, send[t].len, OutHeader(t) \o NextBytes(t, send[t].src.n), FALSE)
                               EXCEPT !.taken = send[t].src.n])
           /\ SendDone(t)
  <2>1. PICK m : /\ m = [DevMessage(t, send[t].len, OutHeader(t) \o NextBytes(t, send[t].src.n), FALSE)
                           EXCEPT !.taken = send[t].src.n]
                 /\ fuse_send_msg(m)
    BY <1>7
  <2>2. m \in MessageType /\ Good(m) /\ m.unique = <<t, send[t].no>>
    BY <1>2, <1>3, <1>5, <2>1
  <2>3. /\ send' \in [SendThreads -> SendType]
        /\ \A u \in SendThreads \ {t} : send'[u] = send[u]
        /\ send'[t].pc = "quiet" /\ send'[t].no = send[t].no
    BY <1>1, <1>7, GotoFacts DEF SendPcs, SendDone, SendGoto
  <2> QED BY <1>1, <1>2, <2>1, <2>2, <2>3, Sent
<1>8. ASSUME NEW k \in SrcLeft(t),
             fuse_send_msg([DevMessage(t, HeaderLen + k, OutHeader(t) \o NextBytes(t, k), FALSE)
                              EXCEPT !.taken = Sending(t).taken + k]),
             send' = [send EXCEPT ![t] = [Taken(@, k) EXCEPT !.pc = "quiet"]]
      PROVE  SendInv'
  <2>1. k \in Nat /\ Sending(t).taken + k = k
    BY <1>1, <1>2, ReplyBytes DEF Sending
  <2>2. PICK m : /\ m = [DevMessage(t, HeaderLen + k, OutHeader(t) \o NextBytes(t, k), FALSE) EXCEPT !.taken = k]
                 /\ fuse_send_msg(m)
    BY <1>8, <2>1
  <2>3. m \in MessageType /\ Good(m) /\ m.unique = <<t, send[t].no>>
    BY <1>5, <2>1, <2>2
  <2> DEFINE q == Taken(send[t], k)
             r == [q EXCEPT !.pc = "quiet"]
  <2>4. q \in SendType /\ q.no = send[t].no
    BY <1>1, <2>1, TakenFacts
  <2>5. send' = [send EXCEPT ![t] = r]
    BY <1>8
  <2> HIDE DEF q
  <2>6. r \in SendType /\ r.no = q.no /\ r.pc = "quiet"
    BY <2>4 DEF SendType, SendPcs
  <2> HIDE DEF r
  <2>7. /\ send' \in [SendThreads -> SendType]
        /\ \A u \in SendThreads \ {t} : send'[u] = send[u]
        /\ send'[t].pc = "quiet" /\ send'[t].no = send[t].no
    BY <1>1, <2>4, <2>5, <2>6 DEF TypesOK
  <2> QED BY <1>1, <1>2, <2>2, <2>3, <2>7, Sent
<1> QED BY <1>6, <1>7, <1>8 DEF fuse_send_data_iov_fallback, Sending

LEMMA ErrorSent == ASSUME SendInv, NEW t \in SendThreads, ReplyError(t) PROVE SendInv'
<1>1. TypesOK /\ Holds(t) /\ HeaderLen \in Nat /\ llp \in [SendThreads -> PipeType]
      /\ send[t].taken \in Nat
  BY HeaderAssumption, ReplyBytes DEF SendInv, TypesOK
<1>2. send[t].pc = "error" /\ llp' = llp /\ llp[t].bytes = << >>
  BY <1>1 DEF ReplyError, Sending, Holds
<1>3. PICK m : m = DevMessage(t, HeaderLen, OutHeader(t), TRUE) /\ fuse_send_msg(m)
  BY DEF ReplyError
<1>4. m \in MessageType /\ Good(m) /\ m.unique = <<t, send[t].no>>
  <2>1. m = [unique |-> <<t, send[t].no>>, len |-> HeaderLen, bytes |-> Whole(<<t, send[t].no>>, HeaderLen),
             error |-> TRUE, taken |-> send[t].taken]
    BY <1>1, <1>3, ReplyBytes DEF DevMessage, Sending
  <2> QED BY <1>1, <2>1, TheMessage
<1>5. /\ send' \in [SendThreads -> SendType]
      /\ \A u \in SendThreads \ {t} : send'[u] = send[u]
      /\ send'[t].pc = "quiet" /\ send'[t].no = send[t].no
  BY <1>1, GotoFacts DEF ReplyError, SendPcs, SendDone, SendGoto
<1> QED BY <1>1, <1>2, <1>3, <1>4, <1>5, Sent

-----------------------------------------------------------------------------
LEMMA SendStarts == SendInit => SendInv
<1> SUFFICES ASSUME SendInit PROVE SendInv
  OBVIOUS
<1>1. NoPipe \in PipeType /\ NoPipe.bytes = << >>
  BY DEF NoPipe, PipeType
<1>2. Quiet \in SendType /\ Quiet.pc = "quiet"
  BY DEF Quiet, SendType, SendPcs, SourceType
<1>3. llp \in [SendThreads -> PipeType] /\ send \in [SendThreads -> SendType]
  BY <1>1, <1>2 DEF SendInit
<1>4. device = << >> /\ \A t \in SendThreads : send[t].pc = "quiet" /\ llp[t].bytes = << >>
  BY <1>1, <1>2 DEF SendInit
<1>5. \A t \in SendThreads : Holds(t)
  BY <1>4 DEF Holds
<1>6. DOMAIN device = {} /\ device \in Seq(MessageType)
  BY <1>4
<1> QED BY <1>3, <1>5, <1>6 DEF SendInv, TypesOK, MessageType

LEMMA SendKeeps == SendInv /\ [SendNext]_sendVars => SendInv'
<1> SUFFICES ASSUME SendInv, [SendNext]_sendVars PROVE SendInv'
  OBVIOUS
<1>1. ASSUME NEW t \in SendThreads,
             \/ \E src \in Sources : \E flags \in [nosplice : BOOLEAN, want : BOOLEAN] : fuse_reply_data(t, src, flags)
             \/ GrowPipe(t) \/ vmsplice(t) \/ CopyToPipe(t) \/ CopyRest(t) \/ GotMore(t) \/ splice(t)
             \/ fuse_send_data_iov_fallback(t) \/ ReplyError(t)
      PROVE  SendInv'
  BY <1>1, Begins, Grows, Vmspliced, Copied, RestCopied, MoreGot, SplicedOut, FallenBack, ErrorSent
<1>2. CASE UNCHANGED sendVars
  BY <1>2 DEF sendVars, SendInv, TypesOK, Holds, Past
<1> QED BY <1>1, <1>2 DEF SendNext

LEMMA ExactMessages == SendInv => MessagesExact
<1> SUFFICES ASSUME SendInv PROVE MessagesExact
  OBVIOUS
<1>1. MessagesWhole
  BY DEF SendInv, MessagesWhole, Good, Whole
<1>2. NothingDropped
  BY DEF SendInv, NothingDropped, Good
<1>3. PipeEmpty
  BY DEF SendInv, PipeEmpty, Holds
<1> QED BY <1>1, <1>2, <1>3 DEF MessagesExact

(* At every point of a reply the pipe of its thread holds the header and   *)
(* the first bytes of its data, and nothing between two replies.           *)
THEOREM SendInvariant == SendSpec => []SendInv
<1>1. SendInit => SendInv
  BY SendStarts
<1>2. SendInv /\ [SendNext]_sendVars => SendInv'
  BY SendKeeps
<1> QED BY <1>1, <1>2, PTL DEF SendSpec

(* fuse_send_data_iov gives the device whole messages, at most one for     *)
(* each request, with all that was taken from the source and nothing a     *)
(* failed reply left in the pipe, whichever of its steps refuse, stop      *)
(* short or fail, for all threads, sources and lengths.                    *)
THEOREM MessagesAlwaysExact == SendSpec => []MessagesExact
<1>1. SendInv => MessagesExact
  BY ExactMessages
<1> QED BY <1>1, SendInvariant, PTL

-----------------------------------------------------------------------------
(* Record locks *)

LockTypes == {F_RDLCK, F_WRLCK, F_UNLCK}
LockRec == [type : LockTypes, start : Bytes, owner : LockOwners, end : Bytes]

Listing(ls) == ls \in Seq(LockRec) /\ \A i \in 1 .. Len(ls) : ls[i].start <= ls[i].end /\ ls[i].type # F_UNLCK
Ascending(ls) ==
  \A i, j \in 1 .. Len(ls) : i < j /\ ls[i].owner = ls[j].owner =>
    ls[i].end < ls[j].start /\ (ls[i].type = ls[j].type => ls[i].end + 1 < ls[j].start)
Held(ls, o, b, t) == \E i \in 1 .. Len(ls) : ls[i].owner = o /\ InRange(ls[i], b) /\ ls[i].type = t

(* Lock l lies before, or behind, lock m, with a gap if they are of one type. *)
Before(l, m) == l.end < m.start /\ (l.type = m.type => l.end + 1 < m.start)

-----------------------------------------------------------------------------
(* Lists with an entry taken out, put in or made smaller *)

Without(r, s, i) ==
  Len(r) = Len(s) - 1 /\ \A j \in 1 .. Len(s) - 1 : r[j] = IF j < i THEN s[j] ELSE s[j + 1]
With(r, s, i, e) ==
  Len(r) = Len(s) + 1 /\ \A j \in 1 .. Len(s) + 1 : r[j] = IF j < i THEN s[j] ELSE IF j = i THEN e ELSE s[j - 1]

LEMMA RemovedEntry ==
  ASSUME NEW S, NEW ls \in Seq(S), NEW i \in 1 .. Len(ls)
  PROVE  RemoveAt(ls, i) \in Seq(S) /\ Without(RemoveAt(ls, i), ls, i)
<1> DEFINE a == SubSeq(ls, 1, i - 1)
           b == SubSeq(ls, i + 1, Len(ls))
<1>1. RemoveAt(ls, i) = a \o b
  BY DEF RemoveAt
<1>2. a \in Seq(S) /\ Len(a) = i - 1 /\ \A j \in 1 .. i - 1 : a[j] = ls[j]
  OBVIOUS
<1>3. b \in Seq(S) /\ Len(b) = Len(ls) - i /\ \A j \in 1 .. Len(ls) - i : b[j] = ls[i + j]
  OBVIOUS
<1> HIDE DEF a, b
<1>3a. /\ a \o b \in Seq(S) /\ Len(a \o b) = Len(a) + Len(b)
       /\ \A j \in 1 .. Len(a) + Len(b) : (a \o b)[j] = IF j <= Len(a) THEN a[j] ELSE b[j - Len(a)]
  BY <1>2, <1>3, ConcatProperties, Zenon
<1>4. a \o b \in Seq(S) /\ Len(a \o b) = Len(ls) - 1
  BY <1>2, <1>3, <1>3a
<1>5. ASSUME NEW j \in 1 .. Len(ls) - 1
      PROVE  (a \o b)[j] = IF j < i THEN ls[j] ELSE ls[j + 1]
  <2>1. CASE j < i
    BY <1>2, <1>3, <1>3a, <2>1
  <2>2. CASE j >= i
    <3>1. (a \o b)[j] = b[j - (i - 1)]
      BY <1>2, <1>3, <1>3a, <2>2
    <3>2. j - (i - 1) \in 1 .. Len(ls) - i /\ i + (j - (i - 1)) = j + 1
      BY <2>2
    <3>3. b[j - (i - 1)] = ls[i + (j - (i - 1))]
      BY <1>3, <3>2
    <3>4. ~(j < i)
      BY <2>2
    <3> QED BY <3>1, <3>2, <3>3, <3>4
  <2>3. j < i \/ j >= i
    OBVIOUS
  <2> QED BY <2>1, <2>2, <2>3, Zenon
<1> QED BY <1>1, <1>4, <1>5 DEF Without

LEMMA InsertedEntry ==
  ASSUME NEW S, NEW ls \in Seq(S), NEW i \in 1 .. Len(ls) + 1, NEW e \in S
  PROVE  InsertAt(ls, i, e) \in Seq(S) /\ With(InsertAt(ls, i, e), ls, i, e)
<1> DEFINE a == SubSeq(ls, 1, i - 1)
           b == SubSeq(ls, i, Len(ls))
           ae == a \o <<e>>
<1>1. InsertAt(ls, i, e) = ae \o b
  BY DEF InsertAt
<1>2. a \in Seq(S) /\ Len(a) = i - 1 /\ \A j \in 1 .. i - 1 : a[j] = ls[j]
  OBVIOUS
<1>3. b \in Seq(S) /\ Len(b) = Len(ls) - i + 1 /\ \A j \in 1 .. Len(ls) - i + 1 : b[j] = ls[i + j - 1]
  OBVIOUS
<1> HIDE DEF a, b
<1>4. ae \in Seq(S) /\ Len(ae) = i /\ ae[i] = e /\ \A j \in 1 .. i - 1 : ae[j] = a[j]
  BY <1>2
<1> HIDE DEF ae
<1>4a. /\ ae \o b \in Seq(S) /\ Len(ae \o b) = Len(ae) + Len(b)
       /\ \A j \in 1 .. Len(ae) + Len(b) : (ae \o b)[j] = IF j <= Len(ae) THEN ae[j] ELSE b[j - Len(ae)]
  BY <1>3, <1>4, ConcatProperties, Zenon
<1>5. ae \o b \in Seq(S) /\ Len(ae \o b) = Len(ls) + 1
  BY <1>3, <1>4, <1>4a
<1>6. ASSUME NEW j \in 1 .. Len(ls) + 1
      PROVE  (ae \o b)[j] = IF j < i THEN ls[j] ELSE IF j = i THEN e ELSE ls[j - 1]
  <2>1. CASE j <= i
    <3>1. (ae \o b)[j] = ae[j]
      BY <1>3, <1>4, <1>4a, <2>1
    <3> QED BY <1>2, <1>4, <2>1, <3>1
  <2>2. CASE j > i
    <3>1. (ae \o b)[j] = b[j - i]
      BY <1>3, <1>4, <1>4a, <2>2
    <3>2. j - i \in 1 .. Len(ls) - i + 1 /\ i + (j - i) - 1 = j - 1
      BY <2>2
    <3>3. b[j - i] = ls[i + (j - i) - 1]
      BY <1>3, <3>2
    <3>4. ~(j < i) /\ j # i
      BY <2>2
    <3> QED BY <3>1, <3>2, <3>3, <3>4
  <2>3. j <= i \/ j > i
    OBVIOUS
  <2> QED BY <2>1, <2>2, <2>3, Zenon
<1> QED BY <1>1, <1>5, <1>6 DEF With

(* Taking an entry out. *)
LEMMA RemovedList ==
  ASSUME NEW ls, Listing(ls), Ascending(ls), NEW i \in 1 .. Len(ls), NEW r, r = RemoveAt(ls, i)
  PROVE  /\ Listing(r) /\ Ascending(r) /\ Len(r) = Len(ls) - 1
         /\ \A j \in 1 .. i - 1 : r[j] = ls[j]
         /\ \A b \in Bytes : \A o, t : ls[i].owner # o \/ ~InRange(ls[i], b) => (Held(r, o, b, t) <=> Held(ls, o, b, t))
<1>1. ls \in Seq(LockRec) /\ Len(ls) \in Nat
  BY DEF Listing
<1>2. /\ r \in Seq(LockRec) /\ Len(r) = Len(ls) - 1
      /\ \A j \in 1 .. Len(ls) - 1 : r[j] = IF j < i THEN ls[j] ELSE ls[j + 1]
  <2>1. RemoveAt(ls, i) \in Seq(LockRec) /\ Without(RemoveAt(ls, i), ls, i)
    BY <1>1, RemovedEntry, Zenon
  <2> QED BY <2>1 DEF Without
<1> DEFINE f(j) == IF j < i THEN j ELSE j + 1
<1>3. \A j \in 1 .. Len(r) : f(j) \in 1 .. Len(ls) /\ r[j] = ls[f(j)]
  BY <1>1, <1>2
<1>4. \A j, k \in 1 .. Len(r) : j < k => f(j) < f(k)
  BY <1>1, <1>2
<1>5. \A k \in 1 .. Len(ls) : k # i => \E j \in 1 .. Len(r) : r[j] = ls[k]
  <2> TAKE k \in 1 .. Len(ls)
  <2>1. CASE k < i
    BY <1>1, <1>2, <2>1
  <2>2. CASE k > i
    <3>1. k - 1 \in 1 .. Len(r) /\ ~(k - 1 < i) /\ k - 1 + 1 = k
      BY <1>1, <1>2, <2>2
    <3>2. r[k - 1] = ls[k]
      BY <1>2, <3>1
    <3> QED BY <3>1, <3>2
  <2> QED BY <1>1, <2>1, <2>2
<1> HIDE DEF f
<1>6. Listing(r)
  BY <1>2, <1>3 DEF Listing
<1>7. Ascending(r)
  BY <1>3, <1>4 DEF Ascending
<1>8. \A j \in 1 .. i - 1 : r[j] = ls[j]
  BY <1>1, <1>2
<1>9. ASSUME NEW b \in Bytes, NEW o, NEW t, ls[i].owner # o \/ ~InRange(ls[i], b)
      PROVE  Held(r, o, b, t) <=> Held(ls, o, b, t)
  <2>1. Held(r, o, b, t) => Held(ls, o, b, t)
    BY <1>3 DEF Held
  <2>2. Held(ls, o, b, t) => Held(r, o, b, t)
    BY <1>5, <1>9 DEF Held
  <2> QED BY <2>1, <2>2
<1> QED BY <1>2, <1>6, <1>7, <1>8, <1>9

(* Putting an entry in where it belongs. *)
Inserted(r, ls, i, e) ==
  /\ Listing(r) /\ Ascending(r) /\ Len(r) = Len(ls) + 1
  /\ \A j \in 1 .. Len(ls) + 1 : r[j] = IF j < i THEN ls[j] ELSE IF j = i THEN e ELSE ls[j - 1]
  /\ \A b \in Bytes : \A o, t : Held(r, o, b, t) <=> Held(ls, o, b, t) \/ (e.owner = o /\ InRange(e, b) /\ e.type = t)
Fits(e, ls, i) ==
  /\ \A j \in 1 .. i - 1 : ls[j].owner = e.owner => Before(ls[j], e)
  /\ \A j \in i .. Len(ls) : ls[j].owner = e.owner => Before(e, ls[j])

LEMMA InsertedList ==
  ASSUME NEW ls, Listing(ls), Ascending(ls), NEW i \in 1 .. Len(ls) + 1, NEW e \in LockRec,
         NEW r, r = InsertAt(ls, i, e), e.start <= e.end, e.type # F_UNLCK, Fits(e, ls, i)
  PROVE  Inserted(r, ls, i, e)
<1>1. ls \in Seq(LockRec) /\ Len(ls) \in Nat
  BY DEF Listing
<1>2. /\ r \in Seq(LockRec) /\ Len(r) = Len(ls) + 1
      /\ \A j \in 1 .. Len(ls) + 1 : r[j] = IF j < i THEN ls[j] ELSE IF j = i THEN e ELSE ls[j - 1]
  <2>1. InsertAt(ls, i, e) \in Seq(LockRec) /\ With(InsertAt(ls, i, e), ls, i, e)
    BY <1>1, InsertedEntry, Zenon
  <2> QED BY <2>1 DEF With
<1>8. \A j \in 1 .. Len(r) : r[j] = e \/ \E k \in 1 .. Len(ls) : r[j] = ls[k]
  <2> TAKE j \in 1 .. Len(r)
  <2>1. CASE j < i
    <3>1. j \in 1 .. Len(ls) /\ r[j] = ls[j]
      BY <1>1, <1>2, <2>1
    <3> QED BY <3>1
  <2>2. CASE j = i
    BY <1>2, <2>2
  <2>3. CASE j > i
    <3>1. j - 1 \in 1 .. Len(ls) /\ r[j] = ls[j - 1]
      BY <1>1, <1>2, <2>3
    <3> QED BY <3>1
  <2> QED BY <2>1, <2>2, <2>3
<1>3. Listing(r)
  BY <1>2, <1>8 DEF Listing
<1>4. ASSUME NEW j \in 1 .. Len(r), NEW k \in 1 .. Len(r), j < k, r[j].owner = r[k].owner
      PROVE  Before(r[j], r[k])
  <2>0. \A m, n \in 1 .. Len(ls) : m < n /\ ls[m].owner = ls[n].owner => Before(ls[m], ls[n])
    BY DEF Ascending, Before
  <2>1. CASE k < i
    <3>1. r[j] = ls[j] /\ r[k] = ls[k] /\ j \in 1 .. Len(ls) /\ k \in 1 .. Len(ls)
      BY <1>1, <1>2, <1>4, <2>1
    <3> QED BY <1>4, <2>0, <3>1
  <2>2. CASE k = i
    <3>1. r[j] = ls[j] /\ r[k] = e /\ j \in 1 .. i - 1
      BY <1>1, <1>2, <1>4, <2>2
    <3> QED BY <1>4, <3>1 DEF Fits
  <2>3. CASE k > i /\ j < i
    <3>1. r[j] = ls[j] /\ r[k] = ls[k - 1] /\ j \in 1 .. Len(ls) /\ k - 1 \in 1 .. Len(ls) /\ j < k - 1
      BY <1>1, <1>2, <1>4, <2>3
    <3> QED BY <1>4, <2>0, <3>1
  <2>4. CASE k > i /\ j = i
    <3>1. r[j] = e /\ r[k] = ls[k - 1] /\ k - 1 \in i .. Len(ls)
      BY <1>1, <1>2, <1>4, <2>4
    <3> QED BY <1>4, <3>1 DEF Fits
  <2>5. CASE j > i
    <3>1. r[j] = ls[j - 1] /\ r[k] = ls[k - 1] /\ j - 1 \in 1 .. Len(ls) /\ k - 1 \in 1 .. Len(ls) /\ j - 1 < k - 1
      BY <1>1, <1>2, <1>4, <2>5
    <3> QED BY <1>4, <2>0, <3>1
  <2> QED BY <1>1, <2>1, <2>2, <2>3, <2>4, <2>5
<1>5. Ascending(r)
  BY <1>4 DEF Ascending, Before
<1>6. \A k \in 1 .. Len(ls) : \E j \in 1 .. Len(r) : r[j] = ls[k]
  <2> TAKE k \in 1 .. Len(ls)
  <2>1. CASE k < i
    BY <1>1, <1>2, <2>1
  <2>2. CASE k >= i
    <3>1. k + 1 \in 1 .. Len(ls) + 1 /\ ~(k + 1 < i) /\ k + 1 # i /\ k + 1 - 1 = k
      BY <1>1, <2>2
    <3>2. r[k + 1] = ls[k]
      BY <1>2, <3>1
    <3> QED BY <1>2, <3>1, <3>2
  <2> QED BY <1>1, <2>1, <2>2
<1>7. i \in 1 .. Len(r) /\ r[i] = e
  BY <1>1, <1>2
<1>9. ASSUME NEW b \in Bytes, NEW o, NEW t
      PROVE  Held(r, o, b, t) <=> Held(ls, o, b, t) \/ (e.owner = o /\ InRange(e, b) /\ e.type = t)
  <2>1. Held(r, o, b, t) => Held(ls, o, b, t) \/ (e.owner = o /\ InRange(e, b) /\ e.type = t)
    BY <1>8 DEF Held
  <2>2. Held(ls, o, b, t) => Held(r, o, b, t)
    BY <1>6 DEF Held
  <2>3. e.owner = o /\ InRange(e, b) /\ e.type = t => Held(r, o, b, t)
    BY <1>7 DEF Held
  <2> QED BY <2>1, <2>2, <2>3
<1> QED BY <1>2, <1>3, <1>5, <1>9 DEF Inserted

(* Making an entry smaller. *)
Put(ls, i, e) == [ls EXCEPT ![i] = e]
Shrunk(r, ls, i, e) ==
  /\ Listing(r) /\ Ascending(r) /\ Len(r) = Len(ls)
  /\ \A j \in 1 .. Len(ls) : r[j] = IF j = i THEN e ELSE ls[j]
  /\ \A b \in Bytes : \A o, t :
       e.owner # o \/ ~InRange(ls[i], b) \/ InRange(e, b) => (Held(r, o, b, t) <=> Held(ls, o, b, t))

LEMMA ShrunkList ==
  ASSUME NEW ls, Listing(ls), Ascending(ls), NEW i \in 1 .. Len(ls), NEW e \in LockRec, NEW r,
         r = Put(ls, i, e),
         e.owner = ls[i].owner, e.type = ls[i].type,
         ls[i].start <= e.start, e.start <= e.end, e.end <= ls[i].end
  PROVE  Shrunk(r, ls, i, e)
<1>1. ls \in Seq(LockRec) /\ Len(ls) \in Nat
  BY DEF Listing
<1>2. r \in Seq(LockRec) /\ Len(r) = Len(ls) /\ \A j \in 1 .. Len(ls) : r[j] = IF j = i THEN e ELSE ls[j]
  BY <1>1 DEF Put
<1>3. \A j \in 1 .. Len(ls) : /\ r[j] \in LockRec /\ ls[j] \in LockRec
                              /\ r[j].owner = ls[j].owner /\ r[j].type = ls[j].type
                              /\ ls[j].start <= r[j].start /\ r[j].start <= r[j].end /\ r[j].end <= ls[j].end
  <2> TAKE j \in 1 .. Len(ls)
  <2>1. ls[j] \in LockRec /\ ls[j].start <= ls[j].end
    BY <1>1 DEF Listing
  <2>2. r[j] = IF j = i THEN e ELSE ls[j]
    BY <1>2
  <2>3. ls[j].start \in Int /\ ls[j].end \in Int
    BY <2>1 DEF LockRec, Bytes
  <2> QED BY <2>1, <2>2, <2>3
<1>4. Listing(r)
  BY <1>2, <1>3 DEF Listing
<1>5. Ascending(r)
  <2> SUFFICES ASSUME NEW j \in 1 .. Len(ls), NEW k \in 1 .. Len(ls), j < k, r[j].owner = r[k].owner
               PROVE  r[j].end < r[k].start /\ (r[j].type = r[k].type => r[j].end + 1 < r[k].start)
    BY <1>2 DEF Ascending
  <2>1. ls[j].end < ls[k].start /\ (ls[j].type = ls[k].type => ls[j].end + 1 < ls[k].start)
    BY <1>3 DEF Ascending
  <2>2. r[j] \in LockRec /\ ls[j] \in LockRec /\ r[j].end <= ls[j].end /\ r[j].type = ls[j].type
    BY <1>3
  <2>3. r[k] \in LockRec /\ ls[k] \in LockRec /\ ls[k].start <= r[k].start /\ r[k].type = ls[k].type
    BY <1>3
  <2>4. r[j].end \in Int /\ ls[j].end \in Int
    BY <2>2 DEF LockRec, Bytes
  <2>5. r[k].start \in Int /\ ls[k].start \in Int
    BY <2>3 DEF LockRec, Bytes
  <2> QED BY <2>1, <2>2, <2>3, <2>4, <2>5
<1>6. ASSUME NEW b \in Bytes, NEW o, NEW t, e.owner # o \/ ~InRange(ls[i], b) \/ InRange(e, b)
      PROVE  Held(r, o, b, t) <=> Held(ls, o, b, t)
  <2>1. ~InRange(ls[i], b) \/ InRange(e, b) \/ ls[i].owner # o
    BY <1>6
  <2>2. InRange(e, b) => InRange(ls[i], b)
    <3>1. ls[i] \in LockRec /\ e \in LockRec
      BY <1>1
    <3>2. ls[i].start \in Int /\ ls[i].end \in Int /\ e.start \in Int /\ e.end \in Int
      BY <3>1 DEF LockRec, Bytes
    <3> QED BY <3>2 DEF InRange, Bytes
  <2> QED BY <1>2, <2>1, <2>2 DEF Held
<1> QED BY <1>2, <1>4, <1>5, <1>6 DEF Shrunk

-----------------------------------------------------------------------------
(* The loop of locks_insert *)

(* A list in which nobody's locks changed but for those of the new lock's owner within   *)
(* its range; the range has grown over locks of the same type only.                      *)
Framed(ls0, req, ls, lock) ==
  /\ Listing(ls) /\ Ascending(ls)
  /\ lock \in LockRec /\ lock.owner = req.owner /\ lock.type = req.type
  /\ lock.start <= req.start /\ req.end <= lock.end
  /\ \A b \in Bytes : \A o, t : o # req.owner \/ ~InRange(lock, b) => (Held(ls, o, b, t) <=> Held(ls0, o, b, t))
  /\ \A b \in Bytes : InRange(lock, b) /\ ~InRange(req, b) => Held(ls0, req.owner, b, req.type)
Behind(ls, lock, n) == \A j \in 1 .. n : ls[j].owner = lock.owner => Before(ls[j], lock)
Ahead(ls, lock, n) == \A j \in n .. Len(ls) : ls[j].owner = lock.owner => Before(lock, ls[j])
Covered(ls, lock) ==
  \E i \in 1 .. Len(ls) : /\ ls[i].owner = lock.owner /\ ls[i].type = lock.type
                          /\ ls[i].start <= lock.start /\ lock.end <= ls[i].end

LoopType == [ls : Seq(LockRec), lock : LockRec, at : Nat, more : BOOLEAN]
Loop(ls0, req, c) ==
  /\ c \in LoopType /\ Framed(ls0, req, c.ls, c.lock)
  /\ c.at = 0 => ~c.more /\ Covered(c.ls, c.lock)
  /\ c.at # 0 => c.at <= Len(c.ls) + 1 /\ Behind(c.ls, c.lock, c.at - 1) /\ (~c.more => Ahead(c.ls, c.lock, c.at))

(* What a split leaves behind the new lock: the loop stops there. *)
Beyond(c) ==
  /\ c.at <= Len(c.ls) /\ c.ls[c.at].owner = c.lock.owner
  /\ c.ls[c.at].type # c.lock.type /\ c.lock.end < c.ls[c.at].start
(* At most k locks are left to look at. *)
Within(c, k) == c.more => Len(c.ls) + 1 - c.at <= k \/ (Len(c.ls) + 1 - c.at <= k + 1 /\ Beyond(c))
(* From c to d there is one lock less to look at, or the one that a split leaves. *)
Progress(c, d) ==
  d.more => /\ c.at <= Len(c.ls) /\ ~Beyond(c)
            /\ \/ Len(d.ls) - d.at = Len(c.ls) - c.at - 1
               \/ Len(d.ls) - d.at = Len(c.ls) - c.at /\ Beyond(d)

At(ls, lock, at, more) == [ls |-> ls, lock |-> lock, at |-> at, more |-> more]

LEMMA LoopGoes ==
  ASSUME NEW ls0, NEW req, NEW ls, NEW lock, NEW at \in 1 .. Len(ls) + 1,
         Framed(ls0, req, ls, lock), Behind(ls, lock, at - 1)
  PROVE  Loop(ls0, req, At(ls, lock, at, TRUE))
<1>1. ls \in Seq(LockRec) /\ lock \in LockRec
  BY DEF Framed, Listing
<1>2. At(ls, lock, at, TRUE) \in LoopType
  BY <1>1 DEF At, LoopType
<1> QED BY <1>1, <1>2 DEF Loop, At

LEMMA LoopStops ==
  ASSUME NEW ls0, NEW req, NEW ls, NEW lock, NEW at \in 1 .. Len(ls) + 1,
         Framed(ls0, req, ls, lock), Behind(ls, lock, at - 1), Ahead(ls, lock, at)
  PROVE  Loop(ls0, req, At(ls, lock, at, FALSE))
<1>1. ls \in Seq(LockRec) /\ lock \in LockRec
  BY DEF Framed, Listing
<1>2. At(ls, lock, at, FALSE) \in LoopType
  BY <1>1 DEF At, LoopType
<1> QED BY <1>1, <1>2 DEF Loop, At

LEMMA LoopLeaves ==
  ASSUME NEW ls0, NEW req, NEW ls, NEW lock, Framed(ls0, req, ls, lock), Covered(ls, lock)
  PROVE  Loop(ls0, req, At(ls, lock, 0, FALSE))
<1>1. ls \in Seq(LockRec) /\ lock \in LockRec
  BY DEF Framed, Listing
<1>2. At(ls, lock, 0, FALSE) \in LoopType
  BY <1>1 DEF At, LoopType
<1> QED BY <1>1, <1>2 DEF Loop, At

(* The numbers of a lock. *)
LEMMA LockNumbers ==
  ASSUME NEW l \in LockRec
  PROVE  l.start \in Int /\ l.end \in Int /\ l.start \in Bytes /\ l.end \in Bytes /\ l.type \in LockTypes
         /\ 0 <= l.start /\ l.end <= OFFSET_MAX
BY OffsetAssumption DEF LockRec, Bytes

(* Passing a lock that is before the new one, or that belongs to somebody else. *)
LEMMA SkipOk ==
  ASSUME NEW ls0, NEW req, NEW ls, NEW lock, NEW at \in 1 .. Len(ls),
         Framed(ls0, req, ls, lock), Behind(ls, lock, at - 1),
         ls[at].owner = lock.owner => Before(ls[at], lock)
  PROVE  Loop(ls0, req, At(ls, lock, at + 1, TRUE))
<1>1. Len(ls) \in Nat
  BY DEF Framed, Listing
<1> DEFINE n == at + 1
<1>2. n \in 1 .. Len(ls) + 1 /\ Behind(ls, lock, n - 1)
  BY <1>1 DEF Behind
<1> HIDE DEF n
<1>3. Loop(ls0, req, At(ls, lock, n, TRUE))
  BY <1>2, LoopGoes
<1> QED BY <1>3 DEF n

(* Stopping at a lock that is behind the new one. *)
LEMMA BreakOk ==
  ASSUME NEW ls0, NEW req, NEW ls, NEW lock, NEW at \in 1 .. Len(ls) + 1,
         Framed(ls0, req, ls, lock), Behind(ls, lock, at - 1),
         at <= Len(ls) => ls[at].owner = lock.owner /\ Before(lock, ls[at])
  PROVE  Loop(ls0, req, At(ls, lock, at, FALSE))
<1>1. Len(ls) \in Nat /\ lock \in LockRec /\ \A j \in 1 .. Len(ls) : ls[j] \in LockRec /\ ls[j].start <= ls[j].end
  BY DEF Framed, Listing
<1>2. ASSUME NEW j \in at .. Len(ls), ls[j].owner = lock.owner
      PROVE  Before(lock, ls[j])
  <2>1. CASE j = at
    BY <1>1, <2>1
  <2>2. CASE j # at
    <3>1. at \in 1 .. Len(ls) /\ j \in 1 .. Len(ls) /\ at < j
      BY <1>1, <2>2
    <3>2. ls[at].owner = lock.owner /\ Before(lock, ls[at]) /\ ls[at].start <= ls[at].end
      BY <1>1, <3>1
    <3>3. ls[at].end < ls[j].start
      BY <1>2, <3>1, <3>2 DEF Framed, Ascending
    <3>4. /\ lock.end \in Int /\ ls[at].start \in Int /\ ls[at].end \in Int /\ ls[j].start \in Int
      BY <1>1, <3>1, LockNumbers
    <3> QED BY <3>2, <3>3, <3>4 DEF Before
  <2> QED BY <2>1, <2>2
<1>3. Ahead(ls, lock, at)
  BY <1>2 DEF Ahead
<1> QED BY <1>3, LoopStops

(* Swallowing a lock within the range, and one of the same type that the range touches. *)
LEMMA DeleteOk ==
  ASSUME NEW ls0, NEW req, NEW ls, NEW lock, NEW at \in 1 .. Len(ls),
         Framed(ls0, req, ls, lock), Behind(ls, lock, at - 1),
         ls[at].owner = lock.owner, lock.start <= ls[at].start, ls[at].end <= lock.end
  PROVE  Loop(ls0, req, At(RemoveAt(ls, at), lock, at, TRUE)) /\ Len(RemoveAt(ls, at)) = Len(ls) - 1
<1> DEFINE r == RemoveAt(ls, at)
<1>1. /\ Len(ls) \in Nat /\ lock \in LockRec /\ ls[at] \in LockRec /\ Listing(ls) /\ Ascending(ls)
      /\ lock.owner = req.owner
  BY DEF Framed, Listing
<1>2. /\ Listing(r) /\ Ascending(r) /\ Len(r) = Len(ls) - 1
      /\ \A j \in 1 .. at - 1 : r[j] = ls[j]
      /\ \A b \in Bytes : \A o, t : ls[at].owner # o \/ ~InRange(ls[at], b) => (Held(r, o, b, t) <=> Held(ls, o, b, t))
  BY <1>1, RemovedList
<1> HIDE DEF r
<1>3. \A b \in Bytes : InRange(ls[at], b) => InRange(lock, b)
  BY <1>1, LockNumbers DEF InRange, Bytes
<1>4. Framed(ls0, req, r, lock)
  BY <1>1, <1>2, <1>3 DEF Framed
<1>5. Behind(r, lock, at - 1)
  BY <1>2 DEF Behind
<1>6. at \in 1 .. Len(r) + 1
  BY <1>1, <1>2
<1>7. Loop(ls0, req, At(r, lock, at, TRUE))
  BY <1>4, <1>5, <1>6, LoopGoes
<1> QED BY <1>2, <1>7 DEF r

Joined(lock, l) == [lock EXCEPT !.start = IF l.start < @ THEN l.start ELSE @, !.end = IF l.end > @ THEN l.end ELSE @]

LEMMA JoinOk ==
  ASSUME NEW ls0, NEW req, NEW ls, NEW lock, NEW at \in 1 .. Len(ls), req \in LockRec, req.start <= req.end,
         Framed(ls0, req, ls, lock), Behind(ls, lock, at - 1),
         ls[at].owner = lock.owner, ls[at].type = lock.type,
         lock.start - 1 <= ls[at].end, ls[at].start - 1 <= lock.end
  PROVE  /\ Loop(ls0, req, At(RemoveAt(ls, at), Joined(lock, ls[at]), at, TRUE))
         /\ Len(RemoveAt(ls, at)) = Len(ls) - 1
<1> DEFINE l == ls[at]
           k == Joined(lock, l)
           s == IF l.start < lock.start THEN l.start ELSE lock.start
           e == IF l.end > lock.end THEN l.end ELSE lock.end
<1>1. /\ Len(ls) \in Nat /\ lock \in LockRec /\ l \in LockRec /\ Listing(ls) /\ Ascending(ls) /\ l.start <= l.end
      /\ lock.owner = req.owner /\ lock.type = req.type
  BY DEF Framed, Listing
<1>2. k = [type |-> lock.type, start |-> s, owner |-> lock.owner, end |-> e]
  <2>1. lock = [type |-> lock.type, start |-> lock.start, owner |-> lock.owner, end |-> lock.end]
    BY <1>1 DEF LockRec
  <2> DEFINE k1 == [lock EXCEPT !.start = s]
  <2>2. k1 = [type |-> lock.type, start |-> s, owner |-> lock.owner, end |-> lock.end]
    <3> HIDE DEF s
    <3> QED BY <2>1
  <2>3. k = [k1 EXCEPT !.end = e]
    BY DEF Joined
  <2> HIDE DEF k1, k, s, e
  <2> QED BY <2>2, <2>3
<1>3. /\ s \in Bytes /\ e \in Bytes /\ s <= lock.start /\ lock.end <= e /\ s <= l.start /\ l.end <= e
      /\ (s = lock.start \/ s = l.start) /\ (e = lock.end \/ e = l.end)
  BY <1>1, LockNumbers
<1> HIDE DEF k, s, e
<1>4. k \in LockRec /\ k.start = s /\ k.end = e /\ k.owner = lock.owner /\ k.type = lock.type
  BY <1>1, <1>2, <1>3 DEF LockRec
<1>5. /\ lock.start \in Int /\ lock.end \in Int /\ l.start \in Int /\ l.end \in Int /\ s \in Int /\ e \in Int
      /\ lock.start <= lock.end
  BY <1>1, <1>4, LockNumbers, SMTT(30) DEF Framed
<1>6. Framed(ls0, req, ls, k)
  <2>1. \A b \in Bytes : InRange(lock, b) => InRange(k, b)
    BY <1>3, <1>4, <1>5 DEF InRange, Bytes
  <2>2. \A b \in Bytes : InRange(k, b) => InRange(lock, b) \/ InRange(l, b)
    BY <1>1, <1>3, <1>4, <1>5, SMTT(30) DEF InRange, Bytes
  <2>3. \A b \in Bytes : InRange(l, b) => Held(ls, req.owner, b, req.type)
    BY <1>1 DEF Held
  <2>4. \A b \in Bytes : InRange(l, b) /\ ~InRange(lock, b) => Held(ls0, req.owner, b, req.type)
    BY <2>3 DEF Framed
  <2>5. k.start <= req.start /\ req.end <= k.end
    <3>1. lock.start <= req.start /\ req.end <= lock.end
      BY DEF Framed
    <3>2. req.start \in Int /\ req.end \in Int
      BY LockNumbers
    <3> QED BY <1>3, <1>4, <1>5, <3>1, <3>2
  <2> QED BY <1>1, <1>4, <2>1, <2>2, <2>4, <2>5 DEF Framed
<1>7. Behind(ls, k, at - 1)
  <2> SUFFICES ASSUME NEW j \in 1 .. at - 1, ls[j].owner = lock.owner PROVE Before(ls[j], k)
    BY <1>4 DEF Behind
  <2>1. Before(ls[j], lock)
    BY DEF Behind
  <2>2. j \in 1 .. Len(ls) /\ j < at /\ ls[j] \in LockRec
    BY <1>1 DEF Listing
  <2>3. Before(ls[j], l)
    BY <1>1, <2>2 DEF Ascending, Before
  <2>4. ls[j].end \in Int
    BY <2>2, LockNumbers
  <2> QED BY <1>3, <1>4, <1>5, <2>1, <2>3, <2>4 DEF Before
<1>8. k.start <= l.start /\ l.end <= k.end /\ l.owner = k.owner
  BY <1>3, <1>4
<1> QED BY <1>6, <1>7, <1>8, DeleteOk DEF k

CutEnd(l, lock) == [l EXCEPT !.end = lock.start - 1]
CutStart(l, lock) == [l EXCEPT !.start = lock.end + 1]
LEMMA CutRecord ==
  ASSUME NEW l \in LockRec, NEW lock
  PROVE  /\ CutEnd(l, lock) = [type |-> l.type, start |-> l.start, owner |-> l.owner, end |-> lock.start - 1]
         /\ CutStart(l, lock) = [type |-> l.type, start |-> lock.end + 1, owner |-> l.owner, end |-> l.end]
<1>1. l = [type |-> l.type, start |-> l.start, owner |-> l.owner, end |-> l.end]
  BY DEF LockRec
<1>2. CutEnd(l, lock) = [type |-> l.type, start |-> l.start, owner |-> l.owner, end |-> lock.start - 1]
  BY <1>1 DEF CutEnd
<1>3. CutStart(l, lock) = [type |-> l.type, start |-> lock.end + 1, owner |-> l.owner, end |-> l.end]
  BY <1>1 DEF CutStart
<1> QED BY <1>2, <1>3

(* Cutting the end of a lock that begins before the range. *)
EndCut(r, ls, lock, at) ==
  /\ Listing(r) /\ Ascending(r) /\ Len(r) = Len(ls) /\ Behind(r, lock, at)
  /\ \A j \in 1 .. Len(ls) : j # at => r[j] = ls[j]
  /\ r[at] = [type |-> ls[at].type, start |-> ls[at].start, owner |-> ls[at].owner, end |-> lock.start - 1]
  /\ \A b \in Bytes : \A o, t :
       o # lock.owner \/ ~InRange(ls[at], b) \/ b < lock.start => (Held(r, o, b, t) <=> Held(ls, o, b, t))

LEMMA CutEndOk ==
  ASSUME NEW ls0, NEW req, NEW ls, NEW lock, NEW at \in 1 .. Len(ls), NEW r, r = Put(ls, at, CutEnd(ls[at], lock)),
         Framed(ls0, req, ls, lock), Behind(ls, lock, at - 1),
         ls[at].owner = lock.owner, ls[at].type # lock.type,
         ls[at].start < lock.start, lock.start <= ls[at].end
  PROVE  EndCut(r, ls, lock, at)
<1> DEFINE l == ls[at]
           e == [type |-> l.type, start |-> l.start, owner |-> l.owner, end |-> lock.start - 1]
<1>1. /\ Len(ls) \in Nat /\ ls \in Seq(LockRec) /\ lock \in LockRec /\ l \in LockRec /\ Listing(ls) /\ Ascending(ls)
      /\ l.start <= l.end /\ \A j \in 1 .. Len(ls) : ls[j] \in LockRec
  BY DEF Framed, Listing
<1>3. CutEnd(l, lock) = e
  BY <1>1, CutRecord
<1>4. r = Put(ls, at, e)
  BY <1>3
<1>5. /\ lock.start \in Int /\ lock.end \in Int /\ l.start \in Int /\ l.end \in Int /\ 0 <= l.start
      /\ lock.end <= OFFSET_MAX
  BY <1>1, LockNumbers
<1>6. lock.start - 1 \in Bytes
  <2>1. lock.start \in Bytes
    BY <1>1, LockNumbers
  <2> QED BY <1>5, <2>1, OffsetAssumption DEF Bytes
<1>7. e \in LockRec /\ e.owner = l.owner /\ e.type = l.type /\ e.start = l.start /\ e.end = lock.start - 1
  BY <1>1, <1>6 DEF LockRec
<1> HIDE DEF e
<1>8. /\ Listing(r) /\ Ascending(r) /\ Len(r) = Len(ls)
      /\ \A j \in 1 .. Len(ls) : r[j] = IF j = at THEN e ELSE ls[j]
      /\ \A b \in Bytes : \A o, t :
           e.owner # o \/ ~InRange(l, b) \/ InRange(e, b) => (Held(r, o, b, t) <=> Held(ls, o, b, t))
  <2>1. Shrunk(r, ls, at, e)
    BY <1>1, <1>4, <1>5, <1>7, ShrunkList
  <2> QED BY <2>1 DEF Shrunk
<1>9. ASSUME NEW b \in Bytes, NEW o, NEW t, o # lock.owner \/ ~InRange(l, b) \/ b < lock.start
      PROVE  Held(r, o, b, t) <=> Held(ls, o, b, t)
  <2>1. InRange(l, b) /\ b < lock.start => InRange(e, b)
    BY <1>5, <1>7 DEF InRange, Bytes
  <2> QED BY <1>7, <1>8, <1>9, <2>1
<1>10. Behind(r, lock, at)
  <2> SUFFICES ASSUME NEW j \in 1 .. at, r[j].owner = lock.owner PROVE Before(r[j], lock)
    BY DEF Behind
  <2>1. CASE j = at
    BY <1>5, <1>7, <1>8, <2>1 DEF Before
  <2>2. CASE j # at
    <3>1. j \in 1 .. Len(ls) /\ j \in 1 .. at - 1
      BY <1>1, <2>2
    <3> QED BY <1>8, <2>2, <3>1 DEF Behind
  <2> QED BY <2>1, <2>2
<1>11. r[at] = e /\ \A j \in 1 .. Len(ls) : j # at => r[j] = ls[j]
  BY <1>8
<1> QED BY <1>8, <1>9, <1>10, <1>11 DEF e, EndCut

SameLength(r, ls) == Len(r) = Len(ls)

LEMMA CutOk ==
  ASSUME NEW ls0, NEW req, NEW ls, NEW lock, NEW at \in 1 .. Len(ls), NEW r, r = Put(ls, at, CutEnd(ls[at], lock)),
         Framed(ls0, req, ls, lock), Behind(ls, lock, at - 1),
         ls[at].owner = lock.owner, ls[at].type # lock.type,
         ls[at].start < lock.start, lock.start <= ls[at].end, ls[at].end <= lock.end
  PROVE  Loop(ls0, req, At(r, lock, at + 1, TRUE)) /\ SameLength(r, ls)
<1>1. Len(ls) \in Nat /\ lock \in LockRec /\ ls[at] \in LockRec /\ lock.owner = req.owner
  BY DEF Framed, Listing
<1>2. /\ Listing(r) /\ Ascending(r) /\ Len(r) = Len(ls) /\ Behind(r, lock, at)
      /\ \A b \in Bytes : \A o, t :
           o # lock.owner \/ ~InRange(ls[at], b) \/ b < lock.start => (Held(r, o, b, t) <=> Held(ls, o, b, t))
  <2>1. EndCut(r, ls, lock, at)
    BY CutEndOk
  <2> QED BY <2>1 DEF EndCut
<1>3. \A b \in Bytes : InRange(ls[at], b) => b < lock.start \/ InRange(lock, b)
  BY <1>1, LockNumbers DEF InRange, Bytes
<1>4. Framed(ls0, req, r, lock)
  BY <1>1, <1>2, <1>3 DEF Framed
<1> DEFINE n == at + 1
<1>5. n \in 1 .. Len(r) + 1 /\ Behind(r, lock, n - 1)
  BY <1>1, <1>2
<1> HIDE DEF n
<1>6. Loop(ls0, req, At(r, lock, n, TRUE))
  BY <1>4, <1>5, LoopGoes
<1>7. SameLength(r, ls)
  BY <1>2 DEF SameLength
<1> QED BY <1>6, <1>7 DEF n

(* Cutting the start of a lock that ends behind the range: the loop is over. *)
LEMMA CutStartOk ==
  ASSUME NEW ls0, NEW req, NEW ls, NEW lock, NEW at \in 1 .. Len(ls), NEW r, r = Put(ls, at, CutStart(ls[at], lock)),
         Framed(ls0, req, ls, lock), Behind(ls, lock, at - 1),
         ls[at].owner = lock.owner, ls[at].type # lock.type,
         lock.start <= ls[at].start, ls[at].start <= lock.end, lock.end < ls[at].end
  PROVE  Loop(ls0, req, At(r, lock, at, FALSE)) /\ Len(r) = Len(ls)
<1> DEFINE l == ls[at]
           e == [type |-> l.type, start |-> lock.end + 1, owner |-> l.owner, end |-> l.end]
<1>1. /\ Len(ls) \in Nat /\ ls \in Seq(LockRec) /\ lock \in LockRec /\ l \in LockRec /\ Listing(ls) /\ Ascending(ls)
      /\ l.start <= l.end /\ lock.owner = req.owner
  BY DEF Framed, Listing
<1>3. CutStart(l, lock) = e
  BY <1>1, CutRecord
<1>4. r = Put(ls, at, e)
  BY <1>3
<1>5. /\ lock.start \in Int /\ lock.end \in Int /\ l.start \in Int /\ l.end \in Int /\ 0 <= lock.start
      /\ l.end <= OFFSET_MAX /\ lock.start <= lock.end
  BY <1>1, LockNumbers
<1>6. lock.end + 1 \in Bytes
  <2> DEFINE x == lock.end
  <2>1. x \in Int /\ 0 <= x /\ x < OFFSET_MAX
    BY <1>5, OffsetAssumption
  <2> HIDE DEF x
  <2>2. x + 1 \in 0 .. OFFSET_MAX
    BY <2>1, OffsetAssumption
  <2> QED BY <2>2 DEF x, Bytes
<1>7. e \in LockRec /\ e.owner = l.owner /\ e.type = l.type /\ e.start = lock.end + 1 /\ e.end = l.end
  BY <1>1, <1>6 DEF LockRec
<1> HIDE DEF e
<1>8. /\ Listing(r) /\ Ascending(r) /\ Len(r) = Len(ls)
      /\ \A j \in 1 .. Len(ls) : r[j] = IF j = at THEN e ELSE ls[j]
      /\ \A b \in Bytes : \A o, t :
           e.owner # o \/ ~InRange(l, b) \/ InRange(e, b) => (Held(r, o, b, t) <=> Held(ls, o, b, t))
  <2>1. Shrunk(r, ls, at, e)
    BY <1>1, <1>4, <1>5, <1>7, ShrunkList
  <2> QED BY <2>1 DEF Shrunk
<1>9. \A b \in Bytes : InRange(l, b) => InRange(e, b) \/ InRange(lock, b)
  BY <1>5, <1>7 DEF InRange, Bytes
<1>10. Framed(ls0, req, r, lock)
  BY <1>1, <1>7, <1>8, <1>9 DEF Framed
<1>11. Behind(r, lock, at - 1)
  <2> SUFFICES ASSUME NEW j \in 1 .. at - 1, r[j].owner = lock.owner PROVE Before(r[j], lock)
    BY DEF Behind
  <2>1. j \in 1 .. Len(ls) /\ j # at
    BY <1>1
  <2> QED BY <1>8, <2>1 DEF Behind
<1>12. r[at].owner = lock.owner /\ Before(lock, r[at])
  BY <1>5, <1>7, <1>8 DEF Before
<1>13. at \in 1 .. Len(r) + 1
  BY <1>1, <1>8
<1>14. Loop(ls0, req, At(r, lock, at, FALSE))
  BY <1>10, <1>11, <1>12, <1>13, BreakOk
<1> QED BY <1>8, <1>14

(* Splitting a lock around the range: what is left behind it is the next in the list. *)
LEMMA SplitOk ==
  ASSUME NEW ls0, NEW req, NEW ls, NEW lock, NEW at \in 1 .. Len(ls), NEW r,
         r = InsertAt(Put(ls, at, CutEnd(ls[at], lock)), at + 1, CutStart(ls[at], lock)),
         Framed(ls0, req, ls, lock), Behind(ls, lock, at - 1),
         ls[at].owner = lock.owner, ls[at].type # lock.type, req \in LockRec, req.start <= req.end,
         ls[at].start < lock.start, lock.end < ls[at].end
  PROVE  /\ Loop(ls0, req, At(r, lock, at + 1, TRUE)) /\ Len(r) = Len(ls) + 1
         /\ r[at + 1].owner = lock.owner /\ r[at + 1].type # lock.type /\ lock.end < r[at + 1].start
<1> DEFINE l == ls[at]
           e == [type |-> l.type, start |-> lock.end + 1, owner |-> l.owner, end |-> l.end]
           q == Put(ls, at, CutEnd(ls[at], lock))
           n == at + 1
<1>1. /\ Len(ls) \in Nat /\ ls \in Seq(LockRec) /\ lock \in LockRec /\ l \in LockRec /\ Listing(ls) /\ Ascending(ls)
      /\ l.start <= l.end /\ lock.owner = req.owner /\ l.type # F_UNLCK /\ lock.start <= req.start /\ req.end <= lock.end
      /\ \A j \in 1 .. Len(ls) : ls[j] \in LockRec
  BY DEF Framed, Listing
<1>3. CutStart(l, lock) = e
  BY <1>1, CutRecord
<1>4. r = InsertAt(q, n, e)
  BY <1>3
<1>5. /\ lock.start \in Int /\ lock.end \in Int /\ l.start \in Int /\ l.end \in Int /\ 0 <= lock.start
      /\ l.end <= OFFSET_MAX /\ lock.start <= lock.end
  BY <1>1, LockNumbers
<1>6. lock.end + 1 \in Bytes
  <2> DEFINE x == lock.end
  <2>1. x \in Int /\ 0 <= x /\ x < OFFSET_MAX
    BY <1>5, OffsetAssumption
  <2> HIDE DEF x
  <2>2. x + 1 \in 0 .. OFFSET_MAX
    BY <2>1, OffsetAssumption
  <2> QED BY <2>2 DEF x, Bytes
<1>7. e \in LockRec /\ e.owner = l.owner /\ e.type = l.type /\ e.start = lock.end + 1 /\ e.end = l.end /\ e.start <= e.end
  BY <1>1, <1>5, <1>6 DEF LockRec
<1> HIDE DEF e
<1>8. /\ Listing(q) /\ Ascending(q) /\ Len(q) = Len(ls) /\ Behind(q, lock, at)
      /\ \A j \in 1 .. Len(ls) : j # at => q[j] = ls[j]
      /\ q[at] = [type |-> l.type, start |-> l.start, owner |-> l.owner, end |-> lock.start - 1]
      /\ \A b \in Bytes : \A o, t :
           o # lock.owner \/ ~InRange(l, b) \/ b < lock.start => (Held(q, o, b, t) <=> Held(ls, o, b, t))
  <2>1. lock.start <= l.end
    BY <1>5
  <2>2. EndCut(q, ls, lock, at)
    BY <2>1, CutEndOk
  <2> HIDE DEF q
  <2> QED BY <2>2 DEF EndCut
<1> HIDE DEF q
<1>9. n \in 1 .. Len(q) + 1 /\ n - 1 = at /\ n \in 1 .. Len(q) + 2
  BY <1>1, <1>8
<1>10. \A j \in 1 .. n - 1 : q[j].owner = e.owner => Before(q[j], e)
  <2> SUFFICES ASSUME NEW j \in 1 .. at, q[j].owner = e.owner PROVE Before(q[j], e)
    BY <1>9
  <2>1. CASE j = at
    <3>1. q[j].end = lock.start - 1 /\ q[j].type = l.type
      BY <1>8, <2>1
    <3> QED BY <1>5, <1>7, <3>1 DEF Before
  <2>2. CASE j # at
    <3>1. j \in 1 .. Len(ls) /\ j < at /\ q[j] = ls[j]
      BY <1>1, <1>8, <2>2
    <3>2. ls[j].end < l.start
      BY <1>1, <1>7, <3>1 DEF Ascending
    <3>3. ls[j].end \in Int
      BY <1>1, <3>1, LockNumbers
    <3>4. l.start \in Int /\ l.end \in Int /\ lock.end \in Int /\ l.start < lock.start /\ lock.start \in Int
          /\ lock.start <= lock.end
      BY <1>5
    <3>5. q[j].end = ls[j].end /\ e.start = lock.end + 1
      BY <1>7, <3>1
    <3>6. ls[j].end < lock.end
      <4> DEFINE x == ls[j].end
                 y == l.start
                 u == lock.start
                 z == lock.end
      <4>1. x \in Int /\ y \in Int /\ u \in Int /\ z \in Int /\ x < y /\ y < u /\ u <= z
        BY <3>2, <3>3, <3>4
      <4> HIDE DEF x, y, u, z
      <4>2. x < z
        BY <4>1
      <4> QED BY <4>2 DEF x, z
    <3>7. ls[j].end < lock.end + 1 /\ ls[j].end + 1 < lock.end + 1
      BY <3>3, <3>4, <3>6
    <3> QED BY <3>5, <3>7 DEF Before
  <2> QED BY <2>1, <2>2
<1>11. \A j \in n .. Len(q) : q[j].owner = e.owner => Before(e, q[j])
  <2> SUFFICES ASSUME NEW j \in n .. Len(q), q[j].owner = e.owner PROVE Before(e, q[j])
    OBVIOUS
  <2>1. j \in 1 .. Len(ls) /\ at < j /\ j # at
    BY <1>1, <1>8, <1>9
  <2>2. q[j] = ls[j]
    BY <1>8, <2>1
  <2>3. Before(l, ls[j])
    BY <1>1, <1>7, <2>1, <2>2 DEF Ascending, Before
  <2> QED BY <1>7, <2>2, <2>3 DEF Before
<1> HIDE DEF n
<1>12. /\ Listing(r) /\ Ascending(r) /\ Len(r) = Len(q) + 1
       /\ \A j \in 1 .. Len(q) + 1 : r[j] = IF j < n THEN q[j] ELSE IF j = n THEN e ELSE q[j - 1]
       /\ \A b \in Bytes : \A o, t : Held(r, o, b, t) <=> Held(q, o, b, t) \/ (e.owner = o /\ InRange(e, b) /\ e.type = t)
  <2>1. Fits(e, q, n)
    BY <1>10, <1>11 DEF Fits
  <2>2. e.type # F_UNLCK /\ Listing(q) /\ Ascending(q) /\ n \in 1 .. Len(q) + 1
    BY <1>1, <1>7, <1>8, <1>9
  <2>3. Inserted(r, q, n, e)
    BY <1>4, <1>7, <2>1, <2>2, InsertedList
  <2> QED BY <2>3 DEF Inserted
<1>13. ASSUME NEW b \in Bytes, NEW o, NEW t, o # lock.owner \/ ~InRange(lock, b)
       PROVE  Held(r, o, b, t) <=> Held(ls, o, b, t)
  <2>1. CASE o # lock.owner
    BY <1>7, <1>8, <1>12, <2>1
  <2>2. CASE o = lock.owner /\ ~InRange(lock, b) /\ (b < lock.start \/ ~InRange(l, b))
    <3>1. ~InRange(e, b)
      BY <1>5, <1>7, <2>2 DEF InRange, Bytes
    <3> QED BY <1>8, <1>12, <2>2, <3>1
  <2>3. CASE o = lock.owner /\ ~InRange(lock, b) /\ ~(b < lock.start) /\ InRange(l, b)
    <3>1. InRange(e, b)
      BY <1>5, <1>7, <2>3 DEF InRange, Bytes
    <3>2. l.type = t => Held(ls, o, b, t) /\ Held(r, o, b, t)
      <4>1. l.type = t => Held(ls, o, b, t)
        BY <2>3 DEF Held
      <4>2. l.type = t => Held(r, o, b, t)
        BY <1>7, <1>12, <2>3, <3>1
      <4> QED BY <4>1, <4>2
    <3>3. Held(ls, o, b, t) => l.type = t
      <4> SUFFICES ASSUME NEW j \in 1 .. Len(ls), ls[j].owner = o, InRange(ls[j], b), ls[j].type = t PROVE l.type = t
        BY DEF Held
      <4>1. ls[j].start \in Int /\ ls[j].end \in Int /\ b \in Int
        BY <1>1, LockNumbers DEF Bytes
      <4>2. j < at => ls[j].end < l.start
        BY <1>1, <2>3 DEF Ascending
      <4>3. j > at => l.end < ls[j].start
        BY <1>1, <2>3 DEF Ascending
      <4>4. l.start <= b /\ b <= l.end /\ ls[j].start <= b /\ b <= ls[j].end
        BY <2>3 DEF InRange
      <4>5. ~(j < at) /\ ~(j > at)
        BY <1>5, <4>1, <4>2, <4>3, <4>4
      <4>6. j = at
        BY <4>5
      <4> QED BY <4>6
    <3>4. Held(q, o, b, t) => l.type = t
      <4> SUFFICES ASSUME NEW j \in 1 .. Len(ls), q[j].owner = o, InRange(q[j], b), q[j].type = t PROVE l.type = t
        BY <1>8 DEF Held
      <4>1. j = at => q[j].end < b
        BY <1>5, <1>8, <2>3 DEF Bytes
      <4>2. j # at
        BY <1>5, <1>8, <2>3, <4>1 DEF InRange, Bytes
      <4>3. Held(ls, o, b, t)
        BY <1>8, <4>2 DEF Held
      <4> QED BY <3>3, <4>3
    <3> QED BY <1>7, <1>12, <3>2, <3>3, <3>4
  <2> QED BY <1>13, <2>1, <2>2, <2>3
<1>14. Framed(ls0, req, r, lock)
  BY <1>1, <1>12, <1>13 DEF Framed
<1>15. Behind(r, lock, n - 1)
  <2> SUFFICES ASSUME NEW j \in 1 .. at, r[j].owner = lock.owner PROVE Before(r[j], lock)
    BY <1>9 DEF Behind
  <2>1. j \in 1 .. Len(q) + 1 /\ j < n
    BY <1>1, <1>8 DEF n
  <2>2. r[j] = q[j]
    BY <1>12, <2>1
  <2> QED BY <1>8, <2>2 DEF Behind
<1>16. n \in 1 .. Len(r) + 1
  BY <1>1, <1>8, <1>9, <1>12
<1>17. Loop(ls0, req, At(r, lock, n, TRUE))
  BY <1>14, <1>15, <1>16, LoopGoes
<1>18. r[n] = e
  BY <1>1, <1>8, <1>9, <1>12
<1>19. r[n].owner = lock.owner /\ r[n].type # lock.type /\ r[n].start = lock.end + 1
  BY <1>7, <1>18
<1>20. lock.end < r[n].start
  BY <1>5, <1>19
<1>21. Len(r) = Len(ls) + 1
  BY <1>8, <1>12
<1> QED BY <1>17, <1>19, <1>20, <1>21 DEF n

-----------------------------------------------------------------------------
(* One turn, and the turns *)

(* What a turn makes of c, by the lock at the position. *)
LEMMA PastEnd ==
  ASSUME NEW c, c.more, c.at > Len(c.ls)
  PROVE  InsertTurn(c) = At(c.ls, c.lock, c.at, FALSE)
BY DEF InsertTurn, At

LEMMA Passed ==
  ASSUME NEW c, c.more, ~(c.at > Len(c.ls)), NEW l, l = c.ls[c.at], NEW lock, lock = c.lock,
         \/ l.owner # lock.owner
         \/ l.type = lock.type /\ l.end < lock.start - 1
         \/ l.type # lock.type /\ l.end < lock.start
  PROVE  InsertTurn(c) = At(c.ls, lock, c.at + 1, TRUE)
BY DEF InsertTurn, At

LEMMA SameType ==
  ASSUME NEW c, c.more, ~(c.at > Len(c.ls)), NEW l, l = c.ls[c.at], NEW lock, lock = c.lock,
         l.owner = lock.owner, l.type = lock.type, ~(l.end < lock.start - 1)
  PROVE  InsertTurn(c) = IF lock.end < l.start - 1 THEN At(c.ls, lock, c.at, FALSE)
                         ELSE IF l.start <= lock.start /\ lock.end <= l.end THEN At(c.ls, lock, 0, FALSE)
                         ELSE At(RemoveAt(c.ls, c.at), Joined(lock, l), c.at, TRUE)
BY DEF InsertTurn, At, Joined

LEMMA OtherType ==
  ASSUME NEW c, c.more, ~(c.at > Len(c.ls)), NEW l, l = c.ls[c.at], NEW lock, lock = c.lock,
         l.owner = lock.owner, l.type # lock.type, ~(l.end < lock.start)
  PROVE  InsertTurn(c) = IF lock.end < l.start THEN At(c.ls, lock, c.at, FALSE)
                         ELSE IF lock.start <= l.start /\ l.end <= lock.end THEN At(RemoveAt(c.ls, c.at), lock, c.at, TRUE)
                         ELSE IF l.end <= lock.end THEN At(Put(c.ls, c.at, CutEnd(l, lock)), lock, c.at + 1, TRUE)
                         ELSE IF lock.start <= l.start THEN At(Put(c.ls, c.at, CutStart(l, lock)), lock, c.at, FALSE)
                         ELSE At(InsertAt(Put(c.ls, c.at, CutEnd(l, lock)), c.at + 1, CutStart(l, lock)), lock, c.at + 1, TRUE)
<1> DEFINE q == Put(c.ls, c.at, CutEnd(l, lock))
           p == Put(c.ls, c.at, CutStart(l, lock))
           t == CutStart(l, lock)
<1>1. q = [c.ls EXCEPT ![c.at].end = lock.start - 1]
  BY DEF Put, CutEnd
<1>2. p = [c.ls EXCEPT ![c.at].start = lock.end + 1]
  BY DEF Put, CutStart
<1>3. t = [l EXCEPT !.start = lock.end + 1]
  BY DEF CutStart
<1>4. InsertTurn(c) = IF lock.end < l.start THEN At(c.ls, lock, c.at, FALSE)
                         ELSE IF lock.start <= l.start /\ l.end <= lock.end THEN At(RemoveAt(c.ls, c.at), lock, c.at, TRUE)
                         ELSE IF l.end <= lock.end THEN At(q, lock, c.at + 1, TRUE)
                         ELSE IF lock.start <= l.start THEN At(p, lock, c.at, FALSE)
                         ELSE At(InsertAt(q, c.at + 1, t), lock, c.at + 1, TRUE)
  <2> HIDE DEF q, p, t
  <2> QED BY <1>1, <1>2, <1>3 DEF InsertTurn, At
<1> QED BY <1>4

LEMMA TurnOk ==
  ASSUME NEW ls0, NEW req \in LockRec, req.start <= req.end, NEW c, Loop(ls0, req, c), c.more,
         NEW d, d = InsertTurn(c)
  PROVE  Loop(ls0, req, d) /\ Progress(c, d)
<1> DEFINE ls == c.ls
           lock == c.lock
           at == c.at
           l == ls[at]
<1>1. /\ ls \in Seq(LockRec) /\ Len(ls) \in Nat /\ lock \in LockRec /\ at \in 1 .. Len(ls) + 1
      /\ Framed(ls0, req, ls, lock) /\ Behind(ls, lock, at - 1)
  BY DEF Loop, LoopType
<1>2. lock.start \in Int /\ lock.end \in Int /\ lock.start <= lock.end
  <2>1. lock.start <= req.start /\ req.end <= lock.end
    BY <1>1 DEF Framed
  <2>2. lock.start \in Int /\ lock.end \in Int /\ req.start \in Int /\ req.end \in Int
    BY <1>1, LockNumbers
  <2> QED BY <2>1, <2>2
<1>3. CASE at > Len(ls)
  <2>1. d = At(ls, lock, at, FALSE)
    BY <1>3, PastEnd
  <2>2. ~d.more
    BY <2>1 DEF At
  <2>3. Loop(ls0, req, At(ls, lock, at, FALSE))
    <3>1. ~(at <= Len(ls))
      BY <1>1, <1>3
    <3> HIDE DEF ls, lock, at
    <3> QED BY <1>1, <3>1, BreakOk
  <2> QED BY <2>1, <2>2, <2>3 DEF Progress
<1> SUFFICES ASSUME ~(at > Len(ls)) PROVE Loop(ls0, req, d) /\ Progress(c, d)
  BY <1>3
<1>4. /\ at \in 1 .. Len(ls) /\ at <= Len(ls)
      /\ l \in LockRec /\ l.start \in Int /\ l.end \in Int /\ l.start <= l.end
  <2>1. at \in 1 .. Len(ls) /\ at <= Len(ls)
    BY <1>1
  <2>2. l \in LockRec /\ l.start <= l.end
    BY <1>1, <2>1 DEF Framed, Listing
  <2> QED BY <2>1, <2>2, LockNumbers
<1>5. ASSUME \/ l.owner # lock.owner
             \/ l.type = lock.type /\ l.end < lock.start - 1
             \/ l.type # lock.type /\ l.end < lock.start
      PROVE  Loop(ls0, req, d) /\ Progress(c, d)
  <2>1. d = At(ls, lock, at + 1, TRUE)
    BY <1>5, Passed
  <2>2. l.owner = lock.owner => Before(l, lock)
    BY <1>2, <1>4, <1>5 DEF Before
  <2>3. Loop(ls0, req, At(ls, lock, at + 1, TRUE))
    <3> HIDE DEF ls, lock, at
    <3> QED BY <1>1, <1>4, <2>2, SkipOk
  <2>4. ~Beyond(c)
    BY <1>2, <1>4, <1>5 DEF Beyond
  <2>5. d.ls = ls /\ d.at = at + 1
    BY <2>1 DEF At
  <2>6. Len(d.ls) - d.at = Len(ls) - at - 1
    BY <1>1, <2>5
  <2>7. Progress(c, d)
    BY <1>4, <2>4, <2>6 DEF Progress
  <2> QED BY <2>1, <2>3, <2>7
<1>6. ASSUME l.owner = lock.owner, l.type = lock.type, ~(l.end < lock.start - 1)
      PROVE  Loop(ls0, req, d) /\ Progress(c, d)
  <2>1. d = IF lock.end < l.start - 1 THEN At(ls, lock, at, FALSE)
            ELSE IF l.start <= lock.start /\ lock.end <= l.end THEN At(ls, lock, 0, FALSE)
            ELSE At(RemoveAt(ls, at), Joined(lock, l), at, TRUE)
    BY <1>6, SameType
  <2>2. CASE lock.end < l.start - 1
    <3>1. d = At(ls, lock, at, FALSE)
      BY <2>1, <2>2
    <3>2. Before(lock, l)
      BY <1>2, <1>4, <2>2, SMTT(30) DEF Before
    <3>3. Loop(ls0, req, At(ls, lock, at, FALSE))
      <4> HIDE DEF ls, lock, at
      <4> QED BY <1>1, <1>6, <3>2, BreakOk
    <3>4. ~d.more
      BY <3>1 DEF At
    <3> QED BY <3>1, <3>3, <3>4 DEF Progress
  <2>3. CASE ~(lock.end < l.start - 1) /\ l.start <= lock.start /\ lock.end <= l.end
    <3>1. d = At(ls, lock, 0, FALSE)
      BY <2>1, <2>3
    <3>2. Covered(ls, lock)
      BY <1>4, <1>6, <2>3 DEF Covered
    <3>3. Loop(ls0, req, At(ls, lock, 0, FALSE))
      BY <1>1, <3>2, LoopLeaves
    <3>4. ~d.more
      BY <3>1 DEF At
    <3> QED BY <3>1, <3>3, <3>4 DEF Progress
  <2>4. CASE ~(lock.end < l.start - 1) /\ ~(l.start <= lock.start /\ lock.end <= l.end)
    <3> DEFINE r == RemoveAt(ls, at)
               k == Joined(lock, l)
    <3>1. d = At(r, k, at, TRUE)
      BY <2>1, <2>4
    <3>2. lock.start - 1 <= l.end /\ l.start - 1 <= lock.end
      BY <1>2, <1>4, <1>6, <2>4
    <3>3. Loop(ls0, req, At(r, k, at, TRUE)) /\ Len(r) = Len(ls) - 1
      <4> HIDE DEF ls, lock, at
      <4> QED BY <1>1, <1>4, <1>6, <3>2, JoinOk
    <3> HIDE DEF r, k
    <3>4. d.ls = r /\ d.at = at
      BY <3>1 DEF At
    <3>5. Len(d.ls) - d.at = Len(ls) - at - 1
      BY <1>1, <3>3, <3>4
    <3>6. ~Beyond(c)
      BY <1>6 DEF Beyond
    <3>7. Progress(c, d)
      BY <1>4, <3>5, <3>6 DEF Progress
    <3> QED BY <3>1, <3>3, <3>7
  <2> QED BY <2>2, <2>3, <2>4
<1>7. ASSUME l.owner = lock.owner, l.type # lock.type, ~(l.end < lock.start)
      PROVE  Loop(ls0, req, d) /\ Progress(c, d)
  <2> DEFINE p == Put(ls, at, CutEnd(l, lock))
             s == Put(ls, at, CutStart(l, lock))
             v == InsertAt(p, at + 1, CutStart(l, lock))
             r == RemoveAt(ls, at)
  <2>1. d = IF lock.end < l.start THEN At(ls, lock, at, FALSE)
            ELSE IF lock.start <= l.start /\ l.end <= lock.end THEN At(r, lock, at, TRUE)
            ELSE IF l.end <= lock.end THEN At(p, lock, at + 1, TRUE)
            ELSE IF lock.start <= l.start THEN At(s, lock, at, FALSE)
            ELSE At(v, lock, at + 1, TRUE)
    BY <1>7, OtherType
  <2>2. CASE lock.end < l.start
    <3>1. d = At(ls, lock, at, FALSE)
      BY <2>1, <2>2
    <3>2. Before(lock, l)
      BY <1>7, <2>2 DEF Before
    <3>3. Loop(ls0, req, At(ls, lock, at, FALSE))
      <4> HIDE DEF ls, lock, at
      <4> QED BY <1>1, <1>7, <3>2, BreakOk
    <3>4. ~d.more
      BY <3>1 DEF At
    <3> QED BY <3>1, <3>3, <3>4 DEF Progress
  <2>3. ~(lock.end < l.start) => ~Beyond(c)
    BY DEF Beyond
  <2>4. CASE ~(lock.end < l.start) /\ lock.start <= l.start /\ l.end <= lock.end
    <3>1. d = At(r, lock, at, TRUE)
      BY <2>1, <2>4
    <3>2. Loop(ls0, req, At(r, lock, at, TRUE)) /\ Len(r) = Len(ls) - 1
      <4> HIDE DEF ls, lock, at
      <4> QED BY <1>1, <1>4, <1>7, <2>4, DeleteOk
    <3> HIDE DEF r
    <3>3. d.ls = r /\ d.at = at
      BY <3>1 DEF At
    <3>4. Len(d.ls) - d.at = Len(ls) - at - 1
      BY <1>1, <3>2, <3>3
    <3>5. Progress(c, d)
      BY <1>4, <2>3, <2>4, <3>4 DEF Progress
    <3> QED BY <3>1, <3>2, <3>5
  <2>5. CASE ~(lock.end < l.start) /\ ~(lock.start <= l.start) /\ l.end <= lock.end
    <3>1. d = At(p, lock, at + 1, TRUE)
      BY <2>1, <2>5
    <3>2. l.start < lock.start /\ lock.start <= l.end
      BY <1>2, <1>4, <1>7, <2>5
    <3>3. Loop(ls0, req, At(p, lock, at + 1, TRUE)) /\ Len(p) = Len(ls)
      <4>1. Framed(ls0, req, ls, lock) /\ Behind(ls, lock, at - 1) /\ at \in 1 .. Len(ls)
        BY <1>1, <1>4
      <4>2. ls[at].owner = lock.owner /\ ls[at].type # lock.type /\ ls[at].end <= lock.end
        BY <1>7, <2>5
      <4>3. ls[at].start < lock.start /\ lock.start <= ls[at].end
        BY <3>2
      <4>4. p = Put(ls, at, CutEnd(ls[at], lock))
        OBVIOUS
      <4>5. Loop(ls0, req, At(p, lock, at + 1, TRUE)) /\ SameLength(p, ls)
        <5> HIDE DEF ls, lock, at, p
        <5> QED BY <4>1, <4>2, <4>3, <4>4, CutOk
      <4> QED BY <4>5 DEF SameLength
    <3> HIDE DEF p
    <3>4. d.ls = p /\ d.at = at + 1
      BY <3>1 DEF At
    <3>5. Len(d.ls) - d.at = Len(ls) - at - 1
      BY <1>1, <3>3, <3>4
    <3>6. Progress(c, d)
      BY <1>4, <2>3, <2>5, <3>5 DEF Progress
    <3> QED BY <3>1, <3>3, <3>6
  <2>6. CASE ~(lock.end < l.start) /\ lock.start <= l.start /\ ~(l.end <= lock.end)
    <3>1. d = At(s, lock, at, FALSE)
      BY <2>1, <2>6
    <3>2. l.start <= lock.end /\ lock.end < l.end
      BY <1>2, <1>4, <2>6
    <3>3. Loop(ls0, req, At(s, lock, at, FALSE))
      <4> HIDE DEF ls, lock, at
      <4> QED BY <1>1, <1>4, <1>7, <2>6, <3>2, CutStartOk
    <3>4. ~d.more
      BY <3>1 DEF At
    <3> QED BY <3>1, <3>3, <3>4 DEF Progress
  <2>7. CASE ~(lock.end < l.start) /\ ~(lock.start <= l.start) /\ ~(l.end <= lock.end)
    <3>1. d = At(v, lock, at + 1, TRUE)
      BY <2>1, <2>7
    <3>2. l.start < lock.start /\ lock.end < l.end
      BY <1>2, <1>4, <2>7
    <3> DEFINE n == at + 1
    <3>3. /\ Loop(ls0, req, At(v, lock, n, TRUE)) /\ Len(v) = Len(ls) + 1
          /\ v[n].owner = lock.owner /\ v[n].type # lock.type /\ lock.end < v[n].start
      <4> HIDE DEF ls, lock, at
      <4> QED BY <1>1, <1>4, <1>7, <3>2, SplitOk
    <3> HIDE DEF v
    <3>4. d.ls = v /\ d.at = n /\ d.lock = lock
      BY <3>1 DEF At
    <3>5. Len(d.ls) - d.at = Len(ls) - at /\ d.at <= Len(d.ls)
      <4>1. Len(d.ls) = Len(ls) + 1 /\ d.at = at + 1
        BY <3>3, <3>4
      <4> HIDE DEF ls, at
      <4> QED BY <1>1, <1>4, <4>1
    <3>6. Beyond(d)
      <4> HIDE DEF n, lock
      <4> QED BY <3>3, <3>4, <3>5 DEF Beyond
    <3>8. Progress(c, d)
      BY <1>4, <2>3, <2>7, <3>5, <3>6 DEF Progress
    <3> QED BY <3>1, <3>3, <3>8
  <2> QED BY <2>2, <2>4, <2>5, <2>6, <2>7
<1> QED BY <1>5, <1>6, <1>7

(* A loop that is over stays as it is. *)
LEMMA TurnsIn ==
  ASSUME NEW ls0, NEW req \in LockRec, req.start <= req.end, NEW c, Loop(ls0, req, c)
  PROVE  Loop(ls0, req, InsertTurn(c)) /\ (~c.more => InsertTurn(c) = c)
<1>1. ~c.more => InsertTurn(c) = c
  BY DEF InsertTurn
<1>2. c.more => Loop(ls0, req, InsertTurn(c))
  BY TurnOk
<1> QED BY <1>1, <1>2

LEMMA WithinOne ==
  ASSUME NEW ls0, NEW req \in LockRec, req.start <= req.end, NEW c, Loop(ls0, req, c), NEW k \in Nat,
         Within(c, k), NEW d, d = InsertTurn(c)
  PROVE  IF k = 0 THEN ~d.more ELSE Within(d, k - 1)
<1>1. CASE ~c.more
  BY <1>1, TurnsIn DEF Within
<1>2. CASE c.more
  <2>1. Progress(c, d) /\ Loop(ls0, req, d)
    BY <1>2, TurnOk
  <2>2. Len(c.ls) \in Nat /\ c.at \in Nat /\ Len(d.ls) \in Nat /\ d.at \in Nat
    BY <2>1 DEF Loop, LoopType
  <2>3. CASE ~d.more
    BY <2>3 DEF Within
  <2>4. CASE d.more
    <3>1. c.at <= Len(c.ls) /\ ~Beyond(c)
      BY <2>1, <2>4 DEF Progress
    <3>2. Len(c.ls) + 1 - c.at <= k
      BY <1>2, <3>1 DEF Within
    <3>3. Len(d.ls) - d.at = Len(c.ls) - c.at - 1 \/ (Len(d.ls) - d.at = Len(c.ls) - c.at /\ Beyond(d))
      BY <2>1, <2>4 DEF Progress
    <3>4. k # 0
      BY <2>2, <3>1, <3>2
    <3>5. Len(d.ls) + 1 - d.at <= k - 1 \/ (Len(d.ls) + 1 - d.at <= k - 1 + 1 /\ Beyond(d))
      <4> DEFINE n == Len(c.ls)
                 m == Len(d.ls)
                 i == c.at
                 j == d.at
      <4>1. n \in Int /\ m \in Int /\ i \in Int /\ j \in Int /\ n + 1 - i <= k
        BY <2>2, <3>2
      <4>2. m - j = n - i - 1 \/ (m - j = n - i /\ Beyond(d))
        BY <3>3
      <4> HIDE DEF n, m, i, j
      <4>3. CASE m - j = n - i - 1
        <5>1. m + 1 - j <= k - 1
          BY <4>1, <4>3
        <5> QED BY <5>1 DEF m, j
      <4>4. CASE m - j = n - i /\ Beyond(d)
        <5>1. m + 1 - j <= k - 1 + 1
          BY <4>1, <4>4
        <5> QED BY <4>4, <5>1 DEF m, j
      <4> QED BY <4>2, <4>3, <4>4
    <3> QED BY <3>4, <3>5 DEF Within
  <2> QED BY <2>3, <2>4
<1> QED BY <1>1, <1>2

(* The loop ends, and nothing is in the way of the new lock. *)
LEMMA LoopOk ==
  ASSUME NEW ls, Listing(ls), Ascending(ls), NEW req \in LockRec, req.start <= req.end
  PROVE  Loop(ls, req, InsertLoop(ls, req)) /\ ~InsertLoop(ls, req).more
<1> DEFINE S == {x \in LoopType : Loop(ls, req, x)}
           c == [ls |-> ls, lock |-> req, at |-> 1, more |-> TRUE]
           T(t) == t = [k \in Nat |-> IF k = 0 THEN c ELSE InsertTurn(t[k - 1])]
           step == [x \in S \X Nat |-> InsertTurn(x[1])]
           turn == CHOOSE t : T(t)
           m == Len(ls)
<1>0. ls \in Seq(LockRec) /\ m \in Nat
  BY DEF Listing
<1>1. \A x \in S : InsertTurn(x) \in S
  BY TurnsIn DEF Loop
<1>2. c \in S /\ Within(c, m)
  <2>1. \A b \in Bytes : \A o, t : Held(ls, o, b, t) <=> Held(ls, o, b, t)
    OBVIOUS
  <2>2. req.start \in Int /\ req.end \in Int
    BY LockNumbers
  <2>3. Framed(ls, req, ls, req)
    BY <2>2 DEF Framed
  <2>4. Behind(ls, req, 0) /\ 1 \in 1 .. Len(ls) + 1 /\ 1 - 1 = 0
    BY <1>0 DEF Behind
  <2>5. Loop(ls, req, At(ls, req, 1, TRUE))
    BY <2>3, <2>4, LoopGoes
  <2>6. Loop(ls, req, c)
    BY <2>5 DEF At
  <2> QED BY <1>0, <2>6 DEF Within, Loop
<1>3. \A x \in S, k \in Nat : Within(x, k) => IF k = 0 THEN ~InsertTurn(x).more ELSE Within(InsertTurn(x), k - 1)
  BY WithinOne
<1> HIDE DEF S, c, m
<1>4. PICK h : Iterates(h, S, c, step)
  <2>1. StepIn(step, S)
    BY <1>1 DEF StepIn
  <2> HIDE DEF step
  <2> QED BY <1>2, <2>1, RecursionExists
<1>5. \A n \in Nat : h[n] = IF n = 0 THEN c ELSE InsertTurn(h[n - 1])
  <2> TAKE n \in Nat
  <2>1. CASE n = 0
    BY <1>4, <2>1 DEF Iterates
  <2>2. CASE n # 0
    <3>1. n - 1 \in Nat /\ n - 1 + 1 = n
      BY <2>2
    <3>2. h[n - 1] \in S
      BY <1>4, <3>1 DEF Iterates
    <3>3. h[n] = step[<<h[n - 1], n>>]
      BY <1>4, <3>1 DEF Iterates
    <3> QED BY <2>2, <3>2, <3>3
  <2> QED BY <2>1, <2>2
<1>6. T(h)
  BY <1>4, <1>5 DEF Iterates
<1>7. T(turn)
  BY <1>6
<1>8. InsertLoop(ls, req) = turn[m + 1]
  BY DEF InsertLoop, c, m
<1> HIDE DEF turn
<1> DEFINE P == {i \in Nat : turn[i] \in S /\ (i <= m => Within(turn[i], m - i))}
<1>9. 0 \in P
  BY <1>0, <1>2, <1>7
<1>10. ASSUME NEW i \in Nat, i \in P PROVE i + 1 \in P
  <2>1. turn[i + 1] = InsertTurn(turn[i])
    BY <1>7
  <2>2. turn[i + 1] \in S
    BY <1>1, <1>10, <2>1
  <2>3. i + 1 <= m => Within(turn[i + 1], m - (i + 1))
    <3> SUFFICES ASSUME i + 1 <= m PROVE Within(turn[i + 1], m - (i + 1))
      OBVIOUS
    <3> DEFINE k == m - i
    <3>1. k \in Nat /\ k # 0 /\ k - 1 = m - (i + 1) /\ i <= m
      BY <1>0
    <3>2. Within(turn[i], k) /\ turn[i] \in S
      BY <1>10, <3>1
    <3> HIDE DEF k
    <3> QED BY <1>3, <2>1, <3>1, <3>2
  <2> QED BY <2>2, <2>3
<1>11. \A i \in Nat : i \in P
  <2> HIDE DEF P
  <2> QED BY <1>9, <1>10, InductionOn
<1>12. turn[m] \in S /\ Within(turn[m], 0) /\ turn[m + 1] \in S
  <2>1. m \in P /\ m + 1 \in P /\ m <= m /\ m - m = 0
    BY <1>0, <1>11
  <2> QED BY <2>1
<1>13. turn[m + 1] = InsertTurn(turn[m])
  BY <1>0, <1>7
<1>14. ~turn[m + 1].more
  BY <1>3, <1>12, <1>13
<1> QED BY <1>8, <1>12, <1>14 DEF S

-----------------------------------------------------------------------------
(* What locks_insert makes of the list *)

(* An offset is held by an owner in one way at most. *)
LEMMA HeldOnce ==
  ASSUME NEW ls, Listing(ls), Ascending(ls), NEW o, NEW b \in Bytes, NEW t, NEW u, Held(ls, o, b, t), Held(ls, o, b, u)
  PROVE  t = u
<1>1. PICK i \in 1 .. Len(ls) : ls[i].owner = o /\ InRange(ls[i], b) /\ ls[i].type = t
  BY DEF Held
<1>2. PICK j \in 1 .. Len(ls) : ls[j].owner = o /\ InRange(ls[j], b) /\ ls[j].type = u
  BY DEF Held
<1>3. ls[i] \in LockRec /\ ls[j] \in LockRec /\ i \in Int /\ j \in Int /\ b \in Int
  BY DEF Listing, Bytes
<1>4. ls[i].start \in Int /\ ls[i].end \in Int /\ ls[j].start \in Int /\ ls[j].end \in Int
  BY <1>3, LockNumbers
<1>5. ls[i].start <= b /\ b <= ls[i].end /\ ls[j].start <= b /\ b <= ls[j].end
  BY <1>1, <1>2 DEF InRange
<1>6. i < j => ls[i].end < ls[j].start
  BY <1>1, <1>2 DEF Ascending
<1>7. j < i => ls[j].end < ls[i].start
  BY <1>1, <1>2 DEF Ascending
<1>8. ~(i < j) /\ ~(j < i)
  BY <1>3, <1>4, <1>5, <1>6, <1>7
<1>9. i = j
  BY <1>3, <1>8
<1> QED BY <1>1, <1>2, <1>9

(* Where the loop ends, the owner holds nothing in the range of the new lock. *)
LEMMA NothingThere ==
  ASSUME NEW ls, Listing(ls), NEW lock \in LockRec, NEW at \in Nat, Behind(ls, lock, at - 1), Ahead(ls, lock, at),
         NEW b \in Bytes, InRange(lock, b), NEW t
  PROVE  ~Held(ls, lock.owner, b, t)
<1> SUFFICES ASSUME NEW i \in 1 .. Len(ls), ls[i].owner = lock.owner, InRange(ls[i], b) PROVE FALSE
  BY DEF Held
<1>1. ls[i] \in LockRec /\ i \in Int /\ b \in Int /\ Len(ls) \in Nat
  BY DEF Listing, Bytes
<1>2. ls[i].start \in Int /\ ls[i].end \in Int /\ lock.start \in Int /\ lock.end \in Int
  BY <1>1, LockNumbers
<1>3. ls[i].start <= b /\ b <= ls[i].end /\ lock.start <= b /\ b <= lock.end
  BY DEF InRange
<1>4. CASE i < at
  <2>1. i \in 1 .. at - 1
    BY <1>1, <1>4
  <2>2. ls[i].end < lock.start
    BY <2>1 DEF Behind, Before
  <2> QED BY <1>1, <1>2, <1>3, <2>2
<1>5. CASE ~(i < at)
  <2>1. i \in at .. Len(ls)
    BY <1>1, <1>5
  <2>2. lock.end < ls[i].start
    BY <2>1 DEF Ahead, Before
  <2> QED BY <1>1, <1>2, <1>3, <2>2
<1> QED BY <1>4, <1>5

(* The list after a request: its owner holds its type in its range, everything else is   *)
(* as it was.                                                                            *)
HeldAfter(ls, req, o, b, t) ==
  IF o = req.owner /\ InRange(req, b) THEN t = req.type /\ t # F_UNLCK ELSE Held(ls, o, b, t)
Updated(r, ls, req) ==
  /\ Listing(r) /\ Ascending(r)
  /\ \A b \in Bytes : \A o, t : Held(r, o, b, t) <=> HeldAfter(ls, req, o, b, t)

LEMMA InsertOk ==
  ASSUME NEW ls, Listing(ls), Ascending(ls), NEW req \in LockRec, req.start <= req.end
  PROVE  Updated(locks_insert(ls, req), ls, req)
<1> DEFINE c == InsertLoop(ls, req)
           r == locks_insert(ls, req)
           k == c.lock
           q == c.ls
           at == c.at
<1>1. Loop(ls, req, c) /\ ~c.more
  BY LoopOk
<1>2. r = IF at = 0 \/ req.type = F_UNLCK THEN q ELSE InsertAt(q, at, k)
  BY DEF locks_insert
<1> HIDE DEF c, r
<1>3. /\ Framed(ls, req, q, k) /\ at \in Nat /\ (at = 0 => Covered(q, k))
      /\ at # 0 => at <= Len(q) + 1 /\ Behind(q, k, at - 1) /\ Ahead(q, k, at)
  BY <1>1 DEF Loop, LoopType
<1> HIDE DEF k, q, at
<1>4. /\ Listing(q) /\ Ascending(q) /\ k \in LockRec /\ k.owner = req.owner /\ k.type = req.type
      /\ k.start <= req.start /\ req.end <= k.end /\ Len(q) \in Nat
  BY <1>3 DEF Framed, Listing
<1>5. /\ k.start \in Int /\ k.end \in Int /\ req.start \in Int /\ req.end \in Int
  BY <1>4, LockNumbers
<1>6. k.start <= k.end /\ \A b \in Bytes : InRange(req, b) => InRange(k, b)
  BY <1>4, <1>5 DEF InRange, Bytes
<1>7. \A b \in Bytes : \A o, t : o # req.owner \/ ~InRange(k, b) => (Held(q, o, b, t) <=> Held(ls, o, b, t))
  BY <1>3 DEF Framed
<1>8. ASSUME NEW b \in Bytes, InRange(k, b), ~InRange(req, b), NEW t
      PROVE  Held(ls, req.owner, b, t) <=> t = req.type
  <2>1. Held(ls, req.owner, b, req.type)
    BY <1>3, <1>8 DEF Framed
  <2> QED BY <2>1, HeldOnce
<1>9. SUFFICES Updated(r, ls, req)
  BY DEF r
<1>10. ASSUME Listing(r), Ascending(r), req.type # F_UNLCK,
              \A b \in Bytes : \A o, t : o # req.owner \/ ~InRange(k, b) => (Held(r, o, b, t) <=> Held(q, o, b, t)),
              \A b \in Bytes : \A t : InRange(k, b) => (Held(r, req.owner, b, t) <=> t = req.type)
       PROVE  Updated(r, ls, req)
  <2> SUFFICES ASSUME NEW b \in Bytes, NEW o, NEW t PROVE Held(r, o, b, t) <=> HeldAfter(ls, req, o, b, t)
    BY <1>10 DEF Updated
  <2>1. CASE o # req.owner \/ ~InRange(k, b)
    BY <1>6, <1>7, <1>10, <2>1 DEF HeldAfter
  <2>2. CASE o = req.owner /\ InRange(k, b)
    <3>1. Held(r, o, b, t) <=> t = req.type
      BY <1>10, <2>2
    <3>2. ~InRange(req, b) => (Held(ls, o, b, t) <=> t = req.type)
      BY <1>8, <2>2
    <3> QED BY <1>10, <2>2, <3>1, <3>2 DEF HeldAfter
  <2> QED BY <2>1, <2>2
<1>11. CASE at = 0
  <2>1. r = q
    BY <1>2, <1>11
  <2>2. PICK i \in 1 .. Len(q) : q[i].owner = k.owner /\ q[i].type = k.type /\ q[i].start <= k.start /\ k.end <= q[i].end
    BY <1>3, <1>11 DEF Covered
  <2>3. q[i] \in LockRec /\ q[i].type # F_UNLCK
    BY <1>4 DEF Listing
  <2>4. q[i].start \in Int /\ q[i].end \in Int
    BY <2>3, LockNumbers
  <2>5. ASSUME NEW b \in Bytes, InRange(k, b), NEW t
        PROVE  Held(q, req.owner, b, t) <=> t = req.type
    <3>1. InRange(q[i], b)
      BY <1>5, <2>2, <2>4, <2>5 DEF InRange, Bytes
    <3>2. Held(q, req.owner, b, req.type)
      BY <1>4, <2>2, <3>1 DEF Held
    <3> QED BY <1>4, <3>2, HeldOnce
  <2>6. req.type # F_UNLCK
    BY <1>4, <2>2, <2>3
  <2> QED BY <1>4, <1>10, <2>1, <2>5, <2>6
<1>12. CASE at # 0 /\ req.type = F_UNLCK
  <2>1. r = q
    BY <1>2, <1>12
  <2>2. \A b \in Bytes : ~Held(ls, req.owner, b, F_UNLCK)
    BY DEF Held, Listing
  <2>3. \A b \in Bytes : InRange(k, b) => InRange(req, b)
    BY <1>8, <1>12, <2>2
  <2>4. \A b \in Bytes : \A t : InRange(k, b) => ~Held(q, req.owner, b, t)
    BY <1>3, <1>4, <1>12, NothingThere
  <2> SUFFICES ASSUME NEW b \in Bytes, NEW o, NEW t PROVE Held(q, o, b, t) <=> HeldAfter(ls, req, o, b, t)
    BY <1>4, <2>1 DEF Updated
  <2>5. CASE o = req.owner /\ InRange(req, b)
    BY <1>6, <1>12, <2>4, <2>5 DEF HeldAfter
  <2>6. CASE ~(o = req.owner /\ InRange(req, b))
    BY <1>7, <2>3, <2>6 DEF HeldAfter
  <2> QED BY <2>5, <2>6
<1>13. CASE at # 0 /\ req.type # F_UNLCK
  <2>1. r = InsertAt(q, at, k)
    BY <1>2, <1>13
  <2>2. at \in 1 .. Len(q) + 1 /\ Behind(q, k, at - 1) /\ Ahead(q, k, at)
    BY <1>3, <1>4, <1>13
  <2>3. Fits(k, q, at)
    BY <2>2 DEF Fits, Behind, Ahead
  <2>4. Inserted(r, q, at, k)
    BY <1>4, <1>6, <1>13, <2>1, <2>2, <2>3, InsertedList
  <2>5. /\ Listing(r) /\ Ascending(r)
        /\ \A b \in Bytes : \A o, t : Held(r, o, b, t) <=> Held(q, o, b, t) \/ (k.owner = o /\ InRange(k, b) /\ k.type = t)
    BY <2>4 DEF Inserted
  <2>6. \A b \in Bytes : \A t : InRange(k, b) => ~Held(q, req.owner, b, t)
    BY <1>3, <1>4, <2>2, NothingThere
  <2>7. \A b \in Bytes : \A o, t : o # req.owner \/ ~InRange(k, b) => (Held(r, o, b, t) <=> Held(q, o, b, t))
    BY <1>4, <2>5
  <2>8. \A b \in Bytes : \A t : InRange(k, b) => (Held(r, req.owner, b, t) <=> t = req.type)
    BY <1>4, <2>5, <2>6
  <2> QED BY <1>10, <1>13, <2>5, <2>7, <2>8
<1> QED BY <1>11, <1>12, <1>13

-----------------------------------------------------------------------------
(* The inductive invariant *)

(* While a granted request of o is between its two steps the file system has what it     *)
(* asked for in its range; elsewhere the list and the file system agree, but where the   *)
(* last request failed in one half.                                                      *)
Agreed(ls, fs, st, ast, o, b) ==
  IF st[o] # Idle /\ InRange(st[o][1], b) THEN st[o][2] => fs[o][b] = st[o][1].type
  ELSE b \notin ast[o] => \A t : Held(ls, o, b, t) <=> t = fs[o][b] /\ t # F_UNLCK
AskedBy(x, o) == x = Idle \/ \E l \in LockRec, g \in BOOLEAN : x = <<l, g>> /\ l.owner = o /\ l.start <= l.end
LocksInv ==
  /\ Listing(locks) /\ Ascending(locks)
  /\ fsLocks \in [LockOwners -> [Bytes -> LockTypes]]
  /\ setting = [o \in LockOwners |-> setting[o]] /\ \A o \in LockOwners : AskedBy(setting[o], o)
  /\ astray \in [LockOwners -> SUBSET Bytes]
  /\ \A o \in LockOwners, b \in Bytes : Agreed(locks, fsLocks, setting, astray, o, b)

(* What the length of a request stands for: its last byte comes back. *)
LEMMA RoundTrip ==
  ASSUME NEW x, NEW o, x.start \in Bytes, x.end \in Bytes, x.start <= x.end
  PROVE  /\ flock_to_lock(convert_fuse_file_lock(x), o) = [type |-> x.type, start |-> x.start, owner |-> o, end |-> x.end]
         /\ flock_to_lock(lock_to_flock(x), o) = [type |-> x.type, start |-> x.start, owner |-> o, end |-> x.end]
<1> DEFINE n == IF x.end = OFFSET_MAX THEN 0 ELSE x.end - x.start + 1
           e == IF n # 0 THEN x.start + n - 1 ELSE OFFSET_MAX
<1>1. e = x.end
  BY OffsetAssumption DEF Bytes
<1>2. flock_to_lock(convert_fuse_file_lock(x), o) = [type |-> x.type, start |-> x.start, owner |-> o, end |-> e]
  BY DEF flock_to_lock, convert_fuse_file_lock
<1>3. flock_to_lock(lock_to_flock(x), o) = [type |-> x.type, start |-> x.start, owner |-> o, end |-> e]
  BY DEF flock_to_lock, lock_to_flock
<1> HIDE DEF e
<1> QED BY <1>1, <1>2, <1>3

LEMMA RequestOk ==
  ASSUME NEW o \in LockOwners, NEW l \in Requests(o)
  PROVE  l \in LockRec /\ l.owner = o /\ l.start <= l.end
<1>1. PICK x \in [type : {F_RDLCK, F_WRLCK, F_UNLCK}, start : Bytes, end : Bytes] :
        x.start <= x.end /\ l = flock_to_lock(convert_fuse_file_lock(x), o)
  BY DEF Requests
<1>2. l = [type |-> x.type, start |-> x.start, owner |-> o, end |-> x.end]
  BY <1>1, RoundTrip
<1> QED BY <1>1, <1>2 DEF LockRec, LockTypes

LEMMA AllRecord ==
  ASSUME NEW o \in LockOwners
  PROVE  flock_to_lock([type |-> F_UNLCK, start |-> 0, len |-> 0], o)
           = [type |-> F_UNLCK, start |-> 0, owner |-> o, end |-> OFFSET_MAX]
BY DEF flock_to_lock

LEMMA LocksInitOk == LocksInit => LocksInv
<1> SUFFICES ASSUME LocksInit PROVE LocksInv
  OBVIOUS
<1>1. locks = << >> /\ setting = [o \in LockOwners |-> Idle] /\ fsLocks = [o \in LockOwners |-> [b \in Bytes |-> F_UNLCK]]
      /\ astray = [o \in LockOwners |-> {}]
  BY DEF LocksInit
<1>2. Listing(locks) /\ Ascending(locks) /\ \A o, b, t : ~Held(locks, o, b, t)
  BY <1>1 DEF Listing, Ascending, Held
<1>3. fsLocks \in [LockOwners -> [Bytes -> LockTypes]]
  BY <1>1 DEF LockTypes
<1>4. \A o \in LockOwners, b \in Bytes : Agreed(locks, fsLocks, setting, astray, o, b)
  BY <1>1, <1>2 DEF Agreed
<1> QED BY <1>1, <1>2, <1>3, <1>4 DEF LocksInv, AskedBy

(* The first step of a request: the file system gives what is asked for. *)
LEMMA GrantOk ==
  ASSUME LocksInv, NEW o \in LockOwners, NEW l \in LockRec, l.owner = o, l.start <= l.end, setting[o] = Idle,
         FsSet(l), setting' = [setting EXCEPT ![o] = <<l, TRUE>>], UNCHANGED <<locks, astray>>
  PROVE  LocksInv'
<1>1. /\ Listing(locks) /\ Ascending(locks) /\ fsLocks \in [LockOwners -> [Bytes -> LockTypes]]
      /\ setting = [p \in LockOwners |-> setting[p]] /\ \A p \in LockOwners : AskedBy(setting[p], p)
      /\ astray \in [LockOwners -> SUBSET Bytes]
      /\ \A p \in LockOwners, b \in Bytes : Agreed(locks, fsLocks, setting, astray, p, b)
  BY DEF LocksInv
<1> DEFINE F == [b \in Bytes |-> IF InRange(l, b) THEN l.type ELSE fsLocks[o][b]]
<1>2. fsLocks' = [fsLocks EXCEPT ![o] = F]
  BY DEF FsSet
<1>3. F \in [Bytes -> LockTypes] /\ \A b \in Bytes : F[b] = IF InRange(l, b) THEN l.type ELSE fsLocks[o][b]
  BY <1>1, LockNumbers
<1> HIDE DEF F
<1>4. fsLocks' \in [LockOwners -> [Bytes -> LockTypes]] /\ \A p \in LockOwners : fsLocks'[p] = IF p = o THEN F ELSE fsLocks[p]
  BY <1>1, <1>2, <1>3
<1>5. \A p \in LockOwners : setting'[p] = IF p = o THEN <<l, TRUE>> ELSE setting[p]
  BY <1>1
<1>6. setting' = [p \in LockOwners |-> setting'[p]] /\ \A p \in LockOwners : AskedBy(setting'[p], p)
  BY <1>1, <1>5 DEF AskedBy
<1>7. ASSUME NEW p \in LockOwners, NEW b \in Bytes
      PROVE  Agreed(locks, fsLocks', setting', astray, p, b)
  <2>1. Agreed(locks, fsLocks, setting, astray, p, b)
    BY <1>1
  <2>2. CASE p # o
    BY <1>4, <1>5, <2>1, <2>2 DEF Agreed
  <2>3. CASE p = o
    <3>1. setting'[o] # Idle /\ setting'[o][1] = l
      BY <1>5 DEF Idle
    <3>2. b \notin astray[o] => \A t : Held(locks, o, b, t) <=> t = fsLocks[o][b] /\ t # F_UNLCK
      BY <2>1, <2>3 DEF Agreed
    <3>3. fsLocks'[o][b] = IF InRange(l, b) THEN l.type ELSE fsLocks[o][b]
      BY <1>3, <1>4
    <3> QED BY <2>3, <3>1, <3>2, <3>3 DEF Agreed
  <2> QED BY <2>2, <2>3
<1>8. locks' = locks /\ astray' = astray
  OBVIOUS
<1>9. \A p \in LockOwners, b \in Bytes : Agreed(locks', fsLocks', setting', astray', p, b)
  BY <1>7, <1>8
<1>10. Listing(locks') /\ Ascending(locks') /\ astray' \in [LockOwners -> SUBSET Bytes]
  BY <1>1, <1>8
<1>11. fsLocks' \in [LockOwners -> [Bytes -> LockTypes]]
  BY <1>4
<1> QED BY <1>6, <1>9, <1>10, <1>11 DEF LocksInv

(* A flush that the file system refuses: nothing is known of the range until the second   *)
(* step.                                                                                  *)
LEMMA RefuseOk ==
  ASSUME LocksInv, NEW o \in LockOwners, NEW l \in LockRec, l.owner = o, l.start <= l.end, setting[o] = Idle,
         UNCHANGED fsLocks, setting' = [setting EXCEPT ![o] = <<l, FALSE>>], UNCHANGED <<locks, astray>>
  PROVE  LocksInv'
<1>1. /\ Listing(locks) /\ Ascending(locks) /\ fsLocks \in [LockOwners -> [Bytes -> LockTypes]]
      /\ setting = [p \in LockOwners |-> setting[p]] /\ \A p \in LockOwners : AskedBy(setting[p], p)
      /\ astray \in [LockOwners -> SUBSET Bytes]
      /\ \A p \in LockOwners, b \in Bytes : Agreed(locks, fsLocks, setting, astray, p, b)
  BY DEF LocksInv
<1>2. \A p \in LockOwners : setting'[p] = IF p = o THEN <<l, FALSE>> ELSE setting[p]
  BY <1>1
<1>3. setting' = [p \in LockOwners |-> setting'[p]] /\ \A p \in LockOwners : AskedBy(setting'[p], p)
  BY <1>1, <1>2 DEF AskedBy
<1>4. ASSUME NEW p \in LockOwners, NEW b \in Bytes
      PROVE  Agreed(locks, fsLocks, setting', astray, p, b)
  <2>1. Agreed(locks, fsLocks, setting, astray, p, b)
    BY <1>1
  <2>2. setting'[o] # Idle /\ setting'[o][1] = l /\ setting'[o][2] = FALSE
    BY <1>2 DEF Idle
  <2>3. CASE p # o
    BY <1>2, <2>1, <2>3 DEF Agreed
  <2>4. CASE p = o
    BY <2>1, <2>2, <2>4 DEF Agreed
  <2> QED BY <2>3, <2>4
<1>5. locks' = locks /\ astray' = astray /\ fsLocks' = fsLocks
  OBVIOUS
<1>6. \A p \in LockOwners, b \in Bytes : Agreed(locks', fsLocks', setting', astray', p, b)
  BY <1>4, <1>5
<1>7. /\ Listing(locks') /\ Ascending(locks') /\ astray' \in [LockOwners -> SUBSET Bytes]
      /\ fsLocks' \in [LockOwners -> [Bytes -> LockTypes]]
  BY <1>1, <1>5
<1> QED BY <1>3, <1>6, <1>7 DEF LocksInv

(* The second step: the list is told, or there is no memory for it. *)
LEMMA ToldOk ==
  ASSUME LocksInv, NEW o \in LockOwners, SetLocal(o)
  PROVE  LocksInv'
<1>1. /\ Listing(locks) /\ Ascending(locks) /\ fsLocks \in [LockOwners -> [Bytes -> LockTypes]]
      /\ setting = [p \in LockOwners |-> setting[p]] /\ \A p \in LockOwners : AskedBy(setting[p], p)
      /\ astray \in [LockOwners -> SUBSET Bytes]
      /\ \A p \in LockOwners, b \in Bytes : Agreed(locks, fsLocks, setting, astray, p, b)
  BY DEF LocksInv
<1>2. PICK l \in LockRec, g \in BOOLEAN : setting[o] = <<l, g>> /\ l.owner = o /\ l.start <= l.end
  BY <1>1 DEF SetLocal, AskedBy
<1>3. setting[o] # Idle /\ setting[o][1] = l /\ setting[o][2] = g
  BY <1>2 DEF Idle
<1>4. /\ setting' = [setting EXCEPT ![o] = Idle] /\ fsLocks' = fsLocks
      /\ \/ locks' = locks_insert(locks, l) /\ astray' = [astray EXCEPT ![o] = IF g THEN @ \ BytesOf(l) ELSE @ \union BytesOf(l)]
         \/ locks' = locks /\ astray' = [astray EXCEPT ![o] = @ \union BytesOf(l)]
  <2>1. setting' = [setting EXCEPT ![o] = Idle] /\ fsLocks' = fsLocks
    BY DEF SetLocal
  <2>2. \/ /\ locks' = locks_insert(locks, setting[o][1])
           /\ astray' = [astray EXCEPT ![o] = IF setting[o][2] THEN @ \ BytesOf(setting[o][1])
                                             ELSE @ \union BytesOf(setting[o][1])]
        \/ locks' = locks /\ astray' = [astray EXCEPT ![o] = @ \union BytesOf(setting[o][1])]
    BY DEF SetLocal
  <2> QED BY <1>3, <2>1, <2>2
<1>5. \A p \in LockOwners : setting'[p] = IF p = o THEN Idle ELSE setting[p]
  BY <1>1, <1>4
<1>6. setting' = [p \in LockOwners |-> setting'[p]] /\ \A p \in LockOwners : AskedBy(setting'[p], p)
  BY <1>1, <1>4, <1>5 DEF AskedBy
<1>7. CASE locks' = locks_insert(locks, l) /\ astray' = [astray EXCEPT ![o] = IF g THEN @ \ BytesOf(l) ELSE @ \union BytesOf(l)]
  <2>1. Updated(locks', locks, l)
    BY <1>1, <1>2, <1>7, InsertOk
  <2>2. Listing(locks') /\ Ascending(locks')
    BY <2>1 DEF Updated
  <2>3. /\ astray' \in [LockOwners -> SUBSET Bytes]
        /\ \A p \in LockOwners : p # o => astray'[p] = astray[p]
        /\ astray'[o] = IF g THEN astray[o] \ BytesOf(l) ELSE astray[o] \union BytesOf(l)
    BY <1>1, <1>7 DEF BytesOf
  <2>4. ASSUME NEW p \in LockOwners, NEW b \in Bytes
        PROVE  Agreed(locks', fsLocks, setting', astray', p, b)
    <3>1. Agreed(locks, fsLocks, setting, astray, p, b)
      BY <1>1
    <3>2. \A t : Held(locks', p, b, t) <=> HeldAfter(locks, l, p, b, t)
      BY <2>1 DEF Updated
    <3>3. CASE p # o
      <4>1. \A t : Held(locks', p, b, t) <=> Held(locks, p, b, t)
        BY <1>2, <3>2, <3>3 DEF HeldAfter
      <4> QED BY <1>5, <2>3, <3>1, <3>3, <4>1 DEF Agreed
    <3>4. CASE p = o /\ InRange(l, b) /\ g
      <4>1. fsLocks[o][b] = l.type
        BY <1>3, <3>1, <3>4 DEF Agreed
      <4>2. \A t : Held(locks', o, b, t) <=> t = l.type /\ t # F_UNLCK
        BY <1>2, <3>2, <3>4 DEF HeldAfter
      <4> QED BY <1>5, <3>4, <4>1, <4>2 DEF Agreed
    <3>5. CASE p = o /\ InRange(l, b) /\ ~g
      <4>1. b \in astray'[o]
        BY <2>3, <3>5 DEF BytesOf
      <4> QED BY <1>5, <3>5, <4>1 DEF Agreed
    <3>6. CASE p = o /\ ~InRange(l, b)
      <4>1. b \notin astray[o] => \A t : Held(locks, o, b, t) <=> t = fsLocks[o][b] /\ t # F_UNLCK
        BY <1>3, <3>1, <3>6 DEF Agreed
      <4>2. \A t : Held(locks', o, b, t) <=> Held(locks, o, b, t)
        BY <3>2, <3>6 DEF HeldAfter
      <4>3. b \in astray'[o] <=> b \in astray[o]
        BY <2>3, <3>6 DEF BytesOf
      <4> QED BY <1>5, <3>6, <4>1, <4>2, <4>3 DEF Agreed
    <3> QED BY <3>3, <3>4, <3>5, <3>6
  <2> QED BY <1>1, <1>4, <1>6, <2>2, <2>3, <2>4 DEF LocksInv
<1>8. CASE locks' = locks /\ astray' = [astray EXCEPT ![o] = @ \union BytesOf(l)]
  <2>1. /\ astray' \in [LockOwners -> SUBSET Bytes]
        /\ \A p \in LockOwners : p # o => astray'[p] = astray[p]
        /\ astray'[o] = astray[o] \union BytesOf(l)
    BY <1>1, <1>8 DEF BytesOf
  <2>2. ASSUME NEW p \in LockOwners, NEW b \in Bytes
        PROVE  Agreed(locks, fsLocks, setting', astray', p, b)
    <3>1. Agreed(locks, fsLocks, setting, astray, p, b)
      BY <1>1
    <3>2. CASE p # o
      BY <1>5, <2>1, <3>1, <3>2 DEF Agreed
    <3>3. CASE p = o /\ InRange(l, b)
      <4>1. b \in astray'[o]
        BY <2>1, <3>3 DEF BytesOf
      <4> QED BY <1>5, <3>3, <4>1 DEF Agreed
    <3>4. CASE p = o /\ ~InRange(l, b)
      <4>1. b \notin astray[o] => \A t : Held(locks, o, b, t) <=> t = fsLocks[o][b] /\ t # F_UNLCK
        BY <1>3, <3>1, <3>4 DEF Agreed
      <4>2. b \in astray'[o] <=> b \in astray[o]
        BY <2>1, <3>4 DEF BytesOf
      <4> QED BY <1>5, <3>4, <4>1, <4>2 DEF Agreed
    <3> QED BY <3>2, <3>3, <3>4
  <2> QED BY <1>1, <1>4, <1>6, <1>8, <2>1, <2>2 DEF LocksInv
<1> QED BY <1>4, <1>7, <1>8

LEMMA LocksStep == LocksInv /\ [LocksNext]_lockVars => LocksInv'
<1> SUFFICES ASSUME LocksInv, [LocksNext]_lockVars PROVE LocksInv'
  OBVIOUS
<1>1. CASE UNCHANGED lockVars
  BY <1>1 DEF lockVars, LocksInv, Agreed
<1>2. ASSUME NEW o \in LockOwners, fuse_lib_setlk(o) PROVE LocksInv'
  <2>1. PICK l \in Requests(o) : FsSet(l) /\ setting' = [setting EXCEPT ![o] = <<l, TRUE>>]
    BY <1>2 DEF fuse_lib_setlk
  <2>2. setting[o] = Idle /\ UNCHANGED <<locks, astray>>
    BY <1>2 DEF fuse_lib_setlk
  <2> QED BY <2>1, <2>2, RequestOk, GrantOk
<1>3. ASSUME NEW o \in LockOwners, fuse_flush_common(o) PROVE LocksInv'
  <2> DEFINE l == flock_to_lock([type |-> F_UNLCK, start |-> 0, len |-> 0], o)
  <2>1. l = [type |-> F_UNLCK, start |-> 0, owner |-> o, end |-> OFFSET_MAX]
    BY AllRecord
  <2>2. /\ setting[o] = Idle /\ UNCHANGED <<locks, astray>>
        /\ \/ FsSet(l) /\ setting' = [setting EXCEPT ![o] = <<l, TRUE>>]
           \/ UNCHANGED fsLocks /\ setting' = [setting EXCEPT ![o] = <<l, FALSE>>]
    BY <1>3 DEF fuse_flush_common
  <2> HIDE DEF l
  <2>3. l \in LockRec /\ l.owner = o /\ l.start <= l.end
    BY <2>1, OffsetAssumption DEF LockRec, LockTypes, Bytes
  <2> QED BY <2>2, <2>3, GrantOk, RefuseOk
<1>4. CASE LocksNext
  BY <1>2, <1>3, <1>4, ToldOk DEF LocksNext
<1> QED BY <1>1, <1>4

-----------------------------------------------------------------------------
(* The three parts of LocksAgree *)

LEMMA InvAgrees == LocksInv => ListAgrees /\ ListCanonical
<1> SUFFICES ASSUME LocksInv PROVE ListAgrees /\ ListCanonical
  OBVIOUS
<1>1. /\ locks \in Seq(LockRec) /\ Ascending(locks)
      /\ \A o \in LockOwners, b \in Bytes : Agreed(locks, fsLocks, setting, astray, o, b)
  BY DEF LocksInv, Listing
<1>2. DOMAIN locks = 1 .. Len(locks)
  BY <1>1
<1>3. ListCanonical
  BY <1>1, <1>2 DEF ListCanonical, Ascending
<1>4. ASSUME NEW o \in LockOwners, setting[o] = Idle, NEW b \in Bytes \ astray[o]
      PROVE  LET at == {i \in DOMAIN locks : locks[i].owner = o /\ InRange(locks[i], b)}
             IN IF at = {} THEN fsLocks[o][b] = F_UNLCK ELSE \A i \in at : fsLocks[o][b] = locks[i].type
  <2> DEFINE at == {i \in DOMAIN locks : locks[i].owner = o /\ InRange(locks[i], b)}
  <2>1. \A t : Held(locks, o, b, t) <=> t = fsLocks[o][b] /\ t # F_UNLCK
    BY <1>1, <1>4 DEF Agreed
  <2>2. CASE at = {}
    <3>1. \A t : ~Held(locks, o, b, t)
      BY <1>2, <1>4, <2>2 DEF Held
    <3> QED BY <2>1, <2>2, <3>1
  <2>3. ASSUME NEW i \in at PROVE fsLocks[o][b] = locks[i].type
    <3>1. Held(locks, o, b, locks[i].type)
      BY <1>2, <1>4 DEF Held
    <3> QED BY <2>1, <3>1
  <2> QED BY <2>2, <2>3
<1>5. ListAgrees
  BY <1>4 DEF ListAgrees
<1> QED BY <1>3, <1>5

(* The locks in the list that a request runs into. *)
InTheWay(l) == {i \in DOMAIN locks : /\ locks[i].owner # l.owner
                                     /\ l.start <= locks[i].end /\ locks[i].start <= l.end
                                     /\ F_WRLCK \in {locks[i].type, l.type}}

LEMMA ConflictSeen ==
  ASSUME LocksInv, \A o \in LockOwners : setting[o] = Idle, NEW l \in LockRec, l.start <= l.end,
         \A p \in LockOwners \ {l.owner} : BytesOf(l) \intersect astray[p] = {}
  PROVE  InTheWay(l) # {} <=> FsConflict(l)
<1>1. /\ locks \in Seq(LockRec) /\ \A i \in 1 .. Len(locks) : locks[i].start <= locks[i].end /\ locks[i].type # F_UNLCK
      /\ \A o \in LockOwners \ {l.owner}, b \in Bytes :
           InRange(l, b) => \A t : Held(locks, o, b, t) <=> t = fsLocks[o][b] /\ t # F_UNLCK
  BY DEF LocksInv, Listing, Agreed, BytesOf
<1>2. DOMAIN locks = 1 .. Len(locks) /\ \A i \in 1 .. Len(locks) : locks[i] \in LockRec
  BY <1>1
<1>3. l.start \in Bytes /\ l.end \in Bytes /\ l.start \in Int /\ l.end \in Int
  BY LockNumbers
<1>4. ASSUME NEW i \in InTheWay(l) PROVE FsConflict(l)
  <2>1. i \in 1 .. Len(locks) /\ locks[i] \in LockRec /\ locks[i].start <= locks[i].end /\ locks[i].type # F_UNLCK
    BY <1>1, <1>2 DEF InTheWay
  <2>2. locks[i].owner # l.owner /\ l.start <= locks[i].end /\ locks[i].start <= l.end
    BY DEF InTheWay
  <2>3. F_WRLCK \in {l.type, locks[i].type}
    BY DEF InTheWay
  <2>4. locks[i].start \in Bytes /\ locks[i].start \in Int /\ locks[i].end \in Int /\ locks[i].owner \in LockOwners
    BY <2>1, LockNumbers DEF LockRec
  <2>5. PICK b \in Bytes : InRange(l, b) /\ InRange(locks[i], b)
    <3>1. CASE l.start <= locks[i].start
      BY <1>3, <2>1, <2>2, <2>4, <3>1 DEF InRange
    <3>2. CASE locks[i].start < l.start
      BY <1>3, <2>1, <2>2, <2>4, <3>2 DEF InRange
    <3> QED BY <1>3, <2>4, <3>1, <3>2
  <2>6. Held(locks, locks[i].owner, b, locks[i].type)
    BY <2>1, <2>5 DEF Held
  <2>7. fsLocks[locks[i].owner][b] = locks[i].type
    BY <1>1, <2>2, <2>4, <2>5, <2>6
  <2> QED BY <2>1, <2>2, <2>3, <2>4, <2>5, <2>7 DEF FsConflict
<1>5. ASSUME FsConflict(l) PROVE InTheWay(l) # {}
  <2>1. PICK o \in LockOwners \ {l.owner}, b \in Bytes :
          InRange(l, b) /\ fsLocks[o][b] # F_UNLCK /\ F_WRLCK \in {l.type, fsLocks[o][b]}
    BY <1>5 DEF FsConflict
  <2>2. Held(locks, o, b, fsLocks[o][b])
    BY <1>1, <2>1
  <2>3. PICK i \in 1 .. Len(locks) : locks[i].owner = o /\ InRange(locks[i], b) /\ locks[i].type = fsLocks[o][b]
    BY <2>2 DEF Held
  <2>4. locks[i].start \in Int /\ locks[i].end \in Int /\ b \in Int
    BY <1>2, LockNumbers DEF Bytes
  <2>5. l.start <= b /\ b <= l.end /\ locks[i].start <= b /\ b <= locks[i].end
    BY <2>1, <2>3 DEF InRange
  <2>6. l.start <= locks[i].end /\ locks[i].start <= l.end
    BY <1>3, <2>4, <2>5
  <2>7. i \in InTheWay(l)
    BY <1>2, <2>1, <2>3, <2>6 DEF InTheWay
  <2> QED BY <2>7
<1> QED BY <1>4, <1>5

LEMMA InvGetlk == LocksInv => GetlkExact
<1> SUFFICES ASSUME LocksInv, \A o \in LockOwners : setting[o] = Idle,
                    NEW o \in LockOwners, NEW l \in Requests(o), l.type # F_UNLCK,
                    \A p \in LockOwners \ {o} : BytesOf(l) \intersect astray[p] = {}, NEW r, r = fuse_lib_getlk(l)
             PROVE  /\ (r # << >>) <=> FsConflict(l)
                    /\ r # << >> => LET w == flock_to_lock(r[1], o)
                                    IN w.start <= l.end /\ l.start <= w.end /\ F_WRLCK \in {w.type, l.type}
  BY DEF GetlkExact
<1>1. l \in LockRec /\ l.owner = o /\ l.start <= l.end
  BY RequestOk
<1>2. InTheWay(l) # {} <=> FsConflict(l)
  BY <1>1, ConflictSeen
<1>3. locks \in Seq(LockRec) /\ DOMAIN locks = 1 .. Len(locks) /\ Len(locks) \in Nat
      /\ \A i \in 1 .. Len(locks) : locks[i] \in LockRec /\ locks[i].start <= locks[i].end
  BY DEF LocksInv, Listing
<1> DEFINE T == InTheWay(l)
           c == locks_conflict(locks, l)
           m == CHOOSE i \in T : \A j \in T : i <= j
<1>4. c = IF T = {} THEN << >> ELSE <<locks[m]>>
  BY DEF locks_conflict, InTheWay
<1>5. r = IF c = << >> THEN << >> ELSE <<lock_to_flock(c[1])>>
  BY DEF fuse_lib_getlk
<1>6. T \in SUBSET Nat
  BY <1>3 DEF InTheWay
<1>7. CASE T = {}
  <2>1. r = << >>
    BY <1>4, <1>5, <1>7
  <2> QED BY <1>2, <1>7, <2>1
<1>8. CASE T # {}
  <2>1. \E i \in T : \A j \in T : i <= j
    <3> HIDE DEF T
    <3> QED BY <1>6, <1>8, SmallestOf
  <2>2. m \in T
    BY <2>1
  <2> HIDE DEF m
  <2>3. c = <<locks[m]>> /\ c # << >> /\ c[1] = locks[m]
    BY <1>4, <1>8
  <2> HIDE DEF c
  <2>4. r = <<lock_to_flock(locks[m])>> /\ r # << >> /\ r[1] = lock_to_flock(locks[m])
    BY <1>5, <2>3
  <2>5. m \in 1 .. Len(locks) /\ l.start <= locks[m].end /\ locks[m].start <= l.end /\ F_WRLCK \in {locks[m].type, l.type}
    BY <1>3, <2>2 DEF InTheWay
  <2>6. locks[m] \in LockRec /\ locks[m].start <= locks[m].end
    BY <1>3, <2>5
  <2> DEFINE w == flock_to_lock(r[1], o)
  <2>7. w = [type |-> locks[m].type, start |-> locks[m].start, owner |-> o, end |-> locks[m].end]
    <3> DEFINE x == locks[m]
    <3>1. x.start \in Bytes /\ x.end \in Bytes /\ x.start <= x.end
      BY <2>6, LockNumbers
    <3> HIDE DEF x
    <3>2. flock_to_lock(lock_to_flock(x), o) = [type |-> x.type, start |-> x.start, owner |-> o, end |-> x.end]
      BY <3>1, RoundTrip
    <3> QED BY <2>4, <3>2 DEF x
  <2> HIDE DEF w
  <2>8. w.type = locks[m].type /\ w.start = locks[m].start /\ w.end = locks[m].end
    BY <2>7
  <2>9. w.start <= l.end /\ l.start <= w.end /\ F_WRLCK \in {w.type, l.type}
    BY <2>5, <2>8
  <2> QED BY <1>2, <1>8, <2>4, <2>9 DEF w
<1> QED BY <1>7, <1>8

(* Whatever locks the owners set, replace, split and drop, in whatever order the second  *)
(* steps come: the list that the library keeps of a node is in order and merged and,     *)
(* but for the bytes where locks_insert had no memory or the file system refused a flush *)
(* and no later request went through, says what the file system has granted to each      *)
(* owner without a request under way and answers F_GETLK as the file system would.       *)
THEOREM LocksTrue == LocksSpec => []LocksAgree
<1>1. LocksInv => LocksAgree
  BY InvAgrees, InvGetlk DEF LocksAgree
<1> QED BY <1>1, LocksInitOk, LocksStep, PTL DEF LocksSpec

-----------------------------------------------------------------------------
(* The table of nodes: arithmetic of the hash *)

(* Quotient and remainder. *)
LEMMA Divided ==
  ASSUME NEW H \in Nat, NEW m \in Nat \ {0}
  PROVE  H \div m \in Nat /\ H % m \in 0..(m - 1) /\ H = m * (H \div m) + (H % m)
<1>1. H = m * (H \div m) + (H % m)
  OBVIOUS
<1>2. H \div m \in Nat
  OBVIOUS
<1>3. H % m \in 0..(m - 1)
  OBVIOUS
<1> QED
  BY <1>1, <1>2, <1>3

(* Halving a modulus: a remainder to twice as many is the remainder or lies one half above. *)
LEMMA ModHalf ==
  ASSUME NEW H \in Nat, NEW h \in Nat \ {0}
  PROVE  /\ H % h \in 0..(h - 1)
         /\ H % (2 * h) \in {H % h, (H % h) + h}
         /\ (H % (2 * h)) % h = H % h
<1> DEFINE n == 2 * h
           q == H \div n
           r == H % n
<1>1. n \in Nat \ {0} /\ q \in Nat /\ r \in 0..(n - 1) /\ H = n * q + r
  <2>1. n \in Nat \ {0}
    OBVIOUS
  <2> HIDE DEF n
  <2> QED
    BY <2>1, Divided
<1>2. ASSUME NEW k \in Int, NEW x \in Nat, x < h PROVE (h * k + x) % h = x
  BY <1>2
<1>3. CASE r < h
  <2>1. H = h * (2 * q) + r
    BY <1>1
  <2>2. H % h = r /\ r % h = r
    <3> HIDE DEF r, q, n
    <3>1. 2 * q \in Int /\ r \in Nat
      BY <1>1
    <3>2. (h * (2 * q) + r) % h = r
      BY <1>2, <1>3, <3>1
    <3>3. (h * 0 + r) % h = r /\ h * 0 + r = r
      BY <1>2, <1>3, <3>1
    <3> QED
      BY <2>1, <3>2, <3>3
  <2> QED
    BY <2>2, <1>1, <1>3
<1>4. CASE ~(r < h)
  <2>1. H = h * (2 * q + 1) + (r - h) /\ r = h * 1 + (r - h)
    BY <1>1
  <2>2. H % h = r - h /\ r % h = r - h
    <3> DEFINE k == 2 * q + 1
               x == r - h
    <3>1. k \in Int /\ x \in Nat /\ x < h
      BY <1>1, <1>4
    <3>2. H = h * k + x /\ r = h * 1 + x
      BY <2>1
    <3> HIDE DEF r, q, n, k, x
    <3>3. (h * k + x) % h = x /\ (h * 1 + x) % h = x
      BY <1>2, <3>1
    <3>4. H % h = x /\ r % h = x
      BY <3>2, <3>3
    <3> QED
      BY <3>4 DEF x
  <2>3. r = (H % h) + h /\ H % h \in 0..(h - 1)
    BY <2>2, <1>1, <1>4
  <2> QED
    BY <2>2, <2>3
<1> QED
  BY <1>3, <1>4

-----------------------------------------------------------------------------
(* The sizes that a table comes to by doubling and halving. *)
Sizes == {n \in Nat : \A S \in SUBSET Nat :
            NODE_TABLE_MIN_SIZE \in S /\ (\A m \in S : 2 * m \in S) => n \in S}

LEMMA MinSize == NODE_TABLE_MIN_SIZE \in Nat /\ NODE_TABLE_MIN_SIZE >= 2
                 /\ \E k \in Nat \ {0} : NODE_TABLE_MIN_SIZE = 2 * k
<1>1. PICK k \in 1..NODE_TABLE_MIN_SIZE : NODE_TABLE_MIN_SIZE = 2 * k
  BY TableAssumption
<1>2. k \in Nat /\ k >= 1
  OBVIOUS
<1> QED
  BY <1>1, <1>2

LEMMA FirstSize == NODE_TABLE_MIN_SIZE \in Sizes
  BY MinSize DEF Sizes

LEMMA NextSize == ASSUME NEW n \in Sizes PROVE 2 * n \in Sizes
<1>1. n \in Nat /\ 2 * n \in Nat
  BY DEF Sizes
<1>2. ASSUME NEW S \in SUBSET Nat, NODE_TABLE_MIN_SIZE \in S, \A m \in S : 2 * m \in S PROVE 2 * n \in S
  <2>1. n \in S
    BY <1>2 DEF Sizes
  <2> QED
    BY <1>2, <2>1
<1> QED
  BY <1>1, <1>2 DEF Sizes

LEMMA SizeHalves ==
  ASSUME NEW n \in Sizes
  PROVE  /\ n \in Nat /\ n >= NODE_TABLE_MIN_SIZE
         /\ n \div 2 \in Nat \ {0} /\ n = 2 * (n \div 2)
<1> DEFINE S == {m \in Nat : m >= NODE_TABLE_MIN_SIZE /\ \E k \in Nat \ {0} : m = 2 * k}
<1>1. NODE_TABLE_MIN_SIZE \in S
  BY MinSize
<1>2. ASSUME NEW m \in S PROVE 2 * m \in S
  <2>1. 2 * m \in Nat /\ m \in Nat \ {0} /\ 2 * m >= NODE_TABLE_MIN_SIZE
    BY MinSize
  <2> QED
    BY <2>1
<1>3. n \in S
  <2>1. S \in SUBSET Nat /\ (\A m \in S : 2 * m \in S)
    BY <1>2
  <2> HIDE DEF S
  <2> QED
    BY <1>1, <2>1 DEF Sizes
<1>4. PICK k \in Nat \ {0} : n = 2 * k
  BY <1>3
<1>5. n \div 2 = k
  BY <1>4
<1> QED
  BY <1>3, <1>4, <1>5

LEMMA SizeBefore == ASSUME NEW n \in Nat, n >= NODE_TABLE_MIN_SIZE, 2 * n \in Sizes PROVE n \in Sizes
<1> SUFFICES ASSUME n \notin Sizes PROVE FALSE
  OBVIOUS
<1> DEFINE S == Sizes \ {2 * n}
<1>1. S \in SUBSET Nat
  BY DEF Sizes
<1>2. NODE_TABLE_MIN_SIZE \in S
  <2>1. NODE_TABLE_MIN_SIZE # 2 * n
    BY MinSize
  <2> QED
    BY FirstSize, <2>1
<1>3. ASSUME NEW m \in S PROVE 2 * m \in S
  <2>1. m \in Sizes /\ m # n /\ m \in Nat
    BY DEF Sizes
  <2>2. 2 * m \in Sizes
    BY <2>1, NextSize
  <2>3. 2 * m # 2 * n
    BY <2>1
  <2> QED
    BY <2>2, <2>3
<1>4. 2 * n \in S
  <2> HIDE DEF S
  <2> QED
    BY <1>1, <1>2, <1>3 DEF Sizes
<1> QED
  BY <1>4

-----------------------------------------------------------------------------
(* The bucket of an id in a table of a size, split so far. *)
LowBucket(size, i) == HashOf[i] % (size \div 2)
HighBucket(size, i) == HashOf[i] % size
BucketOf(size, split, i) == IF LowBucket(size, i) >= split THEN LowBucket(size, i) ELSE HighBucket(size, i)
AllIds == 0..(IdSpace - 1)

LEMMA Buckets ==
  ASSUME NEW size \in Sizes, NEW i \in AllIds
  PROVE  /\ LowBucket(size, i) \in 0..(size \div 2 - 1)
         /\ HighBucket(size, i) \in {LowBucket(size, i), LowBucket(size, i) + size \div 2}
         /\ HighBucket(size, i) \in 0..(size - 1)
         /\ HighBucket(size, i) % (size \div 2) = LowBucket(size, i)
<1> DEFINE h == size \div 2
           H == HashOf[i]
<1>1. h \in Nat \ {0} /\ size = 2 * h /\ H \in Nat
  BY SizeHalves, TableAssumption DEF AllIds
<1> HIDE DEF h, H
<1>2. H % h \in 0..(h - 1) /\ H % (2 * h) \in {H % h, (H % h) + h} /\ (H % (2 * h)) % h = H % h
  BY <1>1, ModHalf
<1>3. H % size \in 0..(size - 1)
  BY <1>1, <1>2
<1> QED
  BY <1>1, <1>2, <1>3 DEF h, H, LowBucket, HighBucket

LEMMA BucketIn ==
  ASSUME NEW size \in Sizes, NEW i \in AllIds, NEW split \in 0..(size \div 2)
  PROVE  /\ BucketOf(size, split, i) \in 0..(size - 1)
         /\ BucketOf(size, split, i) < split + size \div 2
  BY Buckets, SizeHalves DEF BucketOf

(* Doubling a table that is split throughout moves nothing. *)
LEMMA BucketDoubled ==
  ASSUME NEW size \in Sizes, NEW i \in AllIds
  PROVE  BucketOf(2 * size, 0, i) = BucketOf(size, size \div 2, i)
<1>1. (2 * size) \div 2 = size
  BY SizeHalves
<1>2. LowBucket(2 * size, i) = HighBucket(size, i)
  BY <1>1 DEF LowBucket, HighBucket
<1>3. HighBucket(size, i) >= 0 /\ ~(LowBucket(size, i) >= size \div 2)
  BY Buckets, SizeHalves
<1> QED
  BY <1>2, <1>3 DEF BucketOf

(* Moving the split point matters only for what hashes to the buckets it passes. *)
LEMMA BucketKept ==
  ASSUME NEW size \in Sizes, NEW i \in AllIds, NEW a \in Nat, NEW b \in Nat,
         LowBucket(size, i) >= a <=> LowBucket(size, i) >= b
  PROVE  BucketOf(size, a, i) = BucketOf(size, b, i)
  BY DEF BucketOf

-----------------------------------------------------------------------------
(* A table of a size, split so far, that holds the ids in I. *)
Tbl(size, split, use, array) == [size |-> size, split |-> split, use |-> use, array |-> array]
Contents(size, split, I) == [b \in 0..(size - 1) |-> {i \in I : BucketOf(size, split, i) = b}]
TableAs(size, split, I) == Tbl(size, split, Cardinality(I), Contents(size, split, I))
TableOk(t, I) == \E size \in Sizes : \E split \in 0..(size \div 2) : t = TableAs(size, split, I)

LEMMA IdHash ==
  ASSUME NEW size \in Sizes, NEW split, NEW use, NEW array, NEW i \in AllIds
  PROVE  id_hash(Tbl(size, split, use, array), i) = BucketOf(size, split, i)
  BY Buckets DEF id_hash, Tbl, BucketOf, HighBucket, LowBucket

(* The operations on a table whose fields are known. *)
LEMMA ResizeFails == ASSUME NEW t PROVE node_table_resize(t, FALSE) = t
  BY DEF node_table_resize

LEMMA ReduceTbl ==
  ASSUME NEW a, NEW b, NEW c, NEW d, ~(a \div 2 < NODE_TABLE_MIN_SIZE)
  PROVE  node_table_reduce(Tbl(a, b, c, d))
           = Tbl(a \div 2, (a \div 2) \div 2, c, [x \in 0..(a \div 2 - 1) |-> d[x]])
  BY DEF node_table_reduce, Tbl

LEMMA ContentsDoubled ==
  ASSUME NEW size \in Sizes, NEW I \in SUBSET AllIds
  PROVE  Contents(2 * size, 0, I)
           = [x \in 0..(2 * size - 1) |-> IF x < size THEN Contents(size, size \div 2, I)[x] ELSE {}]
<1> DEFINE C == Contents(size, size \div 2, I)
<1>1. size \in Nat /\ size \div 2 \in 0..(size \div 2)
  BY SizeHalves
<1>2. ASSUME NEW x \in 0..(2 * size - 1)
      PROVE  {i \in I : BucketOf(2 * size, 0, i) = x} = IF x < size THEN C[x] ELSE {}
  <2>1. \A i \in I : BucketOf(2 * size, 0, i) = BucketOf(size, size \div 2, i)
    BY BucketDoubled
  <2>2. CASE x < size
    <3>1. C[x] = {i \in I : BucketOf(size, size \div 2, i) = x}
      BY <1>1, <2>2 DEF Contents
    <3> QED
      BY <2>1, <2>2, <3>1
  <2>3. CASE ~(x < size)
    <3>1. \A i \in I : BucketOf(size, size \div 2, i) \in 0..(size - 1)
      BY <1>1, BucketIn
    <3>2. \A i \in I : BucketOf(2 * size, 0, i) # x
      BY <1>1, <2>1, <2>3, <3>1
    <3> QED
      BY <2>3, <3>2
  <2> QED
    BY <2>2, <2>3
<1> QED
  BY <1>2 DEF Contents

LEMMA ContentsHalved ==
  ASSUME NEW size \in Sizes, size \div 2 \in Sizes, NEW I \in SUBSET AllIds
  PROVE  Contents(size \div 2, (size \div 2) \div 2, I)
           = [x \in 0..(size \div 2 - 1) |-> Contents(size, 0, I)[x]]
<1> DEFINE n == size \div 2
<1>1. n \in Sizes /\ n \in Nat /\ size = 2 * n
  BY SizeHalves
<1> HIDE DEF n
<1>2. Contents(2 * n, 0, I) = [x \in 0..(2 * n - 1) |-> IF x < n THEN Contents(n, n \div 2, I)[x] ELSE {}]
  BY <1>1, ContentsDoubled
<1>3. \A x \in 0..(n - 1) : Contents(2 * n, 0, I)[x] = Contents(n, n \div 2, I)[x]
  BY <1>1, <1>2
<1>4. Contents(n, n \div 2, I) = [x \in 0..(n - 1) |-> Contents(n, n \div 2, I)[x]]
  BY DEF Contents
<1>5. Contents(n, n \div 2, I) = [x \in 0..(n - 1) |-> Contents(2 * n, 0, I)[x]]
  BY <1>3, <1>4
<1> QED
  BY <1>1, <1>5 DEF n

(* Growing and shrinking keep what the table holds. *)
LEMMA ResizeOk ==
  ASSUME NEW size \in Sizes, NEW I \in SUBSET AllIds, NEW ok \in BOOLEAN
  PROVE  TableOk(node_table_resize(TableAs(size, size \div 2, I), ok), I)
<1>1. CASE ok
  <2> DEFINE C == Contents(size, size \div 2, I)
             D == Contents(2 * size, 0, I)
  <2>1. node_table_resize(Tbl(size, size \div 2, Cardinality(I), C), TRUE)
           = Tbl(2 * size, 0, Cardinality(I), [x \in 0..(2 * size - 1) |-> IF x < size THEN C[x] ELSE {}])
    <3> DEFINE h == size \div 2
               c == Cardinality(I)
    <3> HIDE DEF C, h, c
    <3>1. node_table_resize(Tbl(size, h, c, C), TRUE)
             = Tbl(2 * size, 0, c, [x \in 0..(2 * size - 1) |-> IF x < size THEN C[x] ELSE {}])
      BY DEF node_table_resize, Tbl
    <3> QED
      BY <3>1 DEF h, c
  <2>2. D = [x \in 0..(2 * size - 1) |-> IF x < size THEN C[x] ELSE {}]
    BY ContentsDoubled
  <2>3. node_table_resize(TableAs(size, size \div 2, I), TRUE) = TableAs(2 * size, 0, I)
    <3> HIDE DEF C, D
    <3>1. node_table_resize(Tbl(size, size \div 2, Cardinality(I), C), TRUE) = Tbl(2 * size, 0, Cardinality(I), D)
      BY <2>1, <2>2, Zenon
    <3> QED
      BY <3>1 DEF C, D, TableAs
  <2>4. 2 * size \in Sizes /\ 0 \in 0..((2 * size) \div 2)
    <3>1. 2 * size \in Sizes
      BY NextSize
    <3>2. (2 * size) \div 2 \in Nat
      BY <3>1, SizeHalves
    <3> QED
      BY <3>1, <3>2
  <2>5. node_table_resize(TableAs(size, size \div 2, I), ok) = TableAs(2 * size, 0, I)
    BY <1>1, <2>3
  <2> QED
    BY <2>4, <2>5, Zenon DEF TableOk
<1>2. CASE ~ok
  <2>1. node_table_resize(TableAs(size, size \div 2, I), ok) = TableAs(size, size \div 2, I)
    BY <1>2, ResizeFails, Zenon
  <2>2. size \div 2 \in 0..(size \div 2)
    BY SizeHalves
  <2> QED
    BY <2>1, <2>2, Zenon DEF TableOk
<1> QED
  BY <1>1, <1>2

LEMMA ReduceOk ==
  ASSUME NEW size \in Sizes, NEW I \in SUBSET AllIds
  PROVE  TableOk(node_table_reduce(TableAs(size, 0, I)), I)
<1>1. CASE size \div 2 < NODE_TABLE_MIN_SIZE
  <2>1. TableAs(size, 0, I).size = size
    BY DEF TableAs, Tbl
  <2>2. node_table_reduce(TableAs(size, 0, I)) = TableAs(size, 0, I)
    BY <1>1, <2>1 DEF node_table_reduce
  <2>3. 0 \in 0..(size \div 2)
    BY SizeHalves
  <2> QED
    BY <2>2, <2>3, Zenon DEF TableOk
<1>2. CASE ~(size \div 2 < NODE_TABLE_MIN_SIZE)
  <2> DEFINE n == size \div 2
             C == Contents(size, 0, I)
             D == Contents(n, n \div 2, I)
  <2>1. n \in Sizes
    BY <1>2, SizeHalves, SizeBefore, MinSize
  <2>2. node_table_reduce(Tbl(size, 0, Cardinality(I), C))
           = Tbl(n, n \div 2, Cardinality(I), [x \in 0..(n - 1) |-> C[x]])
    <3> HIDE DEF C
    <3> QED
      BY <1>2, ReduceTbl
  <2>3. D = [x \in 0..(n - 1) |-> C[x]]
    BY <2>1, ContentsHalved
  <2>4. node_table_reduce(TableAs(size, 0, I)) = TableAs(n, n \div 2, I)
    <3> HIDE DEF C, D, n
    <3>1. node_table_reduce(Tbl(size, 0, Cardinality(I), C)) = Tbl(n, n \div 2, Cardinality(I), D)
      BY <2>2, <2>3, Zenon
    <3> QED
      BY <3>1 DEF C, D, TableAs
  <2>5. n \div 2 \in 0..(n \div 2)
    <3> HIDE DEF n
    <3> QED
      BY <2>1, SizeHalves
  <2> HIDE DEF n
  <2> QED
    BY <2>1, <2>4, <2>5, Zenon DEF TableOk
<1> QED
  BY <1>1, <1>2

(* Splitting the bucket at the split point. *)
MovedUp(size, split, I) == {x \in Contents(size, split, I)[split] : BucketOf(size, split + 1, x) # split}
SplitArray(size, split, I) ==
  [b \in 0..(size - 1) |->
     (IF b = split THEN Contents(size, split, I)[b] \ MovedUp(size, split, I) ELSE Contents(size, split, I)[b])
     \union {x \in MovedUp(size, split, I) : BucketOf(size, split + 1, x) = b}]

LEMMA SplitContents ==
  ASSUME NEW size \in Sizes, NEW I \in SUBSET AllIds, NEW split \in 0..(size \div 2), split # size \div 2
  PROVE  SplitArray(size, split, I) = Contents(size, split + 1, I)
<1> DEFINE C == Contents(size, split, I)
           M == MovedUp(size, split, I)
           h == size \div 2
<1>1. size \in Nat /\ h \in Nat \ {0} /\ size = 2 * h /\ split \in 0..(h - 1)
  BY SizeHalves
<1>2. ASSUME NEW i \in I, BucketOf(size, split, i) # split
      PROVE  BucketOf(size, split + 1, i) = BucketOf(size, split, i)
  <2>1. LowBucket(size, i) # split
    BY <1>2, <1>1 DEF BucketOf
  <2>2. LowBucket(size, i) \in Int
    BY Buckets
  <2> QED
    BY <2>1, <2>2, <1>1 DEF BucketOf
<1>3. M = {i \in I : BucketOf(size, split, i) = split /\ BucketOf(size, split + 1, i) # split}
  BY <1>1 DEF MovedUp, Contents
<1>4. ASSUME NEW b \in 0..(size - 1)
      PROVE  (IF b = split THEN C[b] \ M ELSE C[b]) \union {x \in M : BucketOf(size, split + 1, x) = b}
                = {i \in I : BucketOf(size, split + 1, i) = b}
  <2>1. C[b] = {i \in I : BucketOf(size, split, i) = b}
    BY DEF Contents
  <2> HIDE DEF C, M, h
  <2>2. CASE b = split
    BY <2>1, <2>2, <1>2, <1>3
  <2>3. CASE b # split
    BY <2>1, <2>3, <1>2, <1>3
  <2> QED
    BY <2>2, <2>3
<1> QED
  BY <1>4 DEF SplitArray, Contents

LEMMA SplitBegins ==
  ASSUME NEW a, NEW b, NEW c, NEW d
  PROVE  [Tbl(a, b, c, d) EXCEPT !.split = @ + 1] = Tbl(a, b + 1, c, d)
  BY DEF Tbl

LEMMA NewArray ==
  ASSUME NEW a, NEW b, NEW c, NEW d, NEW e
  PROVE  [Tbl(a, b, c, d) EXCEPT !.array = e] = Tbl(a, b, c, e)
  BY DEF Tbl

LEMMA Fields ==
  ASSUME NEW a, NEW b, NEW c, NEW d
  PROVE  /\ Tbl(a, b, c, d).size = a /\ Tbl(a, b, c, d).split = b
         /\ Tbl(a, b, c, d).use = c /\ Tbl(a, b, c, d).array = d
  BY DEF Tbl

LEMMA RehashOk ==
  ASSUME NEW size \in Sizes, NEW I \in SUBSET AllIds, NEW split \in 0..(size \div 2), NEW ok \in BOOLEAN
  PROVE  TableOk(rehash_id(TableAs(size, split, I), ok), I)
<1> DEFINE t == TableAs(size, split, I)
           C == Contents(size, split, I)
           n == [t EXCEPT !.split = @ + 1]
           moved == {x \in t.array[t.split] : id_hash(n, x) # t.split}
           m == [n EXCEPT !.array = [b \in DOMAIN @ |-> (IF b = t.split THEN @[b] \ moved ELSE @[b])
                                                  \union {x \in moved : id_hash(n, x) = b}]]
<1>1. t = Tbl(size, split, Cardinality(I), C) /\ t.size = size /\ t.split = split /\ t.array = C
  BY DEF TableAs, Tbl
<1>2. CASE split = size \div 2
  <2>1. rehash_id(t, ok) = t
    BY <1>1, <1>2 DEF rehash_id
  <2> QED
    BY <2>1, Zenon DEF TableOk
<1>3. CASE split # size \div 2
  <2>1. n = Tbl(size, split + 1, Cardinality(I), C)
    <3> DEFINE c == Cardinality(I)
    <3> HIDE DEF C, c
    <3> QED
      BY <1>1 DEF Tbl
  <2>2. \A x \in I : id_hash(n, x) = BucketOf(size, split + 1, x)
    BY <2>1, IdHash
  <2>3. C[split] \subseteq I /\ DOMAIN C = 0..(size - 1)
    BY SizeHalves DEF Contents
  <2>4. moved = MovedUp(size, split, I)
    BY <1>1, <2>2, <2>3 DEF MovedUp
  <2>5. n.array = C
    BY <2>1 DEF Tbl
  <2> DEFINE e == [b \in DOMAIN n.array |-> (IF b = t.split THEN n.array[b] \ moved ELSE n.array[b])
                                                  \union {x \in moved : id_hash(n, x) = b}]
  <2>6. e = SplitArray(size, split, I)
    <3>1. \A b : {x \in moved : id_hash(n, x) = b} = {x \in MovedUp(size, split, I) : BucketOf(size, split + 1, x) = b}
      <4>1. \A x \in moved : x \in I
        BY <2>3, <2>4 DEF MovedUp
      <4> HIDE DEF moved, n
      <4> QED
        BY <2>2, <2>4, <4>1
    <3> HIDE DEF moved, n
    <3> QED
      BY <1>1, <2>3, <2>4, <2>5, <3>1 DEF SplitArray
  <2>7. m = [n EXCEPT !.array = e]
    OBVIOUS
  <2>8. m = TableAs(size, split + 1, I)
    <3>1. e = Contents(size, split + 1, I)
      BY <2>6, <1>3, SplitContents
    <3> HIDE DEF e, n, m, C
    <3>2. m = Tbl(size, split + 1, Cardinality(I), e)
      BY <2>1, <2>7, NewArray
    <3> QED
      BY <3>1, <3>2 DEF TableAs
  <2>9. rehash_id(t, ok) = IF m.split = m.size \div 2 THEN node_table_resize(m, ok) ELSE m
    <3>1. t.split # t.size \div 2
      BY <1>1, <1>3
    <3> QED
      BY <3>1 DEF rehash_id
  <2> HIDE DEF m
  <2>10. m.split = split + 1 /\ m.size = size
    BY <2>8 DEF TableAs, Tbl
  <2>11. CASE split + 1 = size \div 2
    <3>1. rehash_id(t, ok) = node_table_resize(TableAs(size, size \div 2, I), ok)
      BY <2>8, <2>9, <2>10, <2>11
    <3>2. TableOk(node_table_resize(TableAs(size, size \div 2, I), ok), I)
      BY ResizeOk
    <3> QED
      BY <3>1, <3>2
  <2>12. CASE split + 1 # size \div 2
    <3>1. rehash_id(t, ok) = TableAs(size, split + 1, I)
      BY <2>8, <2>9, <2>10, <2>12
    <3>2. split + 1 \in 0..(size \div 2)
      BY <1>3, SizeHalves
    <3>3. TableOk(TableAs(size, split + 1, I), I)
      BY <3>2, Zenon DEF TableOk
    <3> QED
      BY <3>1, <3>3
  <2> QED
    BY <2>11, <2>12
<1> QED
  BY <1>2, <1>3

-----------------------------------------------------------------------------
(* A set of numbers below a bound that is not empty has a largest one. *)
LEMMA LargestOf ==
  ASSUME NEW n \in Nat, NEW S \in SUBSET (0..n), S # {}
  PROVE  \E x \in S : \A y \in S : y <= x
<1> DEFINE D == {n - x : x \in S}
<1>1. D \in SUBSET Nat /\ D # {}
  <2>1. \A x \in S : n - x \in Nat
    OBVIOUS
  <2> QED
    BY <2>1
<1>2. PICK d \in D : \A y \in D : d <= y
  <2> HIDE DEF D
  <2> QED
    BY <1>1, SmallestOf, Zenon
<1>3. PICK x \in S : d = n - x
  OBVIOUS
<1>4. ASSUME NEW y \in S PROVE y <= x
  <2>1. n - y \in D
    OBVIOUS
  <2>2. d <= n - y
    BY <1>2, <2>1
  <2> QED
    BY <1>3, <2>2
<1> QED
  BY <1>4

(* Where remerge_id stops: at a bucket it has to move back, or after its last turn. *)
Stop(t, low, s) ==
  /\ s = low \/ t.array[s + t.size \div 2] # {}
  /\ \A x \in (s + 1)..(t.split - 1) : t.array[x + t.size \div 2] = {}

LEMMA StopExists ==
  ASSUME NEW t, t.split \in Nat \ {0}, NEW low \in 0..(t.split - 1)
  PROVE  \E s \in low..(t.split - 1) : Stop(t, low, s)
<1> DEFINE n == t.split - 1
           S == {s \in low..n : s = low \/ t.array[s + t.size \div 2] # {}}
<1>1. n \in Nat /\ S \in SUBSET (0..n) /\ low \in S
  OBVIOUS
<1>2. PICK s \in S : \A y \in S : y <= s
  <2> HIDE DEF S, n
  <2> QED
    BY <1>1, LargestOf
<1>3. ASSUME NEW x \in (s + 1)..n PROVE t.array[x + t.size \div 2] = {}
  <2>1. x \in low..n /\ ~(x <= s)
    OBVIOUS
  <2>2. x \notin S
    BY <1>2, <2>1
  <2> QED
    BY <2>1, <2>2
<1> QED
  BY <1>3 DEF Stop

MergedArray(C, h, s) == [[C EXCEPT ![s] = @ \union C[s + h]] EXCEPT ![s + h] = {}]

LEMMA MergedContents ==
  ASSUME NEW size \in Sizes, NEW I \in SUBSET AllIds, NEW split \in 1..(size \div 2), NEW last \in 0..(split - 1),
         \A x \in (last + 1)..(split - 1) : Contents(size, split, I)[x + size \div 2] = {}
  PROVE  MergedArray(Contents(size, split, I), size \div 2, last) = Contents(size, last, I)
<1> DEFINE C == Contents(size, split, I)
           h == size \div 2
           D == MergedArray(C, h, last)
<1>1. h \in Nat \ {0} /\ size = 2 * h /\ split \in 1..h /\ last \in 0..(h - 1) /\ last \in 0..(split - 1)
  BY SizeHalves
<1>2. ASSUME NEW b \in 0..(size - 1) PROVE C[b] = {i \in I : BucketOf(size, split, i) = b}
  BY DEF Contents
<1>3. D = [b \in 0..(size - 1) |-> IF b = last + h THEN {} ELSE IF b = last THEN C[last] \union C[last + h] ELSE C[b]]
  <2>1. DOMAIN C = 0..(size - 1) /\ C = [b \in 0..(size - 1) |-> C[b]]
    BY DEF Contents
  <2> HIDE DEF C, h
  <2> QED
    BY <1>1, <2>1 DEF MergedArray
<1> HIDE DEF C, D
<1>4. ASSUME NEW i \in I
      PROVE  /\ BucketOf(size, last, i) # last + h
             /\ BucketOf(size, last, i) = last <=> BucketOf(size, split, i) \in {last, last + h}
             /\ \A b \in 0..(size - 1) \ {last, last + h} : BucketOf(size, last, i) = b <=> BucketOf(size, split, i) = b
  <2> DEFINE r == LowBucket(size, i)
             w == HighBucket(size, i)
  <2>1. r \in 0..(h - 1) /\ w \in {r, r + h}
    BY Buckets
  <2>2. BucketOf(size, last, i) = IF r >= last THEN r ELSE w
    BY DEF BucketOf
  <2>3. BucketOf(size, split, i) = IF r >= split THEN r ELSE w
    BY DEF BucketOf
  <2> HIDE DEF r, w, h
  <2>4. CASE r < last
    BY <2>1, <2>2, <2>3, <2>4, <1>1
  <2>5. CASE r = last
    BY <2>1, <2>2, <2>3, <2>5, <1>1
  <2>6. CASE last < r /\ r < split
    <3>1. r + h \in 0..(size - 1) /\ r \in (last + 1)..(split - 1)
      BY <1>1, <2>1, <2>6
    <3>2. C[r + h] = {}
      BY <3>1 DEF C, h
    <3>3. BucketOf(size, split, i) # r + h
      BY <1>2, <3>1, <3>2
    <3>4. w = r
      BY <3>3, <2>3, <2>6, <2>1, <1>1
    <3> QED
      BY <2>1, <2>2, <2>3, <2>6, <3>4, <1>1
  <2>7. CASE split <= r
    BY <2>1, <2>2, <2>3, <2>7, <1>1
  <2> QED
    BY <2>1, <1>1, <2>4, <2>5, <2>6, <2>7
<1>5. ASSUME NEW b \in 0..(size - 1) PROVE D[b] = {i \in I : BucketOf(size, last, i) = b}
  <2> HIDE DEF h
  <2>0. last \in 0..(size - 1) /\ last + h \in 0..(size - 1) /\ last # last + h
    BY <1>1
  <2>1. CASE b = last + h
    <3>1. D[b] = {}
      BY <1>3, <2>1
    <3> QED
      BY <1>4, <2>1, <3>1
  <2>2. CASE b = last
    <3>1. D[b] = C[last] \union C[last + h]
      BY <1>3, <2>0, <2>2
    <3>2. C[last] = {i \in I : BucketOf(size, split, i) = last}
      BY <1>2, <2>0
    <3>3. C[last + h] = {i \in I : BucketOf(size, split, i) = last + h}
      BY <1>2, <2>0
    <3> QED
      BY <1>4, <2>2, <3>1, <3>2, <3>3
  <2>3. CASE b \notin {last, last + h}
    <3>1. D[b] = C[b]
      BY <1>3, <2>3
    <3> QED
      BY <1>2, <1>4, <2>3, <3>1
  <2> QED
    BY <2>1, <2>2, <2>3
<1>6. D = Contents(size, last, I)
  <2>1. D = [b \in 0..(size - 1) |-> D[b]]
    BY <1>3
  <2> QED
    BY <1>5, <2>1 DEF Contents
<1> QED
  BY <1>6 DEF D, C

MovedDown(t, s, u) == [t EXCEPT !.split = s, !.array[s] = @ \union t.array[u], !.array[u] = {}]
JoinedUp(d, s, u) == [[d EXCEPT ![s] = @ \union d[u]] EXCEPT ![u] = {}]

LEMMA MergeTbl ==
  ASSUME NEW a, NEW b, NEW c, NEW d, NEW s, NEW u
  PROVE  MovedDown(Tbl(a, b, c, d), s, u) = Tbl(a, s, c, JoinedUp(d, s, u))
<1> DEFINE v == d[s] \union d[u]
           e == [d EXCEPT ![s] = v]
           t == Tbl(a, b, c, d)
           x == [t EXCEPT !.split = s]
           y == [x EXCEPT !.array[s] = @ \union t.array[u]]
<1>1. MovedDown(t, s, u) = [y EXCEPT !.array[u] = {}]
  BY DEF MovedDown
<1>2. x = Tbl(a, s, c, d) /\ t.array = d
  BY DEF Tbl
<1>3. y = [x EXCEPT !.array[s] = v]
  <2>1. x.array = d
    BY <1>2 DEF Tbl
  <2> HIDE DEF t, x
  <2> QED
    BY <1>2, <2>1
<1>4. y = Tbl(a, s, c, e)
  <2> HIDE DEF x, y, v
  <2> QED
    BY <1>2, <1>3 DEF Tbl
<1>5. [y EXCEPT !.array[u] = {}] = Tbl(a, s, c, [e EXCEPT ![u] = {}])
  <2> HIDE DEF y, e
  <2> QED
    BY <1>4 DEF Tbl
<1>6. JoinedUp(d, s, u) = [e EXCEPT ![u] = {}]
  BY DEF JoinedUp
<1> QED
  <2> HIDE DEF t, y, e
  <2>1. MovedDown(t, s, u) = Tbl(a, s, c, JoinedUp(d, s, u))
    BY <1>1, <1>5, <1>6
  <2> QED
    BY <2>1 DEF t

LEMMA MergeOk ==
  ASSUME NEW size \in Sizes, NEW I \in SUBSET AllIds, NEW split \in 1..(size \div 2)
  PROVE  TableOk(Merge(TableAs(size, split, I)), I)
<1> DEFINE t == TableAs(size, split, I)
           C == Contents(size, split, I)
           h == size \div 2
           c == Cardinality(I)
           low == IF t.split > MergeSteps THEN t.split - MergeSteps ELSE 0
           last == CHOOSE s \in low..(t.split - 1) : Stop(t, low, s)
<1>1. t = Tbl(size, split, c, C) /\ t.size = size /\ t.split = split /\ t.array = C
  BY DEF TableAs, Tbl
<1>2. h \in Nat \ {0} /\ size = 2 * h /\ split \in 1..h
  BY SizeHalves
<1>3. low \in 0..(t.split - 1)
  BY <1>1, <1>2, TableAssumption
<1>4. last \in low..(t.split - 1) /\ Stop(t, low, last)
  <2>1. t.split \in Nat \ {0}
    BY <1>1, <1>2
  <2> HIDE DEF t, low
  <2> QED
    BY <1>3, <2>1, StopExists
<1>5. Merge(t) = [t EXCEPT !.split = last, !.array[last] = @ \union t.array[last + t.size \div 2],
                           !.array[last + t.size \div 2] = {}]
  BY DEF Merge, Stop
<1> HIDE DEF last, low, t
<1>6. last \in 0..(split - 1) /\ last + h # last
  BY <1>1, <1>2, <1>3, <1>4
<1>7. \A x \in (last + 1)..(split - 1) : C[x + h] = {}
  BY <1>1, <1>4 DEF Stop
<1>8. MergedArray(C, h, last) = Contents(size, last, I)
  BY <1>6, <1>7, MergedContents
<1>9. Merge(t) = Tbl(size, last, c, MergedArray(C, h, last))
  <2> DEFINE u == last + h
  <2>1. Merge(t) = MovedDown(t, last, u)
    BY <1>1, <1>5 DEF MovedDown
  <2> HIDE DEF C, c, u
  <2>2. MovedDown(Tbl(size, split, c, C), last, u) = Tbl(size, last, c, JoinedUp(C, last, u))
    BY MergeTbl
  <2>3. JoinedUp(C, last, u) = MergedArray(C, h, last)
    BY DEF JoinedUp, MergedArray, u
  <2> QED
    BY <1>1, <2>1, <2>2, <2>3
<1>10. Merge(t) = TableAs(size, last, I)
  BY <1>8, <1>9 DEF TableAs
<1>11. last \in 0..(size \div 2)
  BY <1>2, <1>6
<1> QED
  BY <1>10, <1>11 DEF TableOk, t

-----------------------------------------------------------------------------
(* Looking up, adding and dropping an id. *)
LEMMA GetNode ==
  ASSUME NEW size \in Sizes, NEW I \in SUBSET AllIds, NEW split \in 0..(size \div 2), NEW i \in AllIds
  PROVE  get_node_nocheck(TableAs(size, split, I), i) <=> i \in I
<1> DEFINE b == BucketOf(size, split, i)
<1>1. b \in 0..(size - 1)
  BY BucketIn
<1>2. id_hash(TableAs(size, split, I), i) = b
  <2> DEFINE c == Cardinality(I)
             C == Contents(size, split, I)
  <2> HIDE DEF c, C
  <2>1. id_hash(Tbl(size, split, c, C), i) = BucketOf(size, split, i)
    BY IdHash
  <2> QED
    BY <2>1 DEF TableAs, c, C
<1>3. TableAs(size, split, I).array = Contents(size, split, I)
  BY DEF TableAs, Tbl
<1>4. Contents(size, split, I)[b] = {x \in I : BucketOf(size, split, x) = b}
  BY <1>1 DEF Contents
<1> QED
  BY <1>2, <1>3, <1>4 DEF get_node_nocheck

LEMMA Found ==
  ASSUME NEW I \in SUBSET AllIds, NEW t, TableOk(t, I), NEW i \in AllIds
  PROVE  get_node_nocheck(t, i) <=> i \in I
<1>0. PICK size \in Sizes : \E split \in 0..(size \div 2) : t = TableAs(size, split, I)
  BY Zenon DEF TableOk
<1>1. PICK split \in 0..(size \div 2) : t = TableAs(size, split, I)
  BY <1>0
<1> QED
  BY <1>1, GetNode

BucketPut(t, b, v, n) == [t EXCEPT !.array[b] = v, !.use = n]

LEMMA PutTbl ==
  ASSUME NEW size, NEW split, NEW c, NEW C, NEW b, NEW v, NEW n
  PROVE  BucketPut(Tbl(size, split, c, C), b, v, n) = Tbl(size, split, n, [C EXCEPT ![b] = v])
<1> DEFINE e == [C EXCEPT ![b] = v]
           x == [Tbl(size, split, c, C) EXCEPT !.array[b] = v]
<1>1. x = Tbl(size, split, c, e)
  <2> DEFINE t == Tbl(size, split, c, C)
  <2>1. t.array = C
    BY DEF Tbl
  <2>2. x = [t EXCEPT !.array = e]
    BY <2>1
  <2> HIDE DEF e, x
  <2> QED
    BY <2>2 DEF Tbl
<1>2. BucketPut(Tbl(size, split, c, C), b, v, n) = [x EXCEPT !.use = n]
  BY DEF BucketPut
<1>3. [x EXCEPT !.use = n] = Tbl(size, split, n, e)
  <2> HIDE DEF x, e
  <2> QED
    BY <1>1 DEF Tbl
<1> QED
  BY <1>2, <1>3

PutAt(C, b, v) == [C EXCEPT ![b] = v]

LEMMA ContentsPut ==
  ASSUME NEW size \in Sizes, NEW split, NEW I \in SUBSET AllIds, NEW i \in AllIds,
         NEW J \in SUBSET AllIds, NEW v, \A x \in AllIds : x # i => (x \in I <=> x \in J),
         v = {x \in J : BucketOf(size, split, x) = BucketOf(size, split, i)}
  PROVE  Contents(size, split, J) = PutAt(Contents(size, split, I), BucketOf(size, split, i), v)
<1> DEFINE b == BucketOf(size, split, i)
           C == Contents(size, split, I)
           D == [C EXCEPT ![b] = v]
<1>1. DOMAIN C = 0..(size - 1)
  BY DEF Contents
<1>2. D = [x \in 0..(size - 1) |-> IF x = b THEN v ELSE C[x]]
  <2> HIDE DEF C, b
  <2> QED
    BY <1>1
<1>3. ASSUME NEW x \in 0..(size - 1) PROVE D[x] = {y \in J : BucketOf(size, split, y) = x}
  <2>1. CASE x = b
    BY <1>2, <2>1
  <2>2. CASE x # b
    <3>1. D[x] = C[x]
      BY <1>2, <2>2
    <3>2. C[x] = {y \in I : BucketOf(size, split, y) = x}
      BY DEF Contents
    <3>3. \A y \in AllIds : BucketOf(size, split, y) = x => (y \in I <=> y \in J)
      BY <2>2
    <3> QED
      BY <3>1, <3>2, <3>3
  <2> QED
    BY <2>1, <2>2
<1>4. D = [x \in 0..(size - 1) |-> D[x]]
  BY <1>2
<1>5. D = Contents(size, split, J)
  <2> HIDE DEF D
  <2> QED
    BY <1>3, <1>4 DEF Contents
<1> QED
  BY <1>5 DEF PutAt

LEMMA AddOk ==
  ASSUME NEW I \in SUBSET AllIds, NEW t, TableOk(t, I), NEW i \in AllIds \ I, IsFiniteSet(I), NEW ok \in BOOLEAN
  PROVE  TableOk(hash_id(t, i, ok), I \union {i})
<1> DEFINE J == I \union {i}
<1>0. PICK size \in Sizes : \E split \in 0..(size \div 2) : t = TableAs(size, split, I)
  BY Zenon DEF TableOk
<1>1. PICK split \in 0..(size \div 2) : t = TableAs(size, split, I)
  BY <1>0
<1> DEFINE b == BucketOf(size, split, i)
           C == Contents(size, split, I)
           c == Cardinality(I)
           v == C[b] \union {i}
           n == [t EXCEPT !.array[id_hash(t, i)] = @ \union {i}, !.use = @ + 1]
<1>2. b \in 0..(size - 1)
  BY BucketIn
<1>3. J \in SUBSET AllIds /\ Cardinality(J) = c + 1
  BY FS_AddElement
<1>4. t = Tbl(size, split, c, C)
  BY <1>1 DEF TableAs
<1>5. id_hash(t, i) = b /\ t.array = C /\ t.use = c
  <2> HIDE DEF c, C
  <2> QED
    BY <1>4, IdHash DEF Tbl
<1>6. n = BucketPut(t, b, v, c + 1)
  <2> HIDE DEF b, c, C
  <2> QED
    BY <1>5 DEF BucketPut
<1>7. Contents(size, split, J) = [C EXCEPT ![b] = v]
  <2>1. C[b] = {x \in I : BucketOf(size, split, x) = b}
    BY <1>2 DEF Contents
  <2>2. v = {x \in J : BucketOf(size, split, x) = b}
    <3> HIDE DEF C
    <3> QED
      BY <2>1
  <2>3. \A x \in AllIds : x # i => (x \in I <=> x \in J)
    OBVIOUS
  <2> HIDE DEF v, J
  <2> QED
    <3>1. Contents(size, split, J) = PutAt(Contents(size, split, I), BucketOf(size, split, i), v)
      BY <2>2, <2>3, <1>3, ContentsPut
    <3> QED
      BY <3>1 DEF PutAt
<1>8. n = TableAs(size, split, J)
  <2> DEFINE k == c + 1
  <2>1. k = Cardinality(J) /\ n = BucketPut(t, b, v, k)
    BY <1>3, <1>6
  <2> HIDE DEF n, v, b, c, C, J, k
  <2>2. BucketPut(Tbl(size, split, c, C), b, v, k) = Tbl(size, split, k, [C EXCEPT ![b] = v])
    BY PutTbl
  <2> QED
    BY <1>4, <1>7, <2>1, <2>2 DEF TableAs
<1>9. hash_id(t, i, ok) = IF n.use >= n.size \div 2 THEN rehash_id(n, ok) ELSE n
  BY DEF hash_id
<1> HIDE DEF n, J
<1>10. TableOk(rehash_id(TableAs(size, split, J), ok), J)
  BY <1>3, RehashOk
<1>11. TableOk(TableAs(size, split, J), J)
  BY Zenon DEF TableOk
<1>12. TableOk(hash_id(t, i, ok), J)
  BY <1>8, <1>9, <1>10, <1>11
<1> QED
  BY <1>12 DEF J

LEMMA RemergeOk ==
  ASSUME NEW I \in SUBSET AllIds, NEW t, TableOk(t, I)
  PROVE  TableOk(remerge_id(t), I)
<1> DEFINE r == IF t.split = 0 THEN node_table_reduce(t) ELSE t
<1>0. PICK size \in Sizes : \E split \in 0..(size \div 2) : t = TableAs(size, split, I)
  BY Zenon DEF TableOk
<1>1. PICK split \in 0..(size \div 2) : t = TableAs(size, split, I)
  BY <1>0
<1>2. t.split = split
  BY <1>1 DEF TableAs, Tbl
<1>3. TableOk(r, I)
  BY <1>1, <1>2, ReduceOk
<1>4. remerge_id(t) = IF r.split = 0 THEN r ELSE Merge(r)
  BY DEF remerge_id
<1> HIDE DEF r
<1>5a. PICK a \in Sizes : \E s \in 0..(a \div 2) : r = TableAs(a, s, I)
  BY <1>3, Zenon DEF TableOk
<1>5. PICK s \in 0..(a \div 2) : r = TableAs(a, s, I)
  BY <1>5a
<1>6. r.split = s
  BY <1>5 DEF TableAs, Tbl
<1>7. CASE s = 0
  BY <1>3, <1>4, <1>6, <1>7
<1>8. CASE s # 0
  <2>1. s \in 1..(a \div 2)
    BY <1>8
  <2>2. TableOk(Merge(TableAs(a, s, I)), I)
    BY <2>1, MergeOk
  <2> QED
    BY <1>4, <1>5, <1>6, <1>8, <2>2
<1> QED
  BY <1>7, <1>8

LEMMA DropOk ==
  ASSUME NEW I \in SUBSET AllIds, NEW t, TableOk(t, I), NEW i \in I, IsFiniteSet(I)
  PROVE  TableOk(unhash_id(t, i), I \ {i})
<1> DEFINE J == I \ {i}
<1>0. PICK size \in Sizes : \E split \in 0..(size \div 2) : t = TableAs(size, split, I)
  BY Zenon DEF TableOk
<1>1. PICK split \in 0..(size \div 2) : t = TableAs(size, split, I)
  BY <1>0
<1> DEFINE b == BucketOf(size, split, i)
           C == Contents(size, split, I)
           c == Cardinality(I)
           v == C[b] \ {i}
           n == [t EXCEPT !.array[id_hash(t, i)] = @ \ {i}, !.use = @ - 1]
<1>2. b \in 0..(size - 1) /\ i \in AllIds
  BY BucketIn
<1>3. J \in SUBSET AllIds /\ Cardinality(J) = c - 1
  BY FS_RemoveElement
<1>4. t = Tbl(size, split, c, C)
  BY <1>1 DEF TableAs
<1>5. id_hash(t, i) = b /\ t.array = C /\ t.use = c
  <2> HIDE DEF c, C
  <2> QED
    BY <1>2, <1>4, IdHash DEF Tbl
<1>6. n = BucketPut(t, b, v, c - 1)
  <2> HIDE DEF b, c, C
  <2> QED
    BY <1>5 DEF BucketPut
<1>7. Contents(size, split, J) = [C EXCEPT ![b] = v]
  <2>1. C[b] = {x \in I : BucketOf(size, split, x) = b}
    BY <1>2 DEF Contents
  <2>2. v = {x \in J : BucketOf(size, split, x) = b}
    <3> HIDE DEF C
    <3> QED
      BY <2>1
  <2>3. \A x \in AllIds : x # i => (x \in I <=> x \in J)
    OBVIOUS
  <2> HIDE DEF v, J
  <2> QED
    <3>1. Contents(size, split, J) = PutAt(Contents(size, split, I), BucketOf(size, split, i), v)
      BY <2>2, <2>3, <1>2, <1>3, ContentsPut
    <3> QED
      BY <3>1 DEF PutAt
<1>8. n = TableAs(size, split, J)
  <2> DEFINE k == c - 1
  <2>1. k = Cardinality(J) /\ n = BucketPut(t, b, v, k)
    BY <1>3, <1>6
  <2> HIDE DEF n, v, b, c, C, J, k
  <2>2. BucketPut(Tbl(size, split, c, C), b, v, k) = Tbl(size, split, k, [C EXCEPT ![b] = v])
    BY PutTbl
  <2> QED
    BY <1>4, <1>7, <2>1, <2>2 DEF TableAs
<1>9. unhash_id(t, i) = IF n.use < n.size \div 4 THEN remerge_id(n) ELSE n
  <2>1. get_node_nocheck(t, i)
    BY <1>2, Found
  <2> QED
    BY <2>1 DEF unhash_id
<1> HIDE DEF n, J
<1>10. TableOk(n, J)
  BY <1>8, Zenon DEF TableOk
<1>11. TableOk(remerge_id(n), J)
  BY <1>3, <1>10, RemergeOk
<1>12. TableOk(unhash_id(t, i), J)
  BY <1>9, <1>10, <1>11
<1> QED
  BY <1>12 DEF J

-----------------------------------------------------------------------------
(* The choice of the next number. *)
Numbers == 1..(IdSpace - 2)

LEMMA Wrapped ==
  ASSUME NEW c \in AllIds, NEW k \in 1..IdSpace
  PROVE  (c + k) % IdSpace = (IF c + k < IdSpace THEN c + k ELSE c + k - IdSpace) /\ (c + k) % IdSpace \in AllIds
<1>1. IdSpace \in Nat \ {0} /\ c \in 0..(IdSpace - 1)
  BY TableAssumption DEF AllIds
<1>2. CASE c + k < IdSpace
  BY <1>1, <1>2 DEF AllIds
<1>3. CASE ~(c + k < IdSpace)
  <2>1. c + k - IdSpace \in 0..(IdSpace - 1) /\ c + k = IdSpace * 1 + (c + k - IdSpace)
    BY <1>1, <1>3
  <2> DEFINE x == c + k - IdSpace
  <2> HIDE DEF x
  <2>2. x \in 0..(IdSpace - 1) /\ c + k = IdSpace * 1 + x
    BY <2>1 DEF x
  <2>3. (IdSpace * 1 + x) % IdSpace = x
    BY <1>1, <2>2
  <2>4. (c + k) % IdSpace = x
    BY <2>2, <2>3
  <2> QED
    BY <1>1, <1>3, <2>2, <2>4 DEF x, AllIds
<1> QED
  BY <1>2, <1>3

LEMMA NumberLeft ==
  ASSUME NEW I \in SUBSET Numbers, IsFiniteSet(I), Cardinality(I) < IdSpace - 2
  PROVE  \E f \in Numbers : f \notin I
<1> SUFFICES ASSUME Numbers \subseteq I PROVE FALSE
  OBVIOUS
<1>1. IdSpace - 2 \in Nat
  BY TableAssumption
<1>2. Cardinality(Numbers) = IdSpace - 2
  <2> DEFINE n == IdSpace - 2
  <2> HIDE DEF n
  <2>1. Cardinality(1..n) = IF 1 > n THEN 0 ELSE n - 1 + 1
    BY <1>1, FS_Interval DEF n
  <2>2. Cardinality(1..n) = n
    BY <1>1, <2>1 DEF n
  <2> QED
    BY <2>2 DEF n, Numbers
<1>3. Cardinality(Numbers) <= Cardinality(I)
  BY FS_Subset
<1>4. Cardinality(I) \in Nat
  BY FS_CardinalityType
<1> QED
  BY <1>1, <1>2, <1>3, <1>4

LEMMA TurnsFind ==
  ASSUME NEW I \in SUBSET Numbers, IsFiniteSet(I), Cardinality(I) < IdSpace - 2,
         NEW t, TableOk(t, I), NEW c \in AllIds
  PROVE  /\ Skips(t, c) \in 1..IdSpace
         /\ (c + Skips(t, c)) % IdSpace \in Numbers \ I
<1> DEFINE Free(k) == LET n == (c + k) % IdSpace IN n \notin {0, FUSE_UNKNOWN_INO} /\ ~get_node_nocheck(t, n)
           S == {k \in 1..IdSpace : Free(k)}
<1>0. IdSpace \in Nat /\ IdSpace > 2
  BY TableAssumption
<1>1. ASSUME NEW k \in 1..IdSpace PROVE Free(k) <=> (c + k) % IdSpace \in Numbers \ I
  <2>1. (c + k) % IdSpace \in AllIds
    BY Wrapped
  <2>2. I \in SUBSET AllIds
    BY <1>0 DEF Numbers, AllIds
  <2>3. get_node_nocheck(t, (c + k) % IdSpace) <=> (c + k) % IdSpace \in I
    BY <2>1, <2>2, Found
  <2> QED
    BY <1>0, <2>1, <2>3 DEF Numbers, AllIds, FUSE_UNKNOWN_INO
<1>2. S # {}
  <2>1. PICK f \in Numbers : f \notin I
    BY NumberLeft
  <2> DEFINE k == IF f > c THEN f - c ELSE f - c + IdSpace
  <2>2. k \in 1..IdSpace /\ (IF c + k < IdSpace THEN c + k ELSE c + k - IdSpace) = f
    BY <1>0 DEF Numbers, AllIds
  <2> HIDE DEF k
  <2>3. (c + k) % IdSpace = f
    BY <2>2, Wrapped
  <2> HIDE DEF Free
  <2>4. k \in S
    BY <1>1, <2>1, <2>2, <2>3
  <2> QED
    BY <2>4
<1>3. \E k \in S : \A j \in S : k <= j
  <2>1. S \in SUBSET Nat
    OBVIOUS
  <2> HIDE DEF S
  <2> QED
    BY <1>2, <2>1, SmallestOf, Zenon
<1>4. \E k \in 1..IdSpace : Free(k) /\ \A j \in 1..(k - 1) : ~Free(j)
  <2> HIDE DEF Free
  <2>1. PICK k \in S : \A j \in S : k <= j
    BY <1>3
  <2>2. ASSUME NEW j \in 1..(k - 1) PROVE ~Free(j)
    BY <1>0, <2>1
  <2> QED
    BY <2>1, <2>2
<1>5. Skips(t, c) = CHOOSE k \in 1..IdSpace : Free(k) /\ \A j \in 1..(k - 1) : ~Free(j)
  BY DEF Skips
<1> HIDE DEF Free
<1>6. Skips(t, c) \in 1..IdSpace /\ Free(Skips(t, c))
  BY <1>4, <1>5
<1> QED
  BY <1>1, <1>6

(* A pair of number and generation is new when its generation is later, or its number. *)
Earlier(n, g, c) == g < c.gen \/ (g = c.gen /\ n <= c.ctr)
GivenOk(g, c) ==
  /\ c \in [ctr : AllIds, gen : Nat]
  /\ \A p \in g : p # <<FUSE_ROOT_ID, 0>> => p[2] \in Nat /\ p[1] \in AllIds /\ Earlier(p[1], p[2], c)

LEMMA NextOk ==
  ASSUME NEW I \in SUBSET Numbers, IsFiniteSet(I), Cardinality(I) < IdSpace - 2, FUSE_ROOT_ID \in I,
         NEW t, TableOk(t, I), NEW c, NEW g, GivenOk(g, c)
  PROVE  /\ next_id(t, c).ctr \in Numbers \ I
         /\ <<next_id(t, c).ctr, next_id(t, c).gen>> \notin g
         /\ GivenOk(g \union {<<next_id(t, c).ctr, next_id(t, c).gen>>}, next_id(t, c))
<1> DEFINE k == Skips(t, c.ctr)
           n == next_id(t, c)
<1>1. c.ctr \in AllIds /\ c.gen \in Nat /\ IdSpace \in Nat
  BY TableAssumption DEF GivenOk
<1>2. k \in 1..IdSpace /\ (c.ctr + k) % IdSpace \in Numbers \ I
  BY <1>1, TurnsFind
<1>3. n.ctr = (c.ctr + k) % IdSpace /\ n.gen = (IF c.ctr + k < IdSpace THEN c.gen ELSE c.gen + 1)
      /\ n = [ctr |-> n.ctr, gen |-> n.gen]
  BY DEF next_id
<1> HIDE DEF k, n
<1>4. n.ctr = IF c.ctr + k < IdSpace THEN c.ctr + k ELSE c.ctr + k - IdSpace
  BY <1>1, <1>2, <1>3, Wrapped
<1>5. n.ctr \in Numbers \ I /\ n.ctr \in AllIds /\ n.gen \in Nat /\ n.ctr # FUSE_ROOT_ID
  BY <1>1, <1>2, <1>3 DEF Numbers, AllIds
<1>6. n.gen > c.gen \/ (n.gen = c.gen /\ n.ctr > c.ctr)
  BY <1>1, <1>2, <1>3, <1>4 DEF AllIds, Earlier
<1>7. ASSUME NEW p \in g PROVE p # <<n.ctr, n.gen>>
  <2>1. CASE p = <<FUSE_ROOT_ID, 0>>
    BY <1>5, <2>1
  <2>2. CASE p # <<FUSE_ROOT_ID, 0>>
    <3>1. p[2] \in Nat /\ p[1] \in AllIds /\ Earlier(p[1], p[2], c)
      BY <2>2 DEF GivenOk
    <3>2. <<n.ctr, n.gen>>[1] = n.ctr /\ <<n.ctr, n.gen>>[2] = n.gen
      OBVIOUS
    <3> QED
      BY <1>1, <1>5, <1>6, <3>1, <3>2 DEF AllIds, Earlier
  <2> QED
    BY <2>1, <2>2
<1>8. ASSUME NEW p \in g \union {<<n.ctr, n.gen>>}, p # <<FUSE_ROOT_ID, 0>>
      PROVE  p[2] \in Nat /\ p[1] \in AllIds /\ Earlier(p[1], p[2], n)
  <2>1. CASE p \in g
    <3>1. p[2] \in Nat /\ p[1] \in AllIds /\ Earlier(p[1], p[2], c)
      BY <1>8, <2>1 DEF GivenOk
    <3> QED
      BY <1>1, <1>5, <1>6, <3>1 DEF AllIds, Earlier
  <2>2. CASE p = <<n.ctr, n.gen>>
    <3>1. p[1] = n.ctr /\ p[2] = n.gen
      BY <2>2
    <3> QED
      BY <1>5, <3>1 DEF AllIds, Earlier
  <2> QED
    BY <2>1, <2>2
<1>9. n \in [ctr : AllIds, gen : Nat]
  BY <1>3, <1>5
<1>10. GivenOk(g \union {<<n.ctr, n.gen>>}, n)
  BY <1>8, <1>9 DEF GivenOk
<1> QED
  BY <1>5, <1>7, <1>10 DEF n

-----------------------------------------------------------------------------
(* Lists without repetition *)
NoDup(l) == \A i, j \in 1 .. Len(l) : l[i] = l[j] => i = j
Listed(l, S) == (\E T : l \in Seq(T)) /\ NoDup(l) /\ ToSet(l) = S

LEMMA ListedIn == ASSUME NEW l, NEW S, Listed(l, S) PROVE l \in Seq(S) /\ \A i \in 1 .. Len(l) : l[i] \in S
  BY DEF Listed, ToSet

LEMMA ListedSet ==
  ASSUME NEW T, NEW l \in Seq(T), NoDup(l), NEW S, \A i \in 1 .. Len(l) : l[i] \in S, \A x \in S : \E i \in 1 .. Len(l) : l[i] = x
  PROVE  Listed(l, S)
<1>1. ToSet(l) = S
  BY DEF ToSet
<1> QED
  BY <1>1 DEF Listed

LEMMA EmptyList == Listed(<< >>, {})
<1>1. << >> \in Seq({})
  OBVIOUS
<1> QED
  BY <1>1 DEF Listed, NoDup, ToSet

LEMMA Appended ==
  ASSUME NEW l, NEW S, Listed(l, S), NEW x, x \notin S
  PROVE  Listed(Append(l, x), S \union {x})
<1> DEFINE T == S \union {x}
           r == Append(l, x)
<1>1. l \in Seq(S) /\ \A i \in 1 .. Len(l) : l[i] \in S
  BY ListedIn
<1>2. r \in Seq(T) /\ Len(r) = Len(l) + 1 /\ Len(l) \in Nat
      /\ (\A i \in 1 .. Len(l) : r[i] = l[i]) /\ r[Len(l) + 1] = x
  <2>1. l \in Seq(T)
    BY <1>1
  <2> QED
    BY <2>1
<1> HIDE DEF r
<1>3. NoDup(r)
  BY <1>1, <1>2 DEF NoDup, Listed
<1>4. \A y \in T : \E i \in 1 .. Len(r) : r[i] = y
  <2>1. \A y \in S : \E i \in 1 .. Len(l) : l[i] = y
    BY <1>1 DEF Listed, ToSet
  <2> QED
    BY <2>1, <1>2
<1>5. \A i \in 1 .. Len(r) : r[i] \in T
  BY <1>1, <1>2
<1> HIDE DEF T
<1>6. Listed(r, T)
  BY <1>2, <1>3, <1>4, <1>5, ListedSet
<1> QED
  BY <1>6 DEF r, T

LEMMA Prepended ==
  ASSUME NEW l, NEW S, Listed(l, S), NEW x, x \notin S
  PROVE  Listed(<<x>> \o l, S \union {x}) /\ Len(<<x>> \o l) = Len(l) + 1
<1> DEFINE T == S \union {x}
           r == <<x>> \o l
<1>1. l \in Seq(S) /\ \A i \in 1 .. Len(l) : l[i] \in S
  BY ListedIn
<1>2. r \in Seq(T) /\ Len(r) = Len(l) + 1 /\ Len(l) \in Nat
      /\ (\A i \in 1 .. Len(l) : r[i + 1] = l[i]) /\ r[1] = x
  <2>1. l \in Seq(T)
    BY <1>1
  <2> QED
    BY <2>1
<1> HIDE DEF r
<1>3. \A i \in 2 .. Len(r) : i - 1 \in 1 .. Len(l) /\ r[i] = l[i - 1]
  BY <1>2
<1>4. NoDup(r)
  <2> SUFFICES ASSUME NEW i \in 1 .. Len(r), NEW j \in 1 .. Len(r), r[i] = r[j] PROVE i = j
    BY DEF NoDup
  <2>1. CASE i = 1 /\ j # 1
    BY <1>1, <1>2, <1>3, <2>1
  <2>2. CASE i # 1 /\ j = 1
    BY <1>1, <1>2, <1>3, <2>2
  <2>3. CASE i # 1 /\ j # 1
    <3>1. i - 1 \in 1 .. Len(l) /\ j - 1 \in 1 .. Len(l) /\ l[i - 1] = l[j - 1]
      BY <1>2, <1>3, <2>3
    <3>2. i - 1 = j - 1
      BY <3>1 DEF Listed, NoDup
    <3> QED
      BY <3>2, <1>2
  <2> QED
    BY <2>1, <2>2, <2>3
<1>5. \A y \in T : \E i \in 1 .. Len(r) : r[i] = y
  <2>1. \A y \in S : \E i \in 1 .. Len(l) : l[i] = y
    BY <1>1 DEF Listed, ToSet
  <2> QED
    BY <2>1, <1>2
<1>6. \A i \in 1 .. Len(r) : r[i] \in T
  BY <1>1, <1>2, <1>3
<1> HIDE DEF T
<1>7. Listed(r, T)
  BY <1>2, <1>4, <1>5, <1>6, ListedSet
<1> QED
  BY <1>2, <1>7 DEF r, T

LEMMA Beheaded ==
  ASSUME NEW l, NEW S, Listed(l, S), l # << >>
  PROVE  Head(l) \in S /\ Listed(Tail(l), S \ {Head(l)}) /\ Len(Tail(l)) = Len(l) - 1
<1> DEFINE x == Head(l)
           T == S \ {x}
           r == Tail(l)
<1>1. l \in Seq(S) /\ \A i \in 1 .. Len(l) : l[i] \in S
  BY ListedIn
<1>2. r \in Seq(S) /\ Len(r) = Len(l) - 1 /\ Len(r) \in Nat /\ x = l[1] /\ x \in S
      /\ (\A i \in 1 .. Len(r) : r[i] = l[i + 1])
  BY <1>1
<1> HIDE DEF r, x
<1>3. NoDup(r)
  BY <1>2 DEF NoDup, Listed
<1>4. \A i \in 1 .. Len(r) : r[i] \in T
  <2> TAKE i \in 1 .. Len(r)
  <2>1. i + 1 \in 1 .. Len(l) /\ 1 \in 1 .. Len(l) /\ i + 1 # 1
    BY <1>2
  <2>2. l[i + 1] # l[1]
    BY <2>1 DEF Listed, NoDup
  <2> QED
    BY <1>1, <1>2, <2>1, <2>2
<1>5. \A y \in T : \E i \in 1 .. Len(r) : r[i] = y
  <2> TAKE y \in T
  <2>1. PICK i \in 1 .. Len(l) : l[i] = y
    BY <1>1 DEF Listed, ToSet
  <2>2. i # 1
    BY <1>2, <2>1
  <2>3. i - 1 \in 1 .. Len(r) /\ i - 1 + 1 = i
    BY <1>2, <2>2
  <2> QED
    BY <1>2, <2>1, <2>3
<1> HIDE DEF T
<1>6. Listed(r, T)
  BY <1>2, <1>3, <1>4, <1>5, ListedSet
<1> QED
  BY <1>2, <1>6 DEF r, T, x

LEMMA ListDel ==
  ASSUME NEW l, NEW S, Listed(l, S), NEW x
  PROVE  Listed(list_del(l, x), S \ {x})
<1>1. l \in Seq(S) /\ \A i \in 1 .. Len(l) : l[i] \in S
  BY ListedIn
<1>2. CASE x \notin S
  <2>1. list_del(l, x) = l /\ S \ {x} = S
    BY <1>2 DEF list_del, Listed
  <2> QED
    BY <2>1
<1>3. CASE x \in S
  <2> DEFINE k == CHOOSE k \in DOMAIN l : l[k] = x
             r == RemoveAt(l, k)
             T == S \ {x}
  <2>1. k \in 1 .. Len(l) /\ l[k] = x
    <3>1. \E i \in DOMAIN l : l[i] = x
      BY <1>1, <1>3 DEF Listed, ToSet
    <3>2. k \in DOMAIN l /\ l[k] = x
      BY <3>1
    <3> QED
      BY <1>1, <3>2
  <2>2. list_del(l, x) = r
    BY <1>3 DEF list_del, Listed
  <2> HIDE DEF k
  <2>3. r \in Seq(S) /\ Len(r) = Len(l) - 1 /\ \A j \in 1 .. Len(l) - 1 : r[j] = IF j < k THEN l[j] ELSE l[j + 1]
    <3>1. r \in Seq(S) /\ Without(r, l, k)
      BY <1>1, <2>1, RemovedEntry, Zenon
    <3> QED
      BY <3>1 DEF Without
  <2> HIDE DEF r
  <2>4. Len(l) \in Nat
    BY <1>1
  <2> DEFINE f(j) == IF j < k THEN j ELSE j + 1
  <2>5. \A j \in 1 .. Len(r) : f(j) \in 1 .. Len(l) /\ r[j] = l[f(j)] /\ f(j) # k
    BY <2>1, <2>3, <2>4
  <2>6. \A i, j \in 1 .. Len(r) : f(i) = f(j) => i = j
    BY <2>1, <2>3, <2>4
  <2>7. \A i \in 1 .. Len(l) : i # k => \E j \in 1 .. Len(r) : f(j) = i
    <3> TAKE i \in 1 .. Len(l)
    <3>1. CASE i < k
      <4>1. i \in 1 .. Len(r) /\ f(i) = i
        BY <2>1, <2>3, <2>4, <3>1
      <4> QED
        BY <4>1
    <3>2. CASE i > k
      <4>1. i - 1 \in 1 .. Len(r) /\ f(i - 1) = i
        BY <2>1, <2>3, <2>4, <3>2
      <4> QED
        BY <4>1
    <3> QED
      BY <2>1, <2>4, <3>1, <3>2
  <2> HIDE DEF f
  <2>8. NoDup(r)
    BY <2>5, <2>6 DEF NoDup, Listed
  <2>9. \A i \in 1 .. Len(r) : r[i] \in T
    BY <1>1, <2>1, <2>5 DEF NoDup, Listed
  <2>10. \A y \in T : \E i \in 1 .. Len(r) : r[i] = y
    <3> TAKE y \in T
    <3>1. PICK i \in 1 .. Len(l) : l[i] = y
      BY <1>1 DEF Listed, ToSet
    <3>2. i # k
      BY <2>1, <3>1
    <3> QED
      BY <2>5, <2>7, <3>1, <3>2
  <2> HIDE DEF T
  <2>11. Listed(r, T)
    BY <2>3, <2>8, <2>9, <2>10, ListedSet
  <2> QED
    BY <2>2, <2>11 DEF T
<1> QED
  BY <1>2, <1>3

-----------------------------------------------------------------------------
(* Slabs a, the nodes N that are in them, and the two lists. *)
InSlab(N, s) == {i \in DOMAIN N : N[i].slab = s}
SlabOk(x, n) ==
  /\ x \in [used : Nat, free : Seq(1..PerSlab)]
  /\ NoDup(x.free) /\ x.used = n /\ x.used + Len(x.free) = PerSlab
Housed(a, N) == \A i \in DOMAIN N : N[i].slab \in DOMAIN a /\ N[i].slot \in (1..PerSlab) \ ToSet(a[N[i].slab].free)
Apart(N) == \A i, j \in DOMAIN N : i # j /\ N[i].slab = N[j].slab => N[i].slot # N[j].slot
SlabsOk(a, N) ==
  /\ IsFiniteSet(DOMAIN a) /\ IsFiniteSet(DOMAIN N)
  /\ \A s \in DOMAIN a : SlabOk(a[s], Cardinality(InSlab(N, s)))
  /\ Housed(a, N) /\ Apart(N)
Partial(a) == {s \in DOMAIN a : a[s].free # << >>}
Lists(a, b, c) == Listed(b, Partial(a)) /\ Listed(c, DOMAIN a \ Partial(a))

LEMMA SetOf == ASSUME NEW T, NEW l \in Seq(T) PROVE ToSet(l) \subseteq T
  BY DEF ToSet

LEMMA HeadAndTail == ASSUME NEW T, NEW l \in Seq(T), l # << >> PROVE Head(l) \in T /\ Tail(l) \in Seq(T)
  OBVIOUS

LEMMA WiderSeq == ASSUME NEW S, NEW T, S \subseteq T, NEW l \in Seq(S) PROVE l \in Seq(T)
  OBVIOUS

LEMMA FreeListed == ASSUME NEW x, NEW n, SlabOk(x, n) PROVE Listed(x.free, ToSet(x.free)) /\ x.free \in Seq(1..PerSlab)
  BY DEF SlabOk, Listed

(* A fresh slab, under a number that no slab has. *)
WithSlab(a, s) == [x \in DOMAIN a \union {s} |-> IF x = s THEN FreshSlab ELSE a[x]]

LEMMA NumberForSlab ==
  ASSUME NEW D, IsFiniteSet(D)
  PROVE  \E x \in 1..(Cardinality(D) + 1) : x \notin D
<1> DEFINE n == Cardinality(D) + 1
<1> SUFFICES ASSUME 1..n \subseteq D PROVE FALSE
  OBVIOUS
<1>1. Cardinality(D) \in Nat
  BY FS_CardinalityType
<1>2. Cardinality(1..n) <= Cardinality(D)
  BY FS_Subset
<1>3. Cardinality(1..n) = n
  <2>1. n \in Nat /\ n >= 1
    BY <1>1
  <2> HIDE DEF n
  <2>2. Cardinality(1..n) = IF 1 > n THEN 0 ELSE n - 1 + 1
    BY <2>1, FS_Interval
  <2> QED
    BY <2>1, <2>2
<1> QED
  BY <1>1, <1>2, <1>3

LEMMA FreshOk == SlabOk(FreshSlab, 0) /\ FreshSlab.free # << >>
<1>1. PerSlab \in Nat \ {0}
  BY TableAssumption
<1> DEFINE l == [k \in 1..PerSlab |-> k]
<1>2. l \in Seq(1..PerSlab) /\ Len(l) = PerSlab /\ l # << >> /\ \A k \in 1..PerSlab : l[k] = k
  BY <1>1
<1>3. FreshSlab = [used |-> 0, free |-> l]
  BY DEF FreshSlab
<1> HIDE DEF l
<1>4. NoDup(l)
  BY <1>2 DEF NoDup
<1> QED
  BY <1>1, <1>2, <1>3, <1>4 DEF SlabOk

LEMMA SlabAdded ==
  ASSUME NEW a, NEW N, SlabsOk(a, N), NEW s, s \notin DOMAIN a
  PROVE  SlabsOk(WithSlab(a, s), N) /\ Partial(WithSlab(a, s)) = Partial(a) \union {s}
         /\ DOMAIN WithSlab(a, s) = DOMAIN a \union {s}
<1> DEFINE r == WithSlab(a, s)
<1>1. DOMAIN r = DOMAIN a \union {s} /\ r[s] = FreshSlab /\ \A x \in DOMAIN a : r[x] = a[x]
  BY DEF WithSlab
<1> HIDE DEF r
<1>2. IsFiniteSet(DOMAIN r)
  BY <1>1, FS_AddElement DEF SlabsOk
<1>3. InSlab(N, s) = {}
  BY DEF SlabsOk, Housed, InSlab
<1>4. \A x \in DOMAIN r : SlabOk(r[x], Cardinality(InSlab(N, x)))
  BY <1>1, <1>3, FreshOk, FS_EmptySet DEF SlabsOk
<1>5. Housed(r, N)
  BY <1>1 DEF SlabsOk, Housed
<1>6. Partial(r) = Partial(a) \union {s}
  BY <1>1, FreshOk DEF Partial
<1>7. SlabsOk(r, N)
  BY <1>2, <1>4, <1>5 DEF SlabsOk
<1> QED
  BY <1>1, <1>6, <1>7 DEF r

(* Taking the first free slot of a slab for a node. *)
SetSlab(a, s, x) == [a EXCEPT ![s] = x]
WithNode(N, i, p) == [j \in DOMAIN N \union {i} |-> IF j = i THEN p ELSE N[j]]
TakenFrom(x) == [used |-> x.used + 1, free |-> Tail(x.free)]

LEMMA SlotTaken ==
  ASSUME NEW a, NEW N, SlabsOk(a, N), NEW s \in DOMAIN a, a[s].free # << >>, NEW i, i \notin DOMAIN N,
         NEW p, p.slab = s, p.slot = Head(a[s].free)
  PROVE  /\ SlabsOk(SetSlab(a, s, TakenFrom(a[s])), WithNode(N, i, p))
         /\ DOMAIN SetSlab(a, s, TakenFrom(a[s])) = DOMAIN a
<1> DEFINE x == TakenFrom(a[s])
           r == SetSlab(a, s, x)
           M == WithNode(N, i, p)
           l == a[s].free
<1>1. DOMAIN r = DOMAIN a /\ r[s] = x /\ \A t \in DOMAIN a : t # s => r[t] = a[t]
  BY DEF SetSlab
<1>2. DOMAIN M = DOMAIN N \union {i} /\ M[i] = p /\ \A j \in DOMAIN N : M[j] = N[j]
  BY DEF WithNode
<1>3. x.used = a[s].used + 1 /\ x.free = Tail(l) /\ x = [used |-> x.used, free |-> x.free]
  BY DEF TakenFrom
<1> DEFINE n == Cardinality(InSlab(N, s))
<1>4. SlabOk(a[s], n)
  BY DEF SlabsOk
<1> HIDE DEF x, r, M
<1>5. Listed(l, ToSet(l)) /\ l \in Seq(1..PerSlab) /\ l # << >>
  BY <1>4, FreeListed
<1>6. Head(l) \in ToSet(l) /\ Listed(Tail(l), ToSet(l) \ {Head(l)}) /\ Len(Tail(l)) = Len(l) - 1
  BY <1>5, Beheaded
<1>7. Head(l) \in 1..PerSlab /\ Tail(l) \in Seq(1..PerSlab)
  BY <1>5, HeadAndTail, Zenon
<1>8. ToSet(x.free) = ToSet(l) \ {Head(l)} /\ NoDup(x.free)
  BY <1>3, <1>6 DEF Listed
<1>9. IsFiniteSet(DOMAIN M) /\ IsFiniteSet(DOMAIN r)
  BY <1>1, <1>2, FS_AddElement DEF SlabsOk
<1>10. InSlab(M, s) = InSlab(N, s) \union {i} /\ \A t \in DOMAIN a : t # s => InSlab(M, t) = InSlab(N, t)
  BY <1>2 DEF InSlab
<1>11. Cardinality(InSlab(M, s)) = n + 1
  <2>1. IsFiniteSet(InSlab(N, s)) /\ i \notin InSlab(N, s)
    <3>1. InSlab(N, s) \in SUBSET DOMAIN N
      BY DEF InSlab
    <3> QED
      BY <3>1, FS_Subset DEF SlabsOk
  <2> QED
    BY <1>10, <2>1, FS_AddElement
<1>12. SlabOk(r[s], Cardinality(InSlab(M, s)))
  <2>1. x.used \in Nat /\ x.used = n + 1 /\ x.used + Len(x.free) = PerSlab
    <3>1. a[s].used \in Nat /\ a[s].used = n /\ a[s].used + Len(l) = PerSlab
      BY <1>4 DEF SlabOk
    <3>2. Len(l) \in Nat
      BY <1>5
    <3> HIDE DEF n, l
    <3> QED
      BY <1>3, <1>6, <3>1, <3>2
  <2>2. x \in [used : Nat, free : Seq(1..PerSlab)]
    BY <1>3, <1>7, <2>1
  <2> QED
    BY <1>1, <1>8, <1>11, <2>1, <2>2 DEF SlabOk
<1>13. \A t \in DOMAIN r : SlabOk(r[t], Cardinality(InSlab(M, t)))
  BY <1>1, <1>10, <1>12 DEF SlabsOk
<1>14. Housed(r, M)
  <2> SUFFICES ASSUME NEW j \in DOMAIN M PROVE M[j].slab \in DOMAIN r /\ M[j].slot \in (1..PerSlab) \ ToSet(r[M[j].slab].free)
    BY DEF Housed
  <2>1. CASE j = i
    BY <2>1, <1>1, <1>2, <1>7, <1>8
  <2>2. CASE j # i
    <3>1. j \in DOMAIN N /\ M[j] = N[j]
      BY <1>2, <2>2
    <3>2. N[j].slab \in DOMAIN a /\ N[j].slot \in (1..PerSlab) \ ToSet(a[N[j].slab].free)
      BY <3>1 DEF SlabsOk, Housed
    <3>3. CASE N[j].slab = s
      BY <1>1, <1>8, <3>1, <3>2, <3>3
    <3>4. CASE N[j].slab # s
      BY <1>1, <3>1, <3>2, <3>4
    <3> QED
      BY <3>3, <3>4
  <2> QED
    BY <2>1, <2>2
<1>15. Apart(M)
  <2>1. \A j \in DOMAIN N : N[j].slab = s => N[j].slot # Head(l)
    BY <1>6 DEF SlabsOk, Housed
  <2> QED
    BY <1>2, <2>1 DEF Apart, SlabsOk
<1>16. SlabsOk(r, M)
  BY <1>9, <1>13, <1>14, <1>15 DEF SlabsOk
<1> QED
  BY <1>1, <1>16 DEF r, M, x

(* Giving the slot of a node back. *)
Without1(N, i) == [j \in DOMAIN N \ {i} |-> N[j]]
GivenBack(x, k) == [used |-> x.used - 1, free |-> <<k>> \o x.free]

LEMMA SlotBack ==
  ASSUME NEW a, NEW N, SlabsOk(a, N), NEW i \in DOMAIN N, a[N[i].slab].used # 1
  PROVE  /\ SlabsOk(SetSlab(a, N[i].slab, GivenBack(a[N[i].slab], N[i].slot)), Without1(N, i))
         /\ DOMAIN SetSlab(a, N[i].slab, GivenBack(a[N[i].slab], N[i].slot)) = DOMAIN a
<1> DEFINE s == N[i].slab
           k == N[i].slot
           x == GivenBack(a[s], k)
           r == SetSlab(a, s, x)
           M == Without1(N, i)
           l == a[s].free
           n == Cardinality(InSlab(N, s))
<1>1. DOMAIN r = DOMAIN a /\ (s \in DOMAIN a => r[s] = x) /\ \A t \in DOMAIN a : t # s => r[t] = a[t]
  BY DEF SetSlab
<1>2. DOMAIN M = DOMAIN N \ {i} /\ \A j \in DOMAIN M : M[j] = N[j]
  BY DEF Without1
<1>3. x.used = a[s].used - 1 /\ x.free = <<k>> \o l /\ x = [used |-> x.used, free |-> x.free]
  BY DEF GivenBack
<1>4. s \in DOMAIN a /\ k \in (1..PerSlab) \ ToSet(l) /\ SlabOk(a[s], n)
  BY DEF SlabsOk, Housed
<1> HIDE DEF x, r, M
<1>5. Listed(l, ToSet(l)) /\ l \in Seq(1..PerSlab)
  BY <1>4, FreeListed
<1>6. Listed(x.free, ToSet(l) \union {k}) /\ Len(x.free) = Len(l) + 1
  <2> HIDE DEF l, k
  <2>1. Listed(<<k>> \o l, ToSet(l) \union {k}) /\ Len(<<k>> \o l) = Len(l) + 1
    BY <1>4, <1>5, Prepended
  <2> QED
    BY <1>3, <2>1
<1>7. x.free \in Seq(1..PerSlab)
  <2>1. ToSet(l) \subseteq 1..PerSlab
    BY <1>5, SetOf, Zenon
  <2>2. x.free \in Seq(ToSet(l) \union {k})
    BY <1>6, ListedIn
  <2>3. ToSet(l) \union {k} \subseteq 1..PerSlab
    BY <1>4, <2>1
  <2> QED
    BY <2>2, <2>3, WiderSeq, Zenon
<1>8. ToSet(x.free) = ToSet(l) \union {k} /\ NoDup(x.free)
  BY <1>6 DEF Listed
<1>9. IsFiniteSet(DOMAIN M) /\ IsFiniteSet(DOMAIN r)
  BY <1>1, <1>2, FS_RemoveElement DEF SlabsOk
<1>10. InSlab(M, s) = InSlab(N, s) \ {i} /\ \A t \in DOMAIN a : t # s => InSlab(M, t) = InSlab(N, t)
  BY <1>2 DEF InSlab
<1>11. Cardinality(InSlab(M, s)) = n - 1 /\ n \in Nat /\ n # 0
  <2>1. IsFiniteSet(InSlab(N, s)) /\ i \in InSlab(N, s)
    <3>1. InSlab(N, s) \in SUBSET DOMAIN N
      BY DEF InSlab
    <3> QED
      BY <3>1, FS_Subset DEF SlabsOk, InSlab
  <2>2. n # 0 /\ n \in Nat
    BY <2>1, FS_EmptySet, FS_CardinalityType
  <2> QED
    <3>1. InSlab(M, s) = InSlab(N, s) \ {i}
      BY <1>10
    <3>2. Cardinality(InSlab(N, s) \ {i}) = n - 1
      BY <2>1, FS_RemoveElement
    <3> QED BY <2>2, <3>1, <3>2
<1>12. SlabOk(r[s], Cardinality(InSlab(M, s)))
  <2>1. x.used \in Nat /\ x.used = n - 1 /\ x.used + Len(x.free) = PerSlab
    <3>1. a[s].used \in Nat /\ a[s].used = n /\ a[s].used + Len(l) = PerSlab
      BY <1>4 DEF SlabOk
    <3>2. Len(l) \in Nat
      BY <1>5
    <3>3. n \in Nat /\ n # 0
      BY <1>11
    <3>4. x.used = a[s].used - 1 /\ Len(x.free) = Len(l) + 1
      BY <1>3, <1>6
    <3> HIDE DEF n, l, s
    <3> QED
      BY <3>1, <3>2, <3>3, <3>4
  <2>2. x \in [used : Nat, free : Seq(1..PerSlab)]
    BY <1>3, <1>7, <2>1
  <2> QED
    BY <1>1, <1>4, <1>8, <1>11, <2>1, <2>2 DEF SlabOk
<1>13. \A t \in DOMAIN r : SlabOk(r[t], Cardinality(InSlab(M, t)))
  BY <1>1, <1>10, <1>12 DEF SlabsOk
<1>14. Housed(r, M)
  <2> SUFFICES ASSUME NEW j \in DOMAIN M PROVE M[j].slab \in DOMAIN r /\ M[j].slot \in (1..PerSlab) \ ToSet(r[M[j].slab].free)
    BY DEF Housed
  <2>1. j \in DOMAIN N /\ M[j] = N[j] /\ j # i
    BY <1>2
  <2>2. N[j].slab \in DOMAIN a /\ N[j].slot \in (1..PerSlab) \ ToSet(a[N[j].slab].free)
    BY <2>1 DEF SlabsOk, Housed
  <2>3. CASE N[j].slab = s
    <3>1. N[j].slot # k
      BY <2>1, <2>3 DEF SlabsOk, Apart
    <3> QED
      BY <1>1, <1>4, <1>8, <2>1, <2>2, <2>3, <3>1
  <2>4. CASE N[j].slab # s
    BY <1>1, <2>1, <2>2, <2>4
  <2> QED
    BY <2>3, <2>4
<1>15. Apart(M)
  BY <1>2 DEF Apart, SlabsOk
<1>16. SlabsOk(r, M)
  BY <1>9, <1>13, <1>14, <1>15 DEF SlabsOk
<1> QED
  BY <1>1, <1>16 DEF r, M, x

(* Unmapping the slab of its last node. *)
WithoutSlab(a, s) == [x \in DOMAIN a \ {s} |-> a[x]]

LEMMA SlabGone ==
  ASSUME NEW a, NEW N, SlabsOk(a, N), NEW i \in DOMAIN N, a[N[i].slab].used = 1
  PROVE  /\ SlabsOk(WithoutSlab(a, N[i].slab), Without1(N, i))
         /\ DOMAIN WithoutSlab(a, N[i].slab) = DOMAIN a \ {N[i].slab}
         /\ Partial(WithoutSlab(a, N[i].slab)) = Partial(a) \ {N[i].slab}
<1> DEFINE s == N[i].slab
           r == WithoutSlab(a, s)
           M == Without1(N, i)
<1>1. DOMAIN r = DOMAIN a \ {s} /\ \A t \in DOMAIN r : r[t] = a[t]
  BY DEF WithoutSlab
<1>2. DOMAIN M = DOMAIN N \ {i} /\ \A j \in DOMAIN M : M[j] = N[j]
  BY DEF Without1
<1> HIDE DEF r, M
<1>3. s \in DOMAIN a /\ Cardinality(InSlab(N, s)) = 1
  BY DEF SlabsOk, Housed, SlabOk
<1>4. InSlab(N, s) = {i}
  <2>1. i \in InSlab(N, s) /\ InSlab(N, s) \in SUBSET DOMAIN N
    BY DEF InSlab
  <2>2. IsFiniteSet(InSlab(N, s))
    BY <2>1, FS_Subset DEF SlabsOk
  <2>3. PICK x : InSlab(N, s) = {x}
    BY <1>3, <2>2, FS_Singleton
  <2> QED
    BY <2>1, <2>3
<1>5. IsFiniteSet(DOMAIN M) /\ IsFiniteSet(DOMAIN r)
  BY <1>1, <1>2, FS_RemoveElement DEF SlabsOk
<1>6. \A t \in DOMAIN r : InSlab(M, t) = InSlab(N, t)
  BY <1>1, <1>2 DEF InSlab
<1>7. \A t \in DOMAIN r : SlabOk(r[t], Cardinality(InSlab(M, t)))
  BY <1>1, <1>6 DEF SlabsOk
<1>8. Housed(r, M)
  <2> SUFFICES ASSUME NEW j \in DOMAIN M PROVE M[j].slab \in DOMAIN r /\ M[j].slot \in (1..PerSlab) \ ToSet(r[M[j].slab].free)
    BY DEF Housed
  <2>1. j \in DOMAIN N /\ M[j] = N[j] /\ j # i
    BY <1>2
  <2>2. N[j].slab \in DOMAIN a /\ N[j].slot \in (1..PerSlab) \ ToSet(a[N[j].slab].free)
    BY <2>1 DEF SlabsOk, Housed
  <2>3. N[j].slab # s
    BY <1>4, <2>1 DEF InSlab
  <2> QED
    BY <1>1, <2>1, <2>2, <2>3
<1>9. Apart(M)
  BY <1>2 DEF Apart, SlabsOk
<1>10. SlabsOk(r, M)
  BY <1>5, <1>7, <1>8, <1>9 DEF SlabsOk
<1>11. Partial(r) = Partial(a) \ {s}
  BY <1>1 DEF Partial
<1> QED
  BY <1>1, <1>10, <1>11 DEF r, M

(* The two lists hold the slabs with and without a free slot. *)
LEMMA ListsKept ==
  ASSUME NEW a, NEW b, NEW c, Lists(a, b, c), NEW s \in DOMAIN a, NEW x, x.free # << >> <=> a[s].free # << >>
  PROVE  Lists(SetSlab(a, s, x), b, c)
<1> DEFINE r == SetSlab(a, s, x)
<1>1. DOMAIN r = DOMAIN a /\ r[s] = x /\ \A t \in DOMAIN a : t # s => r[t] = a[t]
  BY DEF SetSlab
<1> HIDE DEF r
<1>2. Partial(r) = Partial(a)
  BY <1>1 DEF Partial
<1>3. Lists(r, b, c)
  BY <1>1, <1>2 DEF Lists
<1> QED
  BY <1>3 DEF r

LEMMA ListsFilled ==
  ASSUME NEW a, NEW b, NEW c, Lists(a, b, c), b # << >>, NEW x, x.free = << >>
  PROVE  Lists(SetSlab(a, Head(b), x), Tail(b), Append(c, Head(b)))
<1> DEFINE s == Head(b)
           r == SetSlab(a, s, x)
<1>1. s \in Partial(a) /\ Listed(Tail(b), Partial(a) \ {s})
  BY Beheaded DEF Lists
<1>2. DOMAIN r = DOMAIN a /\ r[s] = x /\ \A t \in DOMAIN a : t # s => r[t] = a[t]
  BY <1>1 DEF SetSlab, Partial
<1> HIDE DEF r
<1>3. Partial(r) = Partial(a) \ {s} /\ DOMAIN r \ Partial(r) = (DOMAIN a \ Partial(a)) \union {s}
  BY <1>1, <1>2 DEF Partial
<1>4. Listed(Append(c, s), (DOMAIN a \ Partial(a)) \union {s})
  BY <1>1, Appended DEF Lists
<1>5. Lists(r, Tail(b), Append(c, s))
  BY <1>1, <1>3, <1>4 DEF Lists
<1> QED
  BY <1>5 DEF r

LEMMA ListsOpened ==
  ASSUME NEW a, NEW b, NEW c, Lists(a, b, c), NEW s \in DOMAIN a, a[s].free = << >>, NEW x, x.free # << >>
  PROVE  Lists(SetSlab(a, s, x), Append(b, s), list_del(c, s))
<1> DEFINE r == SetSlab(a, s, x)
<1>1. DOMAIN r = DOMAIN a /\ r[s] = x /\ \A t \in DOMAIN a : t # s => r[t] = a[t]
  BY DEF SetSlab
<1> HIDE DEF r
<1>2. s \notin Partial(a)
  BY DEF Partial
<1>3. Partial(r) = Partial(a) \union {s} /\ DOMAIN r \ Partial(r) = (DOMAIN a \ Partial(a)) \ {s}
  BY <1>1, <1>2 DEF Partial
<1>4. Listed(Append(b, s), Partial(a) \union {s}) /\ Listed(list_del(c, s), (DOMAIN a \ Partial(a)) \ {s})
  BY <1>2, Appended, ListDel DEF Lists
<1>5. Lists(r, Append(b, s), list_del(c, s))
  BY <1>3, <1>4 DEF Lists
<1> QED
  BY <1>5 DEF r

LEMMA ListsGone ==
  ASSUME NEW a, NEW b, NEW c, Lists(a, b, c), NEW s
  PROVE  Lists(WithoutSlab(a, s), list_del(b, s), list_del(c, s))
<1> DEFINE r == WithoutSlab(a, s)
<1>1. DOMAIN r = DOMAIN a \ {s} /\ \A t \in DOMAIN r : r[t] = a[t]
  BY DEF WithoutSlab
<1> HIDE DEF r
<1>2. Partial(r) = Partial(a) \ {s} /\ DOMAIN r \ Partial(r) = (DOMAIN a \ Partial(a)) \ {s}
  BY <1>1 DEF Partial
<1>3. Listed(list_del(b, s), Partial(a) \ {s}) /\ Listed(list_del(c, s), (DOMAIN a \ Partial(a)) \ {s})
  BY ListDel DEF Lists
<1>4. Lists(r, list_del(b, s), list_del(c, s))
  BY <1>2, <1>3 DEF Lists
<1> QED
  BY <1>4 DEF r

-----------------------------------------------------------------------------
(* The memory of the nodes: slabs and lists together. *)
Mem(a, b, c) == [slabs |-> a, partial |-> b, full |-> c]
MemOk(m, N) == \E a, b, c : m = Mem(a, b, c) /\ SlabsOk(a, N) /\ Lists(a, b, c)

LEMMA MemParts ==
  ASSUME NEW a, NEW b, NEW c, NEW N, MemOk(Mem(a, b, c), N)
  PROVE  SlabsOk(a, N) /\ Lists(a, b, c)
<1>1. PICK x, y, z : Mem(a, b, c) = Mem(x, y, z) /\ SlabsOk(x, N) /\ Lists(x, y, z)
  BY Zenon DEF MemOk
<1>2. a = x /\ b = y /\ c = z
  BY <1>1 DEF Mem
<1> QED
  BY <1>1, <1>2

LEMMA AllocSlab ==
  ASSUME NEW a, NEW c, NEW N, SlabsOk(a, N), Lists(a, << >>, c)
  PROVE  \E r, s : /\ alloc_slab(Mem(a, << >>, c)) = Mem(r, <<s>>, c)
                   /\ SlabsOk(r, N) /\ Lists(r, <<s>>, c)
<1> DEFINE D == DOMAIN a
           s == CHOOSE x \in 1..(Cardinality(D) + 1) : x \notin D
           r == WithSlab(a, s)
<1>1. s \notin D
  BY NumberForSlab DEF SlabsOk
<1>2. alloc_slab(Mem(a, << >>, c)) = Mem(r, <<s>>, c)
  <2> DEFINE t == Mem(a, << >>, c)
             l == Append(t.partial, s)
  <2>1. t.slabs = a /\ l = <<s>>
    BY DEF Mem
  <2>2. alloc_slab(t) = [t EXCEPT !.slabs = r, !.partial = l]
    <3> HIDE DEF t, l
    <3> QED
      BY <2>1 DEF alloc_slab, WithSlab, l
  <2> HIDE DEF r, l, s
  <2>3. [t EXCEPT !.slabs = r, !.partial = l] = Mem(r, l, c)
    <3> DEFINE u == [t EXCEPT !.slabs = r]
    <3>1. u = Mem(r, << >>, c)
      BY DEF Mem
    <3>2. [t EXCEPT !.slabs = r, !.partial = l] = [u EXCEPT !.partial = l]
      OBVIOUS
    <3> HIDE DEF u
    <3>3. [u EXCEPT !.partial = l] = Mem(r, l, c)
      BY <3>1 DEF Mem
    <3> QED
      BY <3>2, <3>3
  <2> QED
    BY <2>1, <2>2, <2>3
<1> HIDE DEF s
<1>3. SlabsOk(r, N) /\ Partial(r) = Partial(a) \union {s} /\ DOMAIN r = DOMAIN a \union {s}
  BY <1>1, SlabAdded
<1> HIDE DEF r
<1>4. Partial(a) = {}
  BY DEF Lists, Listed, ToSet
<1>5. Listed(<<s>>, {s})
  <2>1. Listed(Append(<< >>, s), {} \union {s})
    BY EmptyList, Appended
  <2> QED
    BY <2>1
<1>6. Lists(r, <<s>>, c)
  <2>1. DOMAIN r \ Partial(r) = DOMAIN a \ Partial(a) /\ Partial(r) = {s}
    BY <1>1, <1>3, <1>4
  <2> QED
    BY <1>5, <2>1 DEF Lists
<1> QED
  BY <1>2, <1>3, <1>6

TakeSlot(m, s) == [m EXCEPT !.slabs[s] = [used |-> @.used + 1, free |-> Tail(@.free)]]
LEMMA TakeSlotMem ==
  ASSUME NEW a, NEW b, NEW c, NEW s
  PROVE  TakeSlot(Mem(a, b, c), s) = Mem(SetSlab(a, s, TakenFrom(a[s])), b, c)
<1> DEFINE t == Mem(a, b, c)
           x == TakenFrom(a[s])
<1>1. t.slabs = a
  BY DEF Mem
<1>2. TakeSlot(t, s) = [t EXCEPT !.slabs[s] = x]
  <2> HIDE DEF t
  <2> QED
    BY <1>1 DEF TakeSlot, TakenFrom
<1> HIDE DEF x
<1>3. [t EXCEPT !.slabs[s] = x] = Mem(SetSlab(a, s, x), b, c)
  BY DEF Mem, SetSlab
<1> QED
  BY <1>2, <1>3 DEF x

Filled(m, s) == [m EXCEPT !.partial = Tail(@), !.full = Append(@, s)]
LEMMA FilledMem ==
  ASSUME NEW a, NEW b, NEW c, NEW s
  PROVE  Filled(Mem(a, b, c), s) = Mem(a, Tail(b), Append(c, s))
<1> DEFINE t == Mem(a, b, c)
           y == Tail(b)
           z == Append(c, s)
<1>1. t.partial = b /\ t.full = c
  BY DEF Mem
<1>2. Filled(t, s) = [t EXCEPT !.partial = y, !.full = z]
  <2> HIDE DEF t
  <2> QED
    BY <1>1 DEF Filled
<1> HIDE DEF y, z
<1>3. [t EXCEPT !.partial = y, !.full = z] = Mem(a, y, z)
  <2> DEFINE u == [t EXCEPT !.partial = y]
  <2>1. u = Mem(a, y, c)
    BY DEF Mem
  <2>2. [t EXCEPT !.partial = y, !.full = z] = [u EXCEPT !.full = z]
    OBVIOUS
  <2> HIDE DEF u
  <2>3. [u EXCEPT !.full = z] = Mem(a, y, z)
    BY <2>1 DEF Mem
  <2> QED
    BY <2>2, <2>3
<1> QED
  BY <1>2, <1>3 DEF y, z

(* alloc_node gives a slot nobody has. *)
LEMMA AllocOk ==
  ASSUME NEW m0, NEW N, MemOk(m0, N), NEW i, i \notin DOMAIN N,
         NEW p, p.slab = alloc_node(m0).slab, p.slot = alloc_node(m0).slot
  PROVE  MemOk(alloc_node(m0).m, WithNode(N, i, p))
<1> DEFINE m == IF m0.partial = << >> THEN alloc_slab(m0) ELSE m0
           s == Head(m.partial)
           slot == Head(m.slabs[s].free)
           n == TakeSlot(m, s)
           e == IF n.slabs[s].free = << >> THEN Filled(n, s) ELSE n
<1>1. alloc_node(m0) = [slab |-> s, slot |-> slot, m |-> e]
  BY DEF alloc_node, TakeSlot, Filled
<1>2. p.slab = s /\ p.slot = slot /\ alloc_node(m0).m = e
  <2> HIDE DEF s, slot, e
  <2> QED
    BY <1>1
<1>3. \E a, b, c : m = Mem(a, b, c) /\ b # << >> /\ SlabsOk(a, N) /\ Lists(a, b, c)
  <2>1. PICK a, b, c : m0 = Mem(a, b, c) /\ SlabsOk(a, N) /\ Lists(a, b, c)
    BY Zenon DEF MemOk
  <2>2. m0.partial = b
    BY <2>1 DEF Mem
  <2>3. CASE b = << >>
    <3>1. PICK r, x : /\ alloc_slab(Mem(a, << >>, c)) = Mem(r, <<x>>, c)
                      /\ SlabsOk(r, N) /\ Lists(r, <<x>>, c)
      BY <2>1, <2>3, AllocSlab
    <3>2. m = Mem(r, <<x>>, c) /\ <<x>> # << >>
      BY <2>1, <2>2, <2>3, <3>1
    <3> HIDE DEF m
    <3> QED
      BY <3>1, <3>2
  <2>4. CASE b # << >>
    <3>1. m = Mem(a, b, c)
      BY <2>1, <2>2, <2>4
    <3> HIDE DEF m
    <3> QED
      BY <2>1, <2>4, <3>1
  <2> QED
    BY <2>3, <2>4
<1> HIDE DEF m
<1>4. PICK a, b, c : m = Mem(a, b, c) /\ b # << >> /\ SlabsOk(a, N) /\ Lists(a, b, c)
  BY <1>3
<1>5. s = Head(b) /\ m.slabs = a
  BY <1>4 DEF Mem
<1>6. s \in DOMAIN a /\ a[s].free # << >>
  <2>1. Listed(b, Partial(a))
    BY <1>4 DEF Lists
  <2>2. Head(b) \in Partial(a)
    BY <1>4, <2>1, Beheaded
  <2> QED
    BY <1>5, <2>2 DEF Partial
<1>7. slot = Head(a[s].free)
  BY <1>5
<1> HIDE DEF slot, s
<1> DEFINE x == TakenFrom(a[s])
           r == SetSlab(a, s, x)
           M == WithNode(N, i, p)
<1>8. SlabsOk(r, M) /\ DOMAIN r = DOMAIN a
  BY <1>2, <1>4, <1>6, <1>7, SlotTaken
<1>9. n = Mem(r, b, c)
  <2>1. TakeSlot(Mem(a, b, c), s) = Mem(SetSlab(a, s, TakenFrom(a[s])), b, c)
    BY TakeSlotMem, Zenon
  <2> QED
    BY <1>4, <2>1
<1>10. r[s] = x /\ n.slabs = r
  BY <1>6, <1>9 DEF SetSlab, Mem
<1> HIDE DEF n
<1>11. CASE x.free = << >>
  <2>1. e = Mem(r, Tail(b), Append(c, s))
    <3>1. e = Filled(n, s)
      BY <1>10, <1>11
    <3> HIDE DEF r
    <3>2. Filled(Mem(r, b, c), s) = Mem(r, Tail(b), Append(c, s))
      BY FilledMem
    <3> QED
      BY <1>9, <3>1, <3>2
  <2> HIDE DEF x
  <2>2. Lists(r, Tail(b), Append(c, s))
    BY <1>4, <1>5, <1>11, ListsFilled
  <2> HIDE DEF e, r, M
  <2>3. MemOk(e, M)
    BY <1>8, <2>1, <2>2 DEF MemOk
  <2> QED
    BY <1>2, <2>3 DEF M
<1>12. CASE x.free # << >>
  <2>1. e = n
    BY <1>10, <1>12
  <2> HIDE DEF x
  <2>2. Lists(r, b, c)
    BY <1>4, <1>6, <1>12, ListsKept
  <2> HIDE DEF e, r, M
  <2>3. MemOk(e, M)
    BY <1>8, <1>9, <2>1, <2>2 DEF MemOk
  <2> QED
    BY <1>2, <2>3 DEF M
<1> QED
  BY <1>11, <1>12

Opened(m, s) == [m EXCEPT !.full = list_del(@, s), !.partial = Append(@, s)]
PutSlot(m, s, k) == [m EXCEPT !.slabs[s] = [used |-> @.used - 1, free |-> <<k>> \o @.free]]

LEMMA OpenedMem ==
  ASSUME NEW a, NEW b, NEW c, NEW s
  PROVE  Opened(Mem(a, b, c), s) = Mem(a, Append(b, s), list_del(c, s))
<1> DEFINE t == Mem(a, b, c)
           y == Append(b, s)
           z == list_del(c, s)
           u == [t EXCEPT !.full = z]
<1>1. t.partial = b /\ t.full = c
  BY DEF Mem
<1>2. u = Mem(a, b, z) /\ u.partial = b
  <2> HIDE DEF y, z
  <2> QED
    BY DEF Mem
<1>3. Opened(t, s) = [u EXCEPT !.partial = y]
  <2>1. Opened(t, s) = [t EXCEPT !.full = z, !.partial = y]
    <3> HIDE DEF t
    <3> QED
      BY <1>1 DEF Opened
  <2> HIDE DEF y, z, t
  <2> QED
    BY <2>1
<1>4. [u EXCEPT !.partial = y] = Mem(a, y, z)
  <2> HIDE DEF u, y, z
  <2> QED
    BY <1>2 DEF Mem
<1> QED
  BY <1>3, <1>4

LEMMA PutSlotMem ==
  ASSUME NEW a, NEW b, NEW c, NEW s, NEW k
  PROVE  PutSlot(Mem(a, b, c), s, k) = Mem(SetSlab(a, s, GivenBack(a[s], k)), b, c)
<1> DEFINE t == Mem(a, b, c)
           x == GivenBack(a[s], k)
<1>1. t.slabs = a
  BY DEF Mem
<1>2. PutSlot(t, s, k) = [t EXCEPT !.slabs[s] = x]
  <2> HIDE DEF t
  <2> QED
    BY <1>1 DEF PutSlot, GivenBack
<1> HIDE DEF x
<1>3. [t EXCEPT !.slabs[s] = x] = Mem(SetSlab(a, s, x), b, c)
  BY DEF Mem, SetSlab
<1> QED
  BY <1>2, <1>3 DEF x

(* free_node_mem takes the slot of one node back and touches no other. *)
LEMMA FreeOk ==
  ASSUME NEW m, NEW N, MemOk(m, N), NEW i \in DOMAIN N
  PROVE  MemOk(free_node_mem(m, N[i].slab, N[i].slot), Without1(N, i))
<1> DEFINE s == N[i].slab
           k == N[i].slot
           M == Without1(N, i)
           r == free_node_mem(m, s, k)
<1>1. PICK a, b, c : m = Mem(a, b, c) /\ SlabsOk(a, N) /\ Lists(a, b, c)
  BY Zenon DEF MemOk
<1>2. m.slabs = a /\ m.partial = b /\ m.full = c
  BY <1>1 DEF Mem
<1>3. s \in DOMAIN a
  BY <1>1 DEF SlabsOk, Housed
<1>4. CASE a[s].used = 1
  <2> DEFINE d == WithoutSlab(a, s)
             y == list_del(b, s)
             z == list_del(c, s)
  <2>1. r = Mem(d, y, z)
    BY <1>2, <1>4 DEF free_node_mem, free_slab, Mem, WithoutSlab
  <2>2. SlabsOk(d, M)
    BY <1>1, <1>4, SlabGone
  <2>3. Lists(d, y, z)
    BY <1>1, ListsGone
  <2> HIDE DEF d, y, z, r, M
  <2>4. MemOk(r, M)
    BY <2>1, <2>2, <2>3 DEF MemOk
  <2> QED
    BY <2>4 DEF r, M
<1>5. CASE a[s].used # 1
  <2> DEFINE x == GivenBack(a[s], k)
             d == SetSlab(a, s, x)
             n == IF m.slabs[s].free = << >> THEN Opened(m, s) ELSE m
  <2>1. r = PutSlot(n, s, k)
    BY <1>2, <1>5 DEF free_node_mem, PutSlot, Opened
  <2>2. SlabsOk(d, M)
    BY <1>1, <1>5, SlotBack
  <2>3. x.free # << >>
    <3>1. x.free = <<k>> \o a[s].free
      BY DEF GivenBack
    <3>2. SlabOk(a[s], Cardinality(InSlab(N, s))) /\ k \notin ToSet(a[s].free)
      BY <1>1, <1>3 DEF SlabsOk, Housed
    <3>3. Listed(a[s].free, ToSet(a[s].free)) /\ a[s].free \in Seq(1..PerSlab)
      BY <3>2, FreeListed
    <3>4. Len(<<k>> \o a[s].free) = Len(a[s].free) + 1 /\ Len(a[s].free) \in Nat
      BY <3>2, <3>3, Prepended
    <3>5. Len(<< >>) = 0
      OBVIOUS
    <3> QED
      BY <3>1, <3>4, <3>5
  <2> HIDE DEF x
  <2>4. CASE a[s].free = << >>
    <3> DEFINE y == Append(b, s)
               z == list_del(c, s)
    <3>1. n = Mem(a, y, z)
      <4>1. n = Opened(m, s)
        BY <1>2, <2>4
      <4>2. Opened(Mem(a, b, c), s) = Mem(a, y, z)
        BY OpenedMem
      <4> QED
        BY <1>1, <4>1, <4>2
    <3>2. Lists(d, y, z)
      BY <1>1, <1>3, <2>3, <2>4, ListsOpened
    <3> HIDE DEF n, y, z
    <3>3. r = Mem(d, y, z)
      <4>1. PutSlot(Mem(a, y, z), s, k) = Mem(SetSlab(a, s, GivenBack(a[s], k)), y, z)
        BY PutSlotMem
      <4> QED
        BY <2>1, <3>1, <4>1 DEF x
    <3> HIDE DEF d, r, M
    <3>4. MemOk(r, M)
      BY <2>2, <3>2, <3>3 DEF MemOk
    <3> QED
      BY <3>4 DEF r, M
  <2>5. CASE a[s].free # << >>
    <3>1. n = Mem(a, b, c)
      BY <1>1, <1>2, <2>5
    <3>2. Lists(d, b, c)
      BY <1>1, <1>3, <2>3, <2>5, ListsKept
    <3> HIDE DEF n
    <3>3. r = Mem(d, b, c)
      <4>1. PutSlot(Mem(a, b, c), s, k) = Mem(SetSlab(a, s, GivenBack(a[s], k)), b, c)
        BY PutSlotMem
      <4> QED
        BY <2>1, <3>1, <4>1 DEF x
    <3> HIDE DEF d, r, M
    <3>4. MemOk(r, M)
      BY <2>2, <3>2, <3>3 DEF MemOk
    <3> QED
      BY <3>4 DEF r, M
  <2> QED
    BY <2>4, <2>5
<1> QED
  BY <1>4, <1>5

-----------------------------------------------------------------------------
(* The inductive invariant of the table. *)
TableInv ==
  /\ Ids \in SUBSET Numbers /\ IsFiniteSet(Ids) /\ FUSE_ROOT_ID \in Ids
  /\ TableOk(table, Ids)
  /\ MemOk(NodeMem, node)
  /\ GivenOk(given, idCtr)

LEMMA NodeMemIs == NodeMem = Mem(slabs, partial, full)
  BY DEF NodeMem, Mem

LEMMA SetMemIs ==
  ASSUME NEW m, NEW N, MemOk(m, N), SetMem(m)
  PROVE  MemOk(Mem(slabs', partial', full'), N)
<1>1. PICK a, b, c : m = Mem(a, b, c) /\ SlabsOk(a, N) /\ Lists(a, b, c)
  BY Zenon DEF MemOk
<1>2. slabs' = a /\ partial' = b /\ full' = c
  BY <1>1 DEF SetMem, Mem
<1> QED
  BY <1>1, <1>2 DEF MemOk

LEMMA NewTableOk == TableOk(NewTable, {})
<1> DEFINE n == NODE_TABLE_MIN_SIZE
<1>1. n \in Sizes /\ 0 \in 0..(n \div 2)
  BY FirstSize, SizeHalves
<1>2. Contents(n, 0, {}) = [b \in 0..(n - 1) |-> {}]
  BY DEF Contents
<1>3. NewTable = TableAs(n, 0, {})
  BY <1>2, FS_EmptySet DEF NewTable, TableAs, Tbl
<1> HIDE DEF n
<1> QED
  BY <1>1, <1>3, Zenon DEF TableOk

LEMMA NoMemOk == MemOk(Mem(<< >>, << >>, << >>), << >>)
<1>1. DOMAIN << >> = {}
  OBVIOUS
<1>2. SlabsOk(<< >>, << >>)
  BY <1>1, FS_EmptySet DEF SlabsOk, Housed, Apart
<1>3. Lists(<< >>, << >>, << >>)
  <2>1. Partial(<< >>) = {} /\ (DOMAIN << >>) \ Partial(<< >>) = {}
    BY <1>1 DEF Partial
  <2> QED
    BY <2>1, EmptyList DEF Lists
<1> QED
  BY <1>2, <1>3 DEF MemOk

LEMMA TableStarts == TableInit => TableInv
<1> SUFFICES ASSUME TableInit PROVE TableInv
  OBVIOUS
<1> DEFINE m0 == Mem(<< >>, << >>, << >>)
           a == alloc_node(m0)
           p == [gen |-> 0, slab |-> a.slab, slot |-> a.slot]
<1>1. FUSE_ROOT_ID \in Numbers /\ FUSE_ROOT_ID \in AllIds /\ 0 \in AllIds
  BY TableAssumption DEF FUSE_ROOT_ID, Numbers, AllIds
<1>2. /\ table = hash_id(NewTable, FUSE_ROOT_ID, TRUE) /\ idCtr = [ctr |-> 0, gen |-> 0]
      /\ slabs = a.m.slabs /\ partial = a.m.partial /\ full = a.m.full
      /\ node = [i \in {FUSE_ROOT_ID} |-> p] /\ given = {<<FUSE_ROOT_ID, 0>>}
  BY DEF TableInit, Mem
<1>3. TableOk(table, Ids) /\ Ids = {FUSE_ROOT_ID}
  <2>1. Ids = {FUSE_ROOT_ID} /\ {} \union {FUSE_ROOT_ID} = {FUSE_ROOT_ID}
    BY <1>2 DEF Ids
  <2>2. TableOk(hash_id(NewTable, FUSE_ROOT_ID, TRUE), {} \union {FUSE_ROOT_ID})
    <3>1. {} \in SUBSET AllIds /\ IsFiniteSet({}) /\ FUSE_ROOT_ID \in AllIds \ {} /\ TRUE \in BOOLEAN
      BY <1>1, FS_EmptySet
    <3> QED
      BY <3>1, NewTableOk, AddOk
  <2> QED
    BY <1>2, <2>1, <2>2
<1>4. node = WithNode(<< >>, FUSE_ROOT_ID, p)
  BY <1>2 DEF WithNode
<1>5. MemOk(a.m, node)
  <2>1. p.slab = a.slab /\ p.slot = a.slot
    OBVIOUS
  <2>2. FUSE_ROOT_ID \notin DOMAIN << >>
    OBVIOUS
  <2> HIDE DEF p
  <2>3. MemOk(alloc_node(m0).m, WithNode(<< >>, FUSE_ROOT_ID, p))
    BY <2>1, <2>2, NoMemOk, AllocOk
  <2> QED
    BY <1>4, <2>3
<1>6. MemOk(NodeMem, node)
  <2> HIDE DEF a
  <2>1. PICK x, y, z : a.m = Mem(x, y, z) /\ SlabsOk(x, node) /\ Lists(x, y, z)
    BY <1>5, Zenon DEF MemOk
  <2>2. slabs = x /\ partial = y /\ full = z
    BY <1>2, <2>1 DEF Mem
  <2>3. NodeMem = Mem(x, y, z)
    BY <2>2, NodeMemIs
  <2> QED
    BY <2>1, <2>3 DEF MemOk
<1>7. GivenOk(given, idCtr)
  BY <1>1, <1>2 DEF GivenOk
<1>8. IsFiniteSet(Ids)
  BY <1>3, FS_Singleton
<1> QED
  BY <1>1, <1>3, <1>6, <1>7, <1>8 DEF TableInv

LEMMA Made ==
  ASSUME TableInv, MakeNode
  PROVE  /\ TableInv' /\ given' # given
<1> DEFINE a == alloc_node(NodeMem)
           c == next_id(table, idCtr)
           i == c.ctr
           p == [gen |-> c.gen, slab |-> a.slab, slot |-> a.slot]
<1>1. /\ Cardinality(Ids) < IdSpace - 3
      /\ SetMem(a.m) /\ idCtr' = c
      /\ node' = WithNode(node, i, p)
      /\ given' = given \union {<<c.ctr, c.gen>>}
      /\ \E ok \in BOOLEAN : table' = hash_id(table, i, ok)
  BY DEF MakeNode, WithNode, Ids
<1>2. /\ Ids \in SUBSET Numbers /\ IsFiniteSet(Ids) /\ FUSE_ROOT_ID \in Ids
      /\ TableOk(table, Ids) /\ MemOk(NodeMem, node) /\ GivenOk(given, idCtr)
  BY DEF TableInv
<1>3. Cardinality(Ids) < IdSpace - 2
  <2>1. Cardinality(Ids) \in Nat /\ IdSpace \in Nat
    BY <1>2, FS_CardinalityType, TableAssumption
  <2> QED
    BY <1>1, <2>1
<1>4. /\ i \in Numbers \ Ids /\ <<c.ctr, c.gen>> \notin given
      /\ GivenOk(given \union {<<c.ctr, c.gen>>}, c)
  BY <1>2, <1>3, NextOk
<1> HIDE DEF a, c
<1>5. Ids' = Ids \union {i}
  BY <1>1 DEF Ids, WithNode
<1>6. IsFiniteSet(Ids') /\ Ids' \in SUBSET Numbers /\ FUSE_ROOT_ID \in Ids'
  BY <1>2, <1>4, <1>5, FS_AddElement
<1>7. TableOk(table', Ids')
  <2>1. PICK ok \in BOOLEAN : table' = hash_id(table, i, ok)
    BY <1>1
  <2>2. Ids \in SUBSET AllIds /\ i \in AllIds \ Ids
    BY <1>2, <1>4, TableAssumption DEF Numbers, AllIds
  <2>3. TableOk(hash_id(table, i, ok), Ids \union {i})
    BY <1>2, <2>2, AddOk
  <2> QED
    BY <1>5, <2>1, <2>3
<1>8. MemOk(NodeMem', node')
  <2>1. p.slab = a.slab /\ p.slot = a.slot
    OBVIOUS
  <2>2. i \notin DOMAIN node
    BY <1>4 DEF Ids
  <2> HIDE DEF p, i
  <2>3. MemOk(alloc_node(NodeMem).m, WithNode(node, i, p))
    BY <1>2, <2>1, <2>2, AllocOk DEF a
  <2>4. MemOk(Mem(slabs', partial', full'), node')
    BY <1>1, <2>3, SetMemIs DEF a
  <2> QED
    BY <2>4 DEF NodeMem, Mem
<1>9. GivenOk(given', idCtr')
  BY <1>1, <1>4
<1>10. given' # given
  BY <1>1, <1>4
<1> QED
  BY <1>6, <1>7, <1>8, <1>9, <1>10 DEF TableInv

LEMMA Deleted ==
  ASSUME TableInv, NEW i \in Ids, delete_node(i)
  PROVE  TableInv' /\ i \notin Ids'
<1>1. /\ i # FUSE_ROOT_ID /\ table' = unhash_id(table, i)
      /\ SetMem(free_node_mem(NodeMem, node[i].slab, node[i].slot))
      /\ node' = Without1(node, i) /\ idCtr' = idCtr /\ given' = given
  BY DEF delete_node, Without1, Ids
<1>2. /\ Ids \in SUBSET Numbers /\ IsFiniteSet(Ids) /\ FUSE_ROOT_ID \in Ids
      /\ TableOk(table, Ids) /\ MemOk(NodeMem, node) /\ GivenOk(given, idCtr)
  BY DEF TableInv
<1>3. Ids' = Ids \ {i}
  BY <1>1 DEF Ids, Without1
<1>4. IsFiniteSet(Ids') /\ Ids' \in SUBSET Numbers /\ FUSE_ROOT_ID \in Ids'
  BY <1>1, <1>2, <1>3, FS_RemoveElement
<1>5. TableOk(table', Ids')
  <2>1. Ids \in SUBSET AllIds
    BY <1>2, TableAssumption DEF Numbers, AllIds
  <2>2. TableOk(unhash_id(table, i), Ids \ {i})
    BY <1>2, <2>1, DropOk
  <2> QED
    BY <1>1, <1>3, <2>2
<1>6. MemOk(NodeMem', node')
  <2>1. i \in DOMAIN node
    BY DEF Ids
  <2>2. MemOk(free_node_mem(NodeMem, node[i].slab, node[i].slot), Without1(node, i))
    BY <1>2, <2>1, FreeOk
  <2>3. MemOk(Mem(slabs', partial', full'), node')
    BY <1>1, <2>2, SetMemIs
  <2> QED
    BY <2>3 DEF NodeMem, Mem
<1>7. GivenOk(given', idCtr')
  BY <1>1, <1>2
<1> QED
  BY <1>3, <1>4, <1>5, <1>6, <1>7 DEF TableInv

LEMMA TableKeeps == TableInv /\ [TableNext]_tableVars => TableInv'
<1> SUFFICES ASSUME TableInv, [TableNext]_tableVars PROVE TableInv'
  OBVIOUS
<1>1. CASE MakeNode
  BY <1>1, Made
<1>2. CASE \E i \in Ids : delete_node(i)
  <2>1. PICK i \in Ids : delete_node(i)
    BY <1>2
  <2> QED
    BY <2>1, Deleted
<1>3. CASE UNCHANGED tableVars
  BY <1>3 DEF TableInv, tableVars, Ids, NodeMem
<1> QED
  BY <1>1, <1>2, <1>3 DEF TableNext

LEMMA InvFinds == TableInv => TableFinds
<1> SUFFICES ASSUME TableInv PROVE TableFinds
  OBVIOUS
<1>1. /\ Ids \in SUBSET Numbers /\ IsFiniteSet(Ids) /\ TableOk(table, Ids) /\ MemOk(NodeMem, node)
      /\ Ids \in SUBSET AllIds /\ Numbers \subseteq AllIds
  BY TableAssumption DEF TableInv, Numbers, AllIds
<1>2. PICK size \in Sizes : \E split \in 0..(size \div 2) : table = TableAs(size, split, Ids)
  BY <1>1, Zenon DEF TableOk
<1>3. PICK split \in 0..(size \div 2) : table = TableAs(size, split, Ids)
  BY <1>2
<1>4. table.size = size /\ table.split = split /\ table.use = Cardinality(Ids) /\ table.array = Contents(size, split, Ids)
  BY <1>3 DEF TableAs, Tbl
<1>5. /\ DOMAIN table.array = 0..(size - 1)
      /\ \A b \in 0..(size - 1) : table.array[b] = {i \in Ids : BucketOf(size, split, i) = b}
  BY <1>4 DEF Contents
<1>6. NodeFound
  <2>1. \A i \in 1..(IdSpace - 2) : get_node_nocheck(table, i) <=> i \in Ids
    BY <1>1, Found DEF Numbers
  <2> QED
    BY <1>4, <1>5, <2>1 DEF NodeFound
<1>7. UpperEmpty
  <2>1. ASSUME NEW b \in 0..(size - 1), b >= split + size \div 2 PROVE table.array[b] = {}
    <3>1. \A i \in Ids : BucketOf(size, split, i) < split + size \div 2 /\ BucketOf(size, split, i) \in 0..(size - 1)
      BY <1>1, BucketIn
    <3>2. size \div 2 \in Nat
      BY SizeHalves
    <3>3. \A i \in Ids : BucketOf(size, split, i) # b
      BY <2>1, <3>1, <3>2
    <3> QED
      BY <1>5, <3>3
  <2>2. split <= size \div 2
    OBVIOUS
  <2> QED
    BY <1>4, <1>5, <2>1, <2>2 DEF UpperEmpty
<1>8. SlabsOk(slabs, node) /\ Lists(slabs, partial, full)
  BY <1>1, NodeMemIs, MemParts
<1>9. SlabsExact
  <2>1. \A i, j \in Ids : i # j => <<node[i].slab, node[i].slot>> # <<node[j].slab, node[j].slot>>
    BY <1>8 DEF SlabsOk, Apart, Ids
  <2>2. \A i \in Ids : node[i].slab \in DOMAIN slabs /\ node[i].slot \notin ToSet(slabs[node[i].slab].free)
    BY <1>8 DEF SlabsOk, Housed, Ids
  <2>3. \A s \in DOMAIN slabs : slabs[s].used = Cardinality({i \in Ids : node[i].slab = s})
                                /\ slabs[s].used + Len(slabs[s].free) = PerSlab
    BY <1>8 DEF SlabsOk, SlabOk, Ids, InSlab
  <2>4. ToSet(partial) = {s \in DOMAIN slabs : slabs[s].free # << >>}
    BY <1>8 DEF Lists, Listed, Partial
  <2>5. ToSet(full) = DOMAIN slabs \ ToSet(partial)
    BY <1>8 DEF Lists, Listed
  <2> QED
    BY <2>1, <2>2, <2>3, <2>4, <2>5 DEF SlabsExact
<1> QED
  BY <1>6, <1>7, <1>9 DEF TableFinds

(* The inductive invariant holds throughout. *)
LEMMA TableAlways == TableSpec => []TableInv
<1>1. TableInit => TableInv
  BY TableStarts
<1>2. TableInv /\ [TableNext]_tableVars => TableInv'
  BY TableKeeps
<1> QED
  BY <1>1, <1>2, PTL DEF TableSpec

(* However the table of nodes has been split, merged, doubled and halved (rehash_id,     *)
(* remerge_id, node_table_resize, node_table_reduce), get_node finds every node and no   *)
(* other, and every node has memory of its own (alloc_node, free_node_mem).              *)
THEOREM NodesFound == TableSpec => []TableFinds
<1>1. TableInv => TableFinds
  BY InvFinds
<1> QED
  BY <1>1, TableAlways, PTL

(* A node made by find_node never gets the id and generation that another node, dead or  *)
(* alive, was given (next_id), through any number of wraps of the counter.               *)
THEOREM IdentitiesUnique == TableSpec => IdentityUnique
<1>1. TableInv /\ [TableNext]_tableVars
        => [Ids # DOMAIN node' /\ Ids \subseteq DOMAIN node' => given' # given]_tableVars
  <2> SUFFICES ASSUME TableInv, TableNext, Ids # DOMAIN node', Ids \subseteq DOMAIN node' PROVE given' # given
    OBVIOUS
  <2>1. CASE MakeNode
    BY <2>1, Made
  <2>2. CASE \E i \in Ids : delete_node(i)
    <3>1. PICK i \in Ids : delete_node(i)
      BY <2>2
    <3>2. i \notin DOMAIN node'
      BY <3>1, Deleted DEF Ids
    <3> QED
      BY <3>2
  <2> QED
    BY <2>1, <2>2 DEF TableNext
<1> QED
  BY <1>1, TableAlways, PTL DEF TableSpec, IdentityUnique

-----------------------------------------------------------------------------
(* Reading a directory: sizes of buffers *)

(* Doubling reaches every size. *)
LEMMA DoublingReaches ==
  ASSUME NEW n \in Nat \ {0}, NEW min \in Nat
  PROVE  DoubledSize(n, min) \in Nat /\ DoubledSize(n, min) >= min
<1> DEFINE T(t) == t = [k \in Nat |-> IF k = 0 THEN n ELSE 2 * t[k - 1]]
           step == [x \in Nat \X Nat |-> 2 * x[1]]
           doubled == CHOOSE t : T(t)
           Q(k) == doubled[k] >= min /\ \A j \in 0..(k - 1) : doubled[j] < min
<1>1. PICK h : Iterates(h, Nat, n, step)
  <2>1. StepIn(step, Nat)
    BY DEF StepIn
  <2> HIDE DEF step
  <2> QED BY <2>1, RecursionExists
<1>2. \A k \in Nat : h[k] = IF k = 0 THEN n ELSE 2 * h[k - 1]
  <2> TAKE k \in Nat
  <2>1. CASE k = 0
    BY <1>1, <2>1 DEF Iterates
  <2>2. CASE k # 0
    <3>1. k - 1 \in Nat /\ k - 1 + 1 = k
      BY <2>2
    <3>2. h[k - 1] \in Nat /\ h[k] = step[<<h[k - 1], k>>]
      BY <1>1, <3>1 DEF Iterates
    <3> QED BY <2>2, <3>2
  <2> QED BY <2>1, <2>2
<1>3. T(h)
  BY <1>1, <1>2 DEF Iterates
<1>4. T(doubled)
  BY <1>3
<1>5. DoubledSize(n, min) = doubled[CHOOSE k \in 0..min : Q(k)]
  BY DEF DoubledSize
<1> HIDE DEF doubled
<1>6. doubled[0] = n /\ \A k \in Nat : doubled[k + 1] = 2 * doubled[k]
  BY <1>4
<1> DEFINE P == {k \in Nat : doubled[k] \in Nat /\ doubled[k] > k}
<1>7. \A k \in Nat : k \in P
  <2>1. 0 \in P
    BY <1>6
  <2>2. ASSUME NEW k \in Nat, k \in P PROVE k + 1 \in P
    BY <1>6, <2>2
  <2> HIDE DEF P
  <2> QED BY <2>1, <2>2, InductionOn
<1> DEFINE R == {k \in Nat : doubled[k] >= min}
<1>8. PICK k \in R : \A j \in R : k <= j
  <2>1. min \in R
    BY <1>7
  <2> HIDE DEF R
  <2> QED BY <2>1, SmallestOf DEF R
<1>9. min \in R
  BY <1>7
<1>10. k \in 0..min /\ Q(k)
  BY <1>7, <1>8, <1>9
<1>11. (CHOOSE j \in 0..min : Q(j)) \in 0..min /\ Q(CHOOSE j \in 0..min : Q(j))
  <2> HIDE DEF Q
  <2> QED BY <1>10
<1> QED BY <1>5, <1>7, <1>11

-----------------------------------------------------------------------------
(* What a handle holds while the file system gives its entries *)

Entries == 1..EntryCount
Errors == {"ok", "EIO", "fs"}
Given == [entry : Entries, off : Nat]
DhType == [filled : BOOLEAN, first : Seq(Entries), len : Nat, size : Nat, needlen : Nat, out : Seq(Given),
           error : Errors, stop : BOOLEAN, lookups : SUBSET Entries]
HasOffset(i) == EntryOffset[dirMode][i] # 0

(* The entries that follow p, in order, each with the offset behind it. *)
Follows(out, p) == \A k \in 1..Len(out) : out[k] = [entry |-> p + k, off |-> p + k]
InBuffer(h) == h.len <= h.size /\ h.len <= h.needlen

Asked(plus) == plus = TRUE

(* After the entries p + 1 .. i were offered: nothing yet, or the buffer holds them up to  *)
(* the one that did not fit, or the list holds them, or they are of both kinds.            *)
Untouched(h, p, i) == i = p /\ h.error = "ok" /\ h.filled = TRUE /\ h.stop = FALSE /\ h.first = << >> /\ h.out = << >>
Buffered(h, p, i) ==
  /\ h.error = "ok" /\ h.filled = FALSE /\ h.first = << >> /\ Follows(h.out, p) /\ p + Len(h.out) <= i /\ h.out # << >>
  /\ h.stop = FALSE => p + Len(h.out) = i
  /\ h.stop = TRUE => p + Len(h.out) < i
  /\ \A j \in p + 1 .. i : j <= p + Len(h.out) + 1 => HasOffset(j)
Collected(h, p, i) ==
  /\ i > p /\ h.error = "ok" /\ h.filled = TRUE /\ h.stop = FALSE /\ h.out = << >>
  /\ Len(h.first) = i - p /\ \A k \in 1..Len(h.first) : h.first[k] = p + k
  /\ \A j \in p + 1 .. i : ~HasOffset(j)
OfBothKinds(h, p, i) ==
  /\ h.error = "EIO" /\ h.stop = TRUE
  /\ (\E j \in p + 1 .. i : HasOffset(j)) /\ (\E j \in p + 1 .. i : ~HasOffset(j))
Offered(h, p, i, plus) ==
  /\ h \in DhType /\ InBuffer(h) /\ (h.out = << >> => h.len = 0)
  /\ Asked(plus) => \A k \in 1..Len(h.out) : h.out[k].entry \in h.lookups
  /\ Untouched(h, p, i) \/ Buffered(h, p, i) \/ Collected(h, p, i) \/ OfBothKinds(h, p, i)
  /\ \E size \in BufferSizes : h.needlen = size

LEMMA Extended ==
  ASSUME NEW h \in DhType, NEW min \in Nat
  PROVE  /\ extend_contents(h, min) \in DhType /\ extend_contents(h, min).size >= min
         /\ extend_contents(h, min).size >= h.size
         /\ \E s \in Nat : extend_contents(h, min) = [h EXCEPT !.size = s]
<1>1. CASE min <= h.size
  <2>1. extend_contents(h, min) = h /\ h = [h EXCEPT !.size = h.size] /\ h.size \in Nat
    BY <1>1 DEF extend_contents, DhType
  <2> QED BY <1>1, <2>1
<1>2. CASE min > h.size
  <2> DEFINE n == IF h.size = 0 THEN 1024 ELSE h.size
             s == DoubledSize(n, min)
  <2>1. n \in Nat \ {0}
    BY DEF DhType
  <2>2. s \in Nat /\ s >= min
    <3> HIDE DEF n
    <3> QED BY <2>1, DoublingReaches
  <2>3. extend_contents(h, min) = [h EXCEPT !.size = s]
    BY <1>2 DEF extend_contents
  <2> HIDE DEF s
  <2> QED BY <1>2, <2>2, <2>3 DEF DhType
<1>3. h.size \in Nat
  BY DEF DhType
<1> QED BY <1>1, <1>2, <1>3

LEMMA SizesOfEntries ==
  ASSUME NEW i \in Entries, NEW plus \in BOOLEAN
  PROVE  EntrySize(i, plus) \in Nat /\ \A size \in BufferSizes : EntrySize(i, plus) <= size
<1>1. NameLen[i] \in Nat
  BY ReadDirAssumption DEF ReadDirAssumption, Entries, EntryCount
<1> DEFINE l == NameLen[i]
           big == ((152 + l + 7) \div 8) * 8
<1>2. \A size \in BufferSizes : size \in Nat /\ big <= size
  BY ReadDirAssumption DEF ReadDirAssumption, Entries, EntryCount
<1>3. EntrySize(i, plus) = big \/ EntrySize(i, plus) = ((24 + l + 7) \div 8) * 8
  BY DEF EntrySize, fuse_add_direntry, fuse_add_direntry_plus, FUSE_DIRENT_ALIGN, FUSE_NAME_OFFSET, FUSE_NAME_OFFSET_DIRENTPLUS
<1> HIDE DEF l
<1>4. big \in Nat /\ ((24 + l + 7) \div 8) * 8 \in Nat /\ ((24 + l + 7) \div 8) * 8 <= big
  BY <1>1 DEF l
<1> QED BY <1>2, <1>3, <1>4

(* What the filler makes of an entry with an offset, field by field. *)
FieldsOf(g, a, i, plus) ==
  /\ g \in DhType /\ g.filled = FALSE /\ g.first = << >> /\ g.needlen = a.needlen /\ g.error = a.error
  /\ g.lookups = a.lookups /\ g.size >= a.needlen /\ g.size >= a.size
  /\ IF a.len + EntrySize(i, plus) > a.needlen
     THEN g.stop = TRUE /\ g.len = a.len /\ g.out = a.out
     ELSE /\ g.stop = a.stop /\ g.len = a.len + EntrySize(i, plus)
          /\ g.out = Append(a.out, [entry |-> i, off |-> i])

LEMMA BufferFields ==
  ASSUME NEW a \in DhType, NEW i \in Entries, NEW plus \in BOOLEAN, a.first = << >>, NEW g, g = FillBuffer(a, i, i, plus)
  PROVE  FieldsOf(g, a, i, plus)
<1> DEFINE c == extend_contents(a, a.needlen)
           b == [c EXCEPT !.filled = FALSE]
           l == a.len + EntrySize(i, plus)
<1>1. a.needlen \in Nat /\ a.len \in Nat /\ EntrySize(i, plus) \in Nat
  BY SizesOfEntries DEF DhType
<1>2a. c \in DhType /\ c.size >= a.needlen /\ c.size >= a.size /\ \E s \in Nat : c = [a EXCEPT !.size = s]
  BY <1>1, Extended
<1>2. b \in DhType /\ b.size = c.size /\ b.filled = FALSE /\ b.needlen = c.needlen /\ b.len = c.len /\ b.out = c.out
      /\ b.stop = c.stop /\ b.error = c.error /\ b.first = c.first /\ b.lookups = c.lookups
  <2> HIDE DEF c
  <2> QED BY <1>2a DEF DhType
<1>3. /\ b.size >= a.needlen /\ b.size >= a.size /\ b.needlen = a.needlen /\ b.len = a.len /\ b.out = a.out /\ b.stop = a.stop /\ b.error = a.error
      /\ b.first = << >> /\ b.lookups = a.lookups
  <2> HIDE DEF b, c
  <2> QED BY <1>2, <1>2a DEF DhType
<1> DEFINE e == [entry |-> i, off |-> i]
<1>4. g = IF l > a.needlen THEN [b EXCEPT !.stop = TRUE] ELSE [b EXCEPT !.len = l, !.out = Append(@, e)]
  BY Zenon DEF FillBuffer
<1>5. e \in Given /\ i \in Nat
  BY DEF Given, Entries, EntryCount
<1> HIDE DEF b, c, e
<1>6. CASE l > a.needlen
  <2>1. g = [b EXCEPT !.stop = TRUE]
    BY <1>4, <1>6
  <2> QED BY <1>2, <1>3, <1>6, <2>1 DEF DhType, FieldsOf
<1>7. CASE ~(l > a.needlen)
  <2>1. g = [b EXCEPT !.len = l, !.out = Append(@, e)]
    BY <1>4, <1>7
  <2>2. Append(b.out, e) \in Seq(Given) /\ l \in Nat
    BY <1>1, <1>2, <1>5 DEF DhType
  <2> HIDE DEF l
  <2>3. g \in DhType
    BY <1>2, <2>1, <2>2 DEF DhType
  <2>4. g.out = Append(b.out, e) /\ g.len = l /\ g.filled = FALSE /\ g.stop = b.stop /\ g.first = b.first
        /\ g.needlen = b.needlen /\ g.error = b.error /\ g.lookups = b.lookups /\ g.size = b.size
    BY <1>2, <2>1 DEF DhType
  <2> QED BY <1>2, <1>3, <1>7, <2>3, <2>4 DEF l, e, FieldsOf
<1> QED BY <1>6, <1>7

(* An entry looked up. *)
SameButLookups(a, h) ==
  /\ a \in DhType /\ a.filled = h.filled /\ a.first = h.first /\ a.len = h.len /\ a.size = h.size
  /\ a.needlen = h.needlen /\ a.out = h.out /\ a.error = h.error /\ a.stop = h.stop /\ h.lookups \subseteq a.lookups

LEMMA NowLookedUp ==
  ASSUME NEW h \in DhType, NEW i \in Entries, NEW plus \in BOOLEAN,
         NEW a, a = IF plus THEN [h EXCEPT !.lookups = @ \union {i}] ELSE h
  PROVE  SameButLookups(a, h) /\ (Asked(plus) => i \in a.lookups)
BY DEF DhType, SameButLookups, Asked

(* An entry with an offset. *)
LEMMA WithOffset ==
  ASSUME dirMode \in DOMAIN EntryOffset, NEW p \in Nat, NEW i \in Nat, p <= i, i + 1 \in Entries, NEW plus \in BOOLEAN,
         NEW h, Offered(h, p, i, plus), h.stop = FALSE, HasOffset(i + 1),
         NEW a, SameButLookups(a, h), Asked(plus) => i + 1 \in a.lookups, NEW g, g = FillBuffer(a, i + 1, i + 1, plus)
  PROVE  Offered(g, p, i + 1, plus)
<1>0. h \in DhType /\ InBuffer(h)
  BY DEF Offered
<1>1. /\ a \in DhType /\ a.filled = h.filled /\ a.first = h.first /\ a.len = h.len /\ a.size = h.size /\ a.needlen = h.needlen
      /\ a.out = h.out /\ a.error = h.error /\ a.stop = h.stop /\ h.lookups \subseteq a.lookups /\ (Asked(plus) => i + 1 \in a.lookups)
  BY DEF SameButLookups
<1>2. CASE Collected(h, p, i)
  <2>1. Len(h.first) # 0 /\ h.first # << >>
    <3>1. Len(h.first) = i - p /\ i > p
      BY <1>2 DEF Collected
    <3>2. Len(h.first) # 0
      BY <3>1
    <3> QED BY <3>2
  <2>2. g = [a EXCEPT !.error = "EIO", !.stop = TRUE]
    BY <1>1, <2>1 DEF FillBuffer
  <2>3. g \in DhType /\ g.error = "EIO" /\ g.stop = TRUE /\ InBuffer(g) /\ g.out = << >> /\ g.len = h.len /\ g.needlen = h.needlen
    BY <1>0, <1>1, <1>2, <2>2 DEF DhType, Errors, InBuffer, Collected
  <2>4. i \in p + 1 .. i + 1 /\ i + 1 \in p + 1 .. i + 1 /\ ~HasOffset(i)
    <3>1. i > p /\ \A j \in p + 1 .. i : ~HasOffset(j)
      BY <1>2 DEF Collected
    <3>2. i \in p + 1 .. i /\ i \in p + 1 .. i + 1 /\ i + 1 \in p + 1 .. i + 1
      BY <3>1
    <3> QED BY <3>1, <3>2, Zenon
  <2>5. OfBothKinds(g, p, i + 1)
    BY <2>3, <2>4 DEF OfBothKinds
  <2>6. h.len = 0
    BY <1>2 DEF Collected, Offered
  <2> QED BY <2>3, <2>5, <2>6 DEF Offered
<1>3. CASE Untouched(h, p, i) \/ Buffered(h, p, i)
  <2>1. h.first = << >> /\ h.error = "ok" /\ Follows(h.out, p) /\ p + Len(h.out) = i /\ h.out \in Seq(Given)
    <3>1. h.out \in Seq(Given)
      BY <1>0 DEF DhType
    <3>2. CASE Untouched(h, p, i)
      BY <3>1, <3>2 DEF Untouched, Follows
    <3>3. CASE Buffered(h, p, i)
      BY <3>1, <3>3 DEF Buffered
    <3> QED BY <1>3, <3>2, <3>3
  <2>2. \A j \in p + 1 .. i : HasOffset(j)
    <3>1. CASE Untouched(h, p, i)
      BY <3>1 DEF Untouched
    <3>2. CASE Buffered(h, p, i)
      <4>1. \A j \in p + 1 .. i : j <= i + 1 => HasOffset(j)
        BY <2>1, <3>2 DEF Buffered
      <4> QED BY <4>1
    <3> QED BY <1>3, <3>1, <3>2
  <2>3. /\ g \in DhType /\ g.filled = FALSE /\ g.first = << >> /\ g.needlen = h.needlen /\ g.error = "ok"
        /\ g.lookups = a.lookups /\ g.size >= h.needlen /\ g.size >= h.size
        /\ IF h.len + EntrySize(i + 1, plus) > h.needlen
           THEN g.stop = TRUE /\ g.len = h.len /\ g.out = h.out
           ELSE /\ g.stop = FALSE /\ g.len = h.len + EntrySize(i + 1, plus)
                /\ g.out = Append(h.out, [entry |-> i + 1, off |-> i + 1])
    <3>1. a.stop = FALSE
      BY <1>0, <1>1 DEF DhType
    <3>2. a \in DhType /\ a.first = << >>
      BY <1>1, <2>1
    <3>3. /\ g \in DhType /\ g.filled = FALSE /\ g.first = << >> /\ g.needlen = a.needlen /\ g.error = a.error
          /\ g.lookups = a.lookups /\ g.size >= a.needlen /\ g.size >= a.size
          /\ IF a.len + EntrySize(i + 1, plus) > a.needlen
             THEN g.stop = TRUE /\ g.len = a.len /\ g.out = a.out
             ELSE /\ g.stop = a.stop /\ g.len = a.len + EntrySize(i + 1, plus)
                  /\ g.out = Append(a.out, [entry |-> i + 1, off |-> i + 1])
      <4> DEFINE x == i + 1
      <4>1. x \in Entries /\ plus \in BOOLEAN /\ g = FillBuffer(a, x, x, plus)
        OBVIOUS
      <4> HIDE DEF x
      <4>2. FieldsOf(g, a, x, plus)
        BY <3>2, <4>1, BufferFields, Zenon
      <4> QED BY <4>2 DEF FieldsOf, x
    <3> QED BY <1>1, <2>1, <3>1, <3>3, Zenon
  <2>4. h.len \in Nat /\ h.needlen \in Nat /\ EntrySize(i + 1, plus) \in Nat /\ g.size \in Nat /\ h.size \in Nat
        /\ \A size \in BufferSizes : EntrySize(i + 1, plus) <= size
    BY <1>0, <2>3, SizesOfEntries DEF DhType
  <2>5. \E size \in BufferSizes : g.needlen = size
    BY <2>3 DEF Offered
  <2>6. CASE h.len + EntrySize(i + 1, plus) > h.needlen
    <3>1. h.out # << >>
      <4>1. h.len # 0
        BY <2>3, <2>4, <2>5, <2>6
      <4> QED BY <4>1 DEF Offered
    <3>2. Buffered(g, p, i + 1)
      BY <2>1, <2>2, <2>3, <2>6, <3>1 DEF Buffered
    <3>3. InBuffer(g)
      BY <1>0, <2>3, <2>4, <2>6 DEF InBuffer
    <3>4. Asked(plus) => \A k \in 1..Len(g.out) : g.out[k].entry \in g.lookups
      BY <1>1, <2>3, <2>6 DEF Offered
    <3> QED BY <2>3, <2>5, <2>6, <3>1, <3>2, <3>3, <3>4 DEF Offered
  <2>7. CASE ~(h.len + EntrySize(i + 1, plus) > h.needlen)
    <3> DEFINE e == [entry |-> i + 1, off |-> i + 1]
               n == Len(h.out)
    <3>1. g.out = Append(h.out, e) /\ Len(g.out) = n + 1 /\ g.out[n + 1] = e /\ g.out # << >> /\ n \in Nat
          /\ \A k \in 1..n : g.out[k] = h.out[k]
      BY <2>1, <2>3, <2>7
    <3>2. p + n = i
      BY <2>1
    <3> HIDE DEF n
    <3>2a. p + (n + 1) = i + 1
      BY <3>1, <3>2
    <3> HIDE DEF e
    <3>3. Follows(g.out, p)
      <4> SUFFICES ASSUME NEW k \in 1..Len(g.out) PROVE g.out[k] = [entry |-> p + k, off |-> p + k]
        BY DEF Follows
      <4>1. CASE k = n + 1
        BY <3>1, <3>2a, <4>1 DEF e
      <4>2. CASE k \in 1..n
        BY <2>1, <3>1, <4>2 DEF Follows, n
      <4>3. k = n + 1 \/ k \in 1..n
        BY <3>1
      <4> QED BY <4>1, <4>2, <4>3
    <3>4. Buffered(g, p, i + 1)
      <4>1. \A j \in p + 1 .. i + 1 : j \in p + 1 .. i \/ j = i + 1
        OBVIOUS
      <4>2. \A j \in p + 1 .. i + 1 : HasOffset(j)
        BY <2>2, <4>1, Zenon
      <4>3. Len(g.out) = n + 1 /\ p + Len(g.out) = i + 1 /\ g.stop = FALSE /\ g.out # << >>
        BY <2>3, <2>7, <3>1, <3>2a
      <4> QED BY <2>3, <3>3, <4>2, <4>3 DEF Buffered
    <3>5. InBuffer(g)
      BY <2>3, <2>4, <2>7 DEF InBuffer
    <3>6. Asked(plus) => \A k \in 1..Len(g.out) : g.out[k].entry \in g.lookups
      <4> SUFFICES ASSUME Asked(plus), NEW k \in 1..Len(g.out) PROVE g.out[k].entry \in g.lookups
        OBVIOUS
      <4>1. CASE k = n + 1
        <5>1. g.out[k].entry = i + 1
          BY <3>1, <4>1 DEF e
        <5> QED BY <1>1, <2>3, <5>1
      <4>2. CASE k \in 1..n
        BY <1>1, <2>3, <3>1, <4>2 DEF Offered, n
      <4>3. k = n + 1 \/ k \in 1..n
        BY <3>1
      <4> QED BY <4>1, <4>2, <4>3
    <3> QED BY <2>3, <2>5, <3>1, <3>4, <3>5, <3>6 DEF Offered
  <2> QED BY <2>6, <2>7
<1>4. ~OfBothKinds(h, p, i)
  BY DEF OfBothKinds
<1> QED BY <1>2, <1>3, <1>4 DEF Offered

(* An entry without an offset. *)
LEMMA WithoutOffset ==
  ASSUME NEW p \in Nat, NEW i \in Nat, p <= i, i + 1 \in Entries, NEW plus \in BOOLEAN,
         NEW h, Offered(h, p, i, plus), h.stop = FALSE, ~HasOffset(i + 1), NEW g, g = FillList(h, i + 1)
  PROVE  Offered(g, p, i + 1, plus)
<1>0. h \in DhType /\ InBuffer(h)
  BY DEF Offered
<1>1. CASE Buffered(h, p, i)
  <2>1. h.filled = FALSE
    BY <1>1 DEF Buffered
  <2>2. g = [h EXCEPT !.error = "EIO", !.stop = TRUE]
    BY <2>1 DEF FillList
  <2>3. g \in DhType /\ g.error = "EIO" /\ g.stop = TRUE /\ g.len = h.len /\ g.needlen = h.needlen /\ g.size = h.size
        /\ g.out = h.out /\ g.lookups = h.lookups
    BY <1>0, <2>2 DEF DhType, Errors
  <2>4. Len(h.out) \in Nat /\ Len(h.out) # 0 /\ p + Len(h.out) = i /\ \A j \in p + 1 .. i : j <= i + 1 => HasOffset(j)
    <3>1. h.out \in Seq(Given)
      BY <1>0 DEF DhType
    <3>2. h.out # << >> /\ p + Len(h.out) = i /\ \A j \in p + 1 .. i : j <= p + Len(h.out) + 1 => HasOffset(j)
      BY <1>1 DEF Buffered
    <3> QED BY <3>1, <3>2
  <2>5. i \in p + 1 .. i /\ i <= i + 1 /\ i \in p + 1 .. i + 1 /\ i + 1 \in p + 1 .. i + 1
    BY <2>4
  <2>6. OfBothKinds(g, p, i + 1)
    <3>1. HasOffset(i)
      BY <2>4, <2>5, Zenon
    <3> QED BY <2>3, <2>5, <3>1 DEF OfBothKinds
  <2> QED BY <1>0, <2>3, <2>6 DEF Offered, InBuffer
<1>2. CASE Untouched(h, p, i) \/ Collected(h, p, i)
  <2>1. h.filled = TRUE /\ h.error = "ok" /\ h.out = << >> /\ h.first \in Seq(Entries) /\ Len(h.first) = i - p
        /\ \A k \in 1..Len(h.first) : h.first[k] = p + k
    <3>1. h.first \in Seq(Entries)
      BY <1>0 DEF DhType
    <3>2. CASE Untouched(h, p, i)
      BY <3>1, <3>2 DEF Untouched
    <3>3. CASE Collected(h, p, i)
      BY <3>1, <3>3 DEF Collected
    <3> QED BY <1>2, <3>2, <3>3
  <2>2. g = [h EXCEPT !.first = Append(@, i + 1)]
    BY <2>1 DEF FillList, fuse_add_direntry_to_dh
  <2> DEFINE l == Append(h.first, i + 1)
             n == Len(h.first)
  <2>3. l \in Seq(Entries) /\ Len(l) = i + 1 - p /\ \A k \in 1..Len(l) : l[k] = p + k
    <3>1. l \in Seq(Entries) /\ Len(l) = n + 1 /\ l[n + 1] = i + 1 /\ n \in Nat /\ \A k \in 1..n : l[k] = h.first[k]
      <4>1. h.first \in Seq(Entries)
        BY <2>1
      <4>2. n \in Nat
        BY <4>1
      <4> QED BY <4>1, <4>2, AppendProperties
    <3>2. n = i - p /\ \A k \in 1..n : h.first[k] = p + k
      BY <2>1
    <3> HIDE DEF l, n
    <3>3. n + 1 = i + 1 - p /\ p + (n + 1) = i + 1 /\ \A k \in 1..n + 1 : k \in 1..n \/ k = n + 1
      BY <3>1, <3>2
    <3>4. \A k \in 1..n + 1 : l[k] = p + k
      BY <3>1, <3>2, <3>3
    <3> QED BY <3>1, <3>3, <3>4
  <2>3a. g = [h EXCEPT !.first = l]
    BY <2>2
  <2> HIDE DEF l
  <2>4. /\ g \in DhType /\ g.first = l /\ g.filled = TRUE /\ g.stop = FALSE /\ g.error = "ok" /\ g.out = << >> /\ g.len = h.len
        /\ g.needlen = h.needlen /\ g.size = h.size /\ g.lookups = h.lookups
    BY <1>0, <2>1, <2>3, <2>3a DEF DhType
  <2>5. \A j \in p + 1 .. i + 1 : ~HasOffset(j)
    <3>1. \A j \in p + 1 .. i : ~HasOffset(j)
      BY <1>2 DEF Untouched, Collected
    <3>2. \A j \in p + 1 .. i + 1 : j \in p + 1 .. i \/ j = i + 1
      OBVIOUS
    <3> QED BY <3>1, <3>2, Zenon
  <2>6. Collected(g, p, i + 1)
    BY <2>3, <2>4, <2>5 DEF Collected
  <2>7. g.len = 0
    BY <2>1, <2>4 DEF Offered
  <2>8. \E size \in BufferSizes : g.needlen = size
    BY <2>4 DEF Offered
  <2>9. InBuffer(g)
    BY <1>0, <2>4 DEF InBuffer
  <2>10. \A k \in 1..Len(g.out) : FALSE
    BY <2>4
  <2> QED BY <2>4, <2>6, <2>7, <2>8, <2>9, <2>10 DEF Offered
<1>3. ~OfBothKinds(h, p, i)
  BY DEF OfBothKinds
<1> QED BY <1>1, <1>2, <1>3 DEF Offered

(* The next entry is offered. *)
LEMMA NextOffered ==
  ASSUME dirMode \in DOMAIN EntryOffset, NEW p \in Nat, NEW i \in Nat, p <= i, i + 1 \in Entries, NEW plus \in BOOLEAN,
         NEW h, Offered(h, p, i, plus)
  PROVE  Offered(GiveEntry(h, i + 1, plus), p, i + 1, plus)
<1> DEFINE g == GiveEntry(h, i + 1, plus)
<1>0. h \in DhType
  BY DEF Offered
<1>1. EntryOffset[dirMode][i + 1] = i + 1 \/ ~HasOffset(i + 1)
  BY ReadDirAssumption DEF ReadDirAssumption, HasOffset, Entries, EntryCount
<1>2. CASE h.stop = TRUE
  <2>1. g = h
    BY <1>2 DEF GiveEntry
  <2>2. ~Untouched(h, p, i) /\ ~Collected(h, p, i)
    BY <1>2 DEF Untouched, Collected
  <2>3. Buffered(h, p, i) => Buffered(h, p, i + 1)
    <3> SUFFICES ASSUME Buffered(h, p, i) PROVE Buffered(h, p, i + 1)
      OBVIOUS
    <3>1. h.out \in Seq(Given) /\ Len(h.out) \in Nat
      BY <1>0 DEF DhType
    <3> DEFINE n == Len(h.out)
    <3>2. p + n < i /\ \A j \in p + 1 .. i : j <= p + n + 1 => HasOffset(j)
      BY <1>2 DEF Buffered
    <3>3. \A j \in p + 1 .. i + 1 : j <= p + n + 1 => j \in p + 1 .. i
      BY <3>1, <3>2
    <3>4. \A j \in p + 1 .. i + 1 : j <= p + n + 1 => HasOffset(j)
      BY <3>2, <3>3, Zenon
    <3>5. p + n < i + 1 /\ p + n <= i + 1
      BY <3>1, <3>2
    <3> QED BY <1>2, <3>4, <3>5 DEF Buffered
  <2>4. OfBothKinds(h, p, i) => OfBothKinds(h, p, i + 1)
    <3>1. \A j \in p + 1 .. i : j \in p + 1 .. i + 1
      OBVIOUS
    <3> QED BY <3>1, Zenon DEF OfBothKinds
  <2> QED BY <2>1, <2>2, <2>3, <2>4 DEF Offered
<1>3. CASE h.stop = FALSE
  <2> DEFINE a == IF plus THEN [h EXCEPT !.lookups = @ \union {i + 1}] ELSE h
             o == EntryOffset[dirMode][i + 1]
  <2>1. SameButLookups(a, h) /\ (Asked(plus) => i + 1 \in a.lookups)
    BY <1>0, NowLookedUp
  <2>2. g = IF o # 0 THEN FillBuffer(a, i + 1, o, plus) ELSE FillList(h, i + 1)
    BY <1>3, Zenon DEF GiveEntry, fill_dir, fill_dir_plus
  <2> HIDE DEF a
  <2>3. CASE HasOffset(i + 1)
    <3>1. g = FillBuffer(a, i + 1, i + 1, plus)
      BY <1>1, <2>2, <2>3 DEF HasOffset
    <3> HIDE DEF g
    <3>2. Offered(g, p, i + 1, plus)
      BY <1>3, <2>1, <2>3, <3>1, WithOffset
    <3> QED BY <3>2 DEF g
  <2>4. CASE ~HasOffset(i + 1)
    <3>1. g = FillList(h, i + 1)
      BY <2>2, <2>4 DEF HasOffset
    <3> HIDE DEF g
    <3>2. Offered(g, p, i + 1, plus)
      BY <1>3, <2>4, <3>1, WithoutOffset
    <3> QED BY <3>2 DEF g
  <2> QED BY <2>3, <2>4
<1>4. h.stop = TRUE \/ h.stop = FALSE
  BY <1>0 DEF DhType
<1> QED BY <1>2, <1>3, <1>4

(* All entries behind p are offered. *)
LEMMA AllOffered ==
  ASSUME dirMode \in DOMAIN EntryOffset, NEW p \in 0..EntryCount, NEW plus \in BOOLEAN, NEW h, Offered(h, p, p, plus)
  PROVE  Offered(FsReaddir(h, p + 1, plus), p, EntryCount, plus)
<1> DEFINE n == EntryCount
           One(x, i) == IF i < p + 1 THEN h ELSE GiveEntry(x, i, plus)
           T(t) == t = [i \in 0..n |-> One(t[i - 1], i)]
           G == [i \in 0..n |-> {x \in DhType : IF i < p THEN x = h ELSE Offered(x, p, i, plus)}]
           step == [z \in DhType \X Nat |-> One(z[1], z[2])]
           turns == CHOOSE t : T(t)
<1>0. n \in Nat /\ p \in Nat /\ h \in DhType
  BY ReadDirAssumption DEF ReadDirAssumption, EntryCount, Offered
<1>1. h \in G[0]
  BY <1>0
<1>2. \A i \in 1..n : \A x \in G[i - 1] : One(x, i) \in G[i] /\ x \in DhType
  <2> TAKE i \in 1..n
  <2> TAKE x \in G[i - 1]
  <2>0. i - 1 \in 0..n /\ i \in 0..n
    BY <1>0
  <2>1. CASE i < p + 1
    <3>1. i < p \/ i = p
      BY <1>0, <2>1
    <3> QED BY <1>0, <2>0, <2>1, <3>1
  <2>2. CASE ~(i < p + 1)
    <3> DEFINE j == i - 1
    <3>1. j \in Nat /\ p <= j /\ j + 1 = i /\ j + 1 \in Entries /\ ~(j < p) /\ ~(i < p)
      BY <1>0, <2>2 DEF Entries
    <3>2. x \in DhType /\ Offered(x, p, j, plus)
      BY <2>0, <3>1
    <3> HIDE DEF j
    <3>3. Offered(GiveEntry(x, j + 1, plus), p, j + 1, plus)
      BY <1>0, <3>1, <3>2, NextOffered
    <3>4. One(x, i) = GiveEntry(x, j + 1, plus)
      BY <2>2, <3>1
    <3> HIDE DEF One
    <3>5. One(x, i) \in DhType /\ Offered(One(x, i), p, i, plus)
      BY <3>1, <3>3, <3>4 DEF Offered
    <3> QED BY <2>0, <3>1, <3>2, <3>5
  <2> QED BY <2>1, <2>2
<1> HIDE DEF G
<1>3. \A i \in 1..n : \A x \in G[i - 1] : step[<<x, i>>] = One(x, i) /\ step[<<x, i>>] \in G[i]
  <2> HIDE DEF One
  <2> QED BY <1>0, <1>2
<1> HIDE DEF step
<1>3a. PICK f : Through(f, n) /\ Turning(f, n, h, step) /\ StaysWithin(f, n, G)
  <2>1. StepsWithin(step, n, G)
    BY <1>3 DEF StepsWithin
  <2> HIDE DEF n
  <2> QED BY <1>0, <1>1, <2>1, RecursionWithin
<1>4. /\ f = [i \in 0..n |-> f[i]] /\ f[0] = h
      /\ \A i \in 1..n : f[i] = step[<<f[i - 1], i>>]
      /\ \A i \in 0..n : f[i] \in G[i]
  BY <1>3a DEF Through, Turning, StaysWithin
<1>5. T(f)
  <2>1. f[0] = One(f[0 - 1], 0)
    BY <1>0, <1>4
  <2>2. ASSUME NEW i \in 1..n PROVE f[i] = One(f[i - 1], i)
    <3>1. i - 1 \in 0..n
      BY <1>0
    <3> HIDE DEF One
    <3> QED BY <1>3, <1>4, <3>1
  <2>3. \A i \in 0..n : i = 0 \/ i \in 1..n
    BY <1>0
  <2> HIDE DEF One
  <2>4. \A i \in 0..n : f[i] = One(f[i - 1], i)
    BY <2>1, <2>2, <2>3
  <2> QED BY <1>4, <2>4
<1>6. T(turns)
  <2> HIDE DEF T
  <2> QED BY <1>5
<1>7. FsReaddir(h, p + 1, plus) = turns[n]
  BY DEF FsReaddir
<1> HIDE DEF turns
<1>8. turns = f
  <2>1. Through(turns, n)
    BY <1>6 DEF Through
  <2>2. turns[0] = f[0]
    BY <1>0, <1>4, <1>6
  <2>3. ASSUME NEW i \in 1..n, turns[i - 1] = f[i - 1] PROVE turns[i] = f[i]
    <3>1. i \in 0..n
      BY <1>0
    <3>2. turns[i] = One(turns[i - 1], i) /\ f[i] = One(f[i - 1], i)
      BY <1>5, <1>6, <3>1
    <3> HIDE DEF One
    <3> QED BY <2>3, <3>2
  <2>4. AgreeFurther(turns, f, n)
    BY <2>2, <2>3 DEF AgreeFurther
  <2> HIDE DEF n
  <2> QED BY <1>0, <1>3a, <2>1, <2>4, RecursionOnly
<1>9. turns[n] \in G[n] /\ n \in 0..n /\ ~(n < p)
  BY <1>0, <1>4, <1>8
<1>10. Offered(turns[n], p, n, plus)
  BY <1>9 DEF G
<1> QED BY <1>7, <1>10

-----------------------------------------------------------------------------
(* A page from the list *)

(* The part of the list behind off, up to pos, or to the first entry that did not fit. *)
Paged(h, g, off, pos) ==
  /\ g \in DhType /\ InBuffer(g) /\ g.filled = h.filled /\ g.error = h.error /\ g.first = h.first /\ g.lookups = h.lookups
  /\ g.needlen = h.needlen /\ g.size >= g.needlen
  /\ off + Len(g.out) <= (IF pos <= off THEN off ELSE pos)
  /\ \A k \in 1..Len(g.out) : g.out[k] = [entry |-> h.first[off + k], off |-> off + k]
  /\ g.out = << >> => g.len = 0 /\ pos <= off

LEMMA NextPaged ==
  ASSUME NEW h \in DhType, NEW size \in BufferSizes, h.needlen = size, NEW off \in Nat, NEW plus \in BOOLEAN,
         NEW i \in Nat, i >= off, i + 1 <= Len(h.first), NEW x, Paged(h, x, off, i), NEW g, g = ListEntry(x, i + 1, off, plus)
  PROVE  Paged(h, g, off, i + 1)
<1> DEFINE n == Len(x.out)
           l == x.len + EntrySize(x.first[i + 1], plus)
           e == [entry |-> x.first[i + 1], off |-> i + 1]
<1>1. x \in DhType /\ InBuffer(x) /\ x.first = h.first /\ x.needlen = size /\ off + n <= i /\ x.size >= size
  <2>1. off + n <= (IF i <= off THEN off ELSE i)
    BY DEF Paged
  <2> QED BY <2>1 DEF Paged
<1>2. n \in Nat /\ x.len \in Nat /\ x.out \in Seq(Given) /\ x.first[i + 1] \in Entries /\ h.first[i + 1] = x.first[i + 1]
      /\ size \in Nat
  <2>1. x.first \in Seq(Entries) /\ x.out \in Seq(Given) /\ x.len \in Nat
    BY <1>1 DEF DhType
  <2> QED BY <1>1, <2>1 DEF DhType
<1>3. l \in Nat /\ EntrySize(x.first[i + 1], plus) \in Nat /\ EntrySize(x.first[i + 1], plus) <= size
  BY <1>2, SizesOfEntries
<1>4. g = IF n + off + 1 < i + 1 \/ l > x.needlen THEN x ELSE [x EXCEPT !.len = l, !.out = Append(@, e)]
  BY Zenon DEF ListEntry
<1>5. CASE n + off + 1 < i + 1 \/ l > x.needlen
  <2>1. g = x
    BY <1>4, <1>5
  <2>2. x.out # << >>
    <3> SUFFICES ASSUME x.out = << >> PROVE FALSE
      OBVIOUS
    <3>1. x.len = 0 /\ i <= off /\ n = 0
      BY DEF Paged
    <3>2. l <= size
      BY <1>2, <1>3, <3>1
    <3> HIDE DEF l, n
    <3> QED BY <1>1, <1>2, <1>3, <1>5, <3>1, <3>2
  <2>3. off + n <= (IF i + 1 <= off THEN off ELSE i + 1)
    BY <1>1, <1>2
  <2> QED BY <2>1, <2>2, <2>3 DEF Paged
<1>6. CASE ~(n + off + 1 < i + 1 \/ l > x.needlen)
  <2>1. g = [x EXCEPT !.len = l, !.out = Append(@, e)]
    BY <1>4, <1>6
  <2>2. n + off = i /\ n + 1 \in Nat /\ off + (n + 1) = i + 1 /\ l <= size
    <3> HIDE DEF l, n
    <3> QED BY <1>1, <1>2, <1>3, <1>6
  <2>3. e \in Given /\ e = [entry |-> h.first[off + (n + 1)], off |-> off + (n + 1)]
    BY <1>2, <2>2 DEF Given
  <2> DEFINE o == Append(x.out, e)
  <2> HIDE DEF e
  <2>4. o \in Seq(Given) /\ Len(o) = n + 1 /\ o[n + 1] = e /\ o # << >> /\ \A k \in 1..n : o[k] = x.out[k]
    <3>1. x.out \in Seq(Given) /\ e \in Given
      BY <1>2, <2>3
    <3> QED BY <3>1
  <2>5. g = [x EXCEPT !.len = l, !.out = o]
    BY <2>1
  <2>6. \A k \in 1..n : x.out[k] = [entry |-> h.first[off + k], off |-> off + k]
    BY DEF Paged
  <2> HIDE DEF o, l, n
  <2>7. /\ g \in DhType /\ g.len = l /\ g.out = o /\ g.filled = x.filled /\ g.error = x.error /\ g.first = x.first
        /\ g.lookups = x.lookups /\ g.needlen = x.needlen /\ g.size = x.size
    BY <1>1, <1>3, <2>4, <2>5 DEF DhType
  <2>8. InBuffer(g)
    <3>1. l <= g.size /\ l <= g.needlen
      <4>1. x.size \in Nat
        BY <1>1 DEF DhType
      <4> QED BY <1>1, <1>2, <1>3, <2>2, <2>7, <4>1
    <3> QED BY <2>7, <3>1 DEF InBuffer
  <2>9. \A k \in 1..n + 1 : k \in 1..n \/ k = n + 1
    BY <1>2
  <2>10. \A k \in 1..n + 1 : o[k] = [entry |-> h.first[off + k], off |-> off + k]
    BY <2>3, <2>4, <2>6, <2>9
  <2>11. off + (n + 1) <= (IF i + 1 <= off THEN off ELSE i + 1)
    BY <2>2
  <2> QED BY <2>4, <2>7, <2>8, <2>10, <2>11 DEF Paged
<1> QED BY <1>5, <1>6

LEMMA ListPaged ==
  ASSUME NEW h \in DhType, NEW size \in BufferSizes, h.needlen = size, InBuffer(h), h.size >= size, h.out = << >>, h.len = 0,
         NEW off \in Nat, NEW plus \in BOOLEAN
  PROVE  Paged(h, FromList(h, off, plus), off, Len(h.first))
<1> DEFINE n == Len(h.first)
           One(x, i) == IF i <= off THEN h ELSE ListEntry(x, i, off, plus)
           T(t) == t = [i \in 0..n |-> One(t[i - 1], i)]
           G == [i \in 0..n |-> {x \in DhType : Paged(h, x, off, i) /\ (i <= off => x = h)}]
           step == [z \in DhType \X Nat |-> One(z[1], z[2])]
           turns == CHOOSE t : T(t)
<1>0. n \in Nat
  BY DEF DhType
<1>0a. \A i \in Nat : i <= off => Paged(h, h, off, i)
  BY DEF Paged
<1>1. h \in G[0]
  BY <1>0, <1>0a
<1>2. \A i \in 1..n : \A x \in G[i - 1] : One(x, i) \in G[i] /\ x \in DhType
  <2> TAKE i \in 1..n
  <2> TAKE x \in G[i - 1]
  <2>0. i - 1 \in 0..n /\ i \in 0..n
    BY <1>0
  <2>1. CASE i <= off
    BY <1>0a, <2>0, <2>1
  <2>2. CASE ~(i <= off)
    <3> DEFINE j == i - 1
    <3>1. j \in Nat /\ j >= off /\ j + 1 = i /\ j + 1 <= n
      BY <1>0, <2>2
    <3>2. x \in DhType /\ Paged(h, x, off, j)
      BY <2>0
    <3> HIDE DEF j
    <3> DEFINE g == ListEntry(x, j + 1, off, plus)
    <3>3. Paged(h, g, off, j + 1)
      <4> HIDE DEF g
      <4>1. g = ListEntry(x, j + 1, off, plus)
        BY DEF g
      <4> QED BY <3>1, <3>2, <4>1, NextPaged
    <3>4. One(x, i) = g
      BY <2>2, <3>1
    <3> HIDE DEF One, g
    <3>5. One(x, i) \in DhType /\ Paged(h, One(x, i), off, i)
      BY <3>1, <3>3, <3>4 DEF Paged
    <3> QED BY <2>0, <2>2, <3>5
  <2> QED BY <2>1, <2>2
<1> HIDE DEF G
<1>3. \A i \in 1..n : \A x \in G[i - 1] : step[<<x, i>>] = One(x, i) /\ step[<<x, i>>] \in G[i]
  <2> HIDE DEF One
  <2> QED BY <1>0, <1>2
<1> HIDE DEF step
<1>3a. PICK f : Through(f, n) /\ Turning(f, n, h, step) /\ StaysWithin(f, n, G)
  <2>1. StepsWithin(step, n, G)
    BY <1>3 DEF StepsWithin
  <2> HIDE DEF n
  <2> QED BY <1>0, <1>1, <2>1, RecursionWithin
<1>4. /\ f = [i \in 0..n |-> f[i]] /\ f[0] = h
      /\ \A i \in 1..n : f[i] = step[<<f[i - 1], i>>]
      /\ \A i \in 0..n : f[i] \in G[i]
  BY <1>3a DEF Through, Turning, StaysWithin
<1>5. T(f)
  <2>1. f[0] = One(f[0 - 1], 0)
    BY <1>0, <1>4
  <2>2. ASSUME NEW i \in 1..n PROVE f[i] = One(f[i - 1], i)
    <3>1. i - 1 \in 0..n
      BY <1>0
    <3> HIDE DEF One
    <3> QED BY <1>3, <1>4, <3>1
  <2>3. \A i \in 0..n : i = 0 \/ i \in 1..n
    BY <1>0
  <2> HIDE DEF One
  <2>4. \A i \in 0..n : f[i] = One(f[i - 1], i)
    BY <2>1, <2>2, <2>3
  <2> QED BY <1>4, <2>4
<1>6. T(turns)
  <2> HIDE DEF T
  <2> QED BY <1>5
<1>7. FromList(h, off, plus) = turns[n]
  BY DEF FromList
<1> HIDE DEF turns
<1>8. turns = f
  <2>1. Through(turns, n)
    BY <1>6 DEF Through
  <2>2. turns[0] = f[0]
    BY <1>0, <1>4, <1>6
  <2>3. ASSUME NEW i \in 1..n, turns[i - 1] = f[i - 1] PROVE turns[i] = f[i]
    <3>1. i \in 0..n
      BY <1>0
    <3>2. turns[i] = One(turns[i - 1], i) /\ f[i] = One(f[i - 1], i)
      BY <1>5, <1>6, <3>1
    <3> HIDE DEF One
    <3> QED BY <2>3, <3>2
  <2>4. AgreeFurther(turns, f, n)
    BY <2>2, <2>3 DEF AgreeFurther
  <2> HIDE DEF n
  <2> QED BY <1>0, <1>3a, <2>1, <2>4, RecursionOnly
<1>9. turns[n] \in G[n] /\ n \in 0..n
  BY <1>0, <1>4, <1>8, SMTT(30)
<1>10. Paged(h, turns[n], off, n)
  BY <1>9 DEF G
<1> QED BY <1>7, <1>10

(* What readdir_fill_from_list replies with. *)
LEMMA FromListOk ==
  ASSUME NEW h \in DhType, NEW size \in BufferSizes, NEW off \in Nat, NEW plus \in BOOLEAN,
         NEW g, g = readdir_fill_from_list(h, size, off, plus)
  PROVE  /\ g \in DhType /\ InBuffer(g) /\ g.filled = h.filled /\ g.error = h.error /\ g.first = h.first
         /\ \A k \in 1..Len(g.out) : off + k <= Len(h.first) /\ g.out[k] = [entry |-> h.first[off + k], off |-> off + k]
         /\ g.out = << >> => Len(h.first) <= off
<1> DEFINE a == [h EXCEPT !.needlen = size]
           b == extend_contents(a, size)
           c == [b EXCEPT !.len = 0, !.out = << >>]
<1>0. size \in Nat
  BY ReadDirAssumption DEF ReadDirAssumption
<1>1. a \in DhType /\ a.needlen = size /\ a.filled = h.filled /\ a.error = h.error /\ a.first = h.first
  BY <1>0 DEF DhType
<1> HIDE DEF a
<1>2. b \in DhType /\ b.size >= size /\ \E s \in Nat : b = [a EXCEPT !.size = s]
  BY <1>0, <1>1, Extended
<1>3. b.needlen = size /\ b.filled = h.filled /\ b.error = h.error /\ b.first = h.first
  <2> HIDE DEF b
  <2> QED BY <1>1, <1>2 DEF DhType
<1>4. /\ c \in DhType /\ c.size >= size /\ c.needlen = size /\ c.filled = h.filled /\ c.error = h.error /\ c.first = h.first
      /\ c.len = 0 /\ c.out = << >> /\ c.size \in Nat
  <2> DEFINE d == [b EXCEPT !.len = 0]
  <2> HIDE DEF b
  <2>1. d \in DhType /\ d.size = b.size /\ d.needlen = size /\ d.filled = h.filled /\ d.error = h.error /\ d.first = h.first
        /\ d.len = 0 /\ b.size \in Nat
    BY <1>2, <1>3 DEF DhType
  <2> DEFINE none == << >>
  <2>2. c = [d EXCEPT !.out = none] /\ none \in Seq(Given)
    BY <1>2 DEF DhType
  <2> HIDE DEF c, d, none
  <2>3. /\ c \in DhType /\ c.size = d.size /\ c.needlen = d.needlen /\ c.filled = d.filled /\ c.error = d.error
        /\ c.first = d.first /\ c.len = d.len /\ c.out = none
    BY <2>1, <2>2 DEF DhType
  <2>4. c.out = << >>
    BY <2>3 DEF none
  <2> QED BY <1>2, <2>1, <2>3, <2>4
<1>5. g = FromList(c, off, plus)
  BY DEF readdir_fill_from_list, Emptied, a
<1> HIDE DEF c
<1>6. InBuffer(c)
  BY <1>0, <1>4 DEF InBuffer
<1>7. Paged(c, g, off, Len(c.first))
  BY <1>4, <1>5, <1>6, ListPaged
<1> DEFINE n == Len(h.first)
           m == Len(g.out)
<1>8. n \in Nat /\ m \in Nat
  BY <1>7 DEF Paged, DhType
<1>9. off + m <= (IF n <= off THEN off ELSE n)
  BY <1>4, <1>7 DEF Paged
<1>10. ASSUME NEW k \in 1..m PROVE off + k <= n
  <2> HIDE DEF n, m
  <2> QED BY <1>8, <1>9
<1>11. \A k \in 1..m : g.out[k] = [entry |-> h.first[off + k], off |-> off + k]
  BY <1>4, <1>7 DEF Paged
<1>12. g \in DhType /\ InBuffer(g) /\ g.filled = h.filled /\ g.error = h.error /\ g.first = h.first
       /\ (g.out = << >> => n <= off)
  BY <1>4, <1>7 DEF Paged
<1> QED BY <1>10, <1>11, <1>12

-----------------------------------------------------------------------------
(* A request *)

(* What a handle holds once readdir_fill is done, for a reply that starts behind off. *)
ListWhole(h) == NoOffsets /\ Len(h.first) = EntryCount /\ \A k \in 1..EntryCount : h.first[k] = k
AtEnd(h, off) == AllOffsets /\ h.first = << >> /\ off = EntryCount
OffsetsTo(i) == \A j \in Entries : j <= i => HasOffset(j)
AfterFill(h, off, plus) ==
  /\ h \in DhType
  /\ h.error = "ok" /\ h.filled = TRUE => ListWhole(h) \/ AtEnd(h, off)
  /\ h.error = "ok" /\ h.filled = FALSE =>
       /\ InBuffer(h) /\ Follows(h.out, off) /\ h.out # << >> /\ off + Len(h.out) <= EntryCount
       /\ OffsetsTo(off + Len(h.out) + 1)
       /\ Asked(plus) => \A k \in 1..Len(h.out) : h.out[k].entry \in h.lookups
  /\ h.error = "EIO" => ~AllOffsets /\ ~NoOffsets
  /\ h.error # "ok" => h.filled = FALSE

LEMMA OffsetNumber == ASSUME dirMode \in DOMAIN EntryOffset, NEW i \in Entries, HasOffset(i) PROVE EntryOffset[dirMode][i] = i
BY ReadDirAssumption DEF ReadDirAssumption, HasOffset, Entries, EntryCount

LEMMA FillOk ==
  ASSUME dirMode \in DOMAIN EntryOffset, NEW h \in DhType, NEW size \in BufferSizes, NEW off \in 0..EntryCount,
         off = 0 \/ NoOffsets \/ OffsetsTo(off + 1), NEW plus \in BOOLEAN, NEW fsErr \in BOOLEAN,
         NEW g, g = readdir_fill(h, size, off, plus, fsErr)
  PROVE  AfterFill(g, off, plus)
<1> DEFINE n == EntryCount
           a == [h EXCEPT !.first = << >>, !.len = 0, !.out = << >>, !.error = "ok", !.needlen = size,
                          !.filled = TRUE, !.stop = FALSE, !.lookups = {}]
           p == IF \E i \in 1..n : EntryOffset[dirMode][i] # 0 THEN off ELSE 0
           x == FsReaddir(a, p + 1, plus)
<1>0. n \in Nat /\ size \in Nat /\ off \in Nat /\ p \in 0..n /\ p \in Nat
  BY ReadDirAssumption DEF ReadDirAssumption, EntryCount
<1>1. p = off \/ (p = 0 /\ NoOffsets)
  BY DEF NoOffsets
<1>1a. (\E i \in Entries : HasOffset(i)) => p = off
  BY DEF HasOffset, Entries
<1>2. Offered(a, p, p, plus)
  <2>1. << >> \in Seq(Entries) /\ << >> \in Seq(Given) /\ {} \in SUBSET Entries
    OBVIOUS
  <2>2. /\ a.first = << >> /\ a.len = 0 /\ a.out = << >> /\ a.error = "ok" /\ a.needlen = size /\ a.filled = TRUE /\ a.stop = FALSE
        /\ a.lookups = {} /\ a.size = h.size /\ h.size \in Nat
    BY DEF DhType
  <2>3. a \in DhType
    BY <1>0, <2>1 DEF DhType, Errors
  <2> HIDE DEF a, p
  <2>4. InBuffer(a) /\ Untouched(a, p, p)
    BY <1>0, <2>2 DEF InBuffer, Untouched
  <2>5. \A k \in 1..Len(a.out) : FALSE
    BY <2>2
  <2> QED BY <2>2, <2>3, <2>4, <2>5 DEF Offered
<1>3. StartAt(off) = p + 1
  BY DEF StartAt
<1>4. g = [x EXCEPT !.error = IF fsErr THEN "fs" ELSE @, !.filled = @ /\ ~fsErr /\ x.error = "ok"]
  BY <1>3 DEF readdir_fill
<1> HIDE DEF a, p
<1>5. Offered(x, p, n, plus)
  BY <1>0, <1>2, AllOffered
<1> HIDE DEF x
<1>6. x \in DhType /\ InBuffer(x)
  BY <1>5 DEF Offered
<1>7. /\ g \in DhType /\ g.first = x.first /\ g.len = x.len /\ g.out = x.out /\ g.needlen = x.needlen /\ g.size = x.size
      /\ g.lookups = x.lookups /\ g.stop = x.stop
  BY <1>4, <1>6 DEF DhType, Errors
<1>8. CASE fsErr
  <2>1. g.error = "fs" /\ g.filled = FALSE
    BY <1>4, <1>6, <1>8 DEF DhType
  <2> QED BY <1>7, <2>1 DEF AfterFill
<1>9. CASE ~fsErr
  <2>1. g.error = x.error /\ (x.error = "ok" => g.filled = x.filled) /\ (x.error # "ok" => g.filled = FALSE)
    BY <1>4, <1>6, <1>9 DEF DhType
  <2>2. CASE Untouched(x, p, n)
    <3>1. x.error = "ok" /\ x.filled = TRUE /\ x.first = << >> /\ p = n
      BY <2>2 DEF Untouched
    <3>2. AtEnd(g, off) \/ ListWhole(g)
      <4>1. CASE n = 0
        <5>1. \A k \in 1..n : FALSE
          BY <4>1
        <5> QED BY <1>0, <1>7, <3>1, <4>1, <5>1 DEF AtEnd, AllOffsets
      <4>2. CASE n # 0
        <5>1. p = off /\ off # 0
          BY <1>1, <3>1, <4>2
        <5>2. CASE NoOffsets
          <6>1. ~(\E i \in 1..n : EntryOffset[dirMode][i] # 0)
            BY <5>2 DEF NoOffsets
          <6>2. p = 0
            BY <6>1 DEF p
          <6> QED BY <3>1, <4>2, <6>2
        <5>3. CASE OffsetsTo(off + 1)
          <6>1. \A i \in Entries : HasOffset(i)
            <7>1. \A i \in Entries : i <= off + 1
              BY <1>0, <3>1, <5>1 DEF Entries
            <7> QED BY <5>3, <7>1 DEF OffsetsTo
          <6>2. AllOffsets
            BY <6>1, OffsetNumber DEF AllOffsets, Entries
          <6> QED BY <1>7, <3>1, <5>1, <6>2 DEF AtEnd
        <5> QED BY <5>1, <5>2, <5>3
      <4> QED BY <4>1, <4>2
    <3> QED BY <1>7, <2>1, <3>1, <3>2 DEF AfterFill
  <2>3. CASE Buffered(x, p, n)
    <3> DEFINE m == Len(x.out)
    <3>1. x.out \in Seq(Given) /\ m \in Nat /\ m # 0
      <4>1. x.out \in Seq(Given) /\ x.out # << >>
        BY <1>6, <2>3 DEF DhType, Buffered
      <4> QED BY <4>1
    <3>2. x.error = "ok" /\ x.filled = FALSE /\ Follows(x.out, p) /\ p + m <= n /\ x.out # << >>
          /\ \A j \in p + 1 .. n : j <= p + m + 1 => HasOffset(j)
      BY <2>3 DEF Buffered
    <3> HIDE DEF m
    <3>3. p + 1 \in Entries /\ HasOffset(p + 1)
      <4>1. p + 1 \in p + 1 .. n /\ p + 1 <= p + m + 1 /\ p + 1 \in 1..n
        BY <1>0, <3>1, <3>2
      <4> QED BY <3>2, <4>1 DEF Entries
    <3>4. p = off /\ ~NoOffsets
      BY <1>1a, <3>3 DEF NoOffsets, HasOffset, Entries
    <3>5. OffsetsTo(off + m + 1)
      <4> SUFFICES ASSUME NEW j \in Entries, j <= off + m + 1 PROVE HasOffset(j)
        BY DEF OffsetsTo
      <4>1. CASE j >= p + 1
        <5>1. j \in p + 1 .. n
          BY <1>0, <4>1 DEF Entries
        <5> QED BY <3>2, <3>4, <5>1
      <4>2. CASE ~(j >= p + 1)
        <5>1. j \in Nat /\ j <= off + 1 /\ off # 0
          BY <1>0, <3>4, <4>2 DEF Entries
        <5> QED BY <3>4, <5>1 DEF OffsetsTo
      <4> QED BY <4>1, <4>2
    <3>6. Asked(plus) => \A k \in 1..Len(x.out) : x.out[k].entry \in x.lookups
      BY <1>5 DEF Offered
    <3>7. InBuffer(g)
      BY <1>6, <1>7 DEF InBuffer
    <3>8. Follows(g.out, off) /\ g.out # << >> /\ off + Len(g.out) <= n /\ OffsetsTo(off + Len(g.out) + 1)
      BY <1>7, <3>2, <3>4, <3>5 DEF m
    <3> QED BY <1>7, <2>1, <3>2, <3>6, <3>7, <3>8 DEF AfterFill
  <2>4. CASE Collected(x, p, n)
    <3>1. n > p /\ x.error = "ok" /\ x.filled = TRUE /\ Len(x.first) = n - p /\ (\A k \in 1..Len(x.first) : x.first[k] = p + k)
          /\ \A j \in p + 1 .. n : ~HasOffset(j)
      BY <2>4 DEF Collected
    <3>2. p + 1 \in p + 1 .. n /\ p + 1 \in Entries /\ p + 1 <= p + 1
      BY <1>0, <3>1 DEF Entries
    <3>3. ~HasOffset(p + 1)
      BY <3>1, <3>2, Zenon
    <3>4. p = 0 /\ NoOffsets
      <4>1. CASE \E i \in Entries : HasOffset(i)
        <5>1. p = off /\ ~NoOffsets
          BY <1>1a, <4>1 DEF NoOffsets, HasOffset, Entries
        <5>2. CASE off = 0
          <6>1. \A j \in Entries : j \in p + 1 .. n
            BY <1>0, <5>1, <5>2 DEF Entries
          <6> QED BY <3>1, <4>1, <6>1, Zenon
        <5>3. CASE OffsetsTo(off + 1)
          BY <3>2, <3>3, <5>1, <5>3 DEF OffsetsTo
        <5> QED BY <5>1, <5>2, <5>3
      <4>2. CASE ~(\E i \in Entries : HasOffset(i))
        BY <4>2 DEF NoOffsets, HasOffset, Entries, p
      <4> QED BY <4>1, <4>2
    <3>5. ListWhole(g)
      BY <1>0, <1>7, <3>1, <3>4 DEF ListWhole
    <3> QED BY <1>7, <2>1, <3>1, <3>5 DEF AfterFill
  <2>5. CASE OfBothKinds(x, p, n)
    <3>1. x.error = "EIO" /\ (\E j \in p + 1 .. n : HasOffset(j)) /\ (\E j \in p + 1 .. n : ~HasOffset(j))
      BY <2>5 DEF OfBothKinds
    <3>2. \A j \in p + 1 .. n : j \in 1..n /\ j # 0
      BY <1>0
    <3>3. ~AllOffsets /\ ~NoOffsets
      <4>1. PICK j \in p + 1 .. n : HasOffset(j)
        BY <3>1
      <4>2. PICK l \in p + 1 .. n : ~HasOffset(l)
        BY <3>1
      <4> QED BY <3>2, <4>1, <4>2 DEF AllOffsets, NoOffsets, HasOffset
    <3> QED BY <1>7, <2>1, <3>1, <3>3 DEF AfterFill
  <2> QED BY <1>5, <2>2, <2>3, <2>4, <2>5 DEF Offered
<1> QED BY <1>8, <1>9

(* What a request leaves in the handle and replies with. *)
Served(h, off, plus) ==
  /\ h \in DhType
  /\ h.error = "ok" => /\ InBuffer(h) /\ Follows(h.out, off) /\ off + Len(h.out) <= EntryCount
                       /\ h.out = << >> => off = EntryCount /\ (AllOffsets \/ NoOffsets)
                       /\ h.out # << >> => NoOffsets \/ OffsetsTo(off + Len(h.out) + 1)
                       /\ Asked(plus) /\ h.filled = FALSE => \A k \in 1..Len(h.out) : h.out[k].entry \in h.lookups
  /\ h.error = "EIO" => ~AllOffsets /\ ~NoOffsets
  /\ h.filled = TRUE => h.error = "ok" /\ (ListWhole(h) \/ (AtEnd(h, off) /\ h.out = << >>))

LEMMA ServedOk ==
  ASSUME NEW b, NEW size \in BufferSizes, NEW off \in 0..EntryCount, NEW plus \in BOOLEAN, AfterFill(b, off, plus),
         NEW c, c = IF b.error = "ok" /\ b.filled THEN readdir_fill_from_list(b, size, off, plus) ELSE b
  PROVE  Served(c, off, plus)
<1>0. b \in DhType /\ EntryCount \in Nat /\ off \in Nat
  BY ReadDirAssumption DEF ReadDirAssumption, EntryCount, AfterFill
<1>1. CASE b.error = "ok" /\ b.filled = TRUE
  <2>1. c = readdir_fill_from_list(b, size, off, plus)
    BY <1>1
  <2>2. /\ c \in DhType /\ InBuffer(c) /\ c.filled = b.filled /\ c.error = b.error /\ c.first = b.first
        /\ \A k \in 1..Len(c.out) : off + k <= Len(b.first) /\ c.out[k] = [entry |-> b.first[off + k], off |-> off + k]
        /\ c.out = << >> => Len(b.first) <= off
    BY <1>0, <2>1, FromListOk
  <2>3. c.out \in Seq(Given) /\ Len(c.out) \in Nat
    BY <2>2 DEF DhType
  <2>4. CASE ListWhole(b)
    <3>1. NoOffsets /\ Len(b.first) = EntryCount /\ \A k \in 1..EntryCount : b.first[k] = k
      BY <2>4 DEF ListWhole
    <3>2. \A k \in 1..Len(c.out) : off + k \in 1..EntryCount /\ c.out[k] = [entry |-> b.first[off + k], off |-> off + k]
      BY <1>0, <2>2, <3>1
    <3>3. Follows(c.out, off)
      BY <3>1, <3>2 DEF Follows
    <3>4. off + Len(c.out) <= EntryCount
      <4>1. CASE Len(c.out) = 0
        BY <1>0, <4>1
      <4>2. CASE Len(c.out) # 0
        <5>1. Len(c.out) \in 1..Len(c.out)
          BY <2>3, <4>2
        <5>2. off + Len(c.out) \in 1..EntryCount
          BY <3>2, <5>1, Zenon
        <5> QED BY <5>2
      <4> QED BY <4>1, <4>2
    <3>5. c.out = << >> => off = EntryCount
      BY <1>0, <2>2, <3>1
    <3>6. ListWhole(c)
      BY <2>2, <3>1 DEF ListWhole
    <3>7. c.error = "ok" /\ c.filled = TRUE
      BY <1>1, <2>2
    <3> QED BY <2>2, <3>1, <3>3, <3>4, <3>5, <3>6, <3>7 DEF Served
  <2>5. CASE AtEnd(b, off)
    <3>1. AllOffsets /\ b.first = << >> /\ off = EntryCount /\ Len(b.first) = 0
      BY <2>5 DEF AtEnd
    <3>2. Len(c.out) = 0
      <4> SUFFICES ASSUME Len(c.out) # 0 PROVE FALSE
        OBVIOUS
      <4>1. 1 \in 1..Len(c.out)
        BY <2>3
      <4>2. off + 1 <= Len(b.first)
        BY <2>2, <4>1, Zenon
      <4> QED BY <1>0, <3>1, <4>2
    <3>3. c.out = << >> /\ off + Len(c.out) <= EntryCount /\ Follows(c.out, off)
      BY <1>0, <2>3, <3>1, <3>2 DEF Follows
    <3>4. AtEnd(c, off)
      BY <2>2, <3>1 DEF AtEnd
    <3>5. c.error = "ok" /\ c.filled = TRUE
      BY <1>1, <2>2
    <3> QED BY <2>2, <3>1, <3>3, <3>4, <3>5 DEF Served
  <2> QED BY <1>1, <2>4, <2>5 DEF AfterFill
<1>2. CASE ~(b.error = "ok" /\ b.filled = TRUE)
  <2>1. c = b
    BY <1>0, <1>2 DEF DhType
  <2>2. b.filled = FALSE
    BY <1>0, <1>2 DEF DhType, AfterFill
  <2> QED BY <1>0, <2>1, <2>2 DEF AfterFill, Served
<1> QED BY <1>1, <1>2

DirInv ==
  /\ dirMode \in DOMAIN EntryOffset /\ dh \in DhType /\ lastOff \in 0..EntryCount
  /\ looked \in [1..EntryCount -> Nat] /\ told \in [1..EntryCount -> Nat]
  /\ lastOff = 0 \/ NoOffsets \/ OffsetsTo(lastOff + 1)
  /\ dh.filled = TRUE => ListWhole(dh) \/ AtEnd(dh, lastOff)
  /\ ReadingExact

LEMMA RequestServed ==
  ASSUME DirInv, NEW size \in BufferSizes, NEW off \in {0, lastOff}, NEW plus \in BOOLEAN, NEW fsErr \in BOOLEAN,
         fuse_readdir_common(size, off, plus, fsErr)
  PROVE  Served(dh', off, plus)
<1> DEFINE a == IF off = 0 THEN [dh EXCEPT !.filled = FALSE] ELSE dh
           b == IF ~a.filled THEN readdir_fill(a, size, off, plus, fsErr) ELSE [a EXCEPT !.error = "ok", !.lookups = {}]
           c == IF b.error = "ok" /\ b.filled THEN readdir_fill_from_list(b, size, off, plus) ELSE b
<1>1. dh' = c
  BY Zenon DEF fuse_readdir_common
<1>2. dirMode \in DOMAIN EntryOffset /\ dh \in DhType /\ off \in 0..EntryCount /\ EntryCount \in Nat
      /\ (off = 0 \/ NoOffsets \/ OffsetsTo(off + 1))
  BY ReadDirAssumption DEF DirInv, ReadDirAssumption, EntryCount
<1>3. a \in DhType
  BY <1>2 DEF DhType
<1>4. AfterFill(b, off, plus)
  <2>1. CASE a.filled = FALSE
    <3>1. b = readdir_fill(a, size, off, plus, fsErr)
      BY <2>1
    <3> HIDE DEF a, b
    <3> QED BY <1>2, <1>3, <3>1, FillOk
  <2>2. CASE a.filled = TRUE
    <3>1. off # 0 /\ a = dh /\ off = lastOff
      BY <1>2, <2>2 DEF DhType
    <3>2. b = [dh EXCEPT !.error = "ok", !.lookups = {}]
      BY <2>2, <3>1
    <3>3. b \in DhType /\ b.error = "ok" /\ b.filled = TRUE /\ b.first = dh.first
      <4> HIDE DEF b
      <4> QED BY <1>2, <2>2, <3>1, <3>2 DEF DhType, Errors
    <3>4. ListWhole(dh) \/ AtEnd(dh, off)
      BY <2>2, <3>1 DEF DirInv
    <3> HIDE DEF b
    <3> QED BY <3>3, <3>4 DEF AfterFill, ListWhole, AtEnd
  <2> HIDE DEF a
  <2> QED BY <1>3, <2>1, <2>2 DEF DhType
<1> HIDE DEF b
<1>5. Served(c, off, plus)
  <2> DEFINE d == c
  <2>1. d = IF b.error = "ok" /\ b.filled THEN readdir_fill_from_list(b, size, off, plus) ELSE b
    OBVIOUS
  <2> HIDE DEF d
  <2>2. Served(d, off, plus)
    BY <1>2, <1>4, <2>1, ServedOk
  <2> QED BY <2>2 DEF d
<1> QED BY <1>1, <1>5

LEMMA ReadOk == ASSUME DirInv, Readdir PROVE DirInv'
<1>1. PICK size \in BufferSizes, off \in {0, lastOff}, plus \in BOOLEAN, fsErr \in BOOLEAN :
        fuse_readdir_common(size, off, plus, fsErr)
  BY DEF Readdir, NextOffsets
<1> DEFINE h == dh'
           n == EntryCount
           reply == IF h.error = "ok" THEN h.out ELSE << >>
           One(counted) == IF counted THEN 1 ELSE 0
           sent(i) == plus /\ ~h.filled /\ \E k \in DOMAIN reply : reply[k].entry = i
<1>2. /\ looked' = [i \in 1..n |-> looked[i] + One(i \in h.lookups)]
      /\ told' = [i \in 1..n |-> told[i] + One(sent(i))]
      /\ page' = [off |-> off, size |-> size, err |-> h.error, out |-> reply]
      /\ lastOff' = (IF reply = << >> THEN lastOff ELSE reply[Len(reply)].off) /\ dirMode' = dirMode
  BY <1>1, Zenon DEF fuse_readdir_common
<1>3. Served(h, off, plus)
  BY <1>1, RequestServed
<1>4. /\ n \in Nat /\ off \in 0..n /\ lastOff \in 0..n /\ h \in DhType /\ h.out \in Seq(Given) /\ reply \in Seq(Given)
      /\ looked \in [1..n -> Nat] /\ told \in [1..n -> Nat]
  <2>1. n \in Nat /\ off \in 0..n /\ lastOff \in 0..n /\ looked \in [1..n -> Nat] /\ told \in [1..n -> Nat]
    <3>1. EntryCount \in Nat
      BY ReadDirAssumption DEF ReadDirAssumption, EntryCount
    <3>2. lastOff \in 0..EntryCount /\ looked \in [1..EntryCount -> Nat] /\ told \in [1..EntryCount -> Nat]
      BY DEF DirInv
    <3>3. off \in {0, lastOff}
      BY <1>1
    <3> HIDE DEF reply, One, sent
    <3> QED BY <3>1, <3>2, <3>3
  <2>2. h \in DhType
    BY <1>3 DEF Served
  <2>3. h.out \in Seq(Given)
    BY <2>2 DEF DhType
  <2>4. << >> \in Seq(Given)
    OBVIOUS
  <2>5. reply \in Seq(Given)
    BY <2>3, <2>4
  <2> HIDE DEF reply, h
  <2> QED BY <2>1, <2>2, <2>3, <2>5
<1>5. reply # << >> => h.error = "ok" /\ reply = h.out /\ Len(reply) \in 1..Len(reply)
                       /\ reply[Len(reply)].off = off + Len(reply)
  <2> SUFFICES ASSUME reply # << >> PROVE h.error = "ok" /\ reply = h.out /\ Len(reply) \in 1..Len(reply)
                                          /\ reply[Len(reply)].off = off + Len(reply)
    OBVIOUS
  <2>1. h.error = "ok" /\ reply = h.out
    OBVIOUS
  <2> HIDE DEF reply
  <2>2. Len(reply) \in 1..Len(reply)
    BY <1>4
  <2>3. Follows(reply, off)
    BY <1>3, <2>1 DEF Served
  <2>4. reply[Len(reply)] = [entry |-> off + Len(reply), off |-> off + Len(reply)]
    BY <2>2, <2>3 DEF Follows
  <2> QED BY <2>1, <2>2, <2>4
<1>6. lastOff' \in 0..n /\ (lastOff' = 0 \/ NoOffsets \/ OffsetsTo(lastOff' + 1))
  <2>1. CASE reply = << >>
    <3>1. lastOff' = lastOff
      BY <1>2, <2>1
    <3> QED BY <1>4, <3>1 DEF DirInv
  <2>2. CASE reply # << >>
    <3>1. lastOff' = off + Len(reply) /\ h.error = "ok" /\ reply = h.out
      BY <1>2, <1>5, <2>2
    <3> HIDE DEF reply
    <3>2. off + Len(reply) <= n /\ (NoOffsets \/ OffsetsTo(off + Len(reply) + 1))
      BY <1>3, <2>2, <3>1 DEF Served
    <3> QED BY <1>4, <3>1, <3>2
  <2> QED BY <2>1, <2>2
<1>7. h.filled = TRUE => ListWhole(h) \/ AtEnd(h, lastOff')
  <2> SUFFICES ASSUME h.filled = TRUE, ~ListWhole(h) PROVE AtEnd(h, lastOff')
    OBVIOUS
  <2>1. h.error = "ok" /\ AtEnd(h, off) /\ h.out = << >>
    BY <1>3 DEF Served
  <2>2. lastOff' = lastOff /\ off = n
    BY <1>2, <2>1 DEF AtEnd
  <2>3. lastOff' = off
    BY <1>4, <2>2
  <2> QED BY <2>1, <2>3
<1>8. ASSUME NEW i \in 1..n PROVE looked'[i] \in Nat /\ told'[i] \in Nat /\ looked'[i] >= told'[i]
  <2>1. looked[i] >= told[i]
    BY <1>4 DEF DirInv, ReadingExact, LookupsCovered
  <2>2. sent(i) => i \in h.lookups
    <3> SUFFICES ASSUME sent(i) PROVE i \in h.lookups
      OBVIOUS
    <3>1. plus /\ ~h.filled
      BY DEF sent
    <3>1a. Asked(plus) /\ h.filled = FALSE
      BY <1>4, <3>1 DEF Asked, DhType
    <3>2. PICK k \in DOMAIN reply : reply[k].entry = i
      BY DEF sent
    <3>3. k \in 1..Len(reply) /\ reply # << >>
      BY <1>4, <3>2
    <3>4. h.error = "ok" /\ reply = h.out
      BY <1>5, <3>3
    <3> HIDE DEF reply, sent
    <3>5. h.out[k].entry \in h.lookups
      BY <1>3, <3>1a, <3>3, <3>4 DEF Served
    <3> QED BY <3>2, <3>4, <3>5
  <2> HIDE DEF sent
  <2>3. looked'[i] = looked[i] + One(i \in h.lookups) /\ told'[i] = told[i] + One(sent(i))
    BY <1>2
  <2>4. looked[i] \in Nat /\ told[i] \in Nat
    BY <1>4
  <2>5. CASE sent(i)
    <3>1. One(sent(i)) = 1 /\ One(i \in h.lookups) = 1
      BY <2>2, <2>5
    <3> HIDE DEF One
    <3> QED BY <2>1, <2>3, <2>4, <3>1
  <2>6. CASE ~sent(i)
    <3>1. One(sent(i)) = 0 /\ One(i \in h.lookups) \in {0, 1}
      BY <2>6
    <3> HIDE DEF One
    <3> QED BY <2>1, <2>3, <2>4, <3>1
  <2> QED BY <2>5, <2>6
<1>9. looked' \in [1..n -> Nat] /\ told' \in [1..n -> Nat]
  <2>1. looked' = [i \in 1..n |-> looked'[i]] /\ told' = [i \in 1..n |-> told'[i]]
    <3> HIDE DEF One, sent
    <3> QED BY <1>2
  <2> QED BY <1>8, <2>1
<1>10. PageExact'
  <2> SUFFICES ASSUME page'.err = "ok"
               PROVE  /\ \A k \in DOMAIN page'.out : page'.out[k] = [entry |-> page'.off + k, off |-> page'.off + k]
                      /\ page'.out = << >> => page'.off = n
    BY DEF PageExact, EntryCount
  <2>1. h.error = "ok" /\ page'.out = h.out /\ page'.off = off
    BY <1>2
  <2>2. Follows(h.out, off) /\ (h.out = << >> => off = n)
    BY <1>3, <2>1 DEF Served
  <2>3. DOMAIN h.out = 1..Len(h.out)
    BY <1>4
  <2> QED BY <2>1, <2>2, <2>3 DEF Follows
<1>11. PageFits'
  <2> SUFFICES ASSUME h.error = "ok" PROVE h.len <= h.size /\ h.len <= h.needlen
    BY DEF PageFits
  <2> QED BY <1>3 DEF Served, InBuffer
<1>12. MixedRefused'
  <2>1. (AllOffsets <=> AllOffsets') /\ (NoOffsets <=> NoOffsets')
    BY <1>2 DEF AllOffsets, NoOffsets, EntryCount
  <2>2. page'.err = "EIO" => ~(AllOffsets \/ NoOffsets)
    BY <1>2, <1>3 DEF Served
  <2>3. page'.err = "ok" /\ page'.out = << >> => AllOffsets \/ NoOffsets
    BY <1>2, <1>3 DEF Served
  <2> QED BY <2>1, <2>2, <2>3 DEF MixedRefused
<1>13. LookupsCovered'
  BY <1>8 DEF LookupsCovered, EntryCount
<1>14. /\ NoOffsets => NoOffsets'
       /\ OffsetsTo(lastOff' + 1) => OffsetsTo(lastOff + 1)'
       /\ ListWhole(h) => ListWhole(dh)'
       /\ AtEnd(h, lastOff') => AtEnd(dh, lastOff)'
  BY <1>2 DEF NoOffsets, AllOffsets, OffsetsTo, HasOffset, Entries, EntryCount, ListWhole, AtEnd
<1>15. dirMode' \in DOMAIN EntryOffset
  BY <1>2 DEF DirInv
<1> HIDE DEF reply, sent, One
<1> QED BY <1>4, <1>6, <1>7, <1>9, <1>10, <1>11, <1>12, <1>13, <1>14, <1>15 DEF DirInv, ReadingExact, EntryCount

LEMMA Released == ASSUME DirInv, fuse_lib_releasedir PROVE DirInv'
<1>1. /\ dh' = NewHandle /\ lastOff' = 0 /\ page' = NoPage /\ dirMode' = dirMode /\ looked' = looked /\ told' = told
  BY DEF fuse_lib_releasedir
<1>2. NewHandle \in DhType /\ NewHandle.filled = FALSE /\ NewHandle.len = 0 /\ NewHandle.size = 0 /\ NewHandle.needlen = 0
  <2>1. << >> \in Seq(Entries) /\ << >> \in Seq(Given) /\ {} \in SUBSET Entries
    OBVIOUS
  <2> QED BY <2>1 DEF NewHandle, DhType, Errors
<1>3. 0 \in 0..EntryCount
  BY ReadDirAssumption DEF ReadDirAssumption, EntryCount
<1>4. page'.err = "none"
  BY <1>1 DEF NoPage
<1>5. PageExact' /\ MixedRefused'
  BY <1>4 DEF PageExact, MixedRefused
<1>6. PageFits' /\ LookupsCovered'
  BY <1>1, <1>2 DEF PageFits, DirInv, ReadingExact, LookupsCovered
<1> QED BY <1>1, <1>2, <1>3, <1>5, <1>6 DEF DirInv, ReadingExact

LEMMA DirStarts == DirInit => DirInv
<1> SUFFICES ASSUME DirInit PROVE DirInv
  OBVIOUS
<1>1. /\ dh = NewHandle /\ lastOff = 0 /\ page = NoPage /\ dirMode \in DOMAIN EntryOffset
      /\ looked = [i \in 1..EntryCount |-> 0] /\ told = [i \in 1..EntryCount |-> 0]
  BY DEF DirInit
<1>2. NewHandle \in DhType /\ NewHandle.filled = FALSE /\ NewHandle.len = 0 /\ NewHandle.size = 0 /\ NewHandle.needlen = 0
  <2>1. << >> \in Seq(Entries) /\ << >> \in Seq(Given) /\ {} \in SUBSET Entries
    OBVIOUS
  <2> QED BY <2>1 DEF NewHandle, DhType, Errors
<1>3. 0 \in 0..EntryCount
  BY ReadDirAssumption DEF ReadDirAssumption, EntryCount
<1>4. page.err = "none"
  BY <1>1 DEF NoPage
<1>5. PageExact /\ MixedRefused
  BY <1>4 DEF PageExact, MixedRefused
<1>6. PageFits /\ LookupsCovered
  BY <1>1, <1>2 DEF PageFits, LookupsCovered
<1> QED BY <1>1, <1>2, <1>3, <1>5, <1>6 DEF DirInv, ReadingExact

(* However small the kernel's buffers and however the requests follow each *)
(* other, readdir_fill and readdir_fill_from_list give every entry once,   *)
(* in order and within the buffer, and a file system that mixes offsets    *)
(* with none is refused.                                                   *)
THEOREM DirectoryRead == DirSpec => []ReadingExact
<1>1. DirInv /\ [DirNext]_dirVars => DirInv'
  <2> SUFFICES ASSUME DirInv, [DirNext]_dirVars PROVE DirInv'
    OBVIOUS
  <2>1. CASE Readdir
    BY <2>1, ReadOk
  <2>2. CASE fuse_lib_releasedir
    BY <2>2, Released
  <2>3. CASE UNCHANGED dirVars
    <3>1. /\ dirMode' = dirMode /\ dh' = dh /\ lastOff' = lastOff /\ looked' = looked /\ told' = told /\ page' = page
      BY <2>3 DEF dirVars
    <3> QED BY <3>1 DEF DirInv, ReadingExact, PageExact, PageFits, MixedRefused, LookupsCovered, NoOffsets, AllOffsets,
                        OffsetsTo, HasOffset, ListWhole, AtEnd
  <2> QED BY <2>1, <2>2, <2>3 DEF DirNext
<1>2. DirInv => ReadingExact
  BY DEF DirInv
<1> QED BY <1>1, <1>2, DirStarts, PTL DEF DirSpec

-----------------------------------------------------------------------------
(* The option remember: what a state of the library is *)

AllNodes == 0..RemNodes
RemNode == [name : RemNames \union {NoName}, parent : AllNodes, nlookup : Nat, refctr : Nat]
(* Ages go up by steps of Clock.                                                        *)
Ages == {k * Clock : k \in Nat}
RemType == [node : [AllNodes -> RemNode], lru : Seq(RemIds), age : [RemIds -> Ages], ctr : AllNodes]
Kids(s, p) == {c \in RemIds : s.node[c].name # NoName /\ s.node[c].parent = p}
Ones(c) == IF c THEN 1 ELSE 0
Gone(s, n) == s.node[n] = Freed
InList(s, n) == n \in ToSet(s.lru)

(* References are one for the lookups, one for each child, and one that is to be given   *)
(* up, for the nodes of O.                                                               *)
RefsAre(s, O) == \A p \in AllNodes :
  s.node[p].refctr = Ones(s.node[p].nlookup > 0) + Cardinality(Kids(s, p)) + Ones(p \in O)
RootStays(s) == s.node[0].name = NoName /\ s.node[0].parent = 0 /\ s.node[0].nlookup = 1
GoneIsGone(s) == \A n \in RemIds : (s.node[n].refctr = 0 => Gone(s, n)) /\ (n > s.ctr => Gone(s, n))
TwoDeep(s) == \A n \in RemIds :
  /\ s.node[n].name \in {NoName, "d"} => s.node[n].parent = 0
  /\ s.node[n].name \in RemFiles => s.node[n].parent # 0 /\ s.node[s.node[n].parent].name \notin RemFiles
NamedHeld(s, O) == \A n \in RemIds : s.node[n].name # NoName => s.node[n].nlookup > 0 \/ n \in O
Aged(l, age) == \A i, j \in 1..Len(l) : i < j => age[l[i]] >= age[l[j]]
LruOk(s) ==
  /\ NoDup(s.lru) /\ Aged(s.lru, s.age)
  /\ \A i \in 1..Len(s.lru) : ~Gone(s, s.lru[i])
RemStruct(s, O) ==
  /\ s \in RemType /\ RootStays(s) /\ RefsAre(s, O) /\ GoneIsGone(s) /\ TwoDeep(s)
  /\ NamedHeld(s, O) /\ LruOk(s)

(* The lookups of a node are h of them and the library's own, and the list has it when   *)
(* the library's is the only one.                                                        *)
NodeRight(s, h, n) ==
  /\ ~Gone(s, n) => s.node[n].nlookup = h + Ones(s.node[n].name # NoName)
  /\ n > s.ctr => h = 0
  /\ s.node[n].name # NoName => (InList(s, n) <=> h = 0)
RemInv ==
  /\ RemStruct(rem, {})
  /\ known \in [RemIds -> Nat] /\ flight \in [RemIds -> Nat] /\ below \subseteq RemNames
  /\ \A n \in RemIds : NodeRight(rem, known[n] + flight[n], n)

-----------------------------------------------------------------------------
(* The list of nodes that only the library holds *)

LEMMA AgedDel ==
  ASSUME NEW l, NEW S, Listed(l, S), NEW x, NEW age, Aged(l, age), NEW old, \A y \in S \ {x} : old[y] = age[y]
  PROVE  Aged(list_del(l, x), old)
<1>1. l \in Seq(S) /\ \A i \in 1 .. Len(l) : l[i] \in S
  BY ListedIn
<1>2. CASE x \notin S
  <2>1. list_del(l, x) = l /\ S \ {x} = S
    BY <1>2 DEF list_del, Listed
  <2> QED
    BY <1>1, <2>1 DEF Aged
<1>3. CASE x \in S
  <2> DEFINE k == CHOOSE k \in DOMAIN l : l[k] = x
             r == RemoveAt(l, k)
  <2>1. k \in 1 .. Len(l) /\ l[k] = x
    <3>1. \E i \in DOMAIN l : l[i] = x
      BY <1>1, <1>3 DEF Listed, ToSet
    <3>2. k \in DOMAIN l /\ l[k] = x
      BY <3>1
    <3> QED
      BY <1>1, <3>2
  <2>2. list_del(l, x) = r
    BY <1>3 DEF list_del, Listed
  <2> HIDE DEF k
  <2>3. r \in Seq(S) /\ Len(r) = Len(l) - 1 /\ \A j \in 1 .. Len(l) - 1 : r[j] = IF j < k THEN l[j] ELSE l[j + 1]
    <3>1. r \in Seq(S) /\ Without(r, l, k)
      BY <1>1, <2>1, RemovedEntry, Zenon
    <3> QED
      BY <3>1 DEF Without
  <2> HIDE DEF r
  <2>4. Len(l) \in Nat
    BY <1>1
  <2> DEFINE f(j) == IF j < k THEN j ELSE j + 1
  <2>5. \A j \in 1 .. Len(r) : f(j) \in 1 .. Len(l) /\ r[j] = l[f(j)] /\ f(j) # k
    BY <2>1, <2>3, <2>4
  <2>6. \A i, j \in 1 .. Len(r) : i < j => f(i) < f(j)
    BY <2>1, <2>3, <2>4
  <2> HIDE DEF f
  <2>7. ASSUME NEW j \in 1..Len(r) PROVE old[r[j]] = age[l[f(j)]]
    BY <1>1, <2>1, <2>5 DEF NoDup, Listed
  <2>8. Aged(r, old)
    BY <2>5, <2>6, <2>7 DEF Aged
  <2> QED
    BY <2>2, <2>8
<1> QED
  BY <1>2, <1>3

LEMMA AgesNat == Ages \subseteq Nat /\ 0 \in Ages /\ Clock \in Nat \ {0} /\ remember \in Nat
<1>1. Clock \in Nat \ {0} /\ remember \in Nat
  BY RememberAssumption DEF RememberAssumption
<1>2. \A k \in Nat : k * Clock \in Nat
  BY <1>1
<1>3. 0 = 0 * Clock
  BY <1>1
<1> QED BY <1>1, <1>2, <1>3 DEF Ages

LEMMA RemParts ==
  ASSUME NEW s \in RemType
  PROVE  /\ s.node \in [AllNodes -> RemNode] /\ s.lru \in Seq(RemIds) /\ s.age \in [RemIds -> Ages] /\ s.ctr \in AllNodes
         /\ s = [node |-> s.node, lru |-> s.lru, age |-> s.age, ctr |-> s.ctr]
BY DEF RemType

(* A node taken out of the list. *)
LEMMA Removed ==
  ASSUME NEW s \in RemType, NoDup(s.lru), Aged(s.lru, s.age), NEW n \in RemIds, NEW t, t = remove_node_lru(s, n)
  PROVE  /\ t \in RemType /\ NoDup(t.lru) /\ Aged(t.lru, t.age)
         /\ t.node = s.node /\ t.ctr = s.ctr /\ t.age = [s.age EXCEPT ![n] = 0]
         /\ ToSet(t.lru) = ToSet(s.lru) \ {n}
<1> DEFINE l == Unlisted(s.lru, n)
           a == [s.age EXCEPT ![n] = 0]
<1>1. s.lru \in Seq(RemIds) /\ s.age \in [RemIds -> Ages]
  BY RemParts
<1>2. l = list_del(s.lru, n)
  BY DEF Unlisted, list_del
<1>3. Listed(s.lru, ToSet(s.lru))
  BY <1>1 DEF Listed
<1>4. Listed(l, ToSet(s.lru) \ {n})
  BY <1>2, <1>3, ListDel
<1>5. ToSet(s.lru) \subseteq RemIds
  BY <1>1 DEF ToSet
<1>6. \A y \in ToSet(s.lru) \ {n} : a[y] = s.age[y]
  BY <1>1, <1>5
<1>7. a \in [RemIds -> Ages]
  BY <1>1, AgesNat
<1>8. t = [node |-> s.node, lru |-> l, age |-> a, ctr |-> s.ctr]
  <2>1. s = [node |-> s.node, lru |-> s.lru, age |-> s.age, ctr |-> s.ctr]
    BY RemParts
  <2> QED BY <2>1 DEF remove_node_lru
<1> HIDE DEF a, l
<1>9. Aged(l, a)
  BY <1>2, <1>3, <1>6, AgedDel
<1>10. l \in Seq(RemIds) /\ NoDup(l) /\ ToSet(l) = ToSet(s.lru) \ {n}
  <2>1. l \in Seq(ToSet(s.lru) \ {n})
    BY <1>4, ListedIn
  <2> QED BY <1>4, <1>5, <2>1 DEF Listed
<1>11. t \in RemType
  BY <1>7, <1>8, <1>10, RemParts DEF RemType
<1> QED BY <1>8, <1>9, <1>10, <1>11 DEF a

(* A node put at the end of it, which has been there for no time. *)
LEMMA PutLast ==
  ASSUME NEW s \in RemType, NoDup(s.lru), Aged(s.lru, s.age), NEW n \in RemIds, NEW t, t = set_forget_time(s, n)
  PROVE  /\ t \in RemType /\ NoDup(t.lru) /\ Aged(t.lru, t.age)
         /\ t.node = s.node /\ t.ctr = s.ctr /\ ToSet(t.lru) = ToSet(s.lru) \union {n}
<1> DEFINE u == remove_node_lru(s, n)
           l == u.lru
           r == Append(l, n)
<1>1. /\ u \in RemType /\ NoDup(u.lru) /\ Aged(u.lru, u.age)
      /\ u.node = s.node /\ u.ctr = s.ctr /\ u.age = [s.age EXCEPT ![n] = 0]
      /\ ToSet(u.lru) = ToSet(s.lru) \ {n}
  BY Removed
<1>2. t = [node |-> u.node, lru |-> r, age |-> u.age, ctr |-> u.ctr]
  <2>1. s = [node |-> s.node, lru |-> s.lru, age |-> s.age, ctr |-> s.ctr]
    BY RemParts
  <2>2. u.lru = Unlisted(s.lru, n)
    BY <2>1 DEF remove_node_lru
  <2>3. t = [node |-> s.node, lru |-> Append(Unlisted(s.lru, n), n), age |-> [s.age EXCEPT ![n] = 0], ctr |-> s.ctr]
    BY <2>1 DEF set_forget_time
  <2> QED BY <1>1, <2>2, <2>3
<1>3. u.age \in [RemIds -> Ages] /\ l \in Seq(RemIds) /\ u.age[n] = 0 /\ \A x \in RemIds : u.age[x] \in Nat
  <2>1. s.age \in [RemIds -> Ages]
    BY RemParts
  <2> QED BY <1>1, <2>1, RemParts, AgesNat
<1> HIDE DEF u
<1>4. Listed(l, ToSet(s.lru) \ {n})
  BY <1>1, <1>3 DEF Listed
<1>5. Listed(r, (ToSet(s.lru) \ {n}) \union {n})
  BY <1>4, Appended
<1>6. r \in Seq(RemIds) /\ Len(r) = Len(l) + 1 /\ Len(l) \in Nat /\ (\A i \in 1..Len(l) : r[i] = l[i]) /\ r[Len(r)] = n
      /\ \A i \in 1..Len(l) : l[i] \in RemIds
  BY <1>3
<1> HIDE DEF r
<1>7. Aged(r, u.age)
  <2> SUFFICES ASSUME NEW i \in 1..Len(r), NEW j \in 1..Len(r), i < j PROVE u.age[r[i]] >= u.age[r[j]]
    BY DEF Aged
  <2>1. i \in 1..Len(l) /\ r[i] = l[i]
    BY <1>6
  <2>2. CASE j = Len(r)
    BY <1>3, <1>6, <2>1, <2>2
  <2>3. CASE j # Len(r)
    <3>1. j \in 1..Len(l) /\ r[j] = l[j]
      BY <1>6, <2>3
    <3> QED BY <1>1, <2>1, <3>1 DEF Aged
  <2> QED BY <2>2, <2>3
<1>8. NoDup(r) /\ ToSet(r) = ToSet(s.lru) \union {n}
  BY <1>5 DEF Listed
<1>9. t \in RemType
  BY <1>1, <1>2, <1>6, RemParts DEF RemType
<1> QED BY <1>1, <1>2, <1>7, <1>8, <1>9

-----------------------------------------------------------------------------
(* A reference given up *)

LEMMA KidsNumber == ASSUME NEW s, NEW p PROVE IsFiniteSet(Kids(s, p)) /\ Cardinality(Kids(s, p)) \in Nat
<1>1. IsFiniteSet(RemIds)
  BY RememberAssumption, FS_Interval DEF RememberAssumption, RemIds
<1>2. Kids(s, p) \subseteq RemIds
  BY DEF Kids
<1> QED BY <1>1, <1>2, FS_Subset, FS_CardinalityType

LEMMA RemNumbers == RemNodes \in Nat /\ AllNodes = RemIds \union {0} /\ 0 \in AllNodes /\ 0 \notin RemIds
                    /\ Freed \in RemNode /\ NoName \notin RemNames /\ "d" \notin RemFiles /\ RemFiles \subseteq RemNames
                    /\ "d" \in RemNames /\ NoName # "d" /\ NoName \notin RemFiles
BY RememberAssumption DEF RememberAssumption, AllNodes, RemIds, Freed, RemNode, RemNames, NoName

Unreffed(s, t, p) ==
  \/ /\ s.node[p].refctr > 1
     /\ t.node = [s.node EXCEPT ![p] = [s.node[p] EXCEPT !.refctr = @ - 1]] /\ t.lru = s.lru /\ t.age = s.age
  \/ /\ p # 0 /\ s.node[p].name = NoName /\ s.node[p].nlookup = 0
     /\ t.node = [s.node EXCEPT ![p] = Freed] /\ ToSet(t.lru) = ToSet(s.lru) \ {p}

(* unref_node stops at the node it is called for: a node that has a name is held. *)
LEMMA UnrefIs ==
  ASSUME NEW s, NEW p \in AllNodes, s.node[p].refctr > 1 \/ s.node[p].name = NoName
  PROVE  unref_node(s, p) = IF s.node[p].refctr > 1 THEN [s EXCEPT !.node[p].refctr = @ - 1]
                            ELSE remove_node_lru([s EXCEPT !.node[p] = Freed], p)
<1> DEFINE w == [s |-> s, n |-> p]
           t == [s EXCEPT !.node[p].refctr = @ - 1]
           u == remove_node_lru([s EXCEPT !.node[p] = Freed], p)
           r == IF s.node[p].refctr > 1 THEN t ELSE u
           v == [s |-> r, n |-> Nobody]
<1>1. p # Nobody
  BY RemNumbers DEF Nobody, RemIds
<1>2. w.s = s /\ w.n = p
  OBVIOUS
<1> HIDE DEF w
<1>3. unref_one(w) = v
  <2> HIDE DEF t, u
  <2>1. t = [w.s EXCEPT !.node[w.n].refctr = @ - 1] /\ u = remove_node_lru([w.s EXCEPT !.node[w.n] = Freed], w.n)
    BY <1>2 DEF t, u
  <2>2. CASE s.node[p].refctr > 1
    <3>1. unref_one(w) = [s |-> t, n |-> Nobody]
      BY <1>1, <1>2, <2>1, <2>2 DEF unref_one
    <3> QED BY <2>2, <3>1
  <2>3. CASE ~(s.node[p].refctr > 1)
    <3>1. unref_one(w) = [s |-> u, n |-> Nobody]
      BY <1>1, <1>2, <2>1, <2>3 DEF unref_one
    <3> QED BY <2>3, <3>1
  <2> QED BY <2>2, <2>3
<1>4. v.n = Nobody /\ v.s = r
  OBVIOUS
<1> HIDE DEF v, r
<1>5. unref_one(v) = v
  BY <1>4 DEF unref_one
<1>6. unref_node(s, p) = v.s
  BY <1>3, <1>5 DEF unref_node, w
<1> QED BY <1>4, <1>6 DEF r

LEMMA UnrefOk ==
  ASSUME NEW s, NEW O, RemStruct(s, O), NEW p \in AllNodes, p \in O,
         s.node[p].name = NoName \/ s.node[p].nlookup > 0, NEW t, t = unref_node(s, p)
  PROVE  RemStruct(t, O \ {p}) /\ Unreffed(s, t, p) /\ t.ctr = s.ctr
<1> DEFINE q == s.node[p]
           N == s.node
<1>1. s \in RemType /\ N \in [AllNodes -> RemNode] /\ q \in RemNode /\ q.refctr \in Nat /\ q.nlookup \in Nat
  BY RemParts DEF RemStruct, RemNode
<1>2. s = [node |-> N, lru |-> s.lru, age |-> s.age, ctr |-> s.ctr]
  BY <1>1, RemParts
<1>3. q.refctr = Ones(q.nlookup > 0) + Cardinality(Kids(s, p)) + 1 /\ Cardinality(Kids(s, p)) \in Nat
  <2>1. q.refctr = Ones(q.nlookup > 0) + Cardinality(Kids(s, p)) + Ones(p \in O)
    BY DEF RemStruct, RefsAre
  <2>2. Ones(p \in O) = 1
    BY DEF Ones
  <2> QED BY <2>1, <2>2, KidsNumber
<1>4. RootStays(s) /\ RefsAre(s, O) /\ GoneIsGone(s) /\ TwoDeep(s) /\ NamedHeld(s, O) /\ LruOk(s)
  BY DEF RemStruct
<1>5. Ones(q.nlookup > 0) \in {0, 1} /\ (q.nlookup > 0 => Ones(q.nlookup > 0) = 1)
  BY DEF Ones
<1> HIDE DEF q, N
<1>6. CASE q.refctr > 1
  <2> DEFINE r == [q EXCEPT !.refctr = @ - 1]
             M == [N EXCEPT ![p] = r]
  <2>1. t = [node |-> M, lru |-> s.lru, age |-> s.age, ctr |-> s.ctr]
    <3>1. t = [s EXCEPT !.node[p].refctr = @ - 1]
      BY <1>6, UnrefIs DEF q
    <3> QED BY <1>2, <3>1 DEF q, N
  <2>2. r \in RemNode /\ r.name = q.name /\ r.parent = q.parent /\ r.nlookup = q.nlookup /\ r.refctr = q.refctr - 1 /\ r.refctr # 0
    BY <1>1, <1>6 DEF RemNode
  <2> HIDE DEF r
  <2>3. M \in [AllNodes -> RemNode] /\ M[p] = r /\ \A x \in AllNodes : x # p => M[x] = N[x]
    BY <1>1, <2>2
  <2> HIDE DEF M
  <2>4. \A x \in AllNodes : M[x].name = N[x].name /\ M[x].parent = N[x].parent /\ M[x].nlookup = N[x].nlookup
    BY <2>2, <2>3 DEF q, N
  <2>5. t.node = M /\ t.lru = s.lru /\ t.age = s.age /\ t.ctr = s.ctr
    BY <2>1
  <2>6. \A x : Kids(t, x) = Kids(s, x)
    BY <2>4, <2>5, RemNumbers DEF Kids, N
  <2>7. t \in RemType
    BY <1>1, <2>1, <2>3, RemParts DEF RemType
  <2>8. RootStays(t)
    BY <1>4, <2>4, <2>5, RemNumbers DEF RootStays, N
  <2>9. RefsAre(t, O \ {p})
    <3> SUFFICES ASSUME NEW x \in AllNodes
                 PROVE  t.node[x].refctr = Ones(t.node[x].nlookup > 0) + Cardinality(Kids(t, x)) + Ones(x \in O \ {p})
      BY DEF RefsAre
    <3>1. s.node[x].refctr = Ones(s.node[x].nlookup > 0) + Cardinality(Kids(s, x)) + Ones(x \in O)
      BY <1>4 DEF RefsAre
    <3>2. CASE x = p
      <4>1. Ones(x \in O \ {p}) = 0
        BY <3>2 DEF Ones
      <4> QED BY <1>1, <1>3, <1>5, <2>2, <2>3, <2>5, <2>6, <3>2, <4>1
    <3>3. CASE x # p
      <4>1. Ones(x \in O \ {p}) = Ones(x \in O)
        BY <3>3 DEF Ones
      <4> QED BY <2>3, <2>5, <2>6, <3>1, <3>3, <4>1 DEF N
    <3> QED BY <3>2, <3>3
  <2>10. \A x \in AllNodes : Gone(t, x) <=> Gone(s, x) /\ x # p
    <3>0. Freed.refctr = 0
      BY DEF Freed
    <3>1. r # Freed
      BY <2>2, <3>0
    <3>2. q # Freed
      BY <1>6 DEF Freed
    <3> QED BY <2>3, <2>5, <3>1, <3>2 DEF Gone, N
  <2>11. GoneIsGone(t)
    <3> SUFFICES ASSUME NEW x \in RemIds PROVE (t.node[x].refctr = 0 => Gone(t, x)) /\ (x > t.ctr => Gone(t, x))
      BY DEF GoneIsGone
    <3>1. (s.node[x].refctr = 0 => Gone(s, x)) /\ (x > s.ctr => Gone(s, x))
      BY <1>4 DEF GoneIsGone
    <3>2. CASE x = p
      <4>1. ~Gone(s, x)
        BY <1>6, <3>2 DEF Gone, Freed, q
      <4> QED BY <2>2, <2>3, <2>5, <3>1, <3>2, <4>1
    <3>3. CASE x # p
      BY <2>3, <2>5, <2>10, <3>1, <3>3, RemNumbers DEF N
    <3> QED BY <3>2, <3>3
  <2>12. TwoDeep(t)
    <3>1. \A n \in RemIds : n \in AllNodes /\ s.node[n].parent \in AllNodes
      BY <1>1, RemNumbers DEF RemNode, N
    <3> QED BY <1>4, <2>4, <2>5, <3>1 DEF TwoDeep, N
  <2>13. NamedHeld(t, O \ {p})
    BY <1>4, <2>4, <2>5, RemNumbers DEF NamedHeld, N
  <2>14. LruOk(t)
    <3>1. \A i \in 1..Len(s.lru) : s.lru[i] \in AllNodes
      BY <1>1, RemParts, RemNumbers
    <3>2. \A i \in 1..Len(s.lru) : ~Gone(t, s.lru[i])
      BY <1>4, <2>10, <3>1 DEF LruOk
    <3> QED BY <1>4, <2>5, <3>2 DEF LruOk
  <2>15. Unreffed(s, t, p)
    BY <1>6, <2>5 DEF Unreffed, M, r, q, N
  <2> QED BY <2>5, <2>7, <2>8, <2>9, <2>11, <2>12, <2>13, <2>14, <2>15 DEF RemStruct
<1>7. CASE ~(q.refctr > 1)
  <2>1. q.refctr = 1 /\ Cardinality(Kids(s, p)) = 0 /\ q.nlookup = 0 /\ q.name = NoName
    BY <1>1, <1>3, <1>5, <1>7 DEF q
  <2>2. p # 0 /\ p \in RemIds
    BY <1>4, <2>1, RemNumbers DEF RootStays, q
  <2> DEFINE M == [N EXCEPT ![p] = Freed]
             x0 == [node |-> M, lru |-> s.lru, age |-> s.age, ctr |-> s.ctr]
  <2>3. t = remove_node_lru(x0, p)
    <3>1. t = remove_node_lru([s EXCEPT !.node[p] = Freed], p)
      BY <1>7, <2>1, UnrefIs DEF q
    <3>2. [s EXCEPT !.node[p] = Freed] = x0
      BY <1>2 DEF N
    <3> QED BY <3>1, <3>2
  <2>4. M \in [AllNodes -> RemNode] /\ M[p] = Freed /\ \A x \in AllNodes : x # p => M[x] = N[x]
    BY <1>1, RemNumbers
  <2> HIDE DEF M
  <2>5. x0 \in RemType /\ x0.lru = s.lru /\ x0.age = s.age /\ x0.node = M /\ x0.ctr = s.ctr
    BY <1>1, <2>4, RemParts DEF RemType
  <2> HIDE DEF x0
  <2>6. /\ t \in RemType /\ NoDup(t.lru) /\ Aged(t.lru, t.age)
        /\ t.node = M /\ t.ctr = s.ctr /\ ToSet(t.lru) = ToSet(s.lru) \ {p}
    <3>1. NoDup(x0.lru) /\ Aged(x0.lru, x0.age)
      BY <1>4, <2>5 DEF LruOk
    <3>2. /\ t \in RemType /\ NoDup(t.lru) /\ Aged(t.lru, t.age)
          /\ t.node = x0.node /\ t.ctr = x0.ctr /\ t.age = [x0.age EXCEPT ![p] = 0]
          /\ ToSet(t.lru) = ToSet(x0.lru) \ {p}
      BY <2>2, <2>3, <2>5, <3>1, Removed
    <3> QED BY <2>5, <3>2
  <2>7. Freed.name = NoName /\ Freed.parent = 0 /\ Freed.nlookup = 0 /\ Freed.refctr = 0
    BY DEF Freed
  <2>8. \A x : Kids(t, x) = Kids(s, x)
    <3>1. \A c \in RemIds : M[c].name # NoName <=> N[c].name # NoName
      BY <2>1, <2>4, <2>7, RemNumbers DEF q, N
    <3>2. \A c \in RemIds : M[c].name # NoName => M[c] = N[c]
      BY <2>4, <2>7, RemNumbers
    <3> QED BY <2>6, <3>1, <3>2 DEF Kids, N
  <2>9. RootStays(t)
    BY <1>4, <2>2, <2>4, <2>6, RemNumbers DEF RootStays, N
  <2>10. RefsAre(t, O \ {p})
    <3> SUFFICES ASSUME NEW x \in AllNodes
                 PROVE  t.node[x].refctr = Ones(t.node[x].nlookup > 0) + Cardinality(Kids(t, x)) + Ones(x \in O \ {p})
      BY DEF RefsAre
    <3>1. s.node[x].refctr = Ones(s.node[x].nlookup > 0) + Cardinality(Kids(s, x)) + Ones(x \in O)
      BY <1>4 DEF RefsAre
    <3>2. CASE x = p
      <4>1. Ones(x \in O \ {p}) = 0 /\ Ones(t.node[x].nlookup > 0) = 0
        BY <2>4, <2>6, <2>7, <3>2 DEF Ones
      <4> QED BY <2>1, <2>4, <2>6, <2>7, <2>8, <3>2, <4>1
    <3>3. CASE x # p
      <4>1. Ones(x \in O \ {p}) = Ones(x \in O)
        BY <3>3 DEF Ones
      <4> QED BY <2>4, <2>6, <2>8, <3>1, <3>3, <4>1 DEF N
    <3> QED BY <3>2, <3>3
  <2>11. \A x \in AllNodes : Gone(t, x) <=> Gone(s, x) \/ x = p
    BY <2>4, <2>6 DEF Gone, N
  <2>12. GoneIsGone(t)
    <3>1. \A x \in RemIds : x # p => t.node[x] = s.node[x]
      BY <2>4, <2>6, RemNumbers DEF N
    <3> QED BY <1>4, <2>6, <2>11, <3>1, RemNumbers DEF GoneIsGone
  <2>13. TwoDeep(t)
    <3> SUFFICES ASSUME NEW n \in RemIds
                 PROVE  /\ t.node[n].name \in {NoName, "d"} => t.node[n].parent = 0
                        /\ t.node[n].name \in RemFiles => t.node[n].parent # 0 /\ t.node[t.node[n].parent].name \notin RemFiles
      BY DEF TwoDeep
    <3>1. CASE n = p
      BY <2>4, <2>6, <2>7, <3>1, RemNumbers
    <3>2. CASE n # p
      <4>1. t.node[n] = s.node[n] /\ s.node[n].parent \in AllNodes
        BY <1>1, <2>4, <2>6, <3>2, RemNumbers DEF N, RemNode
      <4>2. t.node[s.node[n].parent] \in {Freed, s.node[s.node[n].parent]}
        BY <2>4, <2>6, <4>1 DEF N
      <4> QED BY <1>4, <2>7, <4>1, <4>2, RemNumbers DEF TwoDeep
    <3> QED BY <3>1, <3>2
  <2>14. NamedHeld(t, O \ {p})
    <3>1. \A n \in RemIds : n # p => t.node[n] = s.node[n]
      BY <2>4, <2>6, RemNumbers DEF N
    <3>2. t.node[p].name = NoName
      BY <2>4, <2>6, <2>7
    <3> QED BY <1>4, <3>1, <3>2 DEF NamedHeld
  <2>15. LruOk(t)
    <3> SUFFICES ASSUME NEW i \in 1..Len(t.lru) PROVE ~Gone(t, t.lru[i])
      BY <2>6 DEF LruOk
    <3>1. t.lru[i] \in ToSet(s.lru) \ {p}
      <4>1. t.lru \in Seq(RemIds)
        BY <2>6, RemParts
      <4>2. t.lru[i] \in ToSet(t.lru)
        BY <4>1 DEF ToSet
      <4> QED BY <2>6, <4>2
    <3>2. PICK j \in 1..Len(s.lru) : s.lru[j] = t.lru[i]
      <4>1. s.lru \in Seq(RemIds)
        BY <1>1, RemParts
      <4> QED BY <3>1, <4>1 DEF ToSet
    <3>3. ~Gone(s, t.lru[i]) /\ t.lru[i] \in AllNodes
      <4>1. s.lru \in Seq(RemIds)
        BY <1>1, RemParts
      <4> QED BY <1>4, <3>2, <4>1, RemNumbers DEF LruOk
    <3> QED BY <2>11, <3>1, <3>3
  <2>16. Unreffed(s, t, p)
    BY <2>1, <2>2, <2>6 DEF Unreffed, M, q, N
  <2> QED BY <2>6, <2>9, <2>10, <2>12, <2>13, <2>14, <2>15, <2>16 DEF RemStruct
<1> QED BY <1>6, <1>7

-----------------------------------------------------------------------------
(* One node changed *)

Rec(name, parent, nlookup, refctr) == [name |-> name, parent |-> parent, nlookup |-> nlookup, refctr |-> refctr]
SetNode(s, n, r) == [node |-> [s.node EXCEPT ![n] = r], lru |-> s.lru, age |-> s.age, ctr |-> s.ctr]

LEMMA RecParts ==
  ASSUME NEW q \in RemNode
  PROVE  q = Rec(q.name, q.parent, q.nlookup, q.refctr)
         /\ q.name \in RemNames \union {NoName} /\ q.parent \in AllNodes /\ q.nlookup \in Nat /\ q.refctr \in Nat
BY DEF RemNode, Rec

LEMMA RecType ==
  ASSUME NEW name \in RemNames \union {NoName}, NEW parent \in AllNodes, NEW nl \in Nat, NEW rc \in Nat,
         NEW r, r = Rec(name, parent, nl, rc)
  PROVE  r \in RemNode /\ r.name = name /\ r.parent = parent /\ r.nlookup = nl /\ r.refctr = rc
BY DEF RemNode, Rec

LEMMA SetIs ==
  ASSUME NEW s \in RemType, NEW n \in AllNodes, NEW r \in RemNode, NEW t, t = SetNode(s, n, r)
  PROVE  /\ t \in RemType /\ t.node \in [AllNodes -> RemNode] /\ t.node[n] = r
         /\ (\A x \in AllNodes : x # n => t.node[x] = s.node[x])
         /\ t.lru = s.lru /\ t.age = s.age /\ t.ctr = s.ctr
<1> DEFINE M == [s.node EXCEPT ![n] = r]
<1>1. s.node \in [AllNodes -> RemNode]
  BY RemParts
<1>2. M \in [AllNodes -> RemNode] /\ M[n] = r /\ \A x \in AllNodes : x # n => M[x] = s.node[x]
  BY <1>1
<1>3. t = [node |-> M, lru |-> s.lru, age |-> s.age, ctr |-> s.ctr]
  BY DEF SetNode
<1> HIDE DEF M
<1>4. t \in RemType
  BY <1>2, <1>3, RemParts DEF RemType
<1> QED BY <1>2, <1>3, <1>4

(* Who is in the list is there, before and after. *)
LEMMA StillInList ==
  ASSUME NEW s, NEW t, s \in RemType, LruOk(s), t.lru = s.lru, t.age = s.age,
         \A x \in RemIds : Gone(t, x) => Gone(s, x)
  PROVE  LruOk(t)
<1>1. \A i \in 1..Len(s.lru) : s.lru[i] \in RemIds
  BY RemParts
<1> QED BY <1>1 DEF LruOk

(* Lookups and references of a node change together. *)
LEMMA Recounted ==
  ASSUME NEW s, NEW O, RemStruct(s, O), NEW n \in AllNodes, n <= s.ctr, NEW nl \in Nat, NEW rc \in Nat, NEW P,
         rc = Ones(nl > 0) + Cardinality(Kids(s, n)) + Ones(n \in P), rc > 0, n = 0 => nl = 1,
         s.node[n].name # NoName => nl > 0 \/ n \in P, \A x \in AllNodes : x # n => (x \in O <=> x \in P),
         NEW t, t = SetNode(s, n, Rec(s.node[n].name, s.node[n].parent, nl, rc))
  PROVE  RemStruct(t, P)
<1> DEFINE q == s.node[n]
           r == Rec(q.name, q.parent, nl, rc)
<1>1. s \in RemType /\ RootStays(s) /\ RefsAre(s, O) /\ GoneIsGone(s) /\ TwoDeep(s) /\ NamedHeld(s, O) /\ LruOk(s)
  BY DEF RemStruct
<1>2. s.node \in [AllNodes -> RemNode] /\ q \in RemNode
  BY <1>1, RemParts
<1>3. r \in RemNode /\ r.name = q.name /\ r.parent = q.parent /\ r.nlookup = nl /\ r.refctr = rc
  <2>1. q.name \in RemNames \union {NoName} /\ q.parent \in AllNodes
    BY <1>2, RecParts
  <2> DEFINE nm == q.name
             pa == q.parent
  <2>2. r = Rec(nm, pa, nl, rc)
    OBVIOUS
  <2> HIDE DEF q, r, nm, pa
  <2>3. nm \in RemNames \union {NoName} /\ pa \in AllNodes
    BY <2>1 DEF nm, pa
  <2>4. r \in RemNode /\ r.name = nm /\ r.parent = pa /\ r.nlookup = nl /\ r.refctr = rc
    BY <2>2, <2>3, RecType
  <2> QED BY <2>4 DEF nm, pa
<1> HIDE DEF r
<1>4. t = SetNode(s, n, r)
  BY DEF r
<1>5. /\ t \in RemType /\ t.node \in [AllNodes -> RemNode] /\ t.node[n] = r
      /\ (\A x \in AllNodes : x # n => t.node[x] = s.node[x])
      /\ t.lru = s.lru /\ t.age = s.age /\ t.ctr = s.ctr
  BY <1>1, <1>3, <1>4, SetIs
<1>6. \A x \in AllNodes : t.node[x].name = s.node[x].name /\ t.node[x].parent = s.node[x].parent
  BY <1>3, <1>5
<1> HIDE DEF q
<1>7. \A x : Kids(t, x) = Kids(s, x)
  BY <1>6, RemNumbers DEF Kids
<1>8. RootStays(t)
  BY <1>1, <1>3, <1>5, <1>6, RemNumbers DEF RootStays
<1>9. RefsAre(t, P)
  <2> SUFFICES ASSUME NEW x \in AllNodes
               PROVE  t.node[x].refctr = Ones(t.node[x].nlookup > 0) + Cardinality(Kids(t, x)) + Ones(x \in P)
    BY DEF RefsAre
  <2>1. CASE x = n
    BY <1>3, <1>5, <1>7, <2>1
  <2>2. CASE x # n
    <3>1. s.node[x].refctr = Ones(s.node[x].nlookup > 0) + Cardinality(Kids(s, x)) + Ones(x \in O)
      BY <1>1 DEF RefsAre
    <3>2. Ones(x \in O) = Ones(x \in P)
      BY <2>2 DEF Ones
    <3> QED BY <1>5, <1>7, <2>2, <3>1, <3>2
  <2> QED BY <2>1, <2>2
<1>10. ~Gone(t, n) /\ \A x \in AllNodes : x # n => (Gone(t, x) <=> Gone(s, x))
  <2>1. Freed.refctr = 0
    BY DEF Freed
  <2>2. ~Gone(t, n)
    <3>1. t.node[n].refctr = rc /\ rc # 0
      BY <1>3, <1>5
    <3> QED BY <2>1, <3>1 DEF Gone
  <2>3. ASSUME NEW x \in AllNodes, x # n PROVE Gone(t, x) <=> Gone(s, x)
    <3>1. t.node[x] = s.node[x]
      BY <1>5, <2>3
    <3> QED BY <3>1 DEF Gone
  <2> QED BY <2>2, <2>3
<1>11. GoneIsGone(t)
  <2> SUFFICES ASSUME NEW x \in RemIds PROVE (t.node[x].refctr = 0 => Gone(t, x)) /\ (x > t.ctr => Gone(t, x))
    BY DEF GoneIsGone
  <2>1. (s.node[x].refctr = 0 => Gone(s, x)) /\ (x > s.ctr => Gone(s, x)) /\ x \in AllNodes
    BY <1>1, RemNumbers DEF GoneIsGone
  <2>2. CASE x = n
    <3>1. x \in Int /\ s.ctr \in Int
      BY <1>1, RemParts, RemNumbers DEF RemIds, AllNodes
    <3> QED BY <1>3, <1>5, <2>2, <3>1
  <2>3. CASE x # n
    BY <1>5, <1>10, <2>1, <2>3
  <2> QED BY <2>2, <2>3
<1>12. TwoDeep(t)
  <2>1. \A x \in RemIds : x \in AllNodes /\ s.node[x].parent \in AllNodes
    BY <1>2, RemNumbers DEF RemNode
  <2>2. \A x \in RemIds : /\ t.node[x].name = s.node[x].name /\ t.node[x].parent = s.node[x].parent
                          /\ t.node[s.node[x].parent].name = s.node[s.node[x].parent].name
    BY <1>6, <2>1
  <2> SUFFICES ASSUME NEW x \in RemIds
               PROVE  /\ t.node[x].name \in {NoName, "d"} => t.node[x].parent = 0
                      /\ t.node[x].name \in RemFiles => t.node[x].parent # 0 /\ t.node[t.node[x].parent].name \notin RemFiles
    BY DEF TwoDeep
  <2>3. /\ s.node[x].name \in {NoName, "d"} => s.node[x].parent = 0
        /\ s.node[x].name \in RemFiles => s.node[x].parent # 0 /\ s.node[s.node[x].parent].name \notin RemFiles
    BY <1>1 DEF TwoDeep
  <2>4. /\ t.node[x].name = s.node[x].name /\ t.node[x].parent = s.node[x].parent
        /\ t.node[t.node[x].parent].name = s.node[s.node[x].parent].name
    BY <2>2
  <2> QED BY <2>3, <2>4
<1>13. NamedHeld(t, P)
  <2> SUFFICES ASSUME NEW x \in RemIds, t.node[x].name # NoName PROVE t.node[x].nlookup > 0 \/ x \in P
    BY DEF NamedHeld
  <2>1. x \in AllNodes /\ s.node[x].name # NoName
    BY <1>6, RemNumbers
  <2>2. CASE x = n
    BY <1>3, <1>5, <2>1, <2>2
  <2>3. CASE x # n
    BY <1>1, <1>5, <2>1, <2>3 DEF NamedHeld
  <2> QED BY <2>2, <2>3
<1>14. LruOk(t)
  <2>1. \A x \in RemIds : Gone(t, x) => Gone(s, x)
    BY <1>10, RemNumbers
  <2> QED BY <1>1, <1>5, <2>1, StillInList
<1> QED BY <1>5, <1>8, <1>9, <1>11, <1>12, <1>13, <1>14 DEF RemStruct

(* A node loses its name, and holds a reference to its directory that is to be given up. *)
LEMMA Unnamed ==
  ASSUME NEW s, NEW O, RemStruct(s, O), NEW n \in RemIds, s.node[n].name # NoName, s.node[n].parent \notin O,
         NEW t, t = SetNode(s, n, Rec(NoName, 0, s.node[n].nlookup, s.node[n].refctr))
  PROVE  RemStruct(t, O \union {s.node[n].parent}) /\ s.node[n].parent # n
<1> DEFINE q == s.node[n]
           p == q.parent
           r == Rec(NoName, 0, q.nlookup, q.refctr)
           P == O \union {p}
<1>1. s \in RemType /\ RootStays(s) /\ RefsAre(s, O) /\ GoneIsGone(s) /\ TwoDeep(s) /\ NamedHeld(s, O) /\ LruOk(s)
  BY DEF RemStruct
<1>2. s.node \in [AllNodes -> RemNode] /\ q \in RemNode /\ n \in AllNodes /\ n # 0
  BY <1>1, RemParts, RemNumbers
<1>3. q.nlookup \in Nat /\ q.refctr \in Nat /\ p \in AllNodes /\ q.name \in RemNames
  BY <1>2, RecParts
<1>4. p # n
  <2>1. CASE q.name = "d"
    <3>1. p = 0
      BY <1>1, <2>1 DEF TwoDeep
    <3> QED BY <1>2, <3>1
  <2>2. CASE q.name \in RemFiles
    BY <1>1, <2>2 DEF TwoDeep
  <2> QED BY <1>3, <2>1, <2>2 DEF RemNames
<1>5. r \in RemNode /\ r.name = NoName /\ r.parent = 0 /\ r.nlookup = q.nlookup /\ r.refctr = q.refctr
  <2> HIDE DEF q, r
  <2>1. r = Rec(NoName, 0, q.nlookup, q.refctr)
    BY DEF r
  <2> QED BY <1>3, <2>1, RecType, RemNumbers
<1> HIDE DEF r
<1>6. t = SetNode(s, n, r)
  BY DEF r
<1>7. /\ t \in RemType /\ t.node \in [AllNodes -> RemNode] /\ t.node[n] = r
      /\ (\A x \in AllNodes : x # n => t.node[x] = s.node[x])
      /\ t.lru = s.lru /\ t.age = s.age /\ t.ctr = s.ctr
  BY <1>1, <1>2, <1>5, <1>6, SetIs
<1>8. \A x \in AllNodes : t.node[x].nlookup = s.node[x].nlookup /\ t.node[x].refctr = s.node[x].refctr
  BY <1>5, <1>7
<1>9. Kids(t, p) = Kids(s, p) \ {n} /\ n \in Kids(s, p) /\ \A x \in AllNodes : x # p => Kids(t, x) = Kids(s, x)
  <2>1. \A c \in RemIds : c # n => t.node[c] = s.node[c]
    BY <1>7, RemNumbers
  <2>2. t.node[n].name = NoName
    BY <1>5, <1>7
  <2> QED BY <2>1, <2>2 DEF Kids
<1>10. Cardinality(Kids(s, p)) = Cardinality(Kids(t, p)) + 1
  <2> HIDE DEF p
  <2>1. IsFiniteSet(Kids(s, p)) /\ Cardinality(Kids(s, p)) \in Nat
    BY KidsNumber
  <2>2. Cardinality(Kids(s, p) \ {n}) = Cardinality(Kids(s, p)) - 1
    BY <1>9, <2>1, FS_RemoveElement
  <2>3. Kids(t, p) = Kids(s, p) \ {n}
    BY <1>9
  <2>4. Cardinality(Kids(t, p)) = Cardinality(Kids(s, p)) - 1
    BY <2>2, <2>3, Zenon
  <2> QED BY <2>1, <2>4
<1> HIDE DEF q, p
<1>11. RootStays(t)
  BY <1>1, <1>2, <1>7, RemNumbers DEF RootStays
<1>12. RefsAre(t, P)
  <2> SUFFICES ASSUME NEW x \in AllNodes
               PROVE  t.node[x].refctr = Ones(t.node[x].nlookup > 0) + Cardinality(Kids(t, x)) + Ones(x \in P)
    BY DEF RefsAre
  <2>1. s.node[x].refctr = Ones(s.node[x].nlookup > 0) + Cardinality(Kids(s, x)) + Ones(x \in O)
    BY <1>1 DEF RefsAre
  <2>2. CASE x = p
    <3>1. Ones(x \in O) = 0 /\ Ones(x \in P) = 1
      BY <2>2 DEF Ones, p, q
    <3>2. Cardinality(Kids(t, p)) \in Nat /\ Ones(s.node[x].nlookup > 0) \in Nat
      BY KidsNumber DEF Ones
    <3> DEFINE a == Ones(s.node[x].nlookup > 0)
               b == Cardinality(Kids(t, p))
               e == s.node[x].refctr
    <3>3. t.node[x].refctr = e /\ Ones(t.node[x].nlookup > 0) = a
      BY <1>8
    <3>4. e = a + Cardinality(Kids(s, p)) + Ones(x \in O)
      BY <2>1, <2>2
    <3>5. Cardinality(Kids(s, p)) = b + 1 /\ Cardinality(Kids(t, x)) = b
      BY <1>10, <2>2
    <3>6. a \in Nat /\ b \in Nat
      BY <3>2
    <3> HIDE DEF a, b, e
    <3>7. e = a + b + 1
      BY <3>1, <3>4, <3>5, <3>6
    <3> QED BY <3>1, <3>3, <3>5, <3>7
  <2>3. CASE x # p
    <3>1. Ones(x \in P) = Ones(x \in O)
      BY <2>3 DEF Ones
    <3> QED BY <1>8, <1>9, <2>1, <2>3, <3>1
  <2> QED BY <2>2, <2>3
<1>13. ~Gone(s, n)
  BY RemNumbers DEF Gone, Freed
<1>14. q.refctr # 0
  BY <1>1, <1>13 DEF GoneIsGone, q
<1>15. ~Gone(t, n) /\ \A x \in AllNodes : x # n => (Gone(t, x) <=> Gone(s, x))
  <2>1. Freed.refctr = 0
    BY DEF Freed
  <2> QED BY <1>5, <1>7, <1>14, <2>1 DEF Gone
<1>16. GoneIsGone(t)
  <2> SUFFICES ASSUME NEW x \in RemIds PROVE (t.node[x].refctr = 0 => Gone(t, x)) /\ (x > t.ctr => Gone(t, x))
    BY DEF GoneIsGone
  <2>1. (s.node[x].refctr = 0 => Gone(s, x)) /\ (x > s.ctr => Gone(s, x)) /\ x \in AllNodes
    BY <1>1, RemNumbers DEF GoneIsGone
  <2>2. CASE x = n
    BY <1>7, <1>8, <1>13, <2>1, <2>2
  <2>3. CASE x # n
    BY <1>7, <1>15, <2>1, <2>3
  <2> QED BY <2>2, <2>3
<1>17. TwoDeep(t)
  <2> SUFFICES ASSUME NEW x \in RemIds
               PROVE  /\ t.node[x].name \in {NoName, "d"} => t.node[x].parent = 0
                      /\ t.node[x].name \in RemFiles => t.node[x].parent # 0 /\ t.node[t.node[x].parent].name \notin RemFiles
    BY DEF TwoDeep
  <2>1. CASE x = n
    BY <1>5, <1>7, <2>1, RemNumbers
  <2>2. CASE x # n
    <3>1. t.node[x] = s.node[x] /\ s.node[x].parent \in AllNodes
      BY <1>2, <1>7, <2>2, RemNumbers DEF RemNode
    <3>2. t.node[s.node[x].parent].name \in {NoName, s.node[s.node[x].parent].name}
      BY <1>5, <1>7, <3>1
    <3> QED BY <1>1, <3>1, <3>2, RemNumbers DEF TwoDeep
  <2> QED BY <2>1, <2>2
<1>18. NamedHeld(t, P)
  <2>1. \A x \in RemIds : x # n => t.node[x] = s.node[x]
    BY <1>7, RemNumbers
  <2>2. t.node[n].name = NoName
    BY <1>5, <1>7
  <2> QED BY <1>1, <2>1, <2>2 DEF NamedHeld
<1>19. LruOk(t)
  <2>1. \A x \in RemIds : Gone(t, x) => Gone(s, x)
    BY <1>15, RemNumbers
  <2> QED BY <1>1, <1>7, <2>1, StillInList
<1>20. RemStruct(t, P)
  BY <1>7, <1>11, <1>12, <1>16, <1>17, <1>18, <1>19 DEF RemStruct
<1> QED BY <1>4, <1>20 DEF P, p, q

(* A node gets a name, and with it the reference to its directory. *)
LEMMA Named ==
  ASSUME NEW s, NEW O, RemStruct(s, O), NEW n \in RemIds, s.node[n].name = NoName, s.node[n].nlookup > 0,
         NEW dir \in AllNodes, dir \in O, dir # n, s.node[dir].name = NoName \/ s.node[dir].nlookup > 0,
         NEW name \in RemNames, name = "d" => dir = 0,
         name \in RemFiles => dir # 0 /\ s.node[dir].name \notin RemFiles /\ Kids(s, n) = {},
         NEW t, t = SetNode(s, n, Rec(name, dir, s.node[n].nlookup, s.node[n].refctr))
  PROVE  RemStruct(t, O \ {dir})
<1> DEFINE q == s.node[n]
           r == Rec(name, dir, q.nlookup, q.refctr)
           P == O \ {dir}
<1>1. s \in RemType /\ RootStays(s) /\ RefsAre(s, O) /\ GoneIsGone(s) /\ TwoDeep(s) /\ NamedHeld(s, O) /\ LruOk(s)
  BY DEF RemStruct
<1>2. s.node \in [AllNodes -> RemNode] /\ q \in RemNode /\ n \in AllNodes /\ n # 0
  BY <1>1, RemParts, RemNumbers
<1>3. q.nlookup \in Nat /\ q.refctr \in Nat
  BY <1>2, RecParts
<1>5. r \in RemNode /\ r.name = name /\ r.parent = dir /\ r.nlookup = q.nlookup /\ r.refctr = q.refctr
  <2> HIDE DEF q, r
  <2>1. r = Rec(name, dir, q.nlookup, q.refctr)
    BY DEF r
  <2> QED BY <1>3, <2>1, RecType
<1> HIDE DEF r
<1>6. t = SetNode(s, n, r)
  BY DEF r
<1>7. /\ t \in RemType /\ t.node \in [AllNodes -> RemNode] /\ t.node[n] = r
      /\ (\A x \in AllNodes : x # n => t.node[x] = s.node[x])
      /\ t.lru = s.lru /\ t.age = s.age /\ t.ctr = s.ctr
  <2>1. s \in RemType /\ n \in AllNodes /\ r \in RemNode
    BY <1>1, <1>2, <1>5
  <2> HIDE DEF q, P
  <2> QED BY <1>6, <2>1, SetIs
<1>8. \A x \in AllNodes : t.node[x].nlookup = s.node[x].nlookup /\ t.node[x].refctr = s.node[x].refctr
  BY <1>5, <1>7
<1>9. Kids(t, dir) = Kids(s, dir) \union {n} /\ n \notin Kids(s, dir) /\ \A x \in AllNodes : x # dir => Kids(t, x) = Kids(s, x)
  <2>1. \A c \in RemIds : c # n => t.node[c] = s.node[c]
    BY <1>7, RemNumbers
  <2>2. t.node[n].name # NoName /\ t.node[n].parent = dir
    BY <1>5, <1>7, RemNumbers
  <2> QED BY <2>1, <2>2 DEF Kids
<1>10. Cardinality(Kids(t, dir)) = Cardinality(Kids(s, dir)) + 1
  BY <1>9, KidsNumber, FS_AddElement
<1> HIDE DEF q
<1>11. RootStays(t)
  BY <1>1, <1>2, <1>7, RemNumbers DEF RootStays
<1>12. RefsAre(t, P)
  <2> SUFFICES ASSUME NEW x \in AllNodes
               PROVE  t.node[x].refctr = Ones(t.node[x].nlookup > 0) + Cardinality(Kids(t, x)) + Ones(x \in P)
    BY DEF RefsAre
  <2>1. s.node[x].refctr = Ones(s.node[x].nlookup > 0) + Cardinality(Kids(s, x)) + Ones(x \in O)
    BY <1>1 DEF RefsAre
  <2>2. CASE x = dir
    <3>1. Ones(x \in O) = 1 /\ Ones(x \in P) = 0
      BY <2>2 DEF Ones
    <3>2. Cardinality(Kids(s, dir)) \in Nat /\ Ones(s.node[x].nlookup > 0) \in Nat
      BY KidsNumber DEF Ones
    <3> QED BY <1>8, <1>10, <2>1, <2>2, <3>1, <3>2
  <2>3. CASE x # dir
    <3>1. Ones(x \in P) = Ones(x \in O)
      BY <2>3 DEF Ones
    <3> QED BY <1>8, <1>9, <2>1, <2>3, <3>1
  <2> QED BY <2>2, <2>3
<1>13. ~Gone(s, n)
  BY DEF Gone, Freed
<1>15. \A x \in AllNodes : (Gone(t, x) <=> Gone(s, x))
  <2>1. Freed.nlookup = 0
    BY DEF Freed
  <2>2. ~Gone(t, n)
    BY <1>5, <1>7, <2>1 DEF Gone, q
  <2> QED BY <1>7, <1>13, <2>2 DEF Gone
<1>16. GoneIsGone(t)
  BY <1>1, <1>7, <1>8, <1>15, RemNumbers DEF GoneIsGone
<1>17. TwoDeep(t)
  <2> SUFFICES ASSUME NEW x \in RemIds
               PROVE  /\ t.node[x].name \in {NoName, "d"} => t.node[x].parent = 0
                      /\ t.node[x].name \in RemFiles => t.node[x].parent # 0 /\ t.node[t.node[x].parent].name \notin RemFiles
    BY DEF TwoDeep
  <2>1. CASE x = n
    BY <1>5, <1>7, <2>1, RemNumbers
  <2>2. CASE x # n
    <3>1. t.node[x] = s.node[x] /\ s.node[x].parent \in AllNodes /\ x \in AllNodes
      BY <1>2, <1>7, <2>2, RemNumbers DEF RemNode
    <3>2. CASE s.node[x].name \in RemFiles /\ s.node[x].parent = n
      <4>1. x \in Kids(s, n) /\ n \in AllNodes
        BY <3>2, RemNumbers DEF Kids
      <4>2. name \notin RemFiles
        BY <4>1
      <4> QED BY <1>1, <1>2, <1>5, <1>7, <3>1, <3>2, <4>2, RemNumbers, ZenonT(40) DEF TwoDeep
    <3>3. CASE ~(s.node[x].name \in RemFiles /\ s.node[x].parent = n)
      BY <1>1, <1>7, <3>1, <3>3, ZenonT(40) DEF TwoDeep
    <3> QED BY <3>2, <3>3
  <2> QED BY <2>1, <2>2
<1>18. NamedHeld(t, P)
  <2> SUFFICES ASSUME NEW x \in RemIds, t.node[x].name # NoName PROVE t.node[x].nlookup > 0 \/ x \in P
    BY DEF NamedHeld
  <2>1. CASE x = n
    BY <1>8, <2>1, RemNumbers
  <2>2. CASE x # n
    <3>1. t.node[x] = s.node[x]
      BY <1>7, <2>2, RemNumbers
    <3>2. x \in O => s.node[x].nlookup > 0 \/ x # dir
      BY <3>1
    <3>3. s.node[x].nlookup > 0 \/ x \in O
      BY <1>1, <3>1 DEF NamedHeld
    <3> QED BY <3>1, <3>2, <3>3
  <2> QED BY <2>1, <2>2
<1>19. LruOk(t)
  <2>1. \A x \in RemIds : Gone(t, x) => Gone(s, x)
    BY <1>15, RemNumbers
  <2> QED BY <1>1, <1>7, <2>1, StillInList
<1> QED BY <1>7, <1>11, <1>12, <1>16, <1>17, <1>18, <1>19 DEF RemStruct

-----------------------------------------------------------------------------
(* The functions of the library *)

(* What becomes of other nodes: a nameless one without lookups may go. *)
Kept(s, t, m) ==
  \/ Gone(t, m) /\ s.node[m].nlookup = 0 /\ s.node[m].name = NoName
  \/ /\ t.node[m].name = s.node[m].name /\ t.node[m].parent = s.node[m].parent /\ t.node[m].nlookup = s.node[m].nlookup
     /\ InList(t, m) <=> InList(s, m)
     /\ Gone(s, m) => Gone(t, m)
OthersKept(s, t, n) == \A m \in RemIds : m # n => Kept(s, t, m)

LEMMA NodeParts ==
  ASSUME NEW s \in RemType, NEW n \in AllNodes
  PROVE  /\ s.node \in [AllNodes -> RemNode] /\ s.node[n] \in RemNode
         /\ s.node[n].name \in RemNames \union {NoName} /\ s.node[n].parent \in AllNodes
         /\ s.node[n].nlookup \in Nat /\ s.node[n].refctr \in Nat
<1>1. s.node \in [AllNodes -> RemNode] /\ s.node[n] \in RemNode
  BY RemParts
<1> QED BY <1>1, RecParts

WithName(q, x, y) == [[q EXCEPT !.name = x] EXCEPT !.parent = y]
WithCounts(q, x, y) == [[q EXCEPT !.refctr = x] EXCEPT !.nlookup = y]
WithRefs(q, x) == [q EXCEPT !.refctr = x]

LEMMA RecRefs ==
  ASSUME NEW a, NEW b, NEW c, NEW d, NEW q, q = Rec(a, b, c, d), NEW x PROVE WithRefs(q, x) = Rec(a, b, c, x)
BY DEF Rec, WithRefs

LEMMA RecFields ==
  ASSUME NEW a, NEW b, NEW c, NEW d, NEW q, q = Rec(a, b, c, d), NEW x, NEW y
  PROVE  WithName(q, x, y) = Rec(x, y, c, d) /\ WithCounts(q, x, y) = Rec(a, b, y, x) /\ WithRefs(q, x) = Rec(a, b, c, x)
<1>1. q = [name |-> a, parent |-> b, nlookup |-> c, refctr |-> d]
  BY DEF Rec
<1>2. [q EXCEPT !.name = x] = Rec(x, b, c, d) /\ [q EXCEPT !.refctr = x] = Rec(a, b, c, x)
  BY <1>1 DEF Rec
<1> DEFINE u == [q EXCEPT !.name = x]
           v == [q EXCEPT !.refctr = x]
<1> HIDE DEF u, v
<1>3. u = [name |-> x, parent |-> b, nlookup |-> c, refctr |-> d] /\ v = [name |-> a, parent |-> b, nlookup |-> c, refctr |-> x]
  BY <1>2 DEF Rec, u, v
<1>4. [u EXCEPT !.parent = y] = Rec(x, y, c, d)
  BY <1>3 DEF Rec
<1>5. [v EXCEPT !.nlookup = y] = Rec(a, b, y, x)
  BY <1>3 DEF Rec
<1> QED BY <1>2, <1>4, <1>5 DEF u, v, WithName, WithCounts, WithRefs

LEMMA ChangedFields ==
  ASSUME NEW s \in RemType, NEW n \in AllNodes
  PROVE  /\ [s EXCEPT !.node[n].name = NoName, !.node[n].parent = 0]
              = SetNode(s, n, Rec(NoName, 0, s.node[n].nlookup, s.node[n].refctr))
         /\ \A k : [s EXCEPT !.node[n].nlookup = @ - k]
              = SetNode(s, n, Rec(s.node[n].name, s.node[n].parent, s.node[n].nlookup - k, s.node[n].refctr))
         /\ [s EXCEPT !.node[n].nlookup = 0]
              = SetNode(s, n, Rec(s.node[n].name, s.node[n].parent, 0, s.node[n].refctr))
         /\ inc_nlookup(s, n)
              = SetNode(s, n, Rec(s.node[n].name, s.node[n].parent, s.node[n].nlookup + 1,
                                  IF s.node[n].nlookup = 0 THEN s.node[n].refctr + 1 ELSE s.node[n].refctr))
<1> DEFINE N == s.node
           q == s.node[n]
<1>1. s = [node |-> N, lru |-> s.lru, age |-> s.age, ctr |-> s.ctr] /\ N \in [AllNodes -> RemNode]
  BY RemParts
<1>2. q = [name |-> q.name, parent |-> q.parent, nlookup |-> q.nlookup, refctr |-> q.refctr]
  BY NodeParts, RecParts DEF Rec
<1>3. [s EXCEPT !.node[n].name = NoName, !.node[n].parent = 0]
              = SetNode(s, n, Rec(NoName, 0, q.nlookup, q.refctr))
  <2> DEFINE r == [[q EXCEPT !.name = NoName] EXCEPT !.parent = 0]
  <2>1. r = Rec(NoName, 0, q.nlookup, q.refctr)
    <3> DEFINE a == q.name
               b == q.parent
               c == q.nlookup
               d == q.refctr
    <3>1. q = Rec(a, b, c, d) /\ r = WithName(q, NoName, 0)
      BY <1>2 DEF Rec, WithName
    <3> HIDE DEF q, a, b, c, d, r
    <3>2. r = Rec(NoName, 0, c, d)
      BY <3>1, RecFields
    <3> QED BY <3>2 DEF c, d
  <2>2. [s EXCEPT !.node[n].name = NoName, !.node[n].parent = 0] = [s EXCEPT !.node = [N EXCEPT ![n] = r]]
    BY <1>1
  <2> HIDE DEF r, q, N
  <2>3. [s EXCEPT !.node = [N EXCEPT ![n] = r]] = [node |-> [N EXCEPT ![n] = r], lru |-> s.lru, age |-> s.age, ctr |-> s.ctr]
    BY <1>1
  <2> QED BY <2>1, <2>2, <2>3 DEF SetNode, N
<1>4. ASSUME NEW k PROVE [s EXCEPT !.node[n].nlookup = @ - k]
              = SetNode(s, n, Rec(q.name, q.parent, q.nlookup - k, q.refctr))
  BY <1>1, <1>2 DEF SetNode, Rec
<1>5. [s EXCEPT !.node[n].nlookup = 0] = SetNode(s, n, Rec(q.name, q.parent, 0, q.refctr))
  BY <1>1, <1>2 DEF SetNode, Rec
<1>6. inc_nlookup(s, n) = SetNode(s, n, Rec(q.name, q.parent, q.nlookup + 1,
                                  IF q.nlookup = 0 THEN q.refctr + 1 ELSE q.refctr))
  <2> DEFINE f == IF q.nlookup = 0 THEN q.refctr + 1 ELSE q.refctr
             x == [q EXCEPT !.refctr = f]
             r == [x EXCEPT !.nlookup = @ + 1]
  <2>1. r = Rec(q.name, q.parent, q.nlookup + 1, f)
    <3> DEFINE a == q.name
               b == q.parent
               c == q.nlookup
               d == q.refctr
               y == c + 1
    <3>1. q = Rec(a, b, c, d) /\ c = q.nlookup /\ x = WithRefs(q, f)
      <4>1. q = Rec(a, b, c, d) /\ c = q.nlookup
        BY <1>2 DEF Rec
      <4>2. x = WithRefs(q, f)
        BY DEF WithRefs
      <4> QED BY <4>1, <4>2
    <3> HIDE DEF q, a, b, c, d, f, x
    <3>2. x = Rec(a, b, c, f) /\ x.nlookup = c
      <4>1. x = Rec(a, b, c, f)
        <5> HIDE DEF r, y
        <5>1. q = Rec(a, b, c, d) /\ x = WithRefs(q, f)
          BY <3>1
        <5>2. WithRefs(q, f) = Rec(a, b, c, f)
          BY <5>1, RecRefs
        <5> QED BY <5>1, <5>2
      <4> QED BY <4>1 DEF Rec
    <3>3. r = WithCounts(q, f, y)
      <4>1. r = [x EXCEPT !.nlookup = y]
        BY <3>2
      <4> QED BY <4>1 DEF WithCounts, x
    <3> HIDE DEF r, y
    <3>4. r = Rec(a, b, y, f)
      BY <3>1, <3>3, RecFields
    <3> QED BY <3>4 DEF a, b, c, y
  <2>2. inc_nlookup(s, n) = [s EXCEPT !.node = [N EXCEPT ![n] = r]]
    <3> DEFINE u == [s EXCEPT !.node[n].refctr = f]
               M == [N EXCEPT ![n] = x]
    <3>1. inc_nlookup(s, n) = [u EXCEPT !.node[n].nlookup = @ + 1]
      BY DEF inc_nlookup
    <3>2. u = [node |-> M, lru |-> s.lru, age |-> s.age, ctr |-> s.ctr]
      <4> HIDE DEF f
      <4> QED BY <1>1
    <3> HIDE DEF u
    <3>3. [u EXCEPT !.node[n].nlookup = @ + 1] = [u EXCEPT !.node = [M EXCEPT ![n] = [M[n] EXCEPT !.nlookup = @ + 1]]]
      <4> HIDE DEF M
      <4> QED BY <3>2
    <3>4. M[n] = x
      <4> HIDE DEF x
      <4> QED BY <1>1
    <3>5. [M EXCEPT ![n] = r] = [N EXCEPT ![n] = r]
      <4> HIDE DEF x, r
      <4> QED BY <1>1
    <3>6. inc_nlookup(s, n) = [u EXCEPT !.node = [N EXCEPT ![n] = r]]
      <4>1. [M[n] EXCEPT !.nlookup = @ + 1] = r
        <5> HIDE DEF M, x
        <5> QED BY <3>4
      <4> HIDE DEF M, r
      <4> QED BY <3>1, <3>3, <3>5, <4>1
    <3>7. [u EXCEPT !.node = [N EXCEPT ![n] = r]] = [s EXCEPT !.node = [N EXCEPT ![n] = r]]
      <4> HIDE DEF r, M, N
      <4> QED BY <1>1, <3>2
    <3> QED BY <3>6, <3>7
  <2> HIDE DEF r, q, N
  <2>3. [s EXCEPT !.node = [N EXCEPT ![n] = r]] = [node |-> [N EXCEPT ![n] = r], lru |-> s.lru, age |-> s.age, ctr |-> s.ctr]
    BY <1>1
  <2> QED BY <2>1, <2>2, <2>3 DEF SetNode, N
<1> QED BY <1>3, <1>4, <1>5, <1>6

LEMMA HashFields ==
  ASSUME NEW s \in RemType, NEW n \in AllNodes, NEW dir \in AllNodes, dir # n, NEW name
  PROVE  hash_name(s, n, dir, name) =
           SetNode(SetNode(s, dir, Rec(s.node[dir].name, s.node[dir].parent, s.node[dir].nlookup, s.node[dir].refctr + 1)),
                   n, Rec(name, dir, s.node[n].nlookup, s.node[n].refctr))
<1> DEFINE N == s.node
           q == s.node[n]
           d == s.node[dir]
           r == Rec(name, dir, q.nlookup, q.refctr)
           e == Rec(d.name, d.parent, d.nlookup, d.refctr + 1)
<1>1. s = [node |-> N, lru |-> s.lru, age |-> s.age, ctr |-> s.ctr] /\ N \in [AllNodes -> RemNode]
  BY RemParts
<1>2. q = [name |-> q.name, parent |-> q.parent, nlookup |-> q.nlookup, refctr |-> q.refctr]
      /\ d = [name |-> d.name, parent |-> d.parent, nlookup |-> d.nlookup, refctr |-> d.refctr]
  BY NodeParts, RecParts DEF Rec
<1>3. r = [[q EXCEPT !.name = name] EXCEPT !.parent = dir] /\ e = [d EXCEPT !.refctr = @ + 1]
  <2>2. r = [[q EXCEPT !.name = name] EXCEPT !.parent = dir]
    <3> DEFINE a == q.name
               b == q.parent
               c == q.nlookup
               g == q.refctr
    <3>1. q = Rec(a, b, c, g) /\ r = Rec(name, dir, c, g)
      BY <1>2 DEF Rec
    <3> HIDE DEF q, r, a, b, c, g
    <3>2. r = WithName(q, name, dir)
      BY <3>1, RecFields
    <3> QED BY <3>2 DEF WithName
  <2>3. e = [d EXCEPT !.refctr = @ + 1]
    BY <1>2 DEF Rec
  <2> QED BY <2>2, <2>3
<1>4. [[N EXCEPT ![dir] = e] EXCEPT ![n] = r] = [[N EXCEPT ![n] = r] EXCEPT ![dir] = e]
  <2> HIDE DEF r, e
  <2> QED BY <1>1
<1>5. hash_name(s, n, dir, name) = [s EXCEPT !.node = [[N EXCEPT ![n] = r] EXCEPT ![dir] = e]]
  BY <1>1, <1>3 DEF hash_name
<1> HIDE DEF r, e
<1>6. SetNode(SetNode(s, dir, e), n, r) = [node |-> [[N EXCEPT ![dir] = e] EXCEPT ![n] = r], lru |-> s.lru, age |-> s.age, ctr |-> s.ctr]
  BY DEF SetNode
<1>7. hash_name(s, n, dir, name) = SetNode(SetNode(s, dir, e), n, r)
  BY <1>1, <1>4, <1>5, <1>6
<1> QED BY <1>7 DEF r, e

LEMMA ParentOther ==
  ASSUME NEW s, NEW O, RemStruct(s, O), NEW n \in RemIds, s.node[n].name # NoName
  PROVE  s.node[n].parent \in AllNodes /\ s.node[n].parent # n /\ ~Gone(s, n)
         /\ (s.node[n].name \in RemFiles => Kids(s, n) = {})
<1>1. s \in RemType /\ TwoDeep(s) /\ n \in AllNodes /\ n # 0
  BY RemNumbers DEF RemStruct
<1>2. s.node[n].name \in RemNames /\ s.node[n].parent \in AllNodes
  BY <1>1, NodeParts
<1>3. s.node[n].parent # n
  <2>1. CASE s.node[n].name = "d"
    BY <1>1, <2>1 DEF TwoDeep
  <2>2. CASE s.node[n].name \in RemFiles
    BY <1>1, <2>2 DEF TwoDeep
  <2> QED BY <1>2, <2>1, <2>2 DEF RemNames
<1>4. ~Gone(s, n)
  BY DEF Gone, Freed
<1>5. ASSUME s.node[n].name \in RemFiles, NEW c \in Kids(s, n) PROVE FALSE
  <2>1. c \in RemIds /\ s.node[c].name # NoName /\ s.node[c].parent = n
    BY <1>5 DEF Kids
  <2>2. s.node[c].name \in RemNames
    BY <1>1, <2>1, NodeParts, RemNumbers
  <2>3. CASE s.node[c].name = "d"
    BY <1>1, <2>1, <2>3 DEF TwoDeep
  <2>4. CASE s.node[c].name \in RemFiles
    BY <1>1, <1>5, <2>1, <2>4 DEF TwoDeep
  <2> QED BY <2>2, <2>3, <2>4 DEF RemNames
<1> QED BY <1>2, <1>3, <1>4, <1>5

(* What a given up reference changes, and keeps. *)
LEMMA UnrefKeeps ==
  ASSUME NEW s \in RemType, NEW p \in AllNodes, NEW t, Unreffed(s, t, p)
  PROVE  (p \in RemIds => Kept(s, t, p)) /\ \A m \in RemIds : m # p => t.node[m] = s.node[m] /\ (InList(t, m) <=> InList(s, m))
<1>1. s.node \in [AllNodes -> RemNode] /\ s.node[p] \in RemNode
  BY NodeParts
<1>2. CASE /\ s.node[p].refctr > 1
           /\ t.node = [s.node EXCEPT ![p] = [s.node[p] EXCEPT !.refctr = @ - 1]] /\ t.lru = s.lru /\ t.age = s.age
  <2> DEFINE r == [s.node[p] EXCEPT !.refctr = @ - 1]
  <2>1. r.name = s.node[p].name /\ r.parent = s.node[p].parent /\ r.nlookup = s.node[p].nlookup
    BY <1>1 DEF RemNode
  <2> HIDE DEF r
  <2>2. t.node[p] = r /\ \A m \in AllNodes : m # p => t.node[m] = s.node[m]
    <3>1. t.node = [s.node EXCEPT ![p] = r]
      BY <1>2 DEF r
    <3> QED BY <1>1, <3>1
  <2>3. ~Gone(s, p)
    BY <1>2 DEF Gone, Freed
  <2> QED BY <1>2, <2>1, <2>2, <2>3, RemNumbers DEF Kept, InList
<1>3. CASE /\ p # 0 /\ s.node[p].name = NoName /\ s.node[p].nlookup = 0
           /\ t.node = [s.node EXCEPT ![p] = Freed] /\ ToSet(t.lru) = ToSet(s.lru) \ {p}
  <2>1. t.node[p] = Freed /\ \A m \in AllNodes : m # p => t.node[m] = s.node[m]
    BY <1>1, <1>3
  <2> QED BY <1>3, <2>1, RemNumbers DEF Kept, InList, Gone
<1> QED BY <1>2, <1>3 DEF Unreffed

LEMMA UnhashOk ==
  ASSUME NEW s, NEW O, RemStruct(s, O), NEW n \in RemIds, O \subseteq {n}, NEW t, t = unhash_name(s, n)
  PROVE  /\ RemStruct(t, O) /\ t.ctr = s.ctr /\ OthersKept(s, t, n)
         /\ t.node[n].name = NoName /\ t.node[n].parent = 0 /\ t.node[n].nlookup = s.node[n].nlookup
         /\ InList(t, n) <=> InList(s, n)
<1>1. s \in RemType /\ RootStays(s) /\ TwoDeep(s) /\ NamedHeld(s, O) /\ n \in AllNodes
  BY RemNumbers DEF RemStruct
<1>2. CASE s.node[n].name = NoName
  <2>1. t = s
    BY <1>2 DEF unhash_name
  <2> QED BY <1>1, <1>2, <2>1 DEF TwoDeep, OthersKept, Kept
<1>3. CASE s.node[n].name # NoName
  <2> DEFINE p == s.node[n].parent
             r == Rec(NoName, 0, s.node[n].nlookup, s.node[n].refctr)
             u == SetNode(s, n, r)
  <2>1. p \in AllNodes /\ p # n /\ p \notin O
    BY <1>3, ParentOther
  <2>2. t = unref_node(u, p)
    BY <1>1, <1>3, ChangedFields DEF unhash_name
  <2>3. RemStruct(u, O \union {p})
    BY <1>3, <2>1, Unnamed
  <2>4. r \in RemNode /\ r.name = NoName /\ r.parent = 0 /\ r.nlookup = s.node[n].nlookup
    <3>1. s.node[n].nlookup \in Nat /\ s.node[n].refctr \in Nat /\ 0 \in AllNodes
      BY <1>1, NodeParts, RemNumbers
    <3> QED BY <3>1, RecType
  <2> HIDE DEF r, p
  <2>5. /\ u \in RemType /\ u.node[n] = r
        /\ (\A x \in AllNodes : x # n => u.node[x] = s.node[x])
        /\ u.lru = s.lru /\ u.age = s.age /\ u.ctr = s.ctr
    BY <1>1, <2>4, SetIs
  <2> HIDE DEF u
  <2>6. u.node[p].name = NoName \/ u.node[p].nlookup > 0
    <3>1. u.node[p] = s.node[p]
      BY <2>1, <2>5
    <3>2. CASE p = 0
      BY <1>1, <3>1, <3>2 DEF RootStays
    <3>3. CASE p # 0
      BY <1>1, <2>1, <3>1, <3>3, RemNumbers DEF NamedHeld
    <3> QED BY <3>2, <3>3
  <2>7. RemStruct(t, (O \union {p}) \ {p}) /\ Unreffed(u, t, p) /\ t.ctr = u.ctr
    BY <2>1, <2>2, <2>3, <2>6, UnrefOk
  <2>8. (O \union {p}) \ {p} = O
    BY <2>1
  <2>9. (p \in RemIds => Kept(u, t, p)) /\ \A m \in RemIds : m # p => t.node[m] = u.node[m] /\ (InList(t, m) <=> InList(u, m))
    BY <2>1, <2>5, <2>7, UnrefKeeps
  <2>10. t.node[n] = r /\ (InList(t, n) <=> InList(s, n))
    BY <2>1, <2>5, <2>9 DEF InList
  <2>11. OthersKept(s, t, n)
    <3> SUFFICES ASSUME NEW m \in RemIds, m # n PROVE Kept(s, t, m)
      BY DEF OthersKept
    <3>1. u.node[m] = s.node[m] /\ (InList(u, m) <=> InList(s, m)) /\ (Gone(u, m) <=> Gone(s, m))
      BY <2>5, RemNumbers DEF InList, Gone
    <3>2. CASE m = p
      BY <2>9, <3>1, <3>2 DEF Kept
    <3>3. CASE m # p
      BY <2>9, <3>1, <3>3 DEF Kept, Gone
    <3> QED BY <3>2, <3>3
  <2> QED BY <2>4, <2>5, <2>7, <2>8, <2>10, <2>11
<1> QED BY <1>2, <1>3

(* The node has the name and its directory one reference more; nobody else is touched.   *)
Hashed(s, t, n, dir, name) ==
  /\ RemStruct(t, {}) /\ t.ctr = s.ctr /\ t.lru = s.lru
  /\ t.node[n].name = name /\ t.node[n].parent = dir /\ t.node[n].nlookup = s.node[n].nlookup
  /\ \A m \in RemIds : m # n => t.node[m].name = s.node[m].name /\ t.node[m].parent = s.node[m].parent
                                /\ t.node[m].nlookup = s.node[m].nlookup /\ (m # dir => t.node[m] = s.node[m])

LEMMA HashOk ==
  ASSUME NEW s, RemStruct(s, {}), NEW n \in RemIds, s.node[n].name = NoName, s.node[n].nlookup > 0,
         NEW dir \in AllNodes, dir <= s.ctr, dir # n, NEW name \in RemNames, name = "d" => dir = 0,
         name \in RemFiles => dir # 0 /\ s.node[dir].name \notin RemFiles /\ Kids(s, n) = {},
         NEW t, t = hash_name(s, n, dir, name)
  PROVE  Hashed(s, t, n, dir, name)
<1> DEFINE d == s.node[dir]
           rc == d.refctr + 1
           e == Rec(d.name, d.parent, d.nlookup, rc)
           u == SetNode(s, dir, e)
           r == Rec(name, dir, s.node[n].nlookup, s.node[n].refctr)
<1>1. s \in RemType /\ RootStays(s) /\ RefsAre(s, {}) /\ NamedHeld(s, {}) /\ n \in AllNodes
  BY RemNumbers DEF RemStruct
<1>2. d.name \in RemNames \union {NoName} /\ d.parent \in AllNodes /\ d.nlookup \in Nat /\ d.refctr \in Nat
      /\ s.node[n].nlookup \in Nat /\ s.node[n].refctr \in Nat
  BY <1>1, NodeParts
<1>3. t = SetNode(u, n, r)
  BY <1>1, HashFields
<1>4. d.name # NoName => d.nlookup > 0
  <2>1. CASE dir = 0
    BY <1>1, <2>1 DEF RootStays
  <2>2. CASE dir # 0
    BY <1>1, <2>2, RemNumbers DEF NamedHeld
  <2> QED BY <2>1, <2>2
<1>5. RemStruct(u, {dir})
  <2> DEFINE nl == d.nlookup
             P == {dir}
  <2>1. rc = Ones(nl > 0) + Cardinality(Kids(s, dir)) + Ones(dir \in P) /\ rc > 0 /\ rc \in Nat
    <3>1. d.refctr = Ones(nl > 0) + Cardinality(Kids(s, dir)) + Ones(dir \in {})
      BY <1>1 DEF RefsAre
    <3>2. Ones(dir \in {}) = 0 /\ Ones(dir \in P) = 1
      BY DEF Ones
    <3>3. Ones(nl > 0) \in Nat /\ Cardinality(Kids(s, dir)) \in Nat
      BY KidsNumber DEF Ones
    <3> QED BY <1>2, <3>1, <3>2, <3>3
  <2>2. dir = 0 => nl = 1
    BY <1>1 DEF RootStays
  <2>3. nl \in Nat /\ (d.name # NoName => nl > 0)
    BY <1>2, <1>4
  <2>4. \A x \in AllNodes : x # dir => (x \in {} <=> x \in P)
    OBVIOUS
  <2>5. u = SetNode(s, dir, Rec(s.node[dir].name, s.node[dir].parent, nl, rc))
    OBVIOUS
  <2> HIDE DEF u, rc, nl
  <2> QED BY <2>1, <2>2, <2>3, <2>4, <2>5, Recounted
<1>6. e \in RemNode /\ e.name = d.name /\ e.parent = d.parent /\ e.nlookup = d.nlookup
  <2> DEFINE nm == d.name
             pa == d.parent
             nl == d.nlookup
  <2>1. rc \in Nat /\ nm \in RemNames \union {NoName} /\ pa \in AllNodes /\ nl \in Nat
    BY <1>2
  <2>2. e = Rec(nm, pa, nl, rc)
    OBVIOUS
  <2> HIDE DEF rc, nm, pa, nl, e, d
  <2>3. e \in RemNode /\ e.name = nm /\ e.parent = pa /\ e.nlookup = nl
    BY <2>1, <2>2, RecType
  <2> QED BY <2>3 DEF nm, pa, nl
<1>7. r \in RemNode /\ r.name = name /\ r.parent = dir /\ r.nlookup = s.node[n].nlookup
  BY <1>2, RecType
<1> HIDE DEF e, d, rc
<1>8. /\ u \in RemType /\ u.node[dir] = e
      /\ (\A x \in AllNodes : x # dir => u.node[x] = s.node[x])
      /\ u.lru = s.lru /\ u.age = s.age /\ u.ctr = s.ctr
  BY <1>1, <1>6, SetIs
<1> HIDE DEF u
<1>9. u.node[n] = s.node[n]
  BY <1>1, <1>8
<1>10. \A x \in AllNodes : u.node[x].name = s.node[x].name /\ u.node[x].parent = s.node[x].parent /\ u.node[x].nlookup = s.node[x].nlookup
  BY <1>6, <1>8 DEF d
<1>11. Kids(u, n) = Kids(s, n)
  BY <1>10, RemNumbers DEF Kids
<1>12. RemStruct(t, {dir} \ {dir})
  <2>1. t = SetNode(u, n, Rec(name, dir, u.node[n].nlookup, u.node[n].refctr))
    BY <1>3, <1>9 DEF r
  <2>2. u.node[dir].name = NoName \/ u.node[dir].nlookup > 0
    BY <1>4, <1>6, <1>8
  <2>3. name \in RemFiles => dir # 0 /\ u.node[dir].name \notin RemFiles /\ Kids(u, n) = {}
    BY <1>10, <1>11
  <2>4. u.node[n].name = NoName /\ u.node[n].nlookup > 0
    BY <1>9
  <2> QED BY <1>5, <2>1, <2>2, <2>3, <2>4, Named
<1>13. {dir} \ {dir} = {}
  OBVIOUS
<1> HIDE DEF r
<1>14. /\ t.node[n] = r /\ (\A x \in AllNodes : x # n => t.node[x] = u.node[x]) /\ t.lru = u.lru /\ t.ctr = u.ctr
  BY <1>1, <1>3, <1>7, <1>8, SetIs
<1>15. RemStruct(t, {}) /\ t.ctr = s.ctr /\ t.lru = s.lru
  BY <1>8, <1>12, <1>13, <1>14
<1>16. \A m \in RemIds : m # n => t.node[m].name = s.node[m].name /\ t.node[m].parent = s.node[m].parent
                                  /\ t.node[m].nlookup = s.node[m].nlookup /\ (m # dir => t.node[m] = s.node[m])
  BY <1>8, <1>10, <1>14, RemNumbers
<1> QED BY <1>7, <1>14, <1>15, <1>16 DEF Hashed

LEMMA KeptTwice ==
  ASSUME NEW s, NEW t, NEW u, NEW m, Kept(s, t, m), Kept(t, u, m) PROVE Kept(s, u, m)
<1>0. Freed.nlookup = 0 /\ Freed.name = NoName
  BY DEF Freed
<1>1. CASE Gone(t, m) /\ s.node[m].nlookup = 0 /\ s.node[m].name = NoName
  <2>1. Gone(u, m)
    BY <1>1 DEF Kept
  <2> QED BY <1>1, <2>1 DEF Kept
<1>2. CASE ~(Gone(t, m) /\ s.node[m].nlookup = 0 /\ s.node[m].name = NoName)
  BY <1>2 DEF Kept
<1> QED BY <1>1, <1>2

(* No node gets a child by it. *)
LEMMA KidsKept ==
  ASSUME NEW s, NEW t, NEW n, OthersKept(s, t, n), t.node[n].name = NoName
  PROVE  \A p : Kids(t, p) \subseteq Kids(s, p)
<1> SUFFICES ASSUME NEW p, NEW c \in Kids(t, p) PROVE c \in Kids(s, p)
  OBVIOUS
<1>1. c \in RemIds /\ t.node[c].name # NoName /\ t.node[c].parent = p /\ c # n
  BY DEF Kids
<1>2. ~Gone(t, c)
  BY <1>1 DEF Gone, Freed
<1> QED BY <1>1, <1>2 DEF Kids, OthersKept, Kept

(* The lookups of a node set, lower than before but not below none. *)
Owed(n, nl) == IF nl = 0 THEN {n} ELSE {}
LoweredTo(s, n, nl) == SetNode(s, n, Rec(s.node[n].name, s.node[n].parent, nl, s.node[n].refctr))
LEMMA Lowered ==
  ASSUME NEW s, RemStruct(s, {}), NEW n \in RemIds, s.node[n].nlookup > 0, NEW nl \in Nat,
         NEW P, P = Owed(n, nl), NEW t, t = LoweredTo(s, n, nl)
  PROVE  /\ RemStruct(t, P) /\ t.ctr = s.ctr /\ t.lru = s.lru
         /\ t.node[n].name = s.node[n].name /\ t.node[n].parent = s.node[n].parent /\ t.node[n].nlookup = nl
         /\ \A m \in RemIds : m # n => t.node[m] = s.node[m]
<1> DEFINE q == s.node[n]
           rc == q.refctr
           nm == q.name
           pa == q.parent
           r == Rec(nm, pa, nl, rc)
<1>0. P = (IF nl = 0 THEN {n} ELSE {}) /\ t = SetNode(s, n, r)
  BY DEF Owed, LoweredTo
<1>1. s \in RemType /\ RefsAre(s, {}) /\ GoneIsGone(s) /\ n \in AllNodes /\ n # 0
  BY RemNumbers DEF RemStruct
<1>2. nm \in RemNames \union {NoName} /\ pa \in AllNodes /\ q.nlookup \in Nat /\ rc \in Nat
  BY <1>1, NodeParts
<1>3. n <= s.ctr
  <2>1. ~Gone(s, n)
    BY DEF Gone, Freed
  <2>2. s.ctr \in Int /\ n \in Int
    BY <1>1, RemParts DEF AllNodes, RemIds
  <2> QED BY <1>1, <2>1, <2>2 DEF GoneIsGone
<1>4. rc = Ones(nl > 0) + Cardinality(Kids(s, n)) + Ones(n \in P) /\ rc > 0
  <2>1. rc = Ones(q.nlookup > 0) + Cardinality(Kids(s, n)) + Ones(n \in {})
    BY <1>1 DEF RefsAre
  <2>2. Ones(q.nlookup > 0) = 1 /\ Ones(n \in {}) = 0 /\ Cardinality(Kids(s, n)) \in Nat
    BY KidsNumber DEF Ones
  <2>3. CASE nl = 0
    <3>1. Ones(nl > 0) = 0 /\ Ones(n \in P) = 1
      BY <1>0, <2>3 DEF Ones
    <3> QED BY <2>1, <2>2, <3>1
  <2>4. CASE nl # 0
    <3>1. Ones(nl > 0) = 1 /\ Ones(n \in P) = 0
      BY <1>0, <2>4 DEF Ones
    <3> QED BY <2>1, <2>2, <3>1
  <2> QED BY <2>3, <2>4
<1>5. (q.name # NoName => nl > 0 \/ n \in P) /\ \A x \in AllNodes : x # n => (x \in {} <=> x \in P)
  BY <1>0, <1>2
<1>6. RemStruct(t, P)
  <2>1. t = SetNode(s, n, Rec(s.node[n].name, s.node[n].parent, nl, rc)) /\ (s.node[n].name # NoName => nl > 0 \/ n \in P)
    BY <1>0, <1>5
  <2> HIDE DEF rc, q, r
  <2> QED BY <1>1, <1>2, <1>3, <1>4, <1>5, <2>1, Recounted
<1>7. t = SetNode(s, n, r)
  BY <1>0
<1>8. r \in RemNode /\ r.name = nm /\ r.parent = pa /\ r.nlookup = nl
  <2>1. r = Rec(nm, pa, nl, rc) /\ nm \in RemNames \union {NoName} /\ pa \in AllNodes /\ rc \in Nat
    BY <1>2
  <2> HIDE DEF nm, pa, rc, q, r
  <2> QED BY <2>1, RecType
<1> HIDE DEF r
<1>9. t.node[n] = r /\ (\A x \in AllNodes : x # n => t.node[x] = s.node[x]) /\ t.lru = s.lru /\ t.ctr = s.ctr
  BY <1>1, <1>7, <1>8, SetIs
<1> QED BY <1>6, <1>8, <1>9, RemNumbers

(* The list changed alone. *)
LEMMA Relisted ==
  ASSUME NEW s, NEW O, RemStruct(s, O), NEW t \in RemType, NoDup(t.lru), Aged(t.lru, t.age),
         t.node = s.node, t.ctr = s.ctr, \A x \in ToSet(t.lru) : ~Gone(s, x)
  PROVE  RemStruct(t, O)
<1>1. Kids(t, 0) = Kids(s, 0) /\ \A p : Kids(t, p) = Kids(s, p)
  BY DEF Kids
<1>2. RootStays(t) /\ RefsAre(t, O) /\ GoneIsGone(t) /\ TwoDeep(t) /\ NamedHeld(t, O)
  <2>1. RootStays(t)
    BY DEF RootStays, RemStruct
  <2>2. RefsAre(t, O)
    BY <1>1 DEF RefsAre, RemStruct
  <2>3. GoneIsGone(t)
    BY DEF GoneIsGone, RemStruct, Gone
  <2>4. TwoDeep(t)
    BY DEF TwoDeep, RemStruct
  <2>5. NamedHeld(t, O)
    BY DEF NamedHeld, RemStruct
  <2> QED BY <2>1, <2>2, <2>3, <2>4, <2>5
<1>3. LruOk(t)
  <2> SUFFICES ASSUME NEW i \in 1..Len(t.lru) PROVE ~Gone(t, t.lru[i])
    BY DEF LruOk
  <2>1. t.lru[i] \in ToSet(t.lru)
    BY RemParts DEF ToSet
  <2> QED BY <2>1 DEF Gone
<1> QED BY <1>2, <1>3 DEF RemStruct

LEMMA ListedThere ==
  ASSUME NEW s, NEW O, RemStruct(s, O) PROVE ToSet(s.lru) \subseteq RemIds /\ \A x \in ToSet(s.lru) : ~Gone(s, x)
<1>1. s.lru \in Seq(RemIds)
  BY RemParts DEF RemStruct
<1>2. \A i \in 1..Len(s.lru) : ~Gone(s, s.lru[i])
  BY DEF RemStruct, LruOk
<1> QED BY <1>1, <1>2 DEF ToSet

LEMMA ForgetOk ==
  ASSUME NEW s, RemStruct(s, {}), NEW n \in RemIds, s.node[n].nlookup > 0, NEW k \in Nat,
         NEW nl \in Nat, nl = s.node[n].nlookup - k, s.node[n].name # NoName => nl > 0,
         NEW t, t = forget_node(s, n, k)
  PROVE  /\ RemStruct(t, {}) /\ t.ctr = s.ctr /\ OthersKept(s, t, n)
         /\ \/ Gone(t, n) /\ nl = 0
            \/ /\ t.node[n].name = s.node[n].name /\ t.node[n].nlookup = nl
               /\ (nl = 1 => InList(t, n)) /\ (nl > 1 => (InList(t, n) <=> InList(s, n)))
<1> DEFINE P == Owed(n, nl)
           u == LoweredTo(s, n, nl)
<1>1. s \in RemType /\ n \in AllNodes /\ n # 0
  BY RemNumbers DEF RemStruct
<1>2. u = [s EXCEPT !.node[n].nlookup = @ - k]
  <2>1. [s EXCEPT !.node[n].nlookup = @ - k]
           = SetNode(s, n, Rec(s.node[n].name, s.node[n].parent, s.node[n].nlookup - k, s.node[n].refctr))
    BY <1>1, ChangedFields, ZenonT(40)
  <2>2. u = SetNode(s, n, Rec(s.node[n].name, s.node[n].parent, s.node[n].nlookup - k, s.node[n].refctr))
    BY DEF LoweredTo
  <2> QED BY <2>1, <2>2
<1>3. P = (IF nl = 0 THEN {n} ELSE {})
  BY DEF Owed
<1>4. u = LoweredTo(s, n, nl) /\ P = Owed(n, nl)
  OBVIOUS
<1> HIDE DEF u, P
<1>5. /\ RemStruct(u, P) /\ u.ctr = s.ctr /\ u.lru = s.lru
      /\ u.node[n].name = s.node[n].name /\ u.node[n].parent = s.node[n].parent /\ u.node[n].nlookup = nl
      /\ \A m \in RemIds : m # n => u.node[m] = s.node[m]
  BY <1>4, Lowered
<1>6. t = IF nl = 0 THEN unref_node(u, n) ELSE IF nl = 1 THEN set_forget_time(u, n) ELSE u
  BY <1>2, <1>5 DEF forget_node
<1>7. OthersKept(s, u, n) /\ (InList(u, n) <=> InList(s, n))
  BY <1>5 DEF OthersKept, Kept, InList, Gone
<1>8. u \in RemType /\ NoDup(u.lru) /\ Aged(u.lru, u.age)
  BY <1>5 DEF RemStruct, LruOk
<1>9. CASE nl = 0
  <2>1. RemStruct(t, P \ {n}) /\ Unreffed(u, t, n) /\ t.ctr = u.ctr
    BY <1>1, <1>3, <1>5, <1>6, <1>9, UnrefOk
  <2>2. P \ {n} = {}
    BY <1>3, <1>9
  <2>3. Kept(u, t, n) /\ \A m \in RemIds : m # n => t.node[m] = u.node[m] /\ (InList(t, m) <=> InList(u, m))
    BY <1>1, <1>8, <2>1, UnrefKeeps
  <2>4. OthersKept(s, t, n)
    BY <1>7, <2>3 DEF OthersKept, Kept, Gone
  <2>5. Gone(t, n) \/ (t.node[n].name = s.node[n].name /\ t.node[n].nlookup = nl)
    BY <1>5, <2>3 DEF Kept
  <2>6. RemStruct(t, {}) /\ t.ctr = s.ctr
    BY <1>5, <2>1, <2>2
  <2>7. ~(nl = 1) /\ ~(nl > 1)
    BY <1>9
  <2> QED BY <1>9, <2>4, <2>5, <2>6, <2>7
<1>10. CASE nl = 1
  <2>1. t = set_forget_time(u, n) /\ RemStruct(u, {})
    BY <1>3, <1>5, <1>6, <1>10
  <2>2. /\ t \in RemType /\ NoDup(t.lru) /\ Aged(t.lru, t.age)
        /\ t.node = u.node /\ t.ctr = u.ctr /\ ToSet(t.lru) = ToSet(u.lru) \union {n}
    BY <1>8, <2>1, PutLast
  <2>3. \A x \in ToSet(t.lru) : ~Gone(u, x)
    <3>1. ~Gone(u, n)
      BY <1>5, <1>10 DEF Gone, Freed
    <3> QED BY <2>1, <2>2, <3>1, ListedThere
  <2>4. RemStruct(t, {})
    BY <2>1, <2>2, <2>3, Relisted
  <2>5. OthersKept(s, t, n)
    BY <1>5, <1>7, <2>2 DEF OthersKept, Kept, Gone, InList
  <2> QED BY <1>5, <1>10, <2>2, <2>4, <2>5 DEF InList
<1>11. CASE nl > 1
  <2>1. t = u /\ RemStruct(u, {})
    BY <1>3, <1>5, <1>6, <1>11
  <2> QED BY <1>5, <1>7, <1>11, <2>1
<1> QED BY <1>9, <1>10, <1>11

LEMMA UnlinkOk ==
  ASSUME NEW s, RemStruct(s, {}), NEW n \in RemIds, s.node[n].nlookup > 1, NEW t, t = unlink_node(s, n)
  PROVE  /\ RemStruct(t, {}) /\ t.ctr = s.ctr /\ OthersKept(s, t, n)
         /\ t.node[n].name = NoName /\ t.node[n].nlookup = s.node[n].nlookup - 1
<1> DEFINE nl == s.node[n].nlookup - 1
           P == Owed(n, nl)
           u == LoweredTo(s, n, nl)
<1>1. s \in RemType /\ n \in AllNodes /\ n # 0
  BY RemNumbers DEF RemStruct
<1>2. nl \in Nat /\ nl > 0 /\ P = {} /\ nl = s.node[n].nlookup - 1
  BY <1>1, NodeParts DEF Owed
<1>3. u = [s EXCEPT !.node[n].nlookup = @ - 1]
  BY <1>1, ChangedFields, ZenonT(40) DEF LoweredTo
<1>4. P = Owed(n, nl) /\ u = LoweredTo(s, n, nl)
  OBVIOUS
<1>5. t = unhash_name(u, n)
  BY <1>3 DEF unlink_node
<1> HIDE DEF nl, u, P
<1>6. /\ RemStruct(u, P) /\ u.ctr = s.ctr /\ u.lru = s.lru
      /\ u.node[n].name = s.node[n].name /\ u.node[n].parent = s.node[n].parent /\ u.node[n].nlookup = nl
      /\ \A m \in RemIds : m # n => u.node[m] = s.node[m]
  <2>1. s.node[n].nlookup > 0
    BY <1>1, NodeParts
  <2>2. nl \in Nat
    BY <1>2
  <2> QED BY <1>4, <2>1, <2>2, Lowered
<1>7. OthersKept(s, u, n)
  BY <1>6 DEF OthersKept, Kept, InList, Gone
<1>8. /\ RemStruct(t, P) /\ t.ctr = u.ctr /\ OthersKept(u, t, n)
      /\ t.node[n].name = NoName /\ t.node[n].parent = 0 /\ t.node[n].nlookup = u.node[n].nlookup
  BY <1>2, <1>5, <1>6, UnhashOk
<1>9. OthersKept(s, t, n)
  BY <1>7, <1>8, KeptTwice DEF OthersKept
<1> QED BY <1>2, <1>6, <1>8, <1>9

(* One node of the walk is passed over, or goes. *)
LEMMA CleanOneOk ==
  ASSUME NEW s, RemStruct(s, {}), NEW n \in RemIds, s.node[n].nlookup = 1, NEW t, t = CleanOne(s, n)
  PROVE  /\ RemStruct(t, {}) /\ t.ctr = s.ctr
         /\ t = s \/ (Gone(t, n) /\ OthersKept(s, t, n))
<1>1. CASE s.node[n].refctr > 1
  BY <1>1 DEF CleanOne
<1>2. CASE ~(s.node[n].refctr > 1)
  <2> DEFINE u == LoweredTo(s, n, 0)
             v == unhash_name(u, n)
             P == {n}
  <2>1. s \in RemType /\ n \in AllNodes /\ n # 0 /\ RefsAre(s, {})
    BY RemNumbers DEF RemStruct
  <2>2. u = [s EXCEPT !.node[n].nlookup = 0]
    BY <2>1, ChangedFields DEF LoweredTo
  <2>3. t = unref_node(v, n)
    BY <1>2, <2>2 DEF CleanOne
  <2>4. u = LoweredTo(s, n, 0)
    OBVIOUS
  <2> HIDE DEF u
  <2>5. v = unhash_name(u, n)
    OBVIOUS
  <2> HIDE DEF v
  <2>6. /\ RemStruct(u, P) /\ u.ctr = s.ctr /\ u.lru = s.lru
        /\ u.node[n].name = s.node[n].name /\ u.node[n].parent = s.node[n].parent /\ u.node[n].nlookup = 0
        /\ \A m \in RemIds : m # n => u.node[m] = s.node[m]
    <3>1. P = Owed(n, 0) /\ 0 \in Nat /\ s.node[n].nlookup > 0
      BY DEF Owed
    <3> HIDE DEF P
    <3> QED BY <2>4, <3>1, Lowered
  <2>7. /\ RemStruct(v, P) /\ v.ctr = u.ctr /\ OthersKept(u, v, n)
        /\ v.node[n].name = NoName /\ v.node[n].parent = 0 /\ v.node[n].nlookup = u.node[n].nlookup
    <3>1. P \subseteq {n}
      OBVIOUS
    <3> HIDE DEF P
    <3> QED BY <2>5, <2>6, <3>1, UnhashOk
  <2>8. RemStruct(t, P \ {n}) /\ Unreffed(v, t, n) /\ t.ctr = v.ctr
    <3>1. n \in P
      OBVIOUS
    <3> HIDE DEF P
    <3> QED BY <2>1, <2>3, <2>7, <3>1, UnrefOk
  <2>9. P \ {n} = {}
    OBVIOUS
  <2>10. OthersKept(s, u, n)
    BY <2>6 DEF OthersKept, Kept, InList, Gone
  <2>11. v \in RemType /\ u \in RemType
    BY <2>6, <2>7 DEF RemStruct
  <2>12. OthersKept(v, t, n) /\ \A m \in RemIds : m # n => t.node[m] = v.node[m]
    <3>1. \A m \in RemIds : m # n => t.node[m] = v.node[m] /\ (InList(t, m) <=> InList(v, m))
      BY <2>1, <2>8, <2>11, UnrefKeeps
    <3> QED BY <3>1 DEF OthersKept, Kept, Gone
  <2>13. OthersKept(s, t, n)
    BY <2>7, <2>10, <2>12, KeptTwice DEF OthersKept
  <2>14. Kids(s, n) = {}
    <3>1. s.node[n].refctr = Ones(s.node[n].nlookup > 0) + Cardinality(Kids(s, n)) + Ones(n \in {})
      BY <2>1 DEF RefsAre
    <3>2. Ones(s.node[n].nlookup > 0) = 1 /\ Ones(n \in {}) = 0
      BY DEF Ones
    <3>3. Cardinality(Kids(s, n)) = 0
      BY <1>2, <3>1, <3>2, KidsNumber
    <3> QED BY <3>3, KidsNumber, FS_EmptySet
  <2>15. Kids(v, n) = {}
    <3>1. Kids(u, n) \subseteq Kids(s, n)
      <4>1. \A c \in RemIds : u.node[c].name = s.node[c].name /\ u.node[c].parent = s.node[c].parent
        BY <2>6
      <4> QED BY <4>1 DEF Kids
    <3>2. Kids(v, n) \subseteq Kids(u, n)
      BY <2>7, KidsKept
    <3> QED BY <2>14, <3>1, <3>2
  <2>16. v.node[n].refctr = 1
    <3>1. v.node[n].refctr = Ones(v.node[n].nlookup > 0) + Cardinality(Kids(v, n)) + Ones(n \in P)
      BY <2>1, <2>7 DEF RemStruct, RefsAre
    <3>2. Ones(v.node[n].nlookup > 0) = 0 /\ Ones(n \in P) = 1
      BY <2>6, <2>7 DEF Ones
    <3>3. Cardinality(Kids(v, n)) = 0
      BY <2>15, FS_EmptySet
    <3> QED BY <3>1, <3>2, <3>3
  <2>17. Gone(t, n)
    <3>1. t.node = [v.node EXCEPT ![n] = Freed]
      BY <2>8, <2>16 DEF Unreffed
    <3>2. v.node \in [AllNodes -> RemNode]
      BY <2>11, RemParts
    <3> QED BY <2>1, <3>1, <3>2 DEF Gone
  <2> QED BY <2>6, <2>7, <2>8, <2>9, <2>13, <2>17
<1> QED BY <1>1, <1>2

-----------------------------------------------------------------------------
(* The walk of fuse_clean_cache *)

LEMMA WalkIs ==
  ASSUME NEW s \in RemType
  PROVE  Len(s.lru) \in Nat /\ CleanWalk(s) \in 0..Len(s.lru) /\ \A i \in 1..CleanWalk(s) : Old(s, i)
<1> DEFINE T == {k \in Nat : k < Len(s.lru) /\ ~Old(s, k + 1)}
           W(k) == (\A i \in 1..k : Old(s, i)) /\ (k < Len(s.lru) => ~Old(s, k + 1))
<1>1. Len(s.lru) \in Nat
  BY RemParts
<1>2. \E k \in 0..Len(s.lru) : W(k)
  <2>1. CASE T = {}
    <3>1. ASSUME NEW i \in 1..Len(s.lru) PROVE Old(s, i)
      <4>1. i - 1 \in Nat /\ i - 1 < Len(s.lru) /\ i - 1 + 1 = i
        BY <1>1
      <4> HIDE DEF W
      <4>2. i - 1 \notin T
        BY <2>1
      <4> QED BY <4>1, <4>2
    <3>2. W(Len(s.lru))
      BY <1>1, <3>1
    <3>3. Len(s.lru) \in 0..Len(s.lru)
      BY <1>1
    <3> HIDE DEF W
    <3> QED BY <3>2, <3>3
  <2>2. CASE T # {}
    <3>1. T \in SUBSET Nat
      OBVIOUS
    <3>2. PICK k \in T : \A y \in T : k <= y
      <4> HIDE DEF T
      <4> QED BY <2>2, <3>1, SmallestOf
    <3>3. k \in Nat /\ k < Len(s.lru) /\ ~Old(s, k + 1)
      OBVIOUS
    <3>4. ASSUME NEW i \in 1..k PROVE Old(s, i)
      <4>1. i - 1 \in Nat /\ i - 1 < Len(s.lru) /\ i - 1 + 1 = i /\ ~(k <= i - 1)
        BY <1>1, <3>3
      <4>2. i - 1 \notin T
        BY <3>2, <4>1
      <4> QED BY <4>1, <4>2
    <3>5. W(k) /\ k \in 0..Len(s.lru)
      BY <1>1, <3>3, <3>4
    <3> HIDE DEF W
    <3> QED BY <3>5
  <2> QED BY <2>1, <2>2
<1> DEFINE K == CHOOSE k \in 0..Len(s.lru) : W(k)
<1>3. K \in 0..Len(s.lru) /\ W(K)
  <2> HIDE DEF W
  <2> QED BY <1>2
<1>4. CleanWalk(s) = K
  BY DEF CleanWalk
<1> HIDE DEF K
<1> QED BY <1>1, <1>3, <1>4

(* The nodes walked so far are passed over or gone, and the others are as they were. *)
WalkedTo(s, t, k) ==
  /\ RemStruct(t, {}) /\ t.ctr = s.ctr
  /\ \A m \in RemIds : Kept(s, t, m) \/ (Gone(t, m) /\ \E i \in 1..k : s.lru[i] = m)

LEMMA NextWalked ==
  ASSUME NEW s, RemStruct(s, {}), NEW k \in 1..Len(s.lru), s.node[s.lru[k]].nlookup = 1,
         NEW t, WalkedTo(s, t, k - 1), NEW u, u = CleanOne(t, s.lru[k])
  PROVE  WalkedTo(s, u, k)
<1> DEFINE n == s.lru[k]
<1>1. s.lru \in Seq(RemIds) /\ n \in RemIds /\ NoDup(s.lru) /\ Len(s.lru) \in Nat
  <2>1. s.lru \in Seq(RemIds)
    BY RemParts DEF RemStruct
  <2> QED BY <2>1 DEF RemStruct, LruOk
<1>2. t.node[n].nlookup = 1
  <2>1. \A i \in 1..k - 1 : s.lru[i] # n
    BY <1>1 DEF NoDup
  <2>2. Kept(s, t, n)
    BY <1>1, <2>1 DEF WalkedTo
  <2> QED BY <2>2 DEF Kept
<1> HIDE DEF n
<1>3. RemStruct(t, {}) /\ t.ctr = s.ctr /\ \A m \in RemIds : Kept(s, t, m) \/ (Gone(t, m) /\ \E i \in 1..k - 1 : s.lru[i] = m)
  BY DEF WalkedTo
<1>4. RemStruct(u, {}) /\ u.ctr = t.ctr /\ (u = t \/ (Gone(u, n) /\ OthersKept(t, u, n)))
  <2>1. u = CleanOne(t, n)
    BY DEF n
  <2> QED BY <1>1, <1>2, <1>3, <2>1, CleanOneOk
<1>5. \A m \in RemIds : (\E i \in 1..k - 1 : s.lru[i] = m) => \E i \in 1..k : s.lru[i] = m
  BY <1>1
<1>6. CASE u = t
  BY <1>3, <1>4, <1>5, <1>6 DEF WalkedTo
<1>7. CASE Gone(u, n) /\ OthersKept(t, u, n)
  <2> SUFFICES ASSUME NEW m \in RemIds PROVE Kept(s, u, m) \/ (Gone(u, m) /\ \E i \in 1..k : s.lru[i] = m)
    BY <1>3, <1>4 DEF WalkedTo
  <2>1. CASE m = n
    BY <1>7, <2>1 DEF n
  <2>2. CASE m # n
    <3>1. Kept(t, u, m)
      BY <1>7, <2>2 DEF OthersKept
    <3>2. CASE Kept(s, t, m)
      BY <3>1, <3>2, KeptTwice
    <3>3. CASE Gone(t, m) /\ \E i \in 1..k - 1 : s.lru[i] = m
      <4>1. Gone(u, m)
        BY <3>1, <3>3 DEF Kept
      <4> QED BY <1>5, <3>3, <4>1
    <3> QED BY <1>3, <3>2, <3>3
  <2> QED BY <2>1, <2>2
<1> QED BY <1>4, <1>6, <1>7

LEMMA CleanedOk ==
  ASSUME NEW s, RemStruct(s, {}), \A i \in 1..CleanWalk(s) : s.node[s.lru[i]].nlookup = 1
  PROVE  WalkedTo(s, Cleaned(s), CleanWalk(s))
<1> DEFINE n == CleanWalk(s)
           All == {t \in RemType : RemStruct(t, {})}
           G == [k \in 0..n |-> {t \in All : WalkedTo(s, t, k)}]
           One(x, k) == CleanOne(x, s.lru[k])
           step == [z \in All \X (1..n) |-> One(z[1], z[2])]
           T(w) == w = [k \in 0..n |-> IF k = 0 THEN s ELSE CleanOne(w[k - 1], s.lru[k])]
           turns == CHOOSE w : T(w)
<1>0. n \in Nat /\ \A k \in 1..n : k \in 1..Len(s.lru) /\ k - 1 \in 0..n /\ k \in 0..n
  <2>1. s \in RemType
    BY DEF RemStruct
  <2>2. Len(s.lru) \in Nat /\ n \in 0..Len(s.lru)
    BY <2>1, WalkIs
  <2> QED BY <2>2
<1>0a. 0 \in 0..n
  BY <1>0
<1>1. s \in G[0]
  <2>1. \A m \in RemIds : Kept(s, s, m)
    BY DEF Kept
  <2>2. WalkedTo(s, s, 0)
    BY <2>1 DEF WalkedTo
  <2>3. s \in All
    BY DEF RemStruct
  <2> HIDE DEF All
  <2> QED BY <1>0a, <2>2, <2>3
<1>2. \A k \in 1..n : \A x \in G[k - 1] : One(x, k) \in G[k] /\ x \in All
  <2> TAKE k \in 1..n
  <2> TAKE x \in G[k - 1]
  <2> DEFINE u == CleanOne(x, s.lru[k])
  <2>1. x \in All /\ WalkedTo(s, x, k - 1)
    BY <1>0
  <2>2. k \in 1..Len(s.lru) /\ s.node[s.lru[k]].nlookup = 1
    BY <1>0
  <2> HIDE DEF u, All
  <2>3. u = CleanOne(x, s.lru[k])
    BY DEF u
  <2>4. WalkedTo(s, u, k)
    BY <2>1, <2>2, <2>3, NextWalked
  <2>5. u \in All
    BY <2>4 DEF WalkedTo, All, RemStruct
  <2> QED BY <1>0, <2>1, <2>3, <2>4, <2>5
<1> HIDE DEF G, All
<1>3. \A k \in 1..n : \A x \in G[k - 1] : step[<<x, k>>] = One(x, k) /\ step[<<x, k>>] \in G[k]
  <2> HIDE DEF One
  <2> QED BY <1>0, <1>2
<1> HIDE DEF step
<1>3a. PICK f : Through(f, n) /\ Turning(f, n, s, step) /\ StaysWithin(f, n, G)
  <2>1. StepsWithin(step, n, G)
    BY <1>3 DEF StepsWithin
  <2> HIDE DEF n
  <2> QED BY <1>0, <1>1, <2>1, RecursionWithin
<1>4. /\ f = [k \in 0..n |-> f[k]] /\ f[0] = s
      /\ \A k \in 1..n : f[k] = step[<<f[k - 1], k>>]
      /\ \A k \in 0..n : f[k] \in G[k]
  BY <1>3a DEF Through, Turning, StaysWithin
<1>5. T(f)
  <2>2. ASSUME NEW k \in 1..n PROVE f[k] = CleanOne(f[k - 1], s.lru[k])
    BY <1>0, <1>3, <1>4
  <2>3. \A k \in 0..n : k = 0 \/ (k \in 1..n /\ k # 0)
    BY <1>0
  <2>4. \A k \in 0..n : f[k] = IF k = 0 THEN s ELSE CleanOne(f[k - 1], s.lru[k])
    BY <1>4, <2>2, <2>3
  <2> QED BY <1>4, <2>4
<1>6. T(turns)
  <2> HIDE DEF T
  <2> QED BY <1>5
<1>7. Cleaned(s) = turns[n]
  BY DEF Cleaned
<1> HIDE DEF turns
<1>8. turns = f
  <2>1. Through(turns, n)
    BY <1>6 DEF Through
  <2>2. turns[0] = f[0]
    BY <1>0a, <1>4, <1>6
  <2>3. ASSUME NEW k \in 1..n, turns[k - 1] = f[k - 1] PROVE turns[k] = f[k]
    <3>1. k \in 0..n /\ k # 0
      BY <1>0
    <3>2. turns[k] = CleanOne(turns[k - 1], s.lru[k]) /\ f[k] = CleanOne(f[k - 1], s.lru[k])
      BY <1>5, <1>6, <3>1
    <3> QED BY <2>3, <3>2
  <2>4. AgreeFurther(turns, f, n)
    BY <2>2, <2>3 DEF AgreeFurther
  <2> HIDE DEF n
  <2> QED BY <1>0, <1>3a, <2>1, <2>4, RecursionOnly
<1>9. turns[n] \in G[n] /\ n \in 0..n
  BY <1>0, <1>4, <1>8
<1>10. WalkedTo(s, turns[n], n)
  BY <1>9 DEF G
<1> QED BY <1>7, <1>10

-----------------------------------------------------------------------------
(* A node found or made *)

LEMMA IncOk ==
  ASSUME NEW s, RemStruct(s, {}), NEW n \in RemIds, n <= s.ctr, NEW t, t = inc_nlookup(s, n)
  PROVE  /\ RemStruct(t, {}) /\ t.ctr = s.ctr /\ t.lru = s.lru
         /\ t.node[n].name = s.node[n].name /\ t.node[n].parent = s.node[n].parent
         /\ t.node[n].nlookup = s.node[n].nlookup + 1
         /\ \A m \in RemIds : m # n => t.node[m] = s.node[m]
<1> DEFINE q == s.node[n]
           nm == q.name
           pa == q.parent
           nl == q.nlookup + 1
           rc == IF q.nlookup = 0 THEN q.refctr + 1 ELSE q.refctr
           P == {}
           r == Rec(nm, pa, nl, rc)
<1>1. s \in RemType /\ RefsAre(s, {}) /\ n \in AllNodes /\ n # 0
  BY RemNumbers DEF RemStruct
<1>2. nm \in RemNames \union {NoName} /\ pa \in AllNodes /\ q.nlookup \in Nat /\ q.refctr \in Nat /\ nl \in Nat /\ rc \in Nat /\ nl > 0
  <2>1. nm \in RemNames \union {NoName} /\ pa \in AllNodes /\ q.nlookup \in Nat /\ q.refctr \in Nat
    BY <1>1, NodeParts
  <2> HIDE DEF nm, pa, q
  <2> QED BY <2>1
<1>3. t = SetNode(s, n, r)
  <2>1. inc_nlookup(s, n) = SetNode(s, n, Rec(s.node[n].name, s.node[n].parent, s.node[n].nlookup + 1,
                                  IF s.node[n].nlookup = 0 THEN s.node[n].refctr + 1 ELSE s.node[n].refctr))
    BY <1>1, ChangedFields
  <2> QED BY <2>1
<1>4. rc = Ones(nl > 0) + Cardinality(Kids(s, n)) + Ones(n \in P) /\ rc > 0
  <2>1. q.refctr = Ones(q.nlookup > 0) + Cardinality(Kids(s, n)) + Ones(n \in {})
    BY <1>1 DEF RefsAre
  <2>2. Ones(nl > 0) = 1 /\ Ones(n \in {}) = 0 /\ Ones(n \in P) = 0 /\ Cardinality(Kids(s, n)) \in Nat
    BY <1>2, KidsNumber DEF Ones
  <2> HIDE DEF q, nl, P
  <2>3. CASE q.nlookup = 0
    <3>1. Ones(q.nlookup > 0) = 0
      BY <2>3 DEF Ones
    <3> QED BY <2>1, <2>2, <2>3, <3>1
  <2>4. CASE q.nlookup # 0
    <3>1. Ones(q.nlookup > 0) = 1
      BY <1>2, <2>4 DEF Ones
    <3> QED BY <2>1, <2>2, <2>4, <3>1
  <2> QED BY <2>3, <2>4
<1>5. RemStruct(t, P)
  <2>1. t = SetNode(s, n, Rec(s.node[n].name, s.node[n].parent, nl, rc))
    BY <1>3
  <2>2. (s.node[n].name # NoName => nl > 0 \/ n \in P) /\ (\A x \in AllNodes : x # n => (x \in {} <=> x \in P)) /\ (n = 0 => nl = 1)
    BY <1>1, <1>2
  <2>3. nl \in Nat /\ rc \in Nat
    BY <1>2
  <2> HIDE DEF nl, rc, P, q, nm, pa, r
  <2> QED BY <1>1, <1>4, <2>1, <2>2, <2>3, Recounted
<1>6. r \in RemNode /\ r.name = nm /\ r.parent = pa /\ r.nlookup = nl
  <2>1. r = Rec(nm, pa, nl, rc)
    OBVIOUS
  <2>2. nm \in RemNames \union {NoName} /\ pa \in AllNodes /\ nl \in Nat /\ rc \in Nat
    BY <1>2
  <2> HIDE DEF r, nm, pa, nl, rc, q
  <2> QED BY <2>1, <2>2, RecType
<1> HIDE DEF r
<1>7. t.node[n] = r /\ (\A x \in AllNodes : x # n => t.node[x] = s.node[x]) /\ t.lru = s.lru /\ t.ctr = s.ctr
  BY <1>1, <1>3, <1>6, SetIs
<1> QED BY <1>5, <1>6, <1>7, RemNumbers

(* The next id taken. *)
LEMMA Raised ==
  ASSUME NEW s, RemStruct(s, {}), s.ctr < RemNodes, NEW t, t = [s EXCEPT !.ctr = s.ctr + 1]
  PROVE  RemStruct(t, {}) /\ t.node = s.node /\ t.lru = s.lru /\ t.ctr = s.ctr + 1
         /\ t.ctr \in RemIds /\ Gone(s, t.ctr) /\ t.ctr > s.ctr
<1>1. s \in RemType /\ s.ctr \in Nat /\ s.ctr + 1 \in AllNodes /\ s.ctr + 1 \in RemIds
  <2>1. s \in RemType
    BY DEF RemStruct
  <2>2. s.ctr \in 0..RemNodes /\ RemNodes \in Nat
    BY <2>1, RemParts, RemNumbers DEF AllNodes
  <2> QED BY <2>1, <2>2 DEF AllNodes, RemIds
<1>2. t = [node |-> s.node, lru |-> s.lru, age |-> s.age, ctr |-> s.ctr + 1]
  <2>1. s = [node |-> s.node, lru |-> s.lru, age |-> s.age, ctr |-> s.ctr]
    BY <1>1, RemParts
  <2> QED BY <2>1
<1>3. t.node = s.node /\ t.lru = s.lru /\ t.age = s.age /\ t.ctr = s.ctr + 1 /\ t \in RemType
  BY <1>1, <1>2, RemParts DEF RemType
<1>4. \A p : Kids(t, p) = Kids(s, p)
  BY <1>3 DEF Kids
<1>5. RootStays(t) /\ RefsAre(t, {}) /\ TwoDeep(t) /\ NamedHeld(t, {}) /\ LruOk(t)
  <2>1. RootStays(t)
    BY <1>3 DEF RootStays, RemStruct
  <2>2. RefsAre(t, {})
    BY <1>3, <1>4 DEF RefsAre, RemStruct
  <2>4. TwoDeep(t)
    BY <1>3 DEF TwoDeep, RemStruct
  <2>5. NamedHeld(t, {})
    BY <1>3 DEF NamedHeld, RemStruct
  <2>6. LruOk(t)
    BY <1>3 DEF LruOk, RemStruct, Gone
  <2> QED BY <2>1, <2>2, <2>4, <2>5, <2>6
<1>6. GoneIsGone(t)
  <2> SUFFICES ASSUME NEW x \in RemIds PROVE (t.node[x].refctr = 0 => Gone(t, x)) /\ (x > t.ctr => Gone(t, x))
    BY DEF GoneIsGone
  <2>1. (s.node[x].refctr = 0 => Gone(s, x)) /\ (x > s.ctr => Gone(s, x))
    BY DEF GoneIsGone, RemStruct
  <2>2. x > s.ctr + 1 => x > s.ctr
    BY <1>1 DEF RemIds
  <2> QED BY <1>3, <2>1, <2>2 DEF Gone
<1>7. Gone(s, s.ctr + 1)
  <2>1. s.ctr + 1 > s.ctr
    BY <1>1
  <2> QED BY <1>1, <2>1 DEF GoneIsGone, RemStruct
<1> QED BY <1>1, <1>3, <1>5, <1>6, <1>7 DEF RemStruct

LEMMA NoKids == ASSUME NEW s, RemStruct(s, {}), NEW n \in RemIds, Gone(s, n) PROVE Kids(s, n) = {} /\ n \notin ToSet(s.lru)
<1>1. n \in AllNodes
  BY RemNumbers
<1>2. s.node[n].refctr = Ones(s.node[n].nlookup > 0) + Cardinality(Kids(s, n)) + Ones(n \in {})
  BY <1>1 DEF RemStruct, RefsAre
<1>3. s.node[n].refctr = 0 /\ s.node[n].nlookup = 0
  BY DEF Gone, Freed
<1>4. Ones(s.node[n].nlookup > 0) = 0 /\ Ones(n \in {}) = 0
  BY <1>3 DEF Ones
<1>5. Cardinality(Kids(s, n)) = 0
  BY <1>2, <1>3, <1>4, KidsNumber
<1> QED BY <1>5, KidsNumber, FS_EmptySet, ListedThere

(* What the invariant needs of a node that a step is not about. *)
Lasting(s, t, m) ==
  /\ ~Gone(t, m) => ~Gone(s, m) /\ t.node[m].name = s.node[m].name /\ t.node[m].nlookup = s.node[m].nlookup
  /\ s.node[m].name # NoName \/ s.node[m].nlookup > 0 => ~Gone(t, m)
  /\ s.node[m].name # NoName => (InList(t, m) <=> InList(s, m))

LEMMA KeptLasts == ASSUME NEW s, NEW t, NEW m, Kept(s, t, m) PROVE Lasting(s, t, m)
<1>0. Freed.name = NoName /\ Freed.nlookup = 0
  BY DEF Freed
<1> QED BY <1>0 DEF Kept, Lasting, Gone

LEMMA RemovedOk ==
  ASSUME NEW s, RemStruct(s, {}), NEW n \in RemIds, NEW u, u = remove_node_lru(s, n)
  PROVE  RemStruct(u, {}) /\ u.node = s.node /\ u.ctr = s.ctr /\ ToSet(u.lru) = ToSet(s.lru) \ {n}
<1>1. s \in RemType /\ NoDup(s.lru) /\ Aged(s.lru, s.age)
  BY DEF RemStruct, LruOk
<1>2. /\ u \in RemType /\ NoDup(u.lru) /\ Aged(u.lru, u.age)
      /\ u.node = s.node /\ u.ctr = s.ctr /\ ToSet(u.lru) = ToSet(s.lru) \ {n}
  BY <1>1, Removed
<1>3. \A x \in ToSet(u.lru) : ~Gone(s, x)
  BY <1>2, ListedThere
<1> QED BY <1>2, <1>3, Relisted

(* The lookup of a name that has a node. *)
LEMMA FoundOk ==
  ASSUME NEW s, RemStruct(s, {}), NEW n \in RemIds, s.node[n].name # NoName,
         NEW u, u = IF s.node[n].nlookup = 1 THEN remove_node_lru(s, n) ELSE s, NEW t, t = inc_nlookup(u, n)
  PROVE  /\ RemStruct(t, {}) /\ t.ctr = s.ctr /\ \A m \in RemIds : m # n => Lasting(s, t, m)
         /\ t.node[n].name = s.node[n].name /\ t.node[n].nlookup = s.node[n].nlookup + 1
         /\ InList(t, n) <=> (InList(s, n) /\ s.node[n].nlookup # 1)
<1>1. s \in RemType /\ NoDup(s.lru) /\ Aged(s.lru, s.age)
  BY DEF RemStruct, LruOk
<1>2. RemStruct(u, {}) /\ u.node = s.node /\ u.ctr = s.ctr
      /\ ToSet(u.lru) = IF s.node[n].nlookup = 1 THEN ToSet(s.lru) \ {n} ELSE ToSet(s.lru)
  <2>1. CASE s.node[n].nlookup = 1
    <3>1. u = remove_node_lru(s, n)
      BY <2>1
    <3>2. RemStruct(u, {}) /\ u.node = s.node /\ u.ctr = s.ctr /\ ToSet(u.lru) = ToSet(s.lru) \ {n}
      BY <3>1, RemovedOk
    <3> QED BY <2>1, <3>2
  <2>2. CASE s.node[n].nlookup # 1
    BY <2>2
  <2> QED BY <2>1, <2>2
<1>3. n <= u.ctr
  <2>1. ~Gone(s, n)
    BY DEF Gone, Freed
  <2>2. s.ctr \in Int /\ n \in Int
    BY <1>1, RemParts DEF AllNodes, RemIds
  <2> QED BY <1>2, <2>1, <2>2 DEF GoneIsGone, RemStruct
<1>4. /\ RemStruct(t, {}) /\ t.ctr = u.ctr /\ t.lru = u.lru
      /\ t.node[n].name = u.node[n].name /\ t.node[n].nlookup = u.node[n].nlookup + 1
      /\ \A m \in RemIds : m # n => t.node[m] = u.node[m]
  BY <1>2, <1>3, IncOk
<1>5. \A m \in RemIds : m # n => Lasting(s, t, m)
  <2> SUFFICES ASSUME NEW m \in RemIds, m # n PROVE Kept(s, t, m)
    BY KeptLasts
  <2>1. t.node[m] = s.node[m] /\ (InList(t, m) <=> InList(s, m))
    BY <1>2, <1>4 DEF InList
  <2> QED BY <2>1 DEF Kept, Gone
<1> QED BY <1>2, <1>4, <1>5 DEF InList

(* The lookup of a name that has none. *)
LEMMA MadeOk ==
  ASSUME NEW s, RemStruct(s, {}), s.ctr < RemNodes, NEW n, n = s.ctr + 1,
         NEW dir \in AllNodes, dir <= s.ctr, dir # 0 => ~Gone(s, dir),
         NEW name \in RemNames, name = "d" => dir = 0, name \in RemFiles => dir # 0 /\ s.node[dir].name \notin RemFiles,
         NEW t, t = inc_nlookup(hash_name(inc_nlookup([s EXCEPT !.ctr = n], n), n, dir, name), n)
  PROVE  /\ RemStruct(t, {}) /\ t.ctr = n /\ n \in RemIds /\ \A m \in RemIds : m # n => Lasting(s, t, m)
         /\ t.node[n].name = name /\ t.node[n].nlookup = 2 /\ ~InList(t, n) /\ Gone(s, n)
<1> DEFINE a == [s EXCEPT !.ctr = n]
           b == inc_nlookup(a, n)
           c == hash_name(b, n, dir, name)
<1>1. t = inc_nlookup(c, n)
  OBVIOUS
<1>2. c = hash_name(b, n, dir, name)
  OBVIOUS
<1> HIDE DEF c
<1>3. b = inc_nlookup(a, n)
  OBVIOUS
<1> HIDE DEF b
<1>4. a = [s EXCEPT !.ctr = s.ctr + 1]
  OBVIOUS
<1> HIDE DEF a
<1>5. RemStruct(a, {}) /\ a.node = s.node /\ a.lru = s.lru /\ a.ctr = n /\ n \in RemIds /\ Gone(s, n) /\ n > s.ctr
  BY <1>4, Raised
<1>6. n <= a.ctr /\ dir <= a.ctr /\ dir # n /\ n \in Int /\ dir \in Int
  <2>1. s.ctr \in Int /\ dir \in Int
    BY RemParts DEF AllNodes, RemStruct
  <2> QED BY <1>5, <2>1
<1>7. /\ RemStruct(b, {}) /\ b.ctr = a.ctr /\ b.lru = a.lru
      /\ b.node[n].name = a.node[n].name /\ b.node[n].nlookup = a.node[n].nlookup + 1
      /\ \A m \in RemIds : m # n => b.node[m] = a.node[m]
  BY <1>3, <1>5, <1>6, IncOk
<1>8. a.node[n].name = NoName /\ a.node[n].nlookup = 0 /\ Kids(a, n) = {} /\ n \notin ToSet(a.lru)
  <2>1. a.node[n].name = NoName /\ a.node[n].nlookup = 0 /\ Gone(a, n)
    BY <1>5 DEF Gone, Freed
  <2> QED BY <1>5, <2>1, NoKids
<1>9. Kids(b, n) = {}
  <2>1. \A x \in RemIds : b.node[x].name # NoName => x # n /\ b.node[x] = a.node[x]
    BY <1>7, <1>8
  <2>2. Kids(b, n) \subseteq Kids(a, n)
    BY <2>1 DEF Kids
  <2> QED BY <1>8, <2>2
<1>10. name \in RemFiles => dir # 0 /\ b.node[dir].name \notin RemFiles /\ Kids(b, n) = {}
  <2>1. dir # 0 => b.node[dir] = s.node[dir]
    BY <1>5, <1>6, <1>7, RemNumbers
  <2> QED BY <1>9, <2>1
<1>11. /\ RemStruct(c, {}) /\ c.ctr = b.ctr /\ c.lru = b.lru
       /\ c.node[n].name = name /\ c.node[n].parent = dir /\ c.node[n].nlookup = b.node[n].nlookup
       /\ \A m \in RemIds : m # n => c.node[m].name = b.node[m].name /\ c.node[m].parent = b.node[m].parent
                                     /\ c.node[m].nlookup = b.node[m].nlookup /\ (m # dir => c.node[m] = b.node[m])
  <2>1. b.node[n].name = NoName /\ b.node[n].nlookup > 0 /\ dir <= b.ctr
    BY <1>6, <1>7, <1>8
  <2>2. Hashed(b, c, n, dir, name)
    BY <1>2, <1>5, <1>6, <1>7, <1>10, <2>1, HashOk
  <2> QED BY <2>2 DEF Hashed
<1>12. /\ RemStruct(t, {}) /\ t.ctr = c.ctr /\ t.lru = c.lru
       /\ t.node[n].name = c.node[n].name /\ t.node[n].nlookup = c.node[n].nlookup + 1
       /\ \A m \in RemIds : m # n => t.node[m] = c.node[m]
  <2>1. n <= c.ctr
    BY <1>6, <1>7, <1>11
  <2> QED BY <1>1, <1>5, <1>11, <2>1, IncOk
<1>13. \A m \in RemIds : m # n => Lasting(s, t, m)
  <2> SUFFICES ASSUME NEW m \in RemIds, m # n PROVE Kept(s, t, m)
    BY KeptLasts
  <2>1. /\ t.node[m].name = s.node[m].name /\ t.node[m].parent = s.node[m].parent
        /\ t.node[m].nlookup = s.node[m].nlookup /\ (m # dir => t.node[m] = s.node[m])
    BY <1>5, <1>7, <1>11, <1>12
  <2>2. InList(t, m) <=> InList(s, m)
    BY <1>5, <1>7, <1>11, <1>12 DEF InList
  <2>3. Gone(s, m) => Gone(t, m)
    BY <2>1, RemNumbers DEF Gone
  <2> QED BY <2>1, <2>2, <2>3 DEF Kept
<1>14. t.node[n].nlookup = 2
  BY <1>7, <1>8, <1>11, <1>12
<1> QED BY <1>5, <1>7, <1>8, <1>11, <1>12, <1>13, <1>14 DEF InList

(* A file renamed in its directory. *)
LEMMA RenamedOk ==
  ASSUME NEW s, RemStruct(s, {}), NEW n \in RemIds, s.node[n].name \in RemFiles, NEW dir, dir = s.node[n].parent,
         NEW new \in RemFiles, NEW t, t = hash_name(unhash_name(s, n), n, dir, new)
  PROVE  /\ RemStruct(t, {}) /\ t.ctr = s.ctr /\ \A m \in RemIds : m # n => Lasting(s, t, m)
         /\ t.node[n].name = new /\ t.node[n].nlookup = s.node[n].nlookup /\ (InList(t, n) <=> InList(s, n))
<1> DEFINE v == unhash_name(s, n)
<1>1. t = hash_name(v, n, dir, new) /\ v = unhash_name(s, n)
  OBVIOUS
<1> HIDE DEF v
<1>2. new \in RemNames /\ new # "d" /\ s.node[n].name # NoName /\ s.node[n].name # "d"
  BY RemNumbers
<1>3. dir \in AllNodes /\ dir # n /\ Kids(s, n) = {}
  BY <1>2, ParentOther
<1>4. dir # 0 /\ dir \in RemIds /\ s.node[dir].name \notin RemFiles
  BY <1>3, RemNumbers DEF RemStruct, TwoDeep
<1>5. ~Gone(s, dir) /\ dir <= s.ctr
  <2>1. n \in Kids(s, dir)
    BY <1>2 DEF Kids
  <2>2. ~Gone(s, dir)
    BY <1>4, <2>1, NoKids
  <2>3. s.ctr \in Int /\ dir \in Int
    BY <1>3, RemParts DEF AllNodes, RemStruct
  <2> QED BY <1>4, <2>2, <2>3 DEF GoneIsGone, RemStruct
<1>6. s.node[n].nlookup > 0
  BY <1>2 DEF RemStruct, NamedHeld
<1>7. /\ RemStruct(v, {}) /\ v.ctr = s.ctr /\ OthersKept(s, v, n)
      /\ v.node[n].name = NoName /\ v.node[n].parent = 0 /\ v.node[n].nlookup = s.node[n].nlookup
      /\ InList(v, n) <=> InList(s, n)
  <2>1. {} \subseteq {n}
    OBVIOUS
  <2> QED BY <1>1, <2>1, UnhashOk
<1>8. Kids(v, n) = {}
  BY <1>3, <1>7, KidsKept
<1>9. Kept(s, v, dir)
  BY <1>3, <1>4, <1>7 DEF OthersKept
<1>10. v.node[dir].name \notin RemFiles
  <2>1. Gone(v, dir) => v.node[dir].name = NoName
    BY DEF Gone, Freed
  <2> QED BY <1>4, <1>9, <2>1, RemNumbers DEF Kept
<1>11. /\ RemStruct(t, {}) /\ t.ctr = v.ctr /\ t.lru = v.lru
       /\ t.node[n].name = new /\ t.node[n].parent = dir /\ t.node[n].nlookup = v.node[n].nlookup
       /\ \A m \in RemIds : m # n => t.node[m].name = v.node[m].name /\ t.node[m].parent = v.node[m].parent
                                     /\ t.node[m].nlookup = v.node[m].nlookup /\ (m # dir => t.node[m] = v.node[m])
  <2>1. v.node[n].nlookup > 0 /\ dir <= v.ctr /\ (new = "d" => dir = 0)
        /\ (new \in RemFiles => dir # 0 /\ v.node[dir].name \notin RemFiles /\ Kids(v, n) = {})
    BY <1>2, <1>4, <1>5, <1>6, <1>7, <1>8, <1>10
  <2>2. RemStruct(v, {}) /\ v.node[n].name = NoName /\ dir \in AllNodes /\ dir # n /\ new \in RemNames
        /\ t = hash_name(v, n, dir, new)
    BY <1>1, <1>2, <1>3, <1>7
  <2> HIDE DEF v
  <2>3. Hashed(v, t, n, dir, new)
    BY <2>1, <2>2, HashOk
  <2> QED BY <2>3 DEF Hashed
<1>12. \A m \in RemIds : m # n => Lasting(s, t, m)
  <2> SUFFICES ASSUME NEW m \in RemIds, m # n PROVE Lasting(s, t, m)
    OBVIOUS
  <2>1. InList(t, m) <=> InList(v, m)
    BY <1>11 DEF InList
  <2>2. CASE m # dir
    <3>1. t.node[m] = v.node[m] /\ Kept(s, v, m)
      BY <1>7, <1>11, <2>2 DEF OthersKept
    <3>2. Kept(s, t, m)
      BY <2>1, <3>1 DEF Kept, Gone
    <3> QED BY <3>2, KeptLasts
  <2>3. CASE m = dir
    <3>0. Freed.name = NoName /\ Freed.nlookup = 0
      BY DEF Freed
    <3>1. t.node[m].name = v.node[m].name /\ t.node[m].nlookup = v.node[m].nlookup
      BY <1>11
    <3>2. t.node[m].name = s.node[m].name /\ t.node[m].nlookup = s.node[m].nlookup
          /\ (s.node[m].name # NoName => (InList(t, m) <=> InList(s, m)))
      BY <1>9, <2>1, <2>3, <3>0, <3>1 DEF Kept, Gone
    <3>3. s.node[m].name # NoName \/ s.node[m].nlookup > 0 => ~Gone(t, m)
      BY <3>0, <3>2 DEF Gone
    <3> QED BY <1>5, <2>3, <3>2, <3>3 DEF Lasting
  <2> QED BY <2>2, <2>3
<1> QED BY <1>7, <1>11, <1>12 DEF InList

-----------------------------------------------------------------------------
(* The inductive invariant of the option remember *)

LEMMA RightLasts ==
  ASSUME NEW s \in RemType, NEW t \in RemType, t.ctr >= s.ctr, NEW m \in RemIds, NEW h, NodeRight(s, h, m), Lasting(s, t, m)
  PROVE  NodeRight(t, h, m)
<1>1. s.ctr \in Int /\ t.ctr \in Int /\ m \in Int
  BY RemParts DEF AllNodes, RemIds
<1>2. m > t.ctr => h = 0
  BY <1>1 DEF NodeRight
<1>3. CASE Gone(t, m)
  <2>1. t.node[m].name = NoName
    BY <1>3 DEF Gone, Freed
  <2> QED BY <1>2, <1>3, <2>1 DEF NodeRight
<1>4. CASE ~Gone(t, m)
  BY <1>2, <1>4 DEF NodeRight, Lasting
<1> QED BY <1>3, <1>4

(* All nodes but n last, and n is right again. *)
Others(s, t, n) == \A m \in RemIds : m # n => Lasting(s, t, m)
NamedStay(s, t) == \A m \in RemIds : s.node[m].name # NoName => ~Gone(t, m)

LEMMA InvAgain ==
  ASSUME RemInv, NEW n \in RemIds, RemStruct(rem', {}), rem'.ctr >= rem.ctr, Others(rem, rem', n),
         known' \in [RemIds -> Nat], flight' \in [RemIds -> Nat], below' \subseteq RemNames,
         \A m \in RemIds : m # n => known'[m] = known[m] /\ flight'[m] = flight[m],
         NodeRight(rem', known'[n] + flight'[n], n)
  PROVE  RemInv'
<1>1. rem \in RemType /\ rem' \in RemType
  BY DEF RemInv, RemStruct
<1>2. ASSUME NEW m \in RemIds PROVE NodeRight(rem', known'[m] + flight'[m], m)
  <2>1. CASE m = n
    BY <2>1
  <2>2. CASE m # n
    <3> DEFINE h == known[m] + flight[m]
    <3>1. known'[m] + flight'[m] = h
      BY <2>2
    <3>2. NodeRight(rem, h, m) /\ Lasting(rem, rem', m)
      BY <2>2 DEF RemInv, Others
    <3> HIDE DEF h
    <3>3. NodeRight(rem', h, m)
      BY <1>1, <3>2, RightLasts
    <3> QED BY <3>1, <3>3
  <2> QED BY <2>1, <2>2
<1> QED BY <1>2 DEF RemInv

LEMMA NamedLast ==
  ASSUME NEW s, NEW t, NEW n, Others(s, t, n), s.node[n].name # NoName => ~Gone(t, n) PROVE NamedStay(s, t)
BY DEF NamedStay, Others, Lasting

LEMMA RemInitOk == RememberInit => RemInv
<1> SUFFICES ASSUME RememberInit PROVE RemInv
  OBVIOUS
<1> DEFINE root == [name |-> NoName, parent |-> 0, nlookup |-> 1, refctr |-> 1]
           N == [n \in AllNodes |-> IF n = 0 THEN root ELSE Freed]
           A == [n \in RemIds |-> 0]
<1>1. rem = [node |-> N, lru |-> << >>, age |-> A, ctr |-> 0]
  <2> DEFINE u == [Freed EXCEPT !.nlookup = 1]
  <2>0. u = [name |-> NoName, parent |-> 0, nlookup |-> 1, refctr |-> 0]
    BY DEF Freed
  <2>1. [Freed EXCEPT !.nlookup = 1, !.refctr = 1] = root
    <3>1. [u EXCEPT !.refctr = 1] = root
      <4> HIDE DEF u
      <4> QED BY <2>0
    <3> QED BY <3>1
  <2> QED BY <2>1 DEF RememberInit, AllNodes
<1>2. root \in RemNode /\ Freed \in RemNode
  BY RemNumbers DEF RemNode
<1>3. N \in [AllNodes -> RemNode] /\ N[0] = root /\ \A n \in RemIds : N[n] = Freed
  <2> HIDE DEF root
  <2> QED BY <1>2, RemNumbers
<1>4. A \in [RemIds -> Ages]
  BY AgesNat
<1> HIDE DEF N, A
<1>5. rem.node = N /\ rem.lru = << >> /\ rem.age = A /\ rem.ctr = 0
  BY <1>1
<1>6. rem \in RemType
  BY <1>1, <1>3, <1>4, RemNumbers DEF RemType
<1>7. \A n \in RemIds : Gone(rem, n) /\ rem.node[n].name = NoName /\ rem.node[n].parent = 0 /\ rem.node[n].nlookup = 0
  BY <1>3, <1>5 DEF Gone, Freed
<1>8. \A p : Kids(rem, p) = {}
  BY <1>7 DEF Kids
<1>9. RootStays(rem) /\ GoneIsGone(rem) /\ TwoDeep(rem) /\ NamedHeld(rem, {}) /\ LruOk(rem)
  <2>1. RootStays(rem)
    BY <1>3, <1>5 DEF RootStays
  <2>2. LruOk(rem)
    BY <1>5 DEF LruOk, NoDup, Aged
  <2> QED BY <1>7, <2>1, <2>2, RemNumbers DEF GoneIsGone, TwoDeep, NamedHeld
<1>10. RefsAre(rem, {})
  <2> SUFFICES ASSUME NEW p \in AllNodes
               PROVE  rem.node[p].refctr = Ones(rem.node[p].nlookup > 0) + Cardinality(Kids(rem, p)) + Ones(p \in {})
    BY DEF RefsAre
  <2>1. Cardinality(Kids(rem, p)) = 0 /\ Ones(p \in {}) = 0
    BY <1>8, FS_EmptySet DEF Ones
  <2>2. CASE p = 0
    <3>1. rem.node[p].refctr = 1 /\ Ones(rem.node[p].nlookup > 0) = 1
      BY <1>3, <1>5, <2>2 DEF Ones
    <3> QED BY <2>1, <3>1
  <2>3. CASE p # 0
    <3>1. rem.node[p].refctr = 0 /\ Ones(rem.node[p].nlookup > 0) = 0
      BY <1>3, <1>5, <2>3, RemNumbers DEF Ones, Freed
    <3> QED BY <2>1, <3>1
  <2> QED BY <2>2, <2>3
<1>11. known \in [RemIds -> Nat] /\ flight \in [RemIds -> Nat] /\ below \subseteq RemNames
       /\ \A n \in RemIds : known[n] + flight[n] = 0
  BY DEF RememberInit
<1>12. \A n \in RemIds : NodeRight(rem, known[n] + flight[n], n)
  BY <1>7, <1>11 DEF NodeRight
<1> QED BY <1>6, <1>9, <1>10, <1>11, <1>12 DEF RemInv, RemStruct

LEMMA RightIs ==
  ASSUME RemInv, NEW n \in RemIds
  PROVE  /\ NodeRight(rem, known[n] + flight[n], n) /\ known[n] \in Nat /\ flight[n] \in Nat /\ n \in Int
         /\ RemStruct(rem, {}) /\ rem \in RemType /\ rem.ctr \in Int
         /\ rem.node[n].name \in RemNames \union {NoName} /\ rem.node[n].nlookup \in Nat
         /\ rem.node[n].name # NoName => rem.node[n].nlookup = known[n] + flight[n] + 1
         /\ (known[n] + flight[n] > 0 => n <= rem.ctr)
<1>1. NodeRight(rem, known[n] + flight[n], n) /\ known[n] \in Nat /\ flight[n] \in Nat /\ n \in Int /\ n \in AllNodes
  BY RemNumbers DEF RemInv, RemIds
<1>2. RemStruct(rem, {}) /\ rem \in RemType
  BY DEF RemInv, RemStruct
<1>3. rem.ctr \in Int
  BY <1>2, RemParts DEF AllNodes
<1>4. rem.node[n].name \in RemNames \union {NoName} /\ rem.node[n].nlookup \in Nat
  BY <1>1, <1>2, NodeParts
<1>5. rem.node[n].name # NoName => ~Gone(rem, n) /\ Ones(rem.node[n].name # NoName) = 1
  BY DEF Gone, Freed, Ones
<1> QED BY <1>1, <1>2, <1>3, <1>4, <1>5 DEF NodeRight

LEMMA LookupOk ==
  ASSUME RemInv, NEW dir \in 0..RemNodes, NEW name \in RemNames, RememberLookup(dir, name)
  PROVE  RemInv' /\ NamedStay(rem, rem')
<1> DEFINE old == lookup_node(rem, dir, name)
           r == find_node(rem, dir, name)
           n == IF old = {} THEN rem.ctr + 1 ELSE CHOOSE x \in old : TRUE
<1>1. /\ rem' = r.s /\ flight' = [flight EXCEPT ![r.n] = @ + 1] /\ known' = known /\ below' = below
      /\ (old = {} => rem.ctr < RemNodes) /\ InDir(dir, name)
  BY DEF RememberLookup
<1>2. r.n = n
  BY DEF find_node
<1>3. RemStruct(rem, {}) /\ known \in [RemIds -> Nat] /\ flight \in [RemIds -> Nat] /\ below \subseteq RemNames
  BY DEF RemInv
<1>4. dir \in AllNodes /\ dir <= rem.ctr /\ (dir # 0 => ~Gone(rem, dir)) /\ (name = "d" => dir = 0)
      /\ (name \in RemFiles => dir # 0 /\ rem.node[dir].name \notin RemFiles)
  <2>1. CASE name = "d"
    <3>1. rem.ctr \in Nat
      BY <1>3, RemParts, RemNumbers DEF RemStruct, AllNodes
    <3> QED BY <1>1, <2>1, <3>1, RemNumbers DEF InDir
  <2>2. CASE name # "d"
    <3>1. dir # 0 /\ known[dir] > 0 /\ rem.node[dir].name = "d" /\ dir \in RemIds /\ dir \in AllNodes
      BY <1>1, <2>2, RemNumbers DEF InDir, AllNodes
    <3>2. dir <= rem.ctr
      BY <3>1, RightIs
    <3>3. ~Gone(rem, dir)
      BY <3>1, RemNumbers DEF Gone, Freed
    <3> QED BY <2>2, <3>1, <3>2, <3>3, RemNumbers
  <2> QED BY <2>1, <2>2
<1>5. CASE old = {}
  <2> DEFINE t == inc_nlookup(hash_name(inc_nlookup([rem EXCEPT !.ctr = n], n), n, dir, name), n)
  <2>1. n = rem.ctr + 1 /\ rem' = t
    BY <1>1, <1>5 DEF find_node
  <2>2. rem.ctr < RemNodes
    BY <1>1, <1>5
  <2>3. t = inc_nlookup(hash_name(inc_nlookup([rem EXCEPT !.ctr = n], n), n, dir, name), n)
    OBVIOUS
  <2> HIDE DEF n, t
  <2>4. /\ RemStruct(t, {}) /\ t.ctr = n /\ n \in RemIds /\ (\A m \in RemIds : m # n => Lasting(rem, t, m))
        /\ t.node[n].name = name /\ t.node[n].nlookup = 2 /\ ~InList(t, n) /\ Gone(rem, n)
    BY <1>3, <1>4, <2>1, <2>2, <2>3, MadeOk
  <2>5. n > rem.ctr /\ rem.node[n].name = NoName
    <3>1. rem.ctr \in Int
      BY <2>4, RightIs
    <3> QED BY <2>1, <2>4, <3>1 DEF Gone, Freed
  <2>6. known[n] + flight[n] = 0 /\ known[n] \in Nat /\ flight[n] \in Nat
    BY <2>4, <2>5, RightIs DEF NodeRight
  <2>7. flight' \in [RemIds -> Nat] /\ flight'[n] = flight[n] + 1 /\ \A m \in RemIds : m # n => flight'[m] = flight[m]
    BY <1>1, <1>2, <1>3, <2>4, <2>6
  <2>8. known'[n] + flight'[n] = 1
    BY <1>1, <2>6, <2>7
  <2>9. NodeRight(rem', 1, n)
    <3>1. Ones(t.node[n].name # NoName) = 1
      BY <2>4, RemNumbers DEF Ones
    <3>2. ~(n > n)
      BY <2>4, RightIs
    <3> QED BY <2>1, <2>4, <3>1, <3>2 DEF NodeRight
  <2>10. Others(rem, rem', n) /\ rem'.ctr >= rem.ctr
    <3>1. n \in Int /\ rem.ctr \in Int
      BY <2>4, RightIs
    <3> QED BY <2>1, <2>4, <2>5, <3>1 DEF Others
  <2>11. RemInv'
    BY <1>1, <1>3, <2>1, <2>4, <2>7, <2>8, <2>9, <2>10, InvAgain
  <2> QED BY <2>5, <2>10, <2>11, NamedLast
<1>6. CASE old # {}
  <2> DEFINE u == IF rem.node[n].nlookup = 1 THEN remove_node_lru(rem, n) ELSE rem
             t == inc_nlookup(u, n)
  <2>1. rem' = t
    BY <1>1, <1>6 DEF find_node
  <2>2. n \in RemIds /\ rem.node[n].name = name
    <3>1. n \in old
      BY <1>6
    <3> QED BY <3>1 DEF lookup_node
  <2>3. u = (IF rem.node[n].nlookup = 1 THEN remove_node_lru(rem, n) ELSE rem) /\ t = inc_nlookup(u, n)
    OBVIOUS
  <2> HIDE DEF n, u, t
  <2>4. rem.node[n].name # NoName
    BY <2>2, RemNumbers
  <2>5. /\ RemStruct(t, {}) /\ t.ctr = rem.ctr /\ (\A m \in RemIds : m # n => Lasting(rem, t, m))
        /\ t.node[n].name = rem.node[n].name /\ t.node[n].nlookup = rem.node[n].nlookup + 1
        /\ (InList(t, n) <=> (InList(rem, n) /\ rem.node[n].nlookup # 1))
    BY <1>3, <2>2, <2>3, <2>4, FoundOk
  <2>6. /\ known[n] \in Nat /\ flight[n] \in Nat /\ rem.node[n].nlookup = known[n] + flight[n] + 1
        /\ (InList(rem, n) <=> known[n] + flight[n] = 0) /\ n <= rem.ctr /\ n \in Int /\ rem.ctr \in Int
    <3>1. ~Gone(rem, n)
      BY <2>4 DEF Gone, Freed
    <3>2. n <= rem.ctr
      BY <1>3, <2>2, <3>1, RightIs DEF GoneIsGone, RemStruct
    <3> QED BY <2>2, <2>4, <3>2, RightIs DEF NodeRight
  <2>7. flight' \in [RemIds -> Nat] /\ flight'[n] = flight[n] + 1 /\ \A m \in RemIds : m # n => flight'[m] = flight[m]
    BY <1>1, <1>2, <1>3, <2>2, <2>6
  <2> DEFINE h == known[n] + flight[n] + 1
  <2>8. known'[n] + flight'[n] = h /\ h \in Nat /\ h > 0
    BY <1>1, <2>6, <2>7
  <2>9. NodeRight(rem', h, n)
    <3>1. Ones(t.node[n].name # NoName) = 1
      BY <2>4, <2>5 DEF Ones
    <3>2. ~InList(t, n)
      BY <2>5, <2>6
    <3>3. t.node[n].nlookup = h + 1
      BY <2>5, <2>6
    <3> QED BY <2>1, <2>4, <2>5, <2>6, <2>8, <3>1, <3>2, <3>3 DEF NodeRight
  <2>10. Others(rem, rem', n) /\ rem'.ctr >= rem.ctr
    BY <2>1, <2>5, <2>6 DEF Others
  <2> HIDE DEF h
  <2>11. RemInv'
    BY <1>1, <1>3, <2>1, <2>2, <2>5, <2>7, <2>8, <2>9, <2>10, InvAgain
  <2>12. ~Gone(rem', n)
    BY <2>1, <2>4, <2>5 DEF Gone, Freed
  <2> QED BY <2>10, <2>11, <2>12, NamedLast
<1> QED BY <1>5, <1>6

(* k lookups of a node less. *)
LEMMA ForgotOk ==
  ASSUME RemInv, NEW n \in RemIds, rem.node[n] # Freed, NEW k \in Nat, k > 0, k <= known[n] + flight[n],
         rem' = forget_node(rem, n, k), known' \in [RemIds -> Nat], flight' \in [RemIds -> Nat], below' \subseteq RemNames,
         \A m \in RemIds : m # n => known'[m] = known[m] /\ flight'[m] = flight[m],
         known'[n] + flight'[n] = known[n] + flight[n] - k
  PROVE  RemInv' /\ NamedStay(rem, rem')
<1> DEFINE o == Ones(rem.node[n].name # NoName)
           h == known[n] + flight[n]
           g == h - k
           nl == g + o
           t == forget_node(rem, n, k)
<1>1. ~Gone(rem, n) /\ NodeRight(rem, h, n) /\ h \in Nat /\ RemStruct(rem, {}) /\ n \in Int /\ rem.ctr \in Int
      /\ n <= rem.ctr /\ rem.node[n].nlookup \in Nat
  BY RightIs DEF Gone
<1>2. rem.node[n].nlookup = h + o
  BY <1>1 DEF NodeRight
<1>3. o \in Nat /\ (rem.node[n].name # NoName => o = 1) /\ (rem.node[n].name = NoName => o = 0)
  BY DEF Ones
<1> HIDE DEF o
<1>4. g \in Nat /\ nl \in Nat /\ nl = rem.node[n].nlookup - k /\ (rem.node[n].name # NoName => nl > 0) /\ rem.node[n].nlookup > 0
  BY <1>1, <1>2, <1>3
<1>5. known'[n] + flight'[n] = g
  <2>1. known[n] \in Nat /\ flight[n] \in Nat
    BY RightIs
  <2>2. known'[n] + flight'[n] = known[n] + flight[n] - k
    OBVIOUS
  <2> HIDE DEF t, nl
  <2> QED BY <2>1, <2>2
<1>6. t = forget_node(rem, n, k) /\ rem' = t
  OBVIOUS
<1> HIDE DEF nl, t
<1>7. /\ RemStruct(t, {}) /\ t.ctr = rem.ctr /\ OthersKept(rem, t, n)
      /\ \/ Gone(t, n) /\ nl = 0
         \/ /\ t.node[n].name = rem.node[n].name /\ t.node[n].nlookup = nl
            /\ (nl = 1 => InList(t, n)) /\ (nl > 1 => (InList(t, n) <=> InList(rem, n)))
  <2>1. nl \in Nat /\ nl = rem.node[n].nlookup - k /\ (rem.node[n].name # NoName => nl > 0) /\ rem.node[n].nlookup > 0
    BY <1>4
  <2> QED BY <1>1, <1>6, <2>1, ForgetOk
<1>8. NodeRight(t, g, n)
  <2>1. CASE Gone(t, n)
    <3>1. t.node[n].name = NoName
      BY <2>1 DEF Gone, Freed
    <3> QED BY <1>1, <1>7, <2>1, <3>1 DEF NodeRight
  <2>2. CASE ~Gone(t, n)
    <3>1. t.node[n].name = rem.node[n].name /\ t.node[n].nlookup = nl
          /\ (nl = 1 => InList(t, n)) /\ (nl > 1 => (InList(t, n) <=> InList(rem, n)))
      BY <1>7, <2>2
    <3>2. t.node[n].nlookup = g + Ones(t.node[n].name # NoName)
      BY <3>1 DEF nl, o
    <3>3. ASSUME t.node[n].name # NoName PROVE InList(t, n) <=> g = 0
      <4>1. o = 1 /\ ~InList(rem, n)
        <5>1. h # 0
          BY <1>1
        <5> QED BY <1>1, <1>3, <3>1, <3>3, <5>1 DEF NodeRight
      <4>2. nl = g + 1
        BY <4>1 DEF nl
      <4> HIDE DEF g
      <4>3. CASE g = 0
        BY <3>1, <4>2, <4>3
      <4>4. CASE g # 0
        BY <1>4, <3>1, <4>1, <4>2, <4>4
      <4> QED BY <4>3, <4>4
    <3> QED BY <1>1, <1>7, <3>2, <3>3 DEF NodeRight
  <2> QED BY <2>1, <2>2
<1> HIDE DEF g
<1>9. Others(rem, rem', n) /\ rem'.ctr >= rem.ctr /\ NodeRight(rem', g, n) /\ RemStruct(rem', {})
  BY <1>1, <1>6, <1>7, <1>8, KeptLasts DEF OthersKept, Others
<1>10. RemInv'
  BY <1>5, <1>9, InvAgain
<1>11. rem.node[n].name # NoName => ~Gone(rem', n)
  <2>1. rem.node[n].name # NoName => nl > 0 /\ t.node[n].name = rem.node[n].name
    BY <1>4, <1>7
  <2> QED BY <1>6, <2>1 DEF Gone, Freed
<1> QED BY <1>9, <1>10, <1>11, NamedLast

LEMMA ReplyOk ==
  ASSUME RemInv, NEW n \in RemIds, reply_entry(n) PROVE RemInv' /\ NamedStay(rem, rem')
<1>1. /\ flight[n] > 0 /\ flight' = [flight EXCEPT ![n] = @ - 1] /\ below' = below
      /\ known \in [RemIds -> Nat] /\ flight \in [RemIds -> Nat] /\ below \subseteq RemNames
  BY DEF reply_entry, RemInv
<1>2. flight' \in [RemIds -> Nat] /\ flight'[n] = flight[n] - 1 /\ (\A m \in RemIds : m # n => flight'[m] = flight[m])
      /\ known[n] \in Nat /\ flight[n] \in Nat
  BY <1>1
<1>3. CASE known' = [known EXCEPT ![n] = @ + 1] /\ UNCHANGED rem
  <2>1. known' \in [RemIds -> Nat] /\ known'[n] = known[n] + 1 /\ (\A m \in RemIds : m # n => known'[m] = known[m])
    BY <1>1, <1>2, <1>3
  <2>2. known'[n] + flight'[n] = known[n] + flight[n]
    BY <1>2, <2>1
  <2>3. \A m \in RemIds : known'[m] + flight'[m] = known[m] + flight[m]
    BY <1>2, <2>1, <2>2
  <2>4. RemInv'
    BY <1>1, <1>2, <1>3, <2>1, <2>3 DEF RemInv
  <2>5. NamedStay(rem, rem')
    BY <1>3 DEF NamedStay, Gone, Freed
  <2> QED BY <2>4, <2>5
<1>4. CASE rem.node[n] # Freed /\ rem' = forget_node(rem, n, 1) /\ UNCHANGED known
  <2>1. \A m \in RemIds : m # n => known'[m] = known[m] /\ flight'[m] = flight[m]
    BY <1>2, <1>4
  <2>2. known'[n] + flight'[n] = known[n] + flight[n] - 1 /\ 1 \in Nat /\ 1 <= known[n] + flight[n] /\ 1 > 0
    BY <1>1, <1>2, <1>4
  <2>3. known' \in [RemIds -> Nat]
    BY <1>1, <1>4
  <2> QED BY <1>1, <1>2, <1>4, <2>1, <2>2, <2>3, ForgotOk
<1> QED BY <1>3, <1>4 DEF reply_entry

LEMMA ForgetsOk ==
  ASSUME RemInv, NEW n \in RemIds, NEW k \in 1..MaxKnown, RememberForget(n, k) PROVE RemInv' /\ NamedStay(rem, rem')
<1>1. /\ k <= known[n] /\ rem.node[n] # Freed /\ rem' = forget_node(rem, n, k) /\ known' = [known EXCEPT ![n] = @ - k]
      /\ flight' = flight /\ below' = below
      /\ known \in [RemIds -> Nat] /\ flight \in [RemIds -> Nat] /\ below \subseteq RemNames
  BY DEF RememberForget, RemInv
<1>2. known[n] \in Nat /\ flight[n] \in Nat /\ k \in Nat /\ k > 0 /\ known[n] - k \in Nat
  <2>1. MaxKnown \in Nat
    BY RememberAssumption DEF RememberAssumption
  <2> QED BY <1>1, <2>1
<1>3. known' \in [RemIds -> Nat] /\ known'[n] = known[n] - k /\ \A m \in RemIds : m # n => known'[m] = known[m]
  BY <1>1, <1>2
<1>4. known'[n] + flight'[n] = known[n] + flight[n] - k /\ k <= known[n] + flight[n]
  BY <1>1, <1>2, <1>3
<1>5. flight' \in [RemIds -> Nat] /\ below' \subseteq RemNames /\ \A m \in RemIds : m # n => known'[m] = known[m] /\ flight'[m] = flight[m]
  BY <1>1, <1>3
<1> QED BY <1>1, <1>2, <1>3, <1>4, <1>5, ForgotOk

LEMMA RemoveOk ==
  ASSUME RemInv, NEW n \in RemIds, remove_node(n) PROVE RemInv' /\ NamedStay(rem, rem')
<1>1. /\ rem.node[n].name \in below /\ known' = known /\ flight' = flight /\ below' \subseteq below
      /\ known \in [RemIds -> Nat] /\ flight \in [RemIds -> Nat] /\ below \subseteq RemNames
  BY DEF remove_node, RemInv
<1>2. rem.node[n].name # NoName
  BY <1>1, RemNumbers
<1>3. CASE rem.node[n].nlookup > 1 /\ rem' = unlink_node(rem, n)
  <2> DEFINE h == known[n] + flight[n]
  <2>1. rem.node[n].nlookup = h + 1 /\ h \in Nat /\ RemStruct(rem, {}) /\ n \in Int /\ rem.ctr \in Int /\ NodeRight(rem, h, n)
    BY <1>2, RightIs
  <2>2. /\ RemStruct(rem', {}) /\ rem'.ctr = rem.ctr /\ OthersKept(rem, rem', n)
        /\ rem'.node[n].name = NoName /\ rem'.node[n].nlookup = rem.node[n].nlookup - 1
    BY <1>3, <2>1, UnlinkOk
  <2>3. NodeRight(rem', h, n)
    <3>1. Ones(rem'.node[n].name # NoName) = 0
      BY <2>2 DEF Ones
    <3> QED BY <2>1, <2>2, <3>1 DEF NodeRight
  <2>4. Others(rem, rem', n) /\ rem'.ctr >= rem.ctr
    BY <2>1, <2>2, KeptLasts DEF OthersKept, Others
  <2>5. known'[n] + flight'[n] = h /\ \A m \in RemIds : m # n => known'[m] = known[m] /\ flight'[m] = flight[m]
    BY <1>1
  <2>6. known' \in [RemIds -> Nat] /\ flight' \in [RemIds -> Nat] /\ below' \subseteq RemNames
    BY <1>1
  <2>7. ~Gone(rem', n)
    BY <1>3, <2>1, <2>2 DEF Gone, Freed
  <2> HIDE DEF h
  <2>8. RemInv'
    BY <2>2, <2>3, <2>4, <2>5, <2>6, InvAgain
  <2> QED BY <2>4, <2>7, <2>8, NamedLast
<1>4. CASE UNCHANGED rem
  <2>1. RemInv'
    BY <1>1, <1>4 DEF RemInv
  <2>2. NamedStay(rem, rem')
    BY <1>4 DEF NamedStay, Gone, Freed
  <2> QED BY <2>1, <2>2
<1> QED BY <1>3, <1>4 DEF remove_node, UnlinkAsserts

LEMMA RenameOk ==
  ASSUME RemInv, NEW n \in RemIds, NEW new \in RemFiles, rename_node(n, new) PROVE RemInv' /\ NamedStay(rem, rem')
<1> DEFINE dir == rem.node[n].parent
           newnode == lookup_node(rem, dir, new)
           x == CHOOSE x \in newnode : TRUE
           u == IF newnode = {} THEN rem ELSE unlink_node(rem, x)
           t == hash_name(unhash_name(u, n), n, dir, new)
<1>1. /\ rem.node[n].name \in RemFiles /\ rem.node[n].name # new /\ known' = known /\ flight' = flight
      /\ below' \subseteq RemNames
      /\ known \in [RemIds -> Nat] /\ flight \in [RemIds -> Nat]
  BY RemNumbers DEF rename_node, RemInv
<1>2. RemStruct(rem, {}) /\ rem.node[n].name # NoName
  BY <1>1, RemNumbers DEF RemInv
<1>3. CASE (\A y \in newnode : rem.node[y].nlookup > 1) /\ rem' = t
  <2>1. \A y \in newnode : y \in RemIds /\ rem.node[y].name = new
    BY DEF lookup_node
  <2>2. newnode # {} => x \in newnode
    OBVIOUS
  <2> HIDE DEF newnode, x
  <2>3. /\ RemStruct(u, {}) /\ u.ctr = rem.ctr
        /\ u.node[n].name = rem.node[n].name /\ u.node[n].parent = dir /\ u.node[n].nlookup = rem.node[n].nlookup
        /\ (InList(u, n) <=> InList(rem, n))
        /\ \A m \in RemIds : \/ Kept(rem, u, m)
                             \/ /\ rem.node[m].name = new /\ rem.node[m].nlookup > 1
                                /\ u.node[m].name = NoName /\ u.node[m].nlookup = rem.node[m].nlookup - 1
    <3>1. CASE newnode = {}
      <4>1. u = rem
        BY <3>1
      <4>2. \A m \in RemIds : Kept(rem, rem, m)
        BY DEF Kept
      <4> QED BY <1>2, <4>1, <4>2
    <3>2. CASE newnode # {}
      <4>1. u = unlink_node(rem, x) /\ x \in RemIds /\ rem.node[x].name = new /\ rem.node[x].nlookup > 1 /\ x # n
        BY <1>1, <1>3, <2>1, <2>2, <3>2
      <4> HIDE DEF u
      <4>2. /\ RemStruct(u, {}) /\ u.ctr = rem.ctr /\ OthersKept(rem, u, x)
            /\ u.node[x].name = NoName /\ u.node[x].nlookup = rem.node[x].nlookup - 1
        BY <1>2, <4>1, UnlinkOk
      <4>3. Kept(rem, u, n)
        BY <4>1, <4>2 DEF OthersKept
      <4>4. \A m \in RemIds : \/ Kept(rem, u, m)
                             \/ /\ rem.node[m].name = new /\ rem.node[m].nlookup > 1
                                /\ u.node[m].name = NoName /\ u.node[m].nlookup = rem.node[m].nlookup - 1
        BY <4>1, <4>2 DEF OthersKept
      <4>5. /\ u.node[n].name = rem.node[n].name /\ u.node[n].parent = dir /\ u.node[n].nlookup = rem.node[n].nlookup
            /\ (InList(u, n) <=> InList(rem, n))
        BY <1>2, <4>3 DEF Kept
      <4> QED BY <4>2, <4>4, <4>5
    <3> QED BY <3>1, <3>2
  <2>4. t = hash_name(unhash_name(u, n), n, dir, new) /\ dir = u.node[n].parent /\ rem' = t
    BY <1>3, <2>3
  <2> HIDE DEF t, u, dir
  <2>5. /\ RemStruct(t, {}) /\ t.ctr = u.ctr /\ (\A m \in RemIds : m # n => Lasting(u, t, m))
        /\ t.node[n].name = new /\ t.node[n].nlookup = u.node[n].nlookup /\ (InList(t, n) <=> InList(u, n))
    BY <1>1, <2>3, <2>4, RenamedOk
  <2>6. rem \in RemType /\ t \in RemType /\ rem.ctr \in Int /\ t.ctr >= rem.ctr
    BY <2>3, <2>5, RightIs DEF RemStruct
  <2>7. ASSUME NEW m \in RemIds PROVE NodeRight(t, known[m] + flight[m], m) /\ (rem.node[m].name # NoName => ~Gone(t, m))
    <3> DEFINE h == known[m] + flight[m]
    <3>1. NodeRight(rem, h, m) /\ h \in Nat /\ (rem.node[m].name # NoName => rem.node[m].nlookup = h + 1)
          /\ rem.node[m].nlookup \in Nat /\ (m > t.ctr => h = 0)
      BY <2>3, <2>5, RightIs DEF NodeRight
    <3> HIDE DEF h
    <3>2. CASE m = n
      <4>1. ~Gone(t, m) /\ t.node[m].name = new /\ t.node[m].nlookup = h + 1 /\ (InList(t, m) <=> InList(rem, m))
        BY <1>2, <2>3, <2>5, <3>1, <3>2, RemNumbers DEF Gone, Freed
      <4>2. Ones(t.node[m].name # NoName) = 1 /\ rem.node[m].name # NoName
        BY <1>2, <3>2, <4>1, RemNumbers DEF Ones
      <4>3. NodeRight(t, h, m)
        BY <3>1, <4>1, <4>2 DEF NodeRight
      <4> QED BY <4>1, <4>3 DEF h
    <3>3. CASE m # n /\ Kept(rem, u, m)
      <4>1. Lasting(rem, u, m) /\ Lasting(u, t, m)
        BY <2>5, <3>3, KeptLasts
      <4>2. Lasting(rem, t, m)
        <5>1. Freed.name = NoName
          BY DEF Freed
        <5> QED BY <3>3, <4>1, <5>1 DEF Lasting, Kept, Gone
      <4>3. NodeRight(t, h, m)
        BY <2>6, <3>1, <4>2, RightLasts
      <4> QED BY <4>2, <4>3 DEF h, Lasting
    <3>4. CASE /\ m # n /\ rem.node[m].name = new /\ rem.node[m].nlookup > 1
               /\ u.node[m].name = NoName /\ u.node[m].nlookup = rem.node[m].nlookup - 1
      <4>1. rem.node[m].nlookup = h + 1
        BY <3>1, <3>4, RemNumbers
      <4>2. ~Gone(u, m) /\ u.node[m].nlookup = h /\ u.node[m].nlookup > 0
        BY <3>1, <3>4, <4>1 DEF Gone, Freed
      <4>3. Lasting(u, t, m)
        BY <2>5, <3>4
      <4>4. ~Gone(t, m) /\ t.node[m].name = NoName /\ t.node[m].nlookup = h
        BY <3>4, <4>2, <4>3 DEF Lasting
      <4>5. Ones(t.node[m].name # NoName) = 0
        BY <4>4 DEF Ones
      <4>6. NodeRight(t, h, m)
        BY <3>1, <4>4, <4>5 DEF NodeRight
      <4> QED BY <4>4, <4>6 DEF h
    <3> QED BY <2>3, <3>2, <3>3, <3>4
  <2>8. RemInv'
    BY <1>1, <2>4, <2>5, <2>7 DEF RemInv
  <2> QED BY <2>4, <2>7, <2>8 DEF NamedStay
<1>4. CASE UNCHANGED rem
  <2>1. RemInv'
    BY <1>1, <1>4 DEF RemInv
  <2>2. NamedStay(rem, rem')
    BY <1>4 DEF NamedStay, Gone, Freed
  <2> QED BY <2>1, <2>2
<1> QED BY <1>3, <1>4 DEF rename_node, UnlinkAsserts

(* What RememberedLong says of a step. *)
HeldLong == \A n \in RemIds : rem.node[n].name # NoName /\ rem'.node[n] = Freed =>
              known[n] + flight[n] = 0 /\ n \in ToSet(rem.lru) /\ rem.age[n] > remember

LEMMA CleanOk ==
  ASSUME RemInv, fuse_clean_cache PROVE RemInv' /\ HeldLong
<1>1. /\ known' = known /\ flight' = flight /\ below' = below
      /\ known \in [RemIds -> Nat] /\ flight \in [RemIds -> Nat] /\ below \subseteq RemNames
  BY DEF fuse_clean_cache, RemInv
<1>2. RemStruct(rem, {}) /\ rem \in RemType
  BY DEF RemInv, RemStruct
<1>3. CASE (\A i \in 1..CleanWalk(rem) : rem.node[rem.lru[i]].nlookup = 1) /\ rem' = Cleaned(rem)
  <2> DEFINE t == Cleaned(rem)
  <2>1. WalkedTo(rem, t, CleanWalk(rem))
    BY <1>2, <1>3, CleanedOk
  <2>2. rem' = t
    BY <1>3
  <2> HIDE DEF t
  <2>3. /\ RemStruct(t, {}) /\ t.ctr = rem.ctr
        /\ \A m \in RemIds : Kept(rem, t, m) \/ (Gone(t, m) /\ \E i \in 1..CleanWalk(rem) : rem.lru[i] = m)
    BY <2>1 DEF WalkedTo
  <2>4. rem.ctr \in Int /\ t.ctr >= rem.ctr /\ t \in RemType
    BY <1>2, <2>3, RemParts DEF AllNodes, RemStruct
  <2>5. ASSUME NEW m \in RemIds PROVE NodeRight(t, known[m] + flight[m], m)
    <3> DEFINE h == known[m] + flight[m]
    <3>1. NodeRight(rem, h, m)
      BY RightIs
    <3> HIDE DEF h
    <3>2. CASE Kept(rem, t, m)
      <4>1. Lasting(rem, t, m)
        BY <3>2, KeptLasts
      <4>2. NodeRight(t, h, m)
        BY <1>2, <2>4, <3>1, <4>1, RightLasts
      <4> QED BY <4>2 DEF h
    <3>3. CASE Gone(t, m)
      <4>1. t.node[m].name = NoName
        BY <3>3 DEF Gone, Freed
      <4>2. NodeRight(t, h, m)
        BY <2>3, <3>1, <3>3, <4>1 DEF NodeRight
      <4> QED BY <4>2 DEF h
    <3> QED BY <2>3, <3>2, <3>3
  <2>6. RemInv'
    BY <1>1, <2>2, <2>3, <2>5 DEF RemInv
  <2>7. HeldLong
    <3> SUFFICES ASSUME NEW n \in RemIds, rem.node[n].name # NoName, rem'.node[n] = Freed
                 PROVE  known[n] + flight[n] = 0 /\ n \in ToSet(rem.lru) /\ rem.age[n] > remember
      BY DEF HeldLong
    <3>1. ~Kept(rem, t, n)
      <4>1. Freed.name = NoName
        BY DEF Freed
      <4> QED BY <2>2, <4>1 DEF Kept
    <3>2. PICK i \in 1..CleanWalk(rem) : rem.lru[i] = n
      BY <2>3, <3>1
    <3>3. i \in 1..Len(rem.lru) /\ Old(rem, i)
      <4>1. Len(rem.lru) \in Nat /\ CleanWalk(rem) \in 0..Len(rem.lru) /\ Old(rem, i)
        BY <1>2, WalkIs
      <4> QED BY <4>1
    <3>4. n \in ToSet(rem.lru)
      BY <1>2, <3>2, <3>3, RemParts DEF ToSet
    <3>5. known[n] + flight[n] = 0
      BY <3>4, RightIs DEF NodeRight, InList
    <3> QED BY <3>2, <3>3, <3>4, <3>5 DEF Old
  <2> QED BY <2>6, <2>7
<1>4. CASE UNCHANGED rem
  <2>1. RemInv'
    BY <1>1, <1>4 DEF RemInv
  <2>2. HeldLong
    BY <1>4 DEF HeldLong, Freed
  <2> QED BY <2>1, <2>2
<1> QED BY <1>3, <1>4 DEF fuse_clean_cache

(* Of two ages in steps of c, the smaller is a step behind. *)
LEMMA StepBehind ==
  ASSUME NEW a \in Ages, NEW b \in Ages, a < b PROVE a + Clock <= b
<1>1. Clock \in Nat /\ Clock > 0
  BY AgesNat
<1>2. PICK j \in Nat : a = j * Clock
  BY DEF Ages
<1>3. PICK k \in Nat : b = k * Clock
  BY DEF Ages
<1>4. j < k
  <2>1. SUFFICES ASSUME k <= j PROVE FALSE
    BY <1>2, <1>3
  <2>2. PICK d \in Nat : j = k + d
    <3>1. j - k \in Nat /\ j = k + (j - k)
      BY <2>1
    <3> QED BY <3>1
  <2>3. j * Clock = k * Clock + d * Clock /\ d * Clock \in Nat /\ k * Clock \in Nat
    BY <1>1, <2>2
  <2> QED BY <1>2, <1>3, <2>3
<1>5. PICK d \in Nat : k = j + 1 + d
  <2>1. k - j - 1 \in Nat /\ k = j + 1 + (k - j - 1)
    BY <1>4
  <2> QED BY <2>1
<1>6. k * Clock = j * Clock + Clock + d * Clock /\ d * Clock \in Nat /\ j * Clock \in Nat
  BY <1>1, <1>5
<1> QED BY <1>1, <1>2, <1>3, <1>6

(* The list stays in order when all in it that are not over remember grow older. *)
LEMMA ClockOk ==
  ASSUME RemInv, curr_time PROVE RemInv' /\ NamedStay(rem, rem')
<1> DEFINE up(a) == IF a <= remember THEN a + Clock ELSE a
           A == [n \in RemIds |-> IF n \in ToSet(rem.lru) /\ rem.age[n] <= remember THEN rem.age[n] + Clock ELSE rem.age[n]]
           t == [node |-> rem.node, lru |-> rem.lru, age |-> A, ctr |-> rem.ctr]
<1>1. RemStruct(rem, {}) /\ rem \in RemType
  BY RemParts DEF RemInv, RemStruct
<1>2. /\ known' = known /\ flight' = flight /\ below' = below
      /\ known \in [RemIds -> Nat] /\ flight \in [RemIds -> Nat] /\ below \subseteq RemNames
      /\ \A n \in RemIds : NodeRight(rem, known[n] + flight[n], n)
  BY DEF curr_time, RemInv
<1>3. rem' = t
  <2>1. rem' = [rem EXCEPT !.age = A]
    BY DEF curr_time
  <2>2. rem = [node |-> rem.node, lru |-> rem.lru, age |-> rem.age, ctr |-> rem.ctr]
    BY <1>1, RemParts
  <2> HIDE DEF A
  <2> QED BY <2>1, <2>2
<1>4. \A a \in Ages : up(a) \in Ages /\ a \in Nat /\ up(a) \in Nat
  <2> SUFFICES ASSUME NEW a \in Ages PROVE a + Clock \in Ages
    BY AgesNat
  <2>1. PICK k \in Nat : a = k * Clock
    BY DEF Ages
  <2>2. (k + 1) * Clock = a + Clock /\ k + 1 \in Nat
    BY <2>1, AgesNat
  <2> QED BY <2>2 DEF Ages
<1>5. rem.age \in [RemIds -> Ages] /\ rem.lru \in Seq(RemIds)
  BY <1>1, RemParts
<1>6. A \in [RemIds -> Ages] /\ \A n \in ToSet(rem.lru) : n \in RemIds /\ A[n] = up(rem.age[n])
  <2>1. \A n \in ToSet(rem.lru) : n \in RemIds
    BY <1>5 DEF ToSet
  <2>2. \A n \in RemIds : A[n] \in Ages
    BY <1>4, <1>5
  <2> QED BY <2>1, <2>2
<1> HIDE DEF A
<1>7. \A a, b \in Ages : a >= b => up(a) >= up(b)
  <2> SUFFICES ASSUME NEW a \in Ages, NEW b \in Ages, a >= b PROVE up(a) >= up(b)
    OBVIOUS
  <2>1. a \in Nat /\ b \in Nat /\ Clock \in Nat /\ remember \in Nat
    BY AgesNat
  <2>2. CASE a > remember /\ b <= remember
    <3>1. b < a
      BY <2>1, <2>2
    <3>2. b + Clock <= a
      BY <3>1, StepBehind
    <3> QED BY <2>1, <2>2, <3>2
  <2>3. CASE ~(a > remember /\ b <= remember)
    BY <2>1, <2>3
  <2> QED BY <2>2, <2>3
<1> HIDE DEF up
<1>8. Aged(rem.lru, A)
  <2> SUFFICES ASSUME NEW i \in 1..Len(rem.lru), NEW j \in 1..Len(rem.lru), i < j PROVE A[rem.lru[i]] >= A[rem.lru[j]]
    BY DEF Aged
  <2>1. rem.lru[i] \in ToSet(rem.lru) /\ rem.lru[j] \in ToSet(rem.lru)
    BY <1>5 DEF ToSet
  <2>2. rem.age[rem.lru[i]] >= rem.age[rem.lru[j]]
    BY <1>1 DEF RemStruct, LruOk, Aged
  <2>3. rem.age[rem.lru[i]] \in Ages /\ rem.age[rem.lru[j]] \in Ages
    BY <1>5, <1>6, <2>1
  <2> QED BY <1>6, <1>7, <2>1, <2>2, <2>3
<1>9. t \in RemType
  BY <1>1, <1>5, <1>6, RemParts DEF RemType
<1>10. t.node = rem.node /\ t.lru = rem.lru /\ t.age = A /\ t.ctr = rem.ctr
  OBVIOUS
<1> HIDE DEF t
<1>11. RemStruct(t, {})
  <2>1. NoDup(t.lru) /\ Aged(t.lru, t.age)
    BY <1>1, <1>8, <1>10 DEF RemStruct, LruOk
  <2>2. \A x \in ToSet(t.lru) : ~Gone(rem, x)
    BY <1>1, <1>10, ListedThere
  <2> QED BY <1>1, <1>9, <1>10, <2>1, <2>2, Relisted
<1>12. \A n \in RemIds : NodeRight(t, known[n] + flight[n], n)
  BY <1>2, <1>10 DEF NodeRight, Gone, InList
<1>13. RemInv'
  BY <1>2, <1>3, <1>11, <1>12 DEF RemInv
<1>14. NamedStay(rem, rem')
  BY <1>3, <1>10 DEF NamedStay, Gone, Freed
<1> QED BY <1>13, <1>14

LEMMA NoChange ==
  ASSUME RemInv, UNCHANGED <<rem, known, flight>>, below' \subseteq RemNames PROVE RemInv' /\ NamedStay(rem, rem')
<1>1. RemInv'
  BY DEF RemInv
<1>2. NamedStay(rem, rem')
  BY DEF NamedStay, Gone, Freed
<1> QED BY <1>1, <1>2

LEMMA RemStep == ASSUME RemInv, [RememberNext]_remVars PROVE RemInv' /\ HeldLong
<1>0. NamedStay(rem, rem') => HeldLong
  BY DEF NamedStay, HeldLong, Gone
<1>1. ASSUME NEW dir \in 0..RemNodes, NEW name \in RemNames, RememberLookup(dir, name) PROVE RemInv' /\ HeldLong
  BY <1>0, <1>1, LookupOk
<1>2. ASSUME NEW n \in RemIds, reply_entry(n) PROVE RemInv' /\ HeldLong
  BY <1>0, <1>2, ReplyOk
<1>3. ASSUME NEW n \in RemIds, remove_node(n) PROVE RemInv' /\ HeldLong
  BY <1>0, <1>3, RemoveOk
<1>4. ASSUME NEW n \in RemIds, NoSuchNode(n) PROVE RemInv' /\ HeldLong
  BY <1>0, <1>4, NoChange DEF NoSuchNode, RemInv
<1>5. ASSUME NEW n \in RemIds, NEW k \in 1..MaxKnown, RememberForget(n, k) PROVE RemInv' /\ HeldLong
  BY <1>0, <1>5, ForgetsOk
<1>6. ASSUME NEW n \in RemIds, NEW new \in RemFiles, rename_node(n, new) PROVE RemInv' /\ HeldLong
  BY <1>0, <1>6, RenameOk
<1>7. ASSUME NEW name \in RemFiles, Underneath(name) PROVE RemInv' /\ HeldLong
  <2>1. UNCHANGED <<rem, known, flight>>
    BY <1>7 DEF Underneath
  <2>2. below' \subseteq RemNames
    BY <1>7, RemNumbers DEF Underneath, RemInv
  <2> QED BY <1>0, <2>1, <2>2, NoChange
<1>8. CASE fuse_clean_cache
  BY <1>8, CleanOk
<1>9. CASE fuse_session_loop_remember
  BY <1>0, <1>9, NoChange DEF fuse_session_loop_remember, RemInv
<1>10. CASE curr_time
  BY <1>0, <1>10, ClockOk
<1>11. CASE UNCHANGED remVars
  BY <1>0, <1>11, NoChange DEF remVars, RemInv
<1> QED BY <1>1, <1>2, <1>3, <1>4, <1>5, <1>6, <1>7, <1>8, <1>9, <1>10, <1>11 DEF RememberNext

LEMMA RemAlways == RememberSpec => []RemInv
<1>1. RemInv /\ [RememberNext]_remVars => RemInv'
  BY RemStep
<1> QED BY <1>1, RemInitOk, PTL DEF RememberSpec

LEMMA RemExact == RemInv => RememberExact
<1> SUFFICES ASSUME RemInv PROVE RememberExact
  OBVIOUS
<1>1. RemStruct(rem, {}) /\ rem.lru \in Seq(RemIds)
  BY RemParts DEF RemInv, RemStruct
<1>2. LookupsExact
  <2> SUFFICES ASSUME NEW n \in RemIds, rem.node[n] # Freed
               PROVE  /\ rem.node[n].nlookup = known[n] + flight[n] + (IF rem.node[n].name # NoName THEN 1 ELSE 0)
                      /\ rem.node[n].refctr = (IF rem.node[n].nlookup > 0 THEN 1 ELSE 0)
                            + Cardinality({c \in RemIds : rem.node[c].name # NoName /\ rem.node[c].parent = n})
                      /\ rem.node[n].name \in RemFiles => rem.node[rem.node[n].parent] # Freed
    BY DEF LookupsExact
  <2>1. rem.node[n].nlookup = known[n] + flight[n] + Ones(rem.node[n].name # NoName)
    BY RightIs DEF NodeRight, Gone
  <2>2. rem.node[n].refctr = Ones(rem.node[n].nlookup > 0) + Cardinality(Kids(rem, n))
    <3>1. rem.node[n].refctr = Ones(rem.node[n].nlookup > 0) + Cardinality(Kids(rem, n)) + Ones(n \in {})
      BY <1>1, RemNumbers DEF RemStruct, RefsAre
    <3>2. Ones(n \in {}) = 0 /\ Cardinality(Kids(rem, n)) \in Nat /\ Ones(rem.node[n].nlookup > 0) \in Nat
      BY KidsNumber DEF Ones
    <3> QED BY <3>1, <3>2
  <2>3. ASSUME rem.node[n].name \in RemFiles PROVE rem.node[rem.node[n].parent] # Freed
    <3> DEFINE p == rem.node[n].parent
    <3>1. p # 0 /\ p \in AllNodes /\ rem.node[n].name # NoName
      BY <1>1, <2>3, ParentOther, RemNumbers DEF RemStruct, TwoDeep
    <3>2. p \in RemIds /\ n \in Kids(rem, p)
      BY <3>1, RemNumbers DEF Kids
    <3> HIDE DEF p
    <3>3. ~Gone(rem, p)
      BY <1>1, <3>2, NoKids
    <3> QED BY <3>3 DEF Gone, p
  <2> QED BY <2>1, <2>2, <2>3 DEF Ones, Kids
<1>3. ListExact
  <2>1. NoDup(rem.lru) /\ Aged(rem.lru, rem.age) /\ DOMAIN rem.lru = 1..Len(rem.lru) /\ Len(rem.lru) \in Nat
    BY <1>1 DEF RemStruct, LruOk
  <2>2. ASSUME NEW i \in DOMAIN rem.lru, NEW j \in DOMAIN rem.lru, i < j
        PROVE  rem.lru[i] # rem.lru[j] /\ rem.age[rem.lru[i]] >= rem.age[rem.lru[j]]
    BY <2>1, <2>2 DEF NoDup, Aged
  <2>3. ASSUME NEW n \in RemIds, rem.node[n].name # NoName PROVE n \in ToSet(rem.lru) <=> known[n] + flight[n] = 0
    BY <2>3, RightIs DEF NodeRight, InList
  <2> QED BY <2>2, <2>3 DEF ListExact
<1> QED BY <1>2, <1>3 DEF RememberExact

(* With the option remember the lookups and references of a node in the table are those   *)
(* of the kernel, of replies on their way, of its children and the library's own          *)
(* (find_node, forget_node, unlink_node), and of the nodes that have a name lru_table     *)
(* lists, oldest first, exactly those that nobody else holds, whatever names the file     *)
(* system makes or removes underneath.  Of unlinked nodes in the list it says nothing.    *)
THEOREM NodesRemembered == RememberSpec => []RememberExact
<1> QED BY RemAlways, RemExact, PTL

(* Whatever a step does, a node with a name is dropped only when nobody but the library   *)
(* holds it and it has been on the list for longer than remember (fuse_clean_cache).      *)
THEOREM RememberedHeld == RememberSpec => RememberedLong
<1>1. RemInv /\ [RememberNext]_remVars
        => [\A n \in RemIds : rem.node[n].name # NoName /\ rem'.node[n] = Freed =>
              known[n] + flight[n] = 0 /\ n \in ToSet(rem.lru) /\ rem.age[n] > remember]_remVars
  BY RemStep DEF HeldLong
<1> QED BY <1>1, RemAlways, PTL DEF RememberSpec, RememberedLong
=============================================================================
