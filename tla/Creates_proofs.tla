--------------------------- MODULE Creates_proofs ---------------------------
(***************************************************************************)
(* Creations that run one at a time implement LogAllocation, for every     *)
(* size of the block, the memory and the map, and every set of threads, as *)
(* long as slots and blocks last.                                          *)
(*                                                                         *)
(* The slots and the blocks are handed out in the order makefs linked      *)
(* them, so the n-th file has the numbers 2n-1 and 2n and block n+1.  The  *)
(* inductive invariant says so and, in the middle of a call, which of the  *)
(* reads and stores of the call have been made.                            *)
(***************************************************************************)
EXTENDS CreateRace, TLAPS, FiniteSetTheorems

(* map->freePtr after k slots, lists->partialHead after n blocks. *)
FreeAfter(k) == IF k < MaxId THEN k + 1 ELSE 0
HeadAfter(n) == IF n < NumBlocks - 2 THEN (n + 2) * BLOCKSIZE ELSE 0

(* Slots and blocks stored as taken by a call that has come to p. *)
SlotsIn(p)  == CASE p \in {"idle", "popFile"}    -> 0
                 [] p \in {"readLog", "popLog"}  -> 1
                 [] OTHER                        -> 2
BlocksIn(p) == IF p \in {"mapLog", "mapFile"} THEN 1 ELSE 0

NthFile(i) == [fileID |-> 2 * i - 1, logID |-> 2 * i, page |-> (i + 1) * BLOCKSIZE + 1]

InOrder == \A i \in DOMAIN created : created[i] = NthFile(i)

(* The links of the blocks for logs are those of makefs. *)
LinksKept ==
  \A b \in 2 .. NumBlocks - 1 :
    nand[b].contents[0].nextLogBlock = IF b < NumBlocks - 1 THEN (b + 1) * BLOCKSIZE ELSE 0

(* What is shared, when the only call under way has come to p. *)
Shared(p) ==
  LET n == Len(created)
      k == 2 * n + SlotsIn(p)
  IN /\ vaddrMap.freePtr = FreeAfter(k)
     /\ \A i \in Ids : i > k => vaddrMap.map[i] = FreshMap.map[i]
     /\ lists.partialHead = HeadAfter(n + BlocksIn(p))

(* The local variables of that call. *)
Private(p, loc) ==
  LET n == Len(created)
  IN /\ n < MaxCreates
     /\ p # "popComplete"
     /\ loc.fileID = 2 * n + 1
     /\ p \notin {"popFile", "readLog"} => loc.logID = 2 * n + 2
     /\ p = "popFile" => loc.next = FreeAfter(2 * n + 1)
     /\ p = "popLog" => loc.next = FreeAfter(2 * n + 2)
     /\ p \in {"popPartial", "mapLog", "mapFile"} => loc.page = (n + 2) * BLOCKSIZE + 1
     /\ p = "popPartial" => loc.next = HeadAfter(n + 1)

(* t is the only thread that may be in a call. *)
Running(t) ==
  /\ \A u \in Threads : u # t => pc[u] = "idle"
  /\ Shared(pc[t])
  /\ pc[t] # "idle" => Private(pc[t], local[t])

SerialInv ==
  /\ TypeOK
  /\ Len(created) <= MaxCreates
  /\ InOrder
  /\ LinksKept
  /\ \E t \in Threads : Running(t)

(* The bounds under which nothing runs out. *)
Enough == 2 * MaxCreates <= MaxId /\ MaxCreates <= NumBlocks - 2

-----------------------------------------------------------------------------
(* Block and page number of page j of block b. *)
LEMMA AddressSplit ==
  ASSUME NEW b \in Nat, NEW j \in PageIdx
  PROVE  BlockOf(b * BLOCKSIZE + j) = b /\ PageOf(b * BLOCKSIZE + j) = j
<1> USE BlockSizeAssumption
<1>1. b * BLOCKSIZE + j \in Nat
  BY DEF PageIdx
<1>2. (b * BLOCKSIZE + j) \div BLOCKSIZE = b /\ (b * BLOCKSIZE + j) % BLOCKSIZE = j
  BY DEF PageIdx
<1> QED BY <1>1, <1>2 DEF BlockOf, PageOf

(* An address of the first page of a block for logs is in the memory. *)
LEMMA FirstPage ==
  ASSUME NEW b \in 0 .. NumBlocks - 1
  PROVE  b * BLOCKSIZE \in Pages /\ BlockOf(b * BLOCKSIZE) = b /\ PageOf(b * BLOCKSIZE) = 0
<1> USE BlockSizeAssumption, NumBlocksAssumption
<1>1. b * BLOCKSIZE + 0 = b * BLOCKSIZE /\ 0 \in PageIdx /\ b \in Nat
  BY DEF PageIdx
<1>2. BlockOf(b * BLOCKSIZE + 0) = b /\ PageOf(b * BLOCKSIZE + 0) = 0
  BY <1>1, AddressSplit, Zenon
<1>3. b * BLOCKSIZE <= (NumBlocks - 1) * BLOCKSIZE
  OBVIOUS
<1>4. (NumBlocks - 1) * BLOCKSIZE = NumBlocks * BLOCKSIZE - BLOCKSIZE
  OBVIOUS
<1>5. b * BLOCKSIZE \in Pages
  BY <1>3, <1>4 DEF Pages
<1> QED BY <1>1, <1>2, <1>5, Zenon

(* A write that writeNAND accepts or refuses leaves a memory. *)
LEMMA WriteType ==
  ASSUME NEW m \in Memory, NEW b \in Nat, NEW j \in PageIdx, NEW page \in Page
  PROVE  /\ WriteNAND(m, b * BLOCKSIZE + j, page, FALSE) \in Memory
         /\ j # 0 => \A c \in Blocks :
              WriteNAND(m, b * BLOCKSIZE + j, page, FALSE)[c].contents[0] = m[c].contents[0]
<1> DEFINE k == b * BLOCKSIZE + j
<1> USE BlockSizeAssumption
<1>1. BlockOf(k) = b /\ PageOf(k) = j
  BY AddressSplit
<1> HIDE DEF k
<1>2. CASE ~ WriteAccepted(m, k, FALSE)
  BY <1>2 DEF WriteNAND, k
<1>3. CASE WriteAccepted(m, k, FALSE)
  <2>1. b \in Blocks /\ j = m[b].nextPage
    BY <1>1, <1>3 DEF WriteAccepted
  <2>2. WriteNAND(m, k, page, FALSE) =
          [m EXCEPT ![b].contents[j] = page, ![b].nextPage = @ + 1]
    BY <1>1, <1>3 DEF WriteNAND
  <2>3. m[b].nextPage + 1 \in 0 .. BLOCKSIZE
    BY <2>1 DEF PageIdx
  <2>4. [m EXCEPT ![b].contents[j] = page, ![b].nextPage = @ + 1] \in Memory
    BY <2>1, <2>3 DEF Memory
  <2>5. ASSUME NEW c \in Blocks, j # 0
        PROVE [m EXCEPT ![b].contents[j] = page, ![b].nextPage = @ + 1][c].contents[0]
                = m[c].contents[0]
    BY <2>1, <2>3, <2>5 DEF Memory, PageIdx
  <2> QED BY <2>2, <2>4, <2>5 DEF k
<1> QED BY <1>2, <1>3

(* The memory after a write of page j of block b, accepted or refused. *)
Wrote(m, b, j, page) == WriteNAND(m, b * BLOCKSIZE + j, page, FALSE)

(* It differs in that page and in its block only. *)
LEMMA WriteLocal ==
  ASSUME NEW m \in Memory, NEW b \in Nat, NEW j \in PageIdx, NEW page \in Page
  PROVE  /\ Wrote(m, b, j, page) \in Memory
         /\ \A c \in Blocks : c # b => Wrote(m, b, j, page)[c] = m[c]
         /\ \A c \in Blocks, i \in PageIdx :
              i # j => Wrote(m, b, j, page)[c].contents[i] = m[c].contents[i]
         /\ b \in Blocks /\ m[b].nextPage = j =>
              Wrote(m, b, j, page)[b].contents[j] = page /\ Wrote(m, b, j, page)[b].nextPage = j + 1
<1> DEFINE k == b * BLOCKSIZE + j
           w == WriteNAND(m, k, page, FALSE)
<1> USE BlockSizeAssumption
<1>1. BlockOf(k) = b /\ PageOf(k) = j
  BY AddressSplit
<1>2. Wrote(m, b, j, page) = w
  BY DEF Wrote
<1> HIDE DEF k
<1>3. CASE ~ WriteAccepted(m, k, FALSE)
  <2>1. w = m
    BY <1>3 DEF WriteNAND
  <2>2. ~ (b \in Blocks /\ m[b].nextPage = j)
    BY <1>1, <1>3 DEF WriteAccepted
  <2> HIDE DEF w
  <2> QED BY <1>2, <2>1, <2>2
<1>4. CASE WriteAccepted(m, k, FALSE)
  <2>1. b \in Blocks /\ j = m[b].nextPage
    BY <1>1, <1>4 DEF WriteAccepted
  <2>2. w = [m EXCEPT ![b].contents[j] = page, ![b].nextPage = @ + 1]
    BY <1>1, <1>4 DEF WriteNAND
  <2>3. m[b].nextPage + 1 \in 0 .. BLOCKSIZE
    BY <2>1 DEF PageIdx
  <2> HIDE DEF w
  <2>4. w \in Memory
    BY <2>1, <2>2, <2>3 DEF Memory
  <2>5. \A c \in Blocks : c # b => w[c] = m[c]
    BY <2>1, <2>2 DEF Memory
  <2>6. \A i \in PageIdx : i # j => w[b].contents[i] = m[b].contents[i]
    BY <2>1, <2>2 DEF Memory
  <2>7. \A c \in Blocks, i \in PageIdx : i # j => w[c].contents[i] = m[c].contents[i]
    BY <2>5, <2>6
  <2>8. w[b].contents[j] = page /\ w[b].nextPage = j + 1
    BY <2>1, <2>2 DEF Memory
  <2> QED BY <1>2, <2>4, <2>5, <2>7, <2>8
<1> QED BY <1>3, <1>4
-----------------------------------------------------------------------------
(* getFreePage on the first page of a new log, page 1 of its block, only   *)
(* moves the log on.                                                       *)
LEMMA FirstLogPage ==
  ASSUME NEW m, NEW ls, NEW log, NEW junk, NEW b \in Nat,
         log.nextPage = b * BLOCKSIZE + 1
  PROVE  LET p == GetFreePage(m, ls, log, junk)
         IN p.address = b * BLOCKSIZE + 1 /\ p.link = junk /\ p.lists = ls /\ p.nand = m
<1> DEFINE a == b * BLOCKSIZE + 1
<1> USE BlockSizeAssumption, LogBlockAssumption
<1>0. 1 \in PageIdx /\ 2 \in PageIdx /\ 3 \in PageIdx /\ 4 \in PageIdx
  BY DEF PageIdx
<1>1. PageOf(a) = 1
  BY <1>0, AddressSplit
<1>2. PageOf(b * BLOCKSIZE + 2) = 2 /\ PageOf(b * BLOCKSIZE + 3) = 3
      /\ PageOf(b * BLOCKSIZE + 4) = 4
  BY <1>0, AddressSplit
<1>3. a + 1 = b * BLOCKSIZE + 2 /\ a + 2 = b * BLOCKSIZE + 3 /\ a + 3 = b * BLOCKSIZE + 4
  OBVIOUS
<1>4. PageOf(a) # 0 /\ PageOf(a + 1) # 0 /\ PageOf(a + 2) # 0 /\ PageOf(a + 3) # 0
  BY <1>1, <1>2, <1>3
<1>5. log.nextPage = a
  OBVIOUS
<1> HIDE DEF a
<1> QED BY <1>4, <1>5 DEF GetFreePage, a

(* getFreeBlock for a new file while the list of partially used blocks has *)
(* not run out.                                                            *)
LEMMA NextBlock ==
  ASSUME TypeOK, LinksKept, NEW n \in 0 .. NumBlocks - 3,
         lists.partialHead = HeadAfter(n), NEW junk
  PROVE  LET g == GetFreeBlock(nand, lists, TRUE, junk)
         IN /\ lists.partialHead # 0
            /\ g.page = (n + 2) * BLOCKSIZE + 1
            /\ g.lists.partialHead = HeadAfter(n + 1)
<1> DEFINE b == n + 2
           a == b * BLOCKSIZE
<1> USE BlockSizeAssumption, NumBlocksAssumption
<1>1. b \in 2 .. NumBlocks - 1 /\ b \in 0 .. NumBlocks - 1
  OBVIOUS
<1>2. a \in Pages /\ BlockOf(a) = b /\ PageOf(a) = 0
  BY <1>1, FirstPage
<1>3. lists.partialHead = a /\ a # 0 /\ a \in Nat
  BY <1>1 DEF HeadAfter
<1>4. nand[b].contents[0].nextLogBlock = HeadAfter(n + 1)
  BY <1>1 DEF LinksKept, HeadAfter
<1> HIDE DEF a, b
<1>5. ReadLink(nand, a, junk) = HeadAfter(n + 1)
  BY <1>2, <1>4 DEF ReadLink, ReadNAND
<1>6. lists \in [partialHead : Nat, partialTail : Nat, completeHead : Nat, completeTail : Nat]
  BY DEF TypeOK
<1> QED BY <1>3, <1>5, <1>6 DEF GetFreeBlock, a, b

(* map->freePtr and the slot it names, while slots last. *)
LEMMA NextSlot ==
  ASSUME TypeOK, NEW k \in 0 .. MaxId - 1, vaddrMap.freePtr = FreeAfter(k),
         \A i \in Ids : i > k => vaddrMap.map[i] = FreshMap.map[i],
         NEW w \in SlotWords(vaddrMap.freePtr)
  PROVE  vaddrMap.freePtr = k + 1 /\ Abs(w) = FreeAfter(k + 1)
<1> USE MaxIdAssumption
<1>1. vaddrMap.freePtr = k + 1 /\ k + 1 \in Ids
  BY DEF FreeAfter, Ids
<1>2. w = FreshMap.map[k + 1]
  BY <1>1 DEF SlotWords
<1>3. FreshMap.map[k + 1] = IF k + 1 < MaxId THEN -(k + 2) ELSE 0
  BY <1>1 DEF FreshMap, Ids
<1> QED BY <1>1, <1>2, <1>3 DEF Abs, FreeAfter
-----------------------------------------------------------------------------
(* A write to the first page of a block that has no page yet. *)
LEMMA WriteFirst ==
  ASSUME NEW m \in Memory, NEW b \in Blocks, NEW page \in Page, m[b].nextPage = 0
  PROVE  /\ WriteNAND(m, b * BLOCKSIZE, page, FALSE) \in Memory
         /\ WriteNAND(m, b * BLOCKSIZE, page, FALSE)[b].contents[0] = page
         /\ WriteNAND(m, b * BLOCKSIZE, page, FALSE)[b].nextPage = 1
         /\ \A c \in Blocks : c # b => WriteNAND(m, b * BLOCKSIZE, page, FALSE)[c] = m[c]
<1> DEFINE k == b * BLOCKSIZE
           w == WriteNAND(m, k, page, FALSE)
<1> USE BlockSizeAssumption, NumBlocksAssumption
<1>1. BlockOf(k) = b /\ PageOf(k) = 0 /\ 0 \in PageIdx /\ 1 \in 0 .. BLOCKSIZE
  BY FirstPage DEF Blocks, PageIdx
<1> HIDE DEF k
<1>2. w = [m EXCEPT ![b].contents[0] = page, ![b].nextPage = 0 + 1]
  BY <1>1 DEF WriteNAND, WriteAccepted
<1> HIDE DEF w
<1>3. w \in Memory /\ w[b].contents[0] = page /\ w[b].nextPage = 1 /\ \A c \in Blocks : c # b => w[c] = m[c]
  BY <1>1, <1>2 DEF Memory
<1> QED BY <1>3 DEF w, k

(* What makefs writes: a memory, with the blocks for logs linked. *)
LEMMA FormattedLinks ==
  /\ Formatted \in Memory
  /\ \A b \in 2 .. NumBlocks - 1 :
       Formatted[b].contents[0].nextLogBlock =
         IF b < NumBlocks - 1 THEN (b + 1) * BLOCKSIZE ELSE 0
  /\ \A b \in 2 .. NumBlocks - 2 : Formatted[b].nextPage = 1
<1> USE BlockSizeAssumption, NumBlocksAssumption, LogSpaceAssumption
<1> DEFINE m1 == WriteOutSuperBlock(ZeroNAND)
           m2 == WriteOutVaddrMap(m1)
           link(b) == NewPage(Blank, 0, (b + 1) * BLOCKSIZE, PTYPE_NEXTLINK)
<1>1. 0 \in Blocks /\ 1 \in Blocks /\ 0 \in PageIdx /\ 2 .. NumBlocks - 1 \subseteq Blocks
  BY DEF Blocks, PageIdx
<1>2. ZeroPage \in Page /\ \A b \in Nat : link(b) \in Page /\ link(b).nextLogBlock = (b + 1) * BLOCKSIZE
  <2>1. Blank \in Payload
    BY DEF Payload
  <2>2. ZeroPage \in Page
    BY <2>1 DEF ZeroPage, Page, PTYPE_ERASED
  <2>3. ASSUME NEW b \in Nat
        PROVE  link(b) \in Page /\ link(b).nextLogBlock = (b + 1) * BLOCKSIZE
    <3>1. link(b) = [contents |-> Blank, eraseCount |-> 0, nextLogBlock |-> (b + 1) * BLOCKSIZE,
                     nextBlockErases |-> 0, pageType |-> 5]
      BY DEF NewPage, PTYPE_NEXTLINK
    <3>2. (b + 1) * BLOCKSIZE \in Nat
      OBVIOUS
    <3> HIDE DEF link
    <3> QED BY <2>1, <3>1, <3>2 DEF Page
  <2> QED BY <2>2, <2>3
<1> HIDE DEF link
<1>3. ZeroNAND \in Memory /\ \A b \in Blocks : ZeroNAND[b].nextPage = 0 /\ ZeroNAND[b].contents[0] = ZeroPage
  <2>1. [i \in PageIdx |-> ZeroPage] \in [PageIdx -> Page] /\ 0 \in 0 .. BLOCKSIZE
    BY <1>2
  <2> QED BY <1>1, <2>1 DEF ZeroNAND, Memory
<1>4. m1 \in Memory /\ \A c \in Blocks : c # 0 => m1[c] = ZeroNAND[c]
  <2> DEFINE page == NewPage(SuperPayload(FreshLists), -1, 0, PTYPE_SUPER)
  <2>0. page = [contents |-> SuperPayload(FreshLists), eraseCount |-> -1, nextLogBlock |-> 0,
                nextBlockErases |-> 0, pageType |-> 1]
    BY DEF NewPage, PTYPE_SUPER
  <2>1. page \in Page
    <3>1. SuperPayload(FreshLists) \in Payload
      BY DEF Payload
    <3> HIDE DEF page
    <3> QED BY <2>0, <3>1 DEF Page
  <2> HIDE DEF page
  <2>2. 0 * BLOCKSIZE = 0 /\ ZeroNAND[0].nextPage = 0
    BY <1>1, <1>3
  <2>3. m1 = WriteNAND(ZeroNAND, 0 * BLOCKSIZE, page, FALSE)
    BY <2>2 DEF WriteOutSuperBlock, page
  <2> HIDE DEF m1
  <2> QED BY <1>1, <1>3, <2>1, <2>2, <2>3, WriteFirst
<1>5. m2 \in Memory /\ \A c \in Blocks : c # 0 /\ c # 1 => m2[c] = ZeroNAND[c]
  <2> HIDE DEF m1
  <2> DEFINE page == NewPage(MapPayload(FreshMap), 0, 0, PTYPE_ADDRMAP)
  <2>0. page = [contents |-> MapPayload(FreshMap), eraseCount |-> 0, nextLogBlock |-> 0,
                nextBlockErases |-> 0, pageType |-> 4]
    BY DEF NewPage, PTYPE_ADDRMAP
  <2>1. page \in Page
    <3>1. MapPayload(FreshMap) \in Payload
      BY DEF Payload
    <3> HIDE DEF page
    <3> QED BY <2>0, <3>1 DEF Page
  <2> HIDE DEF page
  <2>2. 1 * BLOCKSIZE = BLOCKSIZE
    OBVIOUS
  <2>3. m2 = WriteNAND(m1, 1 * BLOCKSIZE, page, FALSE)
    BY <2>2 DEF WriteOutVaddrMap, page
  <2>4. m1[1].nextPage = 0
    BY <1>1, <1>3, <1>4
  <2>5. m1 \in Memory /\ 1 \in Blocks
    BY <1>1, <1>4
  <2> HIDE DEF m2
  <2>6. m2 \in Memory /\ \A c \in Blocks : c # 1 => m2[c] = m1[c]
    BY <2>1, <2>3, <2>4, <2>5, WriteFirst
  <2> QED BY <1>4, <2>6
<1> HIDE DEF m1, m2
<1>6. Formatted = [b \in Blocks |-> IF b \in 2 .. NumBlocks - 2
                                      THEN WriteNAND(m2, b * BLOCKSIZE, link(b), FALSE)[b]
                                      ELSE m2[b]]
  BY DEF Formatted, LinkFreeBlocks, m1, m2, link
<1>7. ASSUME NEW b \in 2 .. NumBlocks - 2
      PROVE  /\ WriteNAND(m2, b * BLOCKSIZE, link(b), FALSE) \in Memory
             /\ WriteNAND(m2, b * BLOCKSIZE, link(b), FALSE)[b].contents[0] = link(b)
             /\ WriteNAND(m2, b * BLOCKSIZE, link(b), FALSE)[b].nextPage = 1
  <2>1. b \in Blocks /\ b \in Nat /\ b # 0 /\ b # 1
    BY <1>1
  <2>2. m2[b].nextPage = 0
    BY <1>3, <1>5, <2>1
  <2>3. m2 \in Memory /\ b \in Blocks /\ link(b) \in Page /\ m2[b].nextPage = 0
    BY <1>2, <1>5, <2>1, <2>2
  <2> QED BY <2>3, WriteFirst, ZenonT(60)
<1>8. Formatted \in Memory
  BY <1>5, <1>6, <1>7 DEF Memory
<1>9. ASSUME NEW b \in 2 .. NumBlocks - 1
      PROVE  Formatted[b].contents[0].nextLogBlock =
               IF b < NumBlocks - 1 THEN (b + 1) * BLOCKSIZE ELSE 0
  <2>1. b \in Blocks /\ b \in Nat /\ b # 0 /\ b # 1
    BY <1>1
  <2>2. CASE b < NumBlocks - 1
    <3>1. b \in 2 .. NumBlocks - 2
      BY <2>2
    <3>2. Formatted[b].contents[0] = link(b)
      BY <1>6, <1>7, <2>1, <3>1
    <3> QED BY <1>2, <2>1, <2>2, <3>2
  <2>3. CASE b = NumBlocks - 1
    <3>1. b \notin 2 .. NumBlocks - 2
      BY <2>3
    <3>2. Formatted[b].contents[0] = ZeroPage
      BY <1>3, <1>5, <1>6, <2>1, <3>1
    <3> QED BY <2>3, <3>2 DEF ZeroPage
  <2> QED BY <2>2, <2>3
<1>10. ASSUME NEW b \in 2 .. NumBlocks - 2 PROVE Formatted[b].nextPage = 1
  <2>1. b \in Blocks
    BY DEF Blocks
  <2> QED BY <1>6, <1>7, <2>1
<1> QED BY <1>8, <1>9, <1>10
-----------------------------------------------------------------------------
(* The initial state satisfies the invariant. *)
LEMMA SerialInit == Enough /\ Init => SerialInv
<1> SUFFICES ASSUME Enough, Init PROVE SerialInv
  OBVIOUS
<1> USE BlockSizeAssumption, NumBlocksAssumption, LogSpaceAssumption, MaxIdAssumption,
        MaxCreatesAssumption
<1>1. created = << >> /\ Len(created) = 0
  BY DEF Init
<1>2. TypeOK
  <2>1. nand \in Memory
    BY FormattedLinks DEF Init
  <2>2. lists \in [partialHead : Nat, partialTail : Nat, completeHead : Nat, completeTail : Nat]
    BY DEF Init, FreshLists
  <2>3. vaddrMap \in [freePtr : Nat, map : [Ids -> Int]]
    BY DEF Init, FreshMap, Ids
  <2> QED BY <2>1, <2>2, <2>3 DEF Init, TypeOK, Locals
<1>3. InOrder
  BY <1>1 DEF InOrder
<1>4. LinksKept
  BY FormattedLinks DEF Init, LinksKept
<1>5. PICK t : t \in Threads
  BY ThreadsAssumption
<1>6. Running(t)
  <2>1. \A u \in Threads : pc[u] = "idle"
    BY DEF Init
  <2>2. Shared("idle")
    BY <1>1 DEF Shared, SlotsIn, BlocksIn, FreeAfter, HeadAfter, Init, FreshMap, FreshLists, Enough
  <2> QED BY <1>5, <2>1, <2>2 DEF Running
<1> QED BY <1>1, <1>2, <1>3, <1>4, <1>5, <1>6 DEF SerialInv

(* In a serial step the thread that moves is the one that may be in a call. *)
LEMMA TheRunner ==
  ASSUME SerialInv, NEW t \in Threads, InCreate \subseteq {t}
  PROVE  Running(t)
<1>1. PICK u \in Threads : Running(u)
  BY DEF SerialInv
<1>2. CASE u = t
  BY <1>1, <1>2
<1>3. CASE u # t
  <2>1. pc[t] = "idle"
    BY <1>1, <1>3 DEF Running
  <2>2. \A v \in Threads : v # t => pc[v] = "idle"
    BY DEF InCreate, Idle
  <2>3. pc[u] = "idle"
    BY <1>3, <2>2
  <2> QED BY <1>1, <2>1, <2>2, <2>3 DEF Running
<1> QED BY <1>2, <1>3
(* Every serial step keeps the invariant. *)
LEMMA SerialStep ==
  ASSUME Enough, SerialInv, SerialNext
  PROVE  SerialInv'
<1> USE BlockSizeAssumption, NumBlocksAssumption, LogSpaceAssumption, MaxIdAssumption,
        MaxCreatesAssumption
<1>1. PICK t \in Threads : InCreate \subseteq {t} /\ Step(t)
  BY DEF SerialNext
<1>2. Running(t)
  BY <1>1, TheRunner
<1> DEFINE n == Len(created)
<1>3. TypeOK /\ n \in Nat /\ n <= MaxCreates /\ InOrder /\ LinksKept
  <2>1. TypeOK /\ n <= MaxCreates /\ InOrder /\ LinksKept
    BY Zenon DEF SerialInv
  <2>2. created \in Seq([fileID : Nat, logID : Nat, page : Nat])
    BY <2>1, Zenon DEF TypeOK
  <2>3. n \in Nat
    BY <2>2
  <2> QED BY <2>1, <2>3, Zenon
<1>4. pc[t] \in {"idle"} \cup Calls /\ pc \in [Threads -> {"idle"} \cup Calls]
      /\ local \in [Threads -> [fileID : Nat, logID : Nat, page : Nat, next : Nat]]
  BY <1>3 DEF TypeOK
\* What has to be shown of a step that creates no file and writes no page.
<1>5. ASSUME UNCHANGED <<nand, created>>, TypeOK', Running(t)'
      PROVE  SerialInv'
  BY <1>3, <1>5 DEF SerialInv, InOrder, LinksKept
\* The other threads stay idle.
<1>6. ASSUME NEW p, pc' = [pc EXCEPT ![t] = p]
      PROVE  pc'[t] = p /\ \A u \in Threads : u # t => pc'[u] = "idle"
  BY <1>2, <1>4, <1>6 DEF Running
<1>7. CASE ReadFileSlot(t)
  <2>1. pc[t] = "idle" /\ pc' = [pc EXCEPT ![t] = "popFile"]
        /\ UNCHANGED <<nand, lists, vaddrMap, created>>
    BY <1>7 DEF ReadFileSlot, Go
  <2>2. n < MaxCreates
    <3>1. InCreate = {}
      BY <1>1, <2>1 DEF InCreate, Idle
    <3>2. Cardinality(InCreate) = 0
      BY <3>1, FS_EmptySet
    <3> QED BY <1>3, <1>7, <3>2 DEF ReadFileSlot
  <2>3. Shared("idle")
    BY <1>2, <2>1 DEF Running
  <2>4. PICK w \in SlotWords(vaddrMap.freePtr) :
          local' = [local EXCEPT ![t] = [fileID |-> vaddrMap.freePtr, logID |-> 0,
                                         page |-> 0, next |-> Abs(w)]]
    BY <1>7 DEF ReadFileSlot
  <2>5. vaddrMap.freePtr = 2 * n + 1 /\ Abs(w) = FreeAfter(2 * n + 1)
    <3>1. 2 * n \in 0 .. MaxId - 1
      BY <1>3, <2>2 DEF Enough
    <3>2. vaddrMap.freePtr = FreeAfter(2 * n)
          /\ \A i \in Ids : i > 2 * n => vaddrMap.map[i] = FreshMap.map[i]
      BY <1>3, <2>3 DEF Shared, SlotsIn
    <3> HIDE DEF n
    <3> QED BY <1>3, <3>1, <3>2, NextSlot
  <2>6. local'[t].fileID = 2 * n + 1 /\ local'[t].next = FreeAfter(2 * n + 1)
    BY <1>4, <2>4, <2>5
  <2>7. TypeOK'
    <3>1. Abs(w) \in Nat
      BY <1>3, <2>5 DEF FreeAfter
    <3>2. local' \in [Threads -> [fileID : Nat, logID : Nat, page : Nat, next : Nat]]
      BY <1>3, <1>4, <2>4, <2>5, <3>1
    <3>3. pc' \in [Threads -> {"idle"} \cup Calls]
      BY <1>4, <2>1 DEF Calls
    <3> QED BY <1>3, <2>1, <3>2, <3>3 DEF TypeOK
  <2>8. Running(t)'
    <3>1. pc'[t] = "popFile" /\ \A u \in Threads : u # t => pc'[u] = "idle"
      BY <1>6, <2>1
    <3>2. Shared("popFile")'
      BY <2>1, <2>3 DEF Shared, SlotsIn, BlocksIn
    <3>3. Private("popFile", local[t])'
      BY <2>1, <2>2, <2>6 DEF Private
    <3> QED BY <3>1, <3>2, <3>3 DEF Running
  <2> QED BY <1>5, <2>1, <2>7, <2>8
<1>8. CASE PopFileSlot(t)
  <2>1. pc[t] = "popFile" /\ pc' = [pc EXCEPT ![t] = "readLog"]
        /\ UNCHANGED <<nand, lists, local, created>>
        /\ vaddrMap' = [vaddrMap EXCEPT !.freePtr = local[t].next]
    BY <1>8 DEF PopFileSlot, PopSlot, Go
  <2>2. Shared("popFile") /\ Private("popFile", local[t])
    BY <1>2, <2>1 DEF Running
  <2>3. local[t].next = FreeAfter(2 * n + 1)
    BY <2>2 DEF Private
  <2>4. vaddrMap'.freePtr = FreeAfter(2 * n + 1) /\ vaddrMap'.map = vaddrMap.map
    BY <1>3, <2>1, <2>3 DEF TypeOK
  <2>5. TypeOK'
    <3>1. vaddrMap' \in [freePtr : Nat, map : [Ids -> Int]]
      BY <1>3, <1>4, <2>1 DEF TypeOK
    <3>2. pc' \in [Threads -> {"idle"} \cup Calls]
      BY <1>4, <2>1 DEF Calls
    <3> QED BY <1>3, <2>1, <3>1, <3>2 DEF TypeOK
  <2>6. Running(t)'
    <3>1. pc'[t] = "readLog" /\ \A u \in Threads : u # t => pc'[u] = "idle"
      BY <1>6, <2>1
    <3>2. Shared("readLog")'
      BY <1>3, <2>1, <2>2, <2>4 DEF Shared, SlotsIn, BlocksIn, Ids
    <3>3. Private("readLog", local[t])'
      BY <2>1, <2>2 DEF Private
    <3> QED BY <3>1, <3>2, <3>3 DEF Running
  <2> QED BY <1>5, <2>1, <2>5, <2>6
<1>9. CASE ReadLogSlot(t)
  <2>1. pc[t] = "readLog" /\ pc' = [pc EXCEPT ![t] = "popLog"]
        /\ UNCHANGED <<nand, lists, vaddrMap, created>>
    BY <1>9 DEF ReadLogSlot, Go
  <2>2. Shared("readLog") /\ Private("readLog", local[t])
    BY <1>2, <2>1 DEF Running
  <2>3. n < MaxCreates /\ local[t].fileID = 2 * n + 1
    BY <2>2 DEF Private
  <2>4. PICK w \in SlotWords(vaddrMap.freePtr) :
          local' = [local EXCEPT ![t] = [fileID |-> local[t].fileID,
                                         logID |-> vaddrMap.freePtr,
                                         page |-> 0, next |-> Abs(w)]]
    BY <1>9 DEF ReadLogSlot
  <2>5. vaddrMap.freePtr = 2 * n + 2 /\ Abs(w) = FreeAfter(2 * n + 2)
    <3>1. 2 * n + 1 \in 0 .. MaxId - 1 /\ (2 * n + 1) + 1 = 2 * n + 2
      BY <1>3, <2>3 DEF Enough
    <3>2. vaddrMap.freePtr = FreeAfter(2 * n + 1)
          /\ \A i \in Ids : i > 2 * n + 1 => vaddrMap.map[i] = FreshMap.map[i]
      BY <1>3, <2>2 DEF Shared, SlotsIn
    <3> HIDE DEF n
    <3>3. vaddrMap.freePtr = (2 * n + 1) + 1 /\ Abs(w) = FreeAfter((2 * n + 1) + 1)
      BY <1>3, <3>1, <3>2, NextSlot
    <3> QED BY <3>1, <3>3
  <2>6. local'[t].fileID = 2 * n + 1 /\ local'[t].logID = 2 * n + 2
        /\ local'[t].next = FreeAfter(2 * n + 2)
    BY <1>4, <2>3, <2>4, <2>5
  <2>7. TypeOK'
    <3>1. Abs(w) \in Nat
      BY <1>3, <2>5 DEF FreeAfter
    <3>2. local' \in [Threads -> [fileID : Nat, logID : Nat, page : Nat, next : Nat]]
      BY <1>3, <1>4, <2>4, <2>5, <3>1
    <3>3. pc' \in [Threads -> {"idle"} \cup Calls]
      BY <1>4, <2>1 DEF Calls
    <3> QED BY <1>3, <2>1, <3>2, <3>3 DEF TypeOK
  <2>8. Running(t)'
    <3>1. pc'[t] = "popLog" /\ \A u \in Threads : u # t => pc'[u] = "idle"
      BY <1>6, <2>1
    <3>2. Shared("popLog")'
      BY <2>1, <2>2 DEF Shared, SlotsIn, BlocksIn
    <3>3. Private("popLog", local[t])'
      BY <2>1, <2>3, <2>6 DEF Private
    <3> QED BY <3>1, <3>2, <3>3 DEF Running
  <2> QED BY <1>5, <2>1, <2>7, <2>8
<1>10. CASE PopLogSlot(t)
  <2>1. pc[t] = "popLog" /\ pc' = [pc EXCEPT ![t] = "readBlock"]
        /\ UNCHANGED <<nand, lists, local, created>>
        /\ vaddrMap' = [vaddrMap EXCEPT !.freePtr = local[t].next]
    BY <1>10 DEF PopLogSlot, PopSlot, Go
  <2>2. Shared("popLog") /\ Private("popLog", local[t])
    BY <1>2, <2>1 DEF Running
  <2>3. local[t].next = FreeAfter(2 * n + 2)
    BY <2>2 DEF Private
  <2>4. vaddrMap'.freePtr = FreeAfter(2 * n + 2) /\ vaddrMap'.map = vaddrMap.map
    BY <1>3, <2>1, <2>3 DEF TypeOK
  <2>5. TypeOK'
    <3>1. vaddrMap' \in [freePtr : Nat, map : [Ids -> Int]]
      BY <1>3, <1>4, <2>1 DEF TypeOK
    <3>2. pc' \in [Threads -> {"idle"} \cup Calls]
      BY <1>4, <2>1 DEF Calls
    <3> QED BY <1>3, <2>1, <3>1, <3>2 DEF TypeOK
  <2>6. Running(t)'
    <3>1. pc'[t] = "readBlock" /\ \A u \in Threads : u # t => pc'[u] = "idle"
      BY <1>6, <2>1
    <3>2. Shared("readBlock")'
      BY <1>3, <2>1, <2>2, <2>4 DEF Shared, SlotsIn, BlocksIn, Ids
    <3>3. Private("readBlock", local[t])'
      BY <2>1, <2>2 DEF Private
    <3> QED BY <3>1, <3>2, <3>3 DEF Running
  <2> QED BY <1>5, <2>1, <2>5, <2>6
<1>11. CASE ReadBlock(t)
  <2>1. pc[t] = "readBlock" /\ UNCHANGED <<nand, lists, vaddrMap, created>>
    BY <1>11 DEF ReadBlock
  <2>2. Shared("readBlock") /\ Private("readBlock", local[t])
    BY <1>2, <2>1 DEF Running
  <2>3. n < MaxCreates /\ local[t].fileID = 2 * n + 1 /\ local[t].logID = 2 * n + 2
    BY <2>2 DEF Private
  <2>4. n \in 0 .. NumBlocks - 3 /\ lists.partialHead = HeadAfter(n)
    BY <1>3, <2>2, <2>3 DEF Shared, BlocksIn, Enough
  <2>5. /\ pc' = [pc EXCEPT ![t] = "popPartial"]
        /\ local' = [local EXCEPT ![t] =
                       [fileID |-> local[t].fileID, logID |-> local[t].logID,
                        page |-> (n + 2) * BLOCKSIZE + 1, next |-> HeadAfter(n + 1)]]
    <3> HIDE DEF n
    <3>1. PICK junk \in Junk :
            LET partial == lists.partialHead # 0
                g       == GetFreeBlock(nand, lists, TRUE, junk)
            IN /\ local' = [local EXCEPT ![t] =
                         [fileID |-> local[t].fileID, logID |-> local[t].logID,
                          page |-> g.page,
                          next |-> IF partial THEN g.lists.partialHead
                                              ELSE g.lists.completeHead]]
               /\ pc' = [pc EXCEPT ![t] = IF partial THEN "popPartial" ELSE "popComplete"]
      BY <1>11 DEF ReadBlock
    <3>2. LET g == GetFreeBlock(nand, lists, TRUE, junk)
          IN lists.partialHead # 0 /\ g.page = (n + 2) * BLOCKSIZE + 1
             /\ g.lists.partialHead = HeadAfter(n + 1)
      BY <1>3, <2>4, NextBlock
    <3> QED BY <3>1, <3>2
  <2>6. TypeOK'
    <3>1. (n + 2) * BLOCKSIZE + 1 \in Nat /\ HeadAfter(n + 1) \in Nat
      BY <1>3 DEF HeadAfter
    <3> HIDE DEF n
    <3>2. local' \in [Threads -> [fileID : Nat, logID : Nat, page : Nat, next : Nat]]
      BY <1>4, <2>5, <3>1
    <3>3. pc' \in [Threads -> {"idle"} \cup Calls]
      BY <1>4, <2>5 DEF Calls
    <3> QED BY <1>3, <2>1, <3>2, <3>3 DEF TypeOK
  <2>7. Running(t)'
    <3>1. pc'[t] = "popPartial" /\ \A u \in Threads : u # t => pc'[u] = "idle"
      BY <1>6, <2>5
    <3>2. Shared("popPartial")'
      BY <2>1, <2>2 DEF Shared, SlotsIn, BlocksIn
    <3>3. Private("popPartial", local[t])'
      BY <1>4, <2>1, <2>3, <2>5 DEF Private
    <3> QED BY <3>1, <3>2, <3>3 DEF Running
  <2> QED BY <1>5, <2>1, <2>6, <2>7
<1>12. CASE PopPartial(t)
  <2>1. pc[t] = "popPartial" /\ pc' = [pc EXCEPT ![t] = "mapLog"]
        /\ UNCHANGED <<nand, vaddrMap, local, created>>
        /\ lists' = [lists EXCEPT !.partialHead = local[t].next]
    BY <1>12 DEF PopPartial, Go
  <2>2. Shared("popPartial") /\ Private("popPartial", local[t])
    BY <1>2, <2>1 DEF Running
  <2>3. local[t].next = HeadAfter(n + 1)
    BY <2>2 DEF Private
  <2>4. lists'.partialHead = HeadAfter(n + 1)
    BY <1>3, <2>1, <2>3 DEF TypeOK
  <2>5. TypeOK'
    <3>1. lists' \in [partialHead : Nat, partialTail : Nat,
                      completeHead : Nat, completeTail : Nat]
      BY <1>3, <1>4, <2>1 DEF TypeOK
    <3>2. pc' \in [Threads -> {"idle"} \cup Calls]
      BY <1>4, <2>1 DEF Calls
    <3> QED BY <1>3, <2>1, <3>1, <3>2 DEF TypeOK
  <2>6. Running(t)'
    <3>1. pc'[t] = "mapLog" /\ \A u \in Threads : u # t => pc'[u] = "idle"
      BY <1>6, <2>1
    <3>2. Shared("mapLog")'
      BY <2>1, <2>2, <2>4 DEF Shared, SlotsIn, BlocksIn
    <3>3. Private("mapLog", local[t])'
      BY <2>1, <2>2 DEF Private
    <3> QED BY <3>1, <3>2, <3>3 DEF Running
  <2> QED BY <1>5, <2>1, <2>5, <2>6
<1>13. CASE PopComplete(t)
  BY <1>2, <1>13 DEF PopComplete, Go, Running, Private
\* A store to a slot that has been taken leaves the free ones alone.
<1>14. ASSUME NEW ptr \in 1 .. 2 * n + 2, NEW page \in Nat,
              vaddrMap' = StoreSlot(ptr, page)
       PROVE  /\ vaddrMap' \in [freePtr : Nat, map : [Ids -> Int]]
              /\ vaddrMap'.freePtr = vaddrMap.freePtr
              /\ \A i \in Ids : i > 2 * n + 2 => vaddrMap'.map[i] = vaddrMap.map[i]
  <2>1. vaddrMap \in [freePtr : Nat, map : [Ids -> Int]]
    BY <1>3 DEF TypeOK
  <2>2. CASE ptr \notin Ids
    BY <1>14, <2>1, <2>2 DEF StoreSlot
  <2>3. CASE ptr \in Ids
    <3>1. vaddrMap' = [vaddrMap EXCEPT !.map[ptr] = page]
      BY <1>14, <2>3 DEF StoreSlot
    <3>2. \A i \in Ids : i > 2 * n + 2 => i # ptr
      BY <1>3, <1>14 DEF Ids
    <3> HIDE DEF n
    <3> QED BY <2>1, <2>3, <3>1, <3>2
  <2> QED BY <2>2, <2>3
<1>15. CASE MapLog(t)
  <2>1. pc[t] = "mapLog" /\ pc' = [pc EXCEPT ![t] = "mapFile"]
        /\ UNCHANGED <<nand, lists, local, created>>
        /\ vaddrMap' = StoreSlot(local[t].logID, local[t].page)
    BY <1>15 DEF MapLog, Go
  <2>2. Shared("mapLog") /\ Private("mapLog", local[t])
    BY <1>2, <2>1 DEF Running
  <2>3. local[t].logID \in 1 .. 2 * n + 2 /\ local[t].page \in Nat
    BY <1>3, <1>4, <2>2 DEF Private
  <2>4. /\ vaddrMap' \in [freePtr : Nat, map : [Ids -> Int]]
        /\ vaddrMap'.freePtr = vaddrMap.freePtr
        /\ \A i \in Ids : i > 2 * n + 2 => vaddrMap'.map[i] = vaddrMap.map[i]
    BY <1>14, <2>1, <2>3
  <2>5. TypeOK'
    <3>1. pc' \in [Threads -> {"idle"} \cup Calls]
      BY <1>4, <2>1 DEF Calls
    <3> QED BY <1>3, <2>1, <2>4, <3>1 DEF TypeOK
  <2>6. Running(t)'
    <3>1. pc'[t] = "mapFile" /\ \A u \in Threads : u # t => pc'[u] = "idle"
      BY <1>6, <2>1
    <3>2. Shared("mapFile")'
      BY <1>3, <2>1, <2>2, <2>4 DEF Shared, SlotsIn, BlocksIn
    <3>3. Private("mapFile", local[t])'
      BY <2>1, <2>2 DEF Private
    <3> QED BY <3>1, <3>2, <3>3 DEF Running
  <2> QED BY <1>5, <2>1, <2>5, <2>6
<1>16. CASE MapFile(t)
  <2> DEFINE loc == local[t]
             file == [fileID |-> loc.fileID, logID |-> loc.logID, page |-> loc.page]
             header == [kind |-> "header", logId |-> loc.logID, fileId |-> loc.fileID]
  <2>1. pc[t] = "mapFile" /\ pc' = [pc EXCEPT ![t] = "idle"]
        /\ vaddrMap' = StoreSlot(loc.fileID, loc.page)
        /\ created' = Append(created, file)
        /\ local' = [local EXCEPT ![t] = Locals]
    BY <1>16 DEF MapFile, Go
  <2>2. Shared("mapFile") /\ Private("mapFile", loc)
    BY <1>2, <2>1 DEF Running
  <2>3. /\ n < MaxCreates
        /\ loc.fileID = 2 * n + 1 /\ loc.logID = 2 * n + 2
        /\ loc.page = (n + 2) * BLOCKSIZE + 1
        /\ loc \in [fileID : Nat, logID : Nat, page : Nat, next : Nat]
    BY <1>4, <2>2 DEF Private
  <2>4. /\ vaddrMap' \in [freePtr : Nat, map : [Ids -> Int]]
        /\ vaddrMap'.freePtr = vaddrMap.freePtr
        /\ \A i \in Ids : i > 2 * n + 2 => vaddrMap'.map[i] = vaddrMap.map[i]
    <3>1. loc.fileID \in 1 .. 2 * n + 2 /\ loc.page \in Nat
      BY <1>3, <2>3
    <3> QED BY <1>14, <2>1, <3>1
  <2>5. /\ lists' = lists
        /\ nand' \in Memory
        /\ \A c \in Blocks : nand'[c].contents[0] = nand[c].contents[0]
    <3> DEFINE b == n + 2
               block == BlockOf(loc.page)
               log == [nextPage |-> loc.page, last |-> block, first |-> block, prev |-> -1,
                       logId |-> loc.logID, fileId |-> loc.fileID]
    <3>1. PICK junk \in Junk :
            LET p == GetFreePage(nand, lists, log, junk)
            IN /\ nand' = WriteNAND(p.nand, p.address, NewPage(header, 0, p.link, PTYPE_INODE), FALSE)
               /\ lists' = p.lists
      BY <1>16 DEF MapFile
    <3>2. log.nextPage = b * BLOCKSIZE + 1 /\ b \in Nat
      BY <1>3, <2>3
    <3>3. NewPage(header, 0, junk, PTYPE_INODE) \in Page
      <4>1. header \in Payload
        BY <2>3 DEF Payload
      <4>2. junk \in Nat
        BY JunkAssumption
      <4> HIDE DEF header
      <4> QED BY <4>1, <4>2 DEF NewPage, Page, PTYPE_INODE
    <3>4. 1 \in PageIdx
      BY LogBlockAssumption DEF PageIdx
    <3>5. nand \in Memory
      BY <1>3 DEF TypeOK
    <3> HIDE DEF log, header, b
    <3>6. LET p == GetFreePage(nand, lists, log, junk)
          IN p.address = b * BLOCKSIZE + 1 /\ p.link = junk /\ p.lists = lists /\ p.nand = nand
      BY <3>2, FirstLogPage
    <3>7. lists' = lists
          /\ nand' = WriteNAND(nand, b * BLOCKSIZE + 1, NewPage(header, 0, junk, PTYPE_INODE), FALSE)
      BY <3>1, <3>6
    <3> DEFINE page == NewPage(header, 0, junk, PTYPE_INODE)
               w == WriteNAND(nand, b * BLOCKSIZE + 1, page, FALSE)
    <3>8. page \in Page
      BY <3>3
    <3> HIDE DEF page
    <3>9. w \in Memory /\ \A c \in Blocks : w[c].contents[0] = nand[c].contents[0]
      <4>1. 1 # 0
        OBVIOUS
      <4> QED BY <3>2, <3>4, <3>5, <3>8, <4>1, WriteType, Zenon
    <3>10. nand' = w /\ lists' = lists
      BY <3>7 DEF page
    <3> HIDE DEF w
    <3> QED BY <3>9, <3>10, Zenon
  <2>6. file = NthFile(n + 1)
    BY <1>3, <2>3 DEF NthFile
  <2>7. created' \in Seq([fileID : Nat, logID : Nat, page : Nat]) /\ Len(created') = n + 1
        /\ created'[n + 1] = file /\ \A i \in 1 .. n : created'[i] = created[i]
    <3>1. created \in Seq([fileID : Nat, logID : Nat, page : Nat])
          /\ file \in [fileID : Nat, logID : Nat, page : Nat]
      BY <1>3, <2>3 DEF TypeOK
    <3> HIDE DEF file
    <3> QED BY <2>1, <3>1
  <2> HIDE DEF file
  <2>8. InOrder'
    <3>1. DOMAIN created' = 1 .. n + 1 /\ DOMAIN created = 1 .. n
      BY <1>3, <2>7 DEF TypeOK
    <3>2. ASSUME NEW i \in 1 .. n + 1 PROVE created'[i] = NthFile(i)
      <4>1. CASE i = n + 1
        BY <2>6, <2>7, <4>1
      <4>2. CASE i \in 1 .. n
        BY <1>3, <2>7, <3>1, <4>2 DEF InOrder
      <4> QED BY <1>3, <4>1, <4>2
    <3> QED BY <3>1, <3>2 DEF InOrder
  <2>9. LinksKept'
    <3>1. 2 .. NumBlocks - 1 \subseteq Blocks
      BY DEF Blocks
    <3> QED BY <1>3, <2>5, <3>1 DEF LinksKept
  <2>10. TypeOK'
    <3>1. pc' \in [Threads -> {"idle"} \cup Calls]
      BY <1>4, <2>1
    <3>2. local' \in [Threads -> [fileID : Nat, logID : Nat, page : Nat, next : Nat]]
      BY <1>4, <2>1 DEF Locals
    <3> QED BY <1>3, <2>4, <2>5, <2>7, <3>1, <3>2 DEF TypeOK
  <2>11. Running(t)'
    <3>1. pc'[t] = "idle" /\ \A u \in Threads : u # t => pc'[u] = "idle"
      BY <1>6, <2>1
    <3>2. Shared("idle")'
      BY <1>3, <2>2, <2>4, <2>5, <2>7 DEF Shared, SlotsIn, BlocksIn
    <3> QED BY <3>1, <3>2 DEF Running
  <2>12. Len(created)' <= MaxCreates
    BY <1>3, <2>3, <2>7
  <2> QED BY <2>8, <2>9, <2>10, <2>11, <2>12 DEF SerialInv
<1> QED BY <1>1, <1>7, <1>8, <1>9, <1>10, <1>11, <1>12, <1>13, <1>15, <1>16 DEF Step

(* Under fuse -s, as long as slots and blocks last, the slots, the blocks  *)
(* and the map entries of creations are handed out in order (getFreePtr,   *)
(* getFreeBlock, getLogForFile), at every step of every call.              *)
THEOREM SerialInvariant ==
  ASSUME Enough
  PROVE  SerialSpec => []SerialInv
<1>1. Init => SerialInv
  BY SerialInit
<1>2. SerialInv /\ [SerialNext]_vars => SerialInv'
  <2>1. ASSUME SerialInv, SerialNext PROVE SerialInv'
    BY <2>1, SerialStep
  <2>2. ASSUME SerialInv, UNCHANGED vars PROVE SerialInv'
    BY <2>2 DEF vars, SerialInv, TypeOK, InOrder, LinksKept, Running, Shared, Private
  <2> QED BY <2>1, <2>2
<1> QED BY <1>1, <1>2, PTL DEF SerialSpec

(* Type correctness of the shared state and of the threads' locals. *)
THEOREM SerialTypeOK ==
  ASSUME Enough
  PROVE  SerialSpec => []TypeOK
<1>1. SerialInv => TypeOK
  BY DEF SerialInv
<1> QED BY <1>1, SerialInvariant, PTL

-----------------------------------------------------------------------------
(* The block of the i-th file. *)
LEMMA BlockOfNthFile ==
  ASSUME NEW i \in Nat
  PROVE  BlockOf(NthFile(i).page) = i + 1
<1>1. 1 \in PageIdx
  BY BlockSizeAssumption, LogBlockAssumption DEF PageIdx
<1>2. NthFile(i).page = (i + 1) * BLOCKSIZE + 1 /\ i + 1 \in Nat
  BY DEF NthFile
<1> QED BY <1>1, <1>2, AddressSplit

(* Under fuse -s no two files share a file number, a log number or a       *)
(* block: what concurrent calls of getFreePtr and getFreeBlock lose.       *)
THEOREM SerialUnique ==
  ASSUME Enough
  PROVE  SerialSpec => [](NumbersUnique /\ BlocksUnique)
<1>1. SerialInv => NumbersUnique /\ BlocksUnique
  <2> SUFFICES ASSUME SerialInv, NEW i \in DOMAIN created, NEW j \in DOMAIN created, i # j
               PROVE  /\ NumbersOf(created[i]) \cap NumbersOf(created[j]) = {}
                      /\ BlockOf(created[i].page) # BlockOf(created[j].page)
    BY DEF NumbersUnique, BlocksUnique
  <2>1. created[i] = NthFile(i) /\ created[j] = NthFile(j)
    BY DEF SerialInv, InOrder
  <2>2. i \in Nat /\ j \in Nat
    <3>1. created \in Seq([fileID : Nat, logID : Nat, page : Nat])
      BY DEF SerialInv, TypeOK
    <3>2. DOMAIN created = 1 .. Len(created) /\ Len(created) \in Nat
      BY <3>1
    <3> QED BY <3>2
  <2>3. {2 * i - 1, 2 * i} \cap {2 * j - 1, 2 * j} = {}
    BY <2>2
  <2>4. NumbersOf(NthFile(i)) = {2 * i - 1, 2 * i} /\ NumbersOf(NthFile(j)) = {2 * j - 1, 2 * j}
    BY DEF NumbersOf, NthFile
  <2>5. BlockOf(NthFile(i).page) # BlockOf(NthFile(j).page)
    BY <2>2, BlockOfNthFile
  <2> QED BY <2>1, <2>3, <2>4, <2>5
<1> QED BY <1>1, SerialInvariant, PTL

(* The refinement mapping. *)
AbsFiles == [i \in DOMAIN created |->
               [fileID |-> created[i].fileID, logID |-> created[i].logID,
                block |-> BlockOf(created[i].page)]]

(* Creations that run one at a time give every file two numbers and a      *)
(* block that no other file has (getFreePtr and getFreeBlock in            *)
(* xmp_create and getLogForFile): they implement LogAllocation.            *)
THEOREM SerialImplements ==
  ASSUME Enough
  PROVE  SerialSpec => Implements
<1>1. Init => Alloc!Init
  <2> SUFFICES ASSUME Init PROVE Alloc!Init
    OBVIOUS
  <2>1. created = << >>
    BY DEF Init
  <2>2. AbsFiles = << >>
    BY <2>1 DEF AbsFiles
  <2> QED BY <2>2 DEF Alloc!Init, AbsFiles
<1>2. SerialInv /\ SerialInv' /\ [SerialNext]_vars => [Alloc!Allocate]_AbsFiles
  <2> SUFFICES ASSUME SerialInv, SerialInv', [SerialNext]_vars
               PROVE  Alloc!Allocate \/ AbsFiles' = AbsFiles
    OBVIOUS
  <2>1. CASE created' = created
    BY <2>1 DEF AbsFiles
  <2>2. ASSUME NEW t \in Threads, MapFile(t)
        PROVE  Alloc!Allocate
    <3> DEFINE n == Len(created)
               new == [fileID |-> 2 * n + 1, logID |-> 2 * n + 2, block |-> n + 2]
    <3> DEFINE file == [fileID |-> local[t].fileID, logID |-> local[t].logID,
                        page |-> local[t].page]
    <3>1. created \in Seq([fileID : Nat, logID : Nat, page : Nat]) /\ n \in Nat
          /\ DOMAIN created = 1 .. n /\ InOrder /\ InOrder'
          /\ created' \in Seq([fileID : Nat, logID : Nat, page : Nat])
          /\ n + 1 <= MaxCreates
      <4>1. created \in Seq([fileID : Nat, logID : Nat, page : Nat]) /\ InOrder /\ InOrder'
            /\ created' \in Seq([fileID : Nat, logID : Nat, page : Nat])
            /\ Len(created') <= MaxCreates
        BY DEF SerialInv, TypeOK
      <4>2. created' = Append(created, file)
        BY <2>2 DEF MapFile
      <4>3. Len(created') = n + 1
        BY <4>1, <4>2
      <4> QED BY <4>1, <4>3
    <3>2. created' = Append(created, file) /\ DOMAIN created' = 1 .. n + 1
      BY <2>2, <3>1 DEF MapFile
    <3>3. ASSUME NEW i \in 1 .. n
          PROVE  AbsFiles[i] = [fileID |-> 2 * i - 1, logID |-> 2 * i, block |-> i + 1]
      <4>0. i \in DOMAIN created /\ i \in Nat /\ InOrder
        <5> HIDE DEF n
        <5> QED BY <3>1
      <4>1. created[i] = NthFile(i) /\ i \in Nat
        BY <4>0, Zenon DEF InOrder
      <4>2. AbsFiles[i] = [fileID |-> created[i].fileID, logID |-> created[i].logID,
                           block |-> BlockOf(created[i].page)]
        BY <3>1 DEF AbsFiles
      <4> QED BY <4>1, <4>2, BlockOfNthFile DEF NthFile
    <3>4. ASSUME NEW i \in 1 .. n + 1
          PROVE  AbsFiles'[i] = [fileID |-> 2 * i - 1, logID |-> 2 * i, block |-> i + 1]
      <4>1. created'[i] = NthFile(i) /\ i \in Nat
        BY <3>1, <3>2 DEF InOrder
      <4>2. AbsFiles'[i] = [fileID |-> created'[i].fileID, logID |-> created'[i].logID,
                            block |-> BlockOf(created'[i].page)]
        BY <3>2 DEF AbsFiles
      <4> QED BY <4>1, <4>2, BlockOfNthFile DEF NthFile
    <3> DEFINE R(i) == [fileID |-> 2 * i - 1, logID |-> 2 * i, block |-> i + 1]
    <3>5. DOMAIN AbsFiles = 1 .. n
      BY <3>1 DEF AbsFiles
    <3>6. AbsFiles' = Append(AbsFiles, new)
      <4>1. AbsFiles = [i \in 1 .. n |-> R(i)]
        BY <3>1, <3>3 DEF AbsFiles
      <4>2. AbsFiles' = [i \in 1 .. n + 1 |-> R(i)]
        BY <3>2, <3>4 DEF AbsFiles
      <4>3. new = R(n + 1)
        BY <3>1
      <4> DEFINE S == [fileID : Int, logID : Int, block : Int]
      <4>4. AbsFiles \in Seq(S) /\ Len(AbsFiles) = n /\ new \in S
        <5>1. \A i \in 1 .. n : R(i) \in S
          BY <3>1
        <5>2. new \in S
          BY <3>1
        <5> HIDE DEF R, S, new
        <5>3. [i \in 1 .. n |-> R(i)] \in Seq(S) /\ Len([i \in 1 .. n |-> R(i)]) = n
          BY <3>1, <5>1
        <5> QED BY <4>1, <5>2, <5>3
      <4> HIDE DEF R, S, new
      <4>5. Append([i \in 1 .. n |-> R(i)], R(n + 1)) = [i \in 1 .. n + 1 |-> R(i)]
        BY <3>1, <4>1, <4>3, <4>4
      <4> QED BY <4>1, <4>2, <4>3, <4>5
    <3>7. /\ 2 * n + 1 \in Ids \ {0} /\ 2 * n + 2 \in Ids \ {0}
          /\ n + 2 \in 2 .. NumBlocks - 1
      BY <3>1, MaxIdAssumption, NumBlocksAssumption, MaxCreatesAssumption DEF Ids, Enough
    <3>8. ASSUME NEW i \in 1 .. n
          PROVE  /\ 2 * n + 1 \notin {AbsFiles[i].fileID, AbsFiles[i].logID}
                 /\ 2 * n + 2 \notin {AbsFiles[i].fileID, AbsFiles[i].logID}
                 /\ n + 2 # AbsFiles[i].block
      <4>2. n \in Nat
        BY <3>1
      <4> HIDE DEF n, R
      <4>3. AbsFiles[i] = R(i)
        BY <3>3 DEF R
      <4>1. AbsFiles[i].fileID = 2 * i - 1 /\ AbsFiles[i].logID = 2 * i /\ AbsFiles[i].block = i + 1
        BY <4>3 DEF R
      <4> QED BY <4>1, <4>2
    <3> DEFINE f == 2 * n + 1
               l == 2 * n + 2
               b == n + 2
    <3>9. new = [fileID |-> f, logID |-> l, block |-> b] /\ f # l
      BY <3>1
    <3>10. f \in Ids \ {0} /\ l \in Ids \ {0} /\ b \in 2 .. NumBlocks - 1
      BY <3>7
    <3>11. \A i \in DOMAIN AbsFiles :
             /\ f \notin {AbsFiles[i].fileID, AbsFiles[i].logID}
             /\ l \notin {AbsFiles[i].fileID, AbsFiles[i].logID}
             /\ b # AbsFiles[i].block
      BY <3>5, <3>8
    <3> HIDE DEF f, l, b, new, n
    <3>12. /\ f \notin UNION {{AbsFiles[i].fileID, AbsFiles[i].logID} : i \in DOMAIN AbsFiles}
           /\ l \notin UNION {{AbsFiles[i].fileID, AbsFiles[i].logID} : i \in DOMAIN AbsFiles}
           /\ b \notin {AbsFiles[i].block : i \in DOMAIN AbsFiles}
      BY <3>11, Zenon
    <3>13. AbsFiles' = Append(AbsFiles, [fileID |-> f, logID |-> l, block |-> b])
      BY <3>6, <3>9, Zenon
    <3> QED
      BY <3>9, <3>10, <3>12, <3>13, Zenon
      DEF Alloc!Allocate, Alloc!NumbersUsed, Alloc!NumbersOf, Alloc!BlocksUsed, AbsFiles
  <2> QED BY <2>1, <2>2 DEF SerialNext, Step, ReadFileSlot, PopFileSlot, ReadLogSlot,
        PopLogSlot, ReadBlock, PopPartial, PopComplete, MapLog, vars
<1> QED BY <1>1, <1>2, SerialInvariant, PTL DEF SerialSpec, Implements, Alloc!Spec, AbsFiles

-----------------------------------------------------------------------------
(* The bounds under which every file gets a block that makefs linked: the  *)
(* last block has no page yet, so that a header for its page 1 is refused. *)
Linked == 2 * MaxCreates <= MaxId /\ MaxCreates <= NumBlocks - 3

HeaderOf(i) == [kind |-> "header", logId |-> 2 * i, fileId |-> 2 * i - 1]

(* The entries of the files in the map, and of the file of a call that has *)
(* stored the first of the two.                                            *)
MapHolds ==
  /\ \A i \in DOMAIN created :
       vaddrMap.map[2 * i - 1] = NthFile(i).page /\ vaddrMap.map[2 * i] = NthFile(i).page
  /\ \A t \in Threads : pc[t] = "mapFile" => vaddrMap.map[local[t].logID] = local[t].page

(* Their headers, and the linked blocks that wait for theirs. *)
HeadersWritten == \A i \in DOMAIN created : nand[i + 1].contents[1].contents = HeaderOf(i)
BlocksReady == \A b \in Len(created) + 2 .. NumBlocks - 2 : nand[b].nextPage = 1

HeaderInv == MapHolds /\ HeadersWritten /\ BlocksReady

(* The entries of map->map that a store to slot k leaves alone. *)
LEMMA StoreOther ==
  ASSUME TypeOK, NEW k \in Ids, NEW page \in Nat, vaddrMap' = StoreSlot(k, page)
  PROVE  /\ vaddrMap'.map[k] = page
         /\ \A i \in Ids : i # k => vaddrMap'.map[i] = vaddrMap.map[i]
<1>1. vaddrMap \in [freePtr : Nat, map : [Ids -> Int]]
  BY DEF TypeOK
<1>2. vaddrMap' = [vaddrMap EXCEPT !.map[k] = page]
  BY DEF StoreSlot
<1> QED BY <1>1, <1>2

(* A serial step keeps map entries and headers together. *)
LEMMA HeaderStep ==
  ASSUME Linked, SerialInv, SerialInv', HeaderInv, SerialNext
  PROVE  HeaderInv'
<1> USE BlockSizeAssumption, NumBlocksAssumption, LogSpaceAssumption, MaxIdAssumption,
        MaxCreatesAssumption
<1>1. PICK t \in Threads : InCreate \subseteq {t} /\ Step(t)
  BY DEF SerialNext
<1>2. Running(t)
  BY <1>1, TheRunner
<1> DEFINE n == Len(created)
           FileType == [fileID : Nat, logID : Nat, page : Nat]
<1>3. /\ TypeOK /\ InOrder /\ n \in Nat /\ n <= MaxCreates
      /\ created \in Seq(FileType) /\ DOMAIN created = 1 .. n
      /\ pc \in [Threads -> {"idle"} \cup Calls]
      /\ local \in [Threads -> [fileID : Nat, logID : Nat, page : Nat, next : Nat]]
      /\ nand \in Memory
  <2>1. TypeOK /\ InOrder /\ Len(created) <= MaxCreates
    BY DEF SerialInv
  <2>2. created \in Seq(FileType)
    BY <2>1 DEF TypeOK
  <2>3. n \in Nat /\ DOMAIN created = 1 .. n
    <3> HIDE DEF FileType
    <3> QED BY <2>2
  <2> QED BY <2>1, <2>2, <2>3 DEF TypeOK
<1>4. ASSUME NEW i \in 1 .. n PROVE 2 * i - 1 \in Ids /\ 2 * i \in Ids /\ i \in Nat
  BY <1>3 DEF Linked, Ids
<1>5. ASSUME NEW p, p # "mapFile", pc' = [pc EXCEPT ![t] = p]
      PROVE  \A u \in Threads : pc'[u] # "mapFile"
  <2>1. ASSUME NEW u \in Threads PROVE pc'[u] # "mapFile"
    <3>1. CASE u = t
      BY <1>3, <1>5, <3>1
    <3>2. CASE u # t
      <4>1. pc'[u] = pc[u] /\ pc[u] = "idle"
        BY <1>2, <1>3, <1>5, <3>2 DEF Running
      <4> QED BY <4>1
    <3> QED BY <3>1, <3>2
  <2> QED BY <2>1
\* What has to be shown of a step that stores no entry of the map.
<1>6. ASSUME UNCHANGED <<nand, created>>, vaddrMap'.map = vaddrMap.map,
             NEW p, p # "mapFile", pc' = [pc EXCEPT ![t] = p]
      PROVE  HeaderInv'
  BY <1>5, <1>6 DEF HeaderInv, MapHolds, HeadersWritten, BlocksReady
<1>7. CASE ReadFileSlot(t)
  BY <1>6, <1>7 DEF ReadFileSlot, Go
<1>8. CASE PopFileSlot(t)
  <2>1. vaddrMap'.map = vaddrMap.map
    BY <1>3, <1>8 DEF PopFileSlot, PopSlot, TypeOK
  <2> QED BY <1>6, <1>8, <2>1 DEF PopFileSlot, Go
<1>9. CASE ReadLogSlot(t)
  BY <1>6, <1>9 DEF ReadLogSlot, Go
<1>10. CASE PopLogSlot(t)
  <2>1. vaddrMap'.map = vaddrMap.map
    BY <1>3, <1>10 DEF PopLogSlot, PopSlot, TypeOK
  <2> QED BY <1>6, <1>10, <2>1 DEF PopLogSlot, Go
<1>11. CASE ReadBlock(t)
  <2>1. UNCHANGED <<nand, vaddrMap, created>>
    BY <1>11 DEF ReadBlock
  <2>2. \/ pc' = [pc EXCEPT ![t] = "popPartial"]
        \/ pc' = [pc EXCEPT ![t] = "popComplete"]
    BY <1>11 DEF ReadBlock
  <2>3. "popPartial" # "mapFile" /\ "popComplete" # "mapFile"
    OBVIOUS
  <2> QED BY <1>6, <2>1, <2>2, <2>3
<1>12. CASE PopPartial(t)
  BY <1>6, <1>12 DEF PopPartial, Go
<1>13. CASE PopComplete(t)
  BY <1>2, <1>13 DEF PopComplete, Go, Running, Private
<1>14. CASE MapLog(t)
  <2>1. pc[t] = "mapLog" /\ pc' = [pc EXCEPT ![t] = "mapFile"]
        /\ UNCHANGED <<nand, lists, local, created>>
        /\ vaddrMap' = StoreSlot(local[t].logID, local[t].page)
    BY <1>14 DEF MapLog, Go
  <2>2. n < MaxCreates /\ local[t].logID = 2 * n + 2 /\ local[t].page \in Nat
    BY <1>2, <1>3, <2>1 DEF Running, Private
  <2>3. local[t].logID \in Ids
    BY <1>3, <2>2 DEF Ids, Linked
  <2>4. vaddrMap'.map[local[t].logID] = local[t].page
        /\ \A i \in Ids : i # local[t].logID => vaddrMap'.map[i] = vaddrMap.map[i]
    BY <1>3, <2>1, <2>2, <2>3, StoreOther
  <2>5. ASSUME NEW i \in 1 .. n
        PROVE  vaddrMap'.map[2 * i - 1] = NthFile(i).page /\ vaddrMap'.map[2 * i] = NthFile(i).page
    <3>1. 2 * i - 1 \in Ids /\ 2 * i \in Ids /\ 2 * i - 1 # local[t].logID /\ 2 * i # local[t].logID
      <4>1. 2 * i - 1 \in Ids /\ 2 * i \in Ids /\ i \in Nat /\ n \in Nat
        BY <1>3, <1>4
      <4>2. local[t].logID = 2 * n + 2 /\ i <= n
        BY <1>3, <2>2
      <4> HIDE DEF n
      <4> QED BY <4>1, <4>2
    <3>2. vaddrMap.map[2 * i - 1] = NthFile(i).page /\ vaddrMap.map[2 * i] = NthFile(i).page
      BY <1>3 DEF HeaderInv, MapHolds
    <3> QED BY <2>4, <3>1, <3>2
  <2>6. ASSUME NEW u \in Threads, pc'[u] = "mapFile"
        PROVE  vaddrMap'.map[local'[u].logID] = local'[u].page
    <3>1. u = t
      BY <1>2, <1>3, <2>1, <2>6 DEF Running
    <3> QED BY <2>1, <2>4, <3>1
  <2>7. MapHolds'
    BY <1>3, <2>1, <2>5, <2>6 DEF MapHolds
  <2> QED BY <2>1, <2>7 DEF HeaderInv, HeadersWritten, BlocksReady
<1>15. CASE MapFile(t)
  <2> DEFINE loc == local[t]
             file == [fileID |-> loc.fileID, logID |-> loc.logID, page |-> loc.page]
             header == [kind |-> "header", logId |-> loc.logID, fileId |-> loc.fileID]
             b == n + 2
  <2>1. pc[t] = "mapFile" /\ pc' = [pc EXCEPT ![t] = "idle"]
        /\ vaddrMap' = StoreSlot(loc.fileID, loc.page)
        /\ created' = Append(created, file)
    BY <1>15 DEF MapFile, Go
  <2>2. /\ n < MaxCreates /\ loc.fileID = 2 * n + 1 /\ loc.logID = 2 * n + 2
        /\ loc.page = b * BLOCKSIZE + 1
        /\ loc \in [fileID : Nat, logID : Nat, page : Nat, next : Nat]
    BY <1>2, <1>3, <2>1 DEF Running, Private
  <2>3. Len(created') = n + 1 /\ DOMAIN created' = 1 .. n + 1
    <3>1. file \in FileType
      BY <2>2
    <3> HIDE DEF file, FileType
    <3> QED BY <1>3, <2>1, <3>1
  <2>4. loc.fileID \in Ids /\ loc.logID \in Ids /\ loc.page \in Nat
    BY <1>3, <2>2 DEF Ids, Linked
  <2>5. vaddrMap'.map[loc.fileID] = loc.page
        /\ \A i \in Ids : i # loc.fileID => vaddrMap'.map[i] = vaddrMap.map[i]
    <3> HIDE DEF loc
    <3> QED BY <1>3, <2>1, <2>4, StoreOther
  <2>6. vaddrMap.map[loc.logID] = loc.page
    BY <2>1 DEF HeaderInv, MapHolds
  <2>7. MapHolds'
    <3>1. ASSUME NEW i \in 1 .. n + 1
          PROVE  vaddrMap'.map[2 * i - 1] = NthFile(i).page /\ vaddrMap'.map[2 * i] = NthFile(i).page
      <4>1. CASE i = n + 1
        <5>1. 2 * i - 1 = loc.fileID /\ 2 * i = loc.logID /\ loc.fileID # loc.logID
              /\ NthFile(i).page = loc.page
          BY <1>3, <2>2, <4>1 DEF NthFile
        <5> HIDE DEF loc
        <5> QED BY <2>4, <2>5, <2>6, <5>1
      <4>2. CASE i \in 1 .. n
        <5>1. 2 * i - 1 \in Ids /\ 2 * i \in Ids /\ 2 * i - 1 # loc.fileID /\ 2 * i # loc.fileID
          <6>1. 2 * i - 1 \in Ids /\ 2 * i \in Ids /\ i \in Nat /\ n \in Nat
            BY <1>3, <1>4, <4>2
          <6>2. loc.fileID = 2 * n + 1 /\ i <= n
            BY <1>3, <2>2, <4>2
          <6> HIDE DEF n, loc
          <6> QED BY <6>1, <6>2
        <5>2. vaddrMap.map[2 * i - 1] = NthFile(i).page /\ vaddrMap.map[2 * i] = NthFile(i).page
          BY <1>3, <4>2 DEF HeaderInv, MapHolds
        <5> DEFINE k == 2 * i - 1
                   l == 2 * i
        <5>3. vaddrMap'.map[k] = vaddrMap.map[k] /\ vaddrMap'.map[l] = vaddrMap.map[l]
          <6>1. k \in Ids /\ l \in Ids /\ k # loc.fileID /\ l # loc.fileID
            BY <5>1
          <6> HIDE DEF k, l, loc
          <6> QED BY <2>5, <6>1, Zenon
        <5> QED BY <5>2, <5>3
      <4>3. i = n + 1 \/ i \in 1 .. n
        <5>1. n \in Nat
          BY <1>3
        <5> HIDE DEF n
        <5> QED BY <5>1
      <4> QED BY <4>1, <4>2, <4>3
    <3>2. \A u \in Threads : pc'[u] # "mapFile"
      BY <1>5, <2>1
    <3> QED BY <2>3, <3>1, <3>2 DEF MapHolds
  <2>8. PICK page \in Page : page.contents = header /\ nand' = Wrote(nand, b, 1, page)
    <3> DEFINE block == BlockOf(loc.page)
               log == [nextPage |-> loc.page, last |-> block, first |-> block, prev |-> -1,
                       logId |-> loc.logID, fileId |-> loc.fileID]
    <3>1. PICK junk \in Junk :
            LET p == GetFreePage(nand, lists, log, junk)
            IN nand' = WriteNAND(p.nand, p.address, NewPage(header, 0, p.link, PTYPE_INODE), FALSE)
      BY <1>15 DEF MapFile
    <3>2. log.nextPage = b * BLOCKSIZE + 1 /\ b \in Nat
      BY <1>3, <2>2
    <3>3. NewPage(header, 0, junk, PTYPE_INODE) \in Page
          /\ NewPage(header, 0, junk, PTYPE_INODE).contents = header
      <4>1. header \in Payload
        BY <2>2 DEF Payload
      <4>2. junk \in Nat
        BY JunkAssumption
      <4> HIDE DEF header
      <4> QED BY <4>1, <4>2 DEF NewPage, Page, PTYPE_INODE
    <3> HIDE DEF log, header, b
    <3>4. LET p == GetFreePage(nand, lists, log, junk)
          IN p.address = b * BLOCKSIZE + 1 /\ p.link = junk /\ p.nand = nand
      BY <3>2, FirstLogPage
    <3>5. nand' = Wrote(nand, b, 1, NewPage(header, 0, junk, PTYPE_INODE))
      BY <3>1, <3>4 DEF Wrote
    <3> QED BY <3>3, <3>5
  <2>9. b \in Nat /\ b \in Blocks /\ nand[b].nextPage = 1 /\ 1 \in PageIdx
    <3>1. b \in n + 2 .. NumBlocks - 2 /\ b \in Blocks /\ b \in Nat
      BY <1>3, <2>2 DEF Linked, Blocks
    <3>2. 1 \in PageIdx
      BY LogBlockAssumption DEF PageIdx
    <3> QED BY <3>1, <3>2 DEF HeaderInv, BlocksReady
  <2>10. nand'[b].contents[1] = page /\ \A c \in Blocks : c # b => nand'[c] = nand[c]
    <3> HIDE DEF b, header
    <3>1. Wrote(nand, b, 1, page)[b].contents[1] = page
      BY <1>3, <2>9, WriteLocal
    <3>2. \A c \in Blocks : c # b => Wrote(nand, b, 1, page)[c] = nand[c]
      BY <1>3, <2>9, WriteLocal
    <3> QED BY <2>8, <3>1, <3>2, Zenon
  <2>11. HeadersWritten'
    <3>1. ASSUME NEW i \in 1 .. n + 1 PROVE nand'[i + 1].contents[1].contents = HeaderOf(i)
      <4>1. CASE i = n + 1
        <5>1. header = HeaderOf(i) /\ i + 1 = b
          BY <1>3, <2>2, <4>1 DEF HeaderOf
        <5> QED BY <2>8, <2>10, <5>1
      <4>2. CASE i \in 1 .. n
        <5>1. i + 1 \in Blocks /\ i + 1 # b
          BY <1>3, <4>2 DEF Linked, Blocks
        <5>2. nand[i + 1].contents[1].contents = HeaderOf(i)
          BY <1>3, <4>2 DEF HeaderInv, HeadersWritten
        <5> QED BY <2>10, <5>1, <5>2
      <4>3. i = n + 1 \/ i \in 1 .. n
        BY <1>3
      <4> QED BY <4>1, <4>2, <4>3, Zenon
    <3> QED BY <2>3, <3>1 DEF HeadersWritten
  <2>12. BlocksReady'
    <3>1. ASSUME NEW c \in (n + 1) + 2 .. NumBlocks - 2 PROVE nand'[c].nextPage = 1
      <4>1. c \in Blocks /\ c # b /\ c \in n + 2 .. NumBlocks - 2
        BY <1>3 DEF Blocks
      <4>2. nand[c].nextPage = 1
        BY <4>1 DEF HeaderInv, BlocksReady
      <4> QED BY <2>10, <4>1, <4>2
    <3> QED BY <2>3, <3>1 DEF BlocksReady
  <2> QED BY <2>7, <2>11, <2>12 DEF HeaderInv
<1> QED BY <1>1, <1>7, <1>8, <1>9, <1>10, <1>11, <1>12, <1>13, <1>14, <1>15 DEF Step

(* Under fuse -s, as long as the slots and the blocks that makefs linked   *)
(* last, both numbers of a created file lead through the map to the page   *)
(* that holds its header (the stores of xmp_create and getLogForFile, and  *)
(* the write of the header).                                               *)
THEOREM SerialHeaderFound ==
  ASSUME Linked
  PROVE  SerialSpec => []HeaderFound
<1>1. Enough
  BY NumBlocksAssumption, MaxCreatesAssumption DEF Linked, Enough
<1>2. Init => HeaderInv
  <2> SUFFICES ASSUME Init PROVE HeaderInv
    OBVIOUS
  <2>1. created = << >> /\ Len(created) = 0 /\ DOMAIN created = {}
    BY DEF Init
  <2>2. \A b \in 2 .. NumBlocks - 2 : nand[b].nextPage = 1
    BY FormattedLinks DEF Init
  <2>3. \A t \in Threads : pc[t] # "mapFile"
    BY DEF Init
  <2> QED BY <2>1, <2>2, <2>3 DEF HeaderInv, MapHolds, HeadersWritten, BlocksReady
<1>3. HeaderInv /\ SerialInv /\ SerialInv' /\ [SerialNext]_vars => HeaderInv'
  <2>1. ASSUME HeaderInv, SerialInv, SerialInv', SerialNext PROVE HeaderInv'
    BY <2>1, HeaderStep
  <2>2. ASSUME HeaderInv, UNCHANGED vars PROVE HeaderInv'
    BY <2>2 DEF vars, HeaderInv, MapHolds, HeadersWritten, BlocksReady
  <2> QED BY <2>1, <2>2
<1>4. HeaderInv /\ SerialInv => HeaderFound
  <2> SUFFICES ASSUME HeaderInv, SerialInv, NEW i \in DOMAIN created
               PROVE  /\ \A id \in NumbersOf(created[i]) : vaddrMap.map[id] = created[i].page
                      /\ ReadNAND(nand, created[i].page).contents =
                           [kind |-> "header", logId |-> created[i].logID,
                            fileId |-> created[i].fileID]
    BY DEF HeaderFound
  <2>1. created[i] = NthFile(i)
    BY DEF SerialInv, InOrder
  <2>2. i \in Nat
    <3>1. created \in Seq([fileID : Nat, logID : Nat, page : Nat])
      BY DEF SerialInv, TypeOK
    <3>2. DOMAIN created = 1 .. Len(created) /\ Len(created) \in Nat
      BY <3>1
    <3> QED BY <3>2
  <2>3. NthFile(i).fileID = 2 * i - 1 /\ NthFile(i).logID = 2 * i
        /\ NthFile(i).page = (i + 1) * BLOCKSIZE + 1
    BY DEF NthFile
  <2>4. \A id \in NumbersOf(created[i]) : vaddrMap.map[id] = created[i].page
    BY <2>1, <2>3 DEF NumbersOf, HeaderInv, MapHolds
  <2>5. BlockOf(created[i].page) = i + 1 /\ PageOf(created[i].page) = 1
    <3>1. 1 \in PageIdx /\ i + 1 \in Nat
      BY <2>2, BlockSizeAssumption, LogBlockAssumption DEF PageIdx
    <3>2. BlockOf((i + 1) * BLOCKSIZE + 1) = i + 1 /\ PageOf((i + 1) * BLOCKSIZE + 1) = 1
      BY <3>1, AddressSplit
    <3> QED BY <2>1, <2>3, <3>2
  <2>6. ReadNAND(nand, created[i].page).contents = HeaderOf(i)
    BY <2>5 DEF ReadNAND, HeaderInv, HeadersWritten
  <2> QED BY <2>1, <2>3, <2>4, <2>6 DEF HeaderOf
<1> QED BY <1>1, <1>2, <1>3, <1>4, SerialInvariant, PTL DEF SerialSpec

-----------------------------------------------------------------------------
(***************************************************************************)
(* Creations that interleave, for every size of the block, the memory and  *)
(* the map, every set of threads and any number of files: slots and blocks *)
(* may be handed out twice and run out, blocks written back may undo what  *)
(* others wrote, but as long as no transfer is displaced and no unset link *)
(* followed no file gets the block of the virtual address map.             *)
(*                                                                         *)
(* What threads read and store late can only be an address of a block for  *)
(* logs or 0.  An empty partial list sends getFreeBlock to the complete    *)
(* list, whose head is 0 and stays so, because the last page of block 0 is *)
(* never written: block 0, with the super page, is the only one erased.    *)
(***************************************************************************)

BlockType == [contents : [PageIdx -> Page], nextPage : 0 .. BLOCKSIZE, eraseCount : Int]
ListType  == [partialHead : Nat, partialTail : Nat, completeHead : Nat, completeTail : Nat]
MapType   == [freePtr : Nat, map : [Ids -> Int]]
MineType  == [fileID : Nat, logID : Nat, page : Nat, next : Nat,
              sought : Nat \X Nat, count : Int, block : BlockType]
MadeType  == [fileID : Nat, logID : Nat, page : Nat]

(* The threads between the choice of a list and the end. *)
OnPartial  == {"seekPartial", "readPartial", "popPartial"}
OnComplete == {"seekComplete", "readComplete", "popComplete", "seekCount", "readCount",
               "seekErased", "writeErased"}
OnHeader   == {"storeLog", "storeFile", "seekBlock", "readBlock", "seekBack", "writeBlock"}
Points     == {"idle", "fileSlot", "fileStore", "takeLog", "logSlot", "logStore",
               "chooseList", "takePartial", "takeComplete"}
              \cup OnPartial \cup OnComplete \cup OnHeader

(* The head of the partial list, the page a file gets, the link of block b *)
(* in the list.                                                            *)
HeadOk(h) == h = 0 \/ \E b \in 2 .. NumBlocks - 1 : h = b * BLOCKSIZE
PageOk(p) == p \in {0, 1} \/ \E b \in 2 .. NumBlocks - 1 : p = b * BLOCKSIZE + 1
LinkOf(b) == IF b < NumBlocks - 1 THEN (b + 1) * BLOCKSIZE ELSE 0

(* A block's links, on the device or in a copy of it. *)
BlockOk(b, block) ==
  /\ b = 0 => /\ block.contents[BLOCKSIZE - 1].nextLogBlock = 0
              /\ \/ block.contents[0].contents.kind = "header"
                 \/ block.contents[0].nextLogBlock = 0
  /\ b \in 2 .. NumBlocks - 1 => block.contents[0].nextLogBlock = LinkOf(b)

(* What a thread that has come to p holds. *)
MineOk(p, m) ==
  /\ p \in OnPartial \cup OnHeader => PageOk(m.page)
  /\ p \in OnComplete => m.page = 0
  /\ p = "readPartial" =>
       m.sought[2] = 0 /\ (m.sought[1] = 0 \/ m.sought[1] \in 2 .. NumBlocks - 1)
  /\ p = "popPartial" => HeadOk(m.next)
  /\ p = "readComplete" => m.sought[1] = 0 /\ m.sought[2] = BLOCKSIZE - 1
  /\ p = "popComplete" => m.next = 0
  /\ p \in {"seekBack", "writeBlock"} =>
       /\ BlockOk(BlockOf(m.page), m.block)
       /\ m.block.nextPage = PageOf(m.page)

ListsOk == lists \in ListType /\ HeadOk(lists.partialHead) /\ lists.completeHead = 0
MineAllOk == /\ at \in [Threads -> Points] /\ mine \in [Threads -> MineType]
             /\ \A t \in Threads : MineOk(at[t], mine[t])
MadeOk == made \in Seq(MadeType) /\ \A i \in DOMAIN made : PageOk(made[i].page)
NandOk == /\ nand \in [Blocks -> BlockType]
          /\ nand[1] = Formatted[1]
          /\ \A b \in Blocks : BlockOk(b, nand[b])

RaceInv ==
  /\ vaddrMap \in MapType
  /\ ListsOk
  /\ MineAllOk
  /\ MadeOk
  /\ NandOk

-----------------------------------------------------------------------------
(* Where the page of a file lies. *)
LEMMA PagePlaces ==
  ASSUME NEW p, PageOk(p)
  PROVE  /\ p \in Nat /\ BlockOf(p) \in Blocks /\ BlockOf(p) # 1
         /\ PageOf(p) \in PageIdx /\ PageOf(p) \in {0, 1} /\ PageOf(p) + 1 \in 0 .. BLOCKSIZE
         /\ BlockOf(p) # 0 => BlockOf(p) \in 2 .. NumBlocks - 1 /\ PageOf(p) = 1
<1> USE BlockSizeAssumption, NumBlocksAssumption, LogBlockAssumption, LogSpaceAssumption
<1>1. {0, 1} \subseteq PageIdx /\ 0 \in Blocks /\ 2 .. NumBlocks - 1 \subseteq Blocks /\ 0 \in Nat
  BY DEF PageIdx, Blocks
<1>2. CASE p \in {0, 1}
  <2>1. p = 0 * BLOCKSIZE + p /\ p \in PageIdx
    BY <1>1, <1>2
  <2>2. BlockOf(p) = 0 /\ PageOf(p) = p
    <3>1. BlockOf(0 * BLOCKSIZE + p) = 0 /\ PageOf(0 * BLOCKSIZE + p) = p
      BY <1>1, <2>1, AddressSplit, Zenon
    <3> QED BY <2>1, <3>1, Zenon
  <2> QED BY <1>1, <1>2, <2>2
<1>3. ASSUME NEW b \in 2 .. NumBlocks - 1, p = b * BLOCKSIZE + 1
      PROVE  p \in Nat /\ BlockOf(p) = b /\ PageOf(p) = 1
  <2>1. b \in Nat /\ 1 \in PageIdx
    BY <1>1
  <2>2. BlockOf(b * BLOCKSIZE + 1) = b /\ PageOf(b * BLOCKSIZE + 1) = 1
    BY <2>1, AddressSplit, Zenon
  <2>3. p \in Nat
    BY <1>3, <2>1
  <2> QED BY <1>3, <2>2, <2>3, Zenon
<1>4. ASSUME NEW b \in 2 .. NumBlocks - 1, p = b * BLOCKSIZE + 1
      PROVE  /\ p \in Nat /\ BlockOf(p) \in Blocks /\ BlockOf(p) # 1
             /\ PageOf(p) \in PageIdx /\ PageOf(p) \in {0, 1} /\ PageOf(p) + 1 \in 0 .. BLOCKSIZE
             /\ BlockOf(p) # 0 => BlockOf(p) \in 2 .. NumBlocks - 1 /\ PageOf(p) = 1
  BY <1>1, <1>3, <1>4
<1> QED BY <1>2, <1>4 DEF PageOk

(* Where a block of the partial list lies. *)
LEMMA HeadPlaces ==
  ASSUME NEW h, HeadOk(h)
  PROVE  /\ h \in Nat /\ PageOf(h) = 0
         /\ BlockOf(h) = 0 \/ BlockOf(h) \in 2 .. NumBlocks - 1
         /\ PageOk(h + 1)
<1> USE BlockSizeAssumption, NumBlocksAssumption, LogSpaceAssumption
<1>1. CASE h = 0
  <2>1. 0 \in 0 .. NumBlocks - 1 /\ 0 * BLOCKSIZE = 0
    OBVIOUS
  <2>2. BlockOf(0) = 0 /\ PageOf(0) = 0
    BY <2>1, FirstPage
  <2>3. PageOk(h + 1)
    BY <1>1 DEF PageOk
  <2> QED BY <1>1, <2>2, <2>3
<1>2. ASSUME NEW b \in 2 .. NumBlocks - 1, h = b * BLOCKSIZE
      PROVE  h \in Nat /\ PageOf(h) = 0 /\ BlockOf(h) = b /\ PageOk(h + 1)
  <2>1. b \in 0 .. NumBlocks - 1 /\ h \in Nat
    BY <1>2
  <2>2. BlockOf(h) = b /\ PageOf(h) = 0
    BY <1>2, <2>1, FirstPage
  <2>3. PageOk(h + 1)
    BY <1>2 DEF PageOk
  <2> QED BY <2>1, <2>2, <2>3
<1> QED BY <1>1, <1>2 DEF HeadOk

(* The last page of the block of page 0. *)
LEMMA LastPageOfZero ==
  /\ BLOCKSIZE - 1 \in PageIdx /\ 0 \in PageIdx /\ BLOCKSIZE - 1 # 0 /\ BLOCKSIZE - 1 # 1
  /\ BlockOf(LastPageOfBlock(0)) = 0 /\ PageOf(LastPageOfBlock(0)) = BLOCKSIZE - 1
  /\ BlockOf(0) = 0
<1> USE BlockSizeAssumption, NumBlocksAssumption, LogBlockAssumption
<1>1. 0 \in PageIdx /\ BLOCKSIZE - 1 \in PageIdx /\ 1 \in Nat /\ 0 \in Nat
  BY DEF PageIdx
<1>2. BlockOf(1 * BLOCKSIZE + 0) = 1
  BY <1>1, AddressSplit
<1>3. BlockOf(0 * BLOCKSIZE + 0) = 0
  BY <1>1, AddressSplit
<1>4. BlockOf(0 * BLOCKSIZE + (BLOCKSIZE - 1)) = 0
      /\ PageOf(0 * BLOCKSIZE + (BLOCKSIZE - 1)) = BLOCKSIZE - 1
  BY <1>1, AddressSplit
<1>5. 1 * BLOCKSIZE + 0 = 0 + BLOCKSIZE /\ 0 * BLOCKSIZE + 0 = 0
      /\ 0 * BLOCKSIZE + (BLOCKSIZE - 1) = BLOCKSIZE - 1 /\ 1 * BLOCKSIZE - 1 = BLOCKSIZE - 1
  OBVIOUS
<1>6. LastPageOfBlock(0) = BLOCKSIZE - 1
  BY <1>2, <1>5 DEF LastPageOfBlock
<1> QED BY <1>1, <1>3, <1>4, <1>5, <1>6

(* A link of the list leads to a block of the list or ends it. *)
LEMMA LinkHead ==
  ASSUME NEW b \in 2 .. NumBlocks - 1
  PROVE  HeadOk(LinkOf(b))
<1> USE NumBlocksAssumption
<1>1. b < NumBlocks - 1 => b + 1 \in 2 .. NumBlocks - 1
  OBVIOUS
<1> QED BY <1>1 DEF HeadOk, LinkOf

(* A zeroed block. *)
LEMMA ZeroBlock ==
  ASSUME NEW count \in Int
  PROVE  LET z == [ZeroNAND[0] EXCEPT !.eraseCount = count]
         IN z \in BlockType /\ BlockOk(0, z)
<1> USE BlockSizeAssumption, NumBlocksAssumption, LogSpaceAssumption
<1> DEFINE pages == [i \in PageIdx |-> ZeroPage]
           z == [ZeroNAND[0] EXCEPT !.eraseCount = count]
<1>1. Blank \in Payload
  BY DEF Payload
<1>2. ZeroPage \in Page /\ ZeroPage.nextLogBlock = 0
  BY <1>1 DEF ZeroPage, Page, PTYPE_ERASED
<1>3. pages \in [PageIdx -> Page] /\ pages[0].nextLogBlock = 0
      /\ pages[BLOCKSIZE - 1].nextLogBlock = 0
  BY <1>2, LastPageOfZero
<1> HIDE DEF pages
<1>4. 0 \in Blocks /\ 0 \in 0 .. BLOCKSIZE
  BY DEF Blocks
<1>5. z = [contents |-> pages, nextPage |-> 0, eraseCount |-> count]
  BY <1>4 DEF ZeroNAND, pages
<1> HIDE DEF z
<1>6. z \in BlockType
  BY <1>3, <1>4, <1>5 DEF BlockType
<1>7. BlockOk(0, z)
  BY <1>3, <1>5 DEF BlockOk
<1> QED BY <1>6, <1>7 DEF z

(* makefs writes only the super page to block 0. *)
LEMMA FormattedZero ==
  Formatted[0].contents[BLOCKSIZE - 1].nextLogBlock = 0 /\ Formatted[0].contents[0].nextLogBlock = 0
<1> USE BlockSizeAssumption, NumBlocksAssumption, LogBlockAssumption, LogSpaceAssumption
<1> DEFINE super == NewPage(SuperPayload(FreshLists), -1, 0, PTYPE_SUPER)
           amap  == NewPage(MapPayload(FreshMap), 0, 0, PTYPE_ADDRMAP)
           m1 == Wrote(ZeroNAND, 0, 0, super)
           m2 == Wrote(m1, 1, 0, amap)
           last == BLOCKSIZE - 1
<1>1. 0 \in Blocks /\ 1 \in Blocks /\ 0 \in PageIdx /\ last \in PageIdx /\ last # 0
  BY DEF Blocks, PageIdx
<1>2. super \in Page /\ amap \in Page /\ super.nextLogBlock = 0
  <2>1. SuperPayload(FreshLists) \in Payload /\ MapPayload(FreshMap) \in Payload
    BY DEF Payload
  <2> QED BY <2>1 DEF NewPage, Page, PTYPE_SUPER, PTYPE_ADDRMAP
<1>3. ZeroNAND \in Memory /\ ZeroNAND[0].contents[last].nextLogBlock = 0 /\ ZeroNAND[0].nextPage = 0
  <2>1. Blank \in Payload
    BY DEF Payload
  <2>2. ZeroPage \in Page /\ ZeroPage.nextLogBlock = 0
    BY <2>1 DEF ZeroPage, Page, PTYPE_ERASED
  <2>3. [i \in PageIdx |-> ZeroPage] \in [PageIdx -> Page] /\ 0 \in 0 .. BLOCKSIZE
    BY <2>2
  <2> HIDE DEF last
  <2> QED BY <1>1, <2>2, <2>3 DEF ZeroNAND, Memory
<1>4. Formatted[0] = m2[0]
  <2>1. 0 * BLOCKSIZE + 0 = 0 /\ 1 * BLOCKSIZE + 0 = BLOCKSIZE
    OBVIOUS
  <2>2. WriteOutVaddrMap(WriteOutSuperBlock(ZeroNAND)) = m2
    BY <2>1 DEF WriteOutVaddrMap, WriteOutSuperBlock, Wrote
  <2> HIDE DEF m2
  <2> QED BY <1>1, <2>2 DEF Formatted, LinkFreeBlocks
<1> HIDE DEF super, amap, last
<1>5. m1 \in Memory /\ m1[0].contents[last] = ZeroNAND[0].contents[last]
      /\ m1[0].contents[0] = super
  BY <1>1, <1>2, <1>3, WriteLocal
<1> HIDE DEF m1
<1>6. m2[0] = m1[0]
  BY <1>1, <1>2, <1>5, WriteLocal
<1> HIDE DEF m2
<1> QED BY <1>2, <1>3, <1>4, <1>5, <1>6 DEF last

(* Memories and their blocks. *)
LEMMA FormattedParts ==
  /\ Memory = [Blocks -> BlockType]
  /\ Formatted \in [Blocks -> BlockType] /\ ZeroNAND \in [Blocks -> BlockType]
<1>1. Memory = [Blocks -> BlockType]
  BY DEF Memory, BlockType
<1>2. ASSUME NEW b \in Blocks PROVE ZeroNAND[b] \in BlockType
  <2>1. Blank \in Payload
    BY DEF Payload
  <2>2. ZeroPage \in Page
    BY <2>1 DEF ZeroPage, Page, PTYPE_ERASED
  <2>3. [i \in PageIdx |-> ZeroPage] \in [PageIdx -> Page] /\ 0 \in 0 .. BLOCKSIZE
    BY <2>2, BlockSizeAssumption
  <2> QED BY <2>3 DEF ZeroNAND, BlockType
<1>3. ZeroNAND \in [Blocks -> BlockType]
  BY <1>2 DEF ZeroNAND
<1> QED BY <1>1, <1>3, FormattedLinks
-----------------------------------------------------------------------------
(* What makefs leaves satisfies the invariant. *)
LEMMA RaceBegins == Init /\ RaceStart => RaceInv
<1> SUFFICES ASSUME Init, RaceStart PROVE RaceInv
  OBVIOUS
<1> USE BlockSizeAssumption, NumBlocksAssumption, LogSpaceAssumption, LogBlockAssumption,
        MaxIdAssumption
<1>1. vaddrMap \in MapType
  BY DEF Init, FreshMap, Ids, MapType
<1>2. ListsOk
  <2>1. 2 \in 2 .. NumBlocks - 1 /\ lists.partialHead = 2 * BLOCKSIZE /\ lists.completeHead = 0
    BY DEF Init, FreshLists
  <2>2. lists \in ListType
    BY DEF Init, FreshLists, ListType
  <2> QED BY <2>1, <2>2 DEF ListsOk, HeadOk
<1>3. MineAllOk
  <2>1. 0 \in Blocks
    BY DEF Blocks
  <2>2. ZeroNAND \in [Blocks -> BlockType]
    BY FormattedParts
  <2>3. Fresh \in MineType
    BY <2>1, <2>2 DEF Fresh, MineType
  <2>4. MineOk("idle", Fresh)
    BY DEF MineOk, OnPartial, OnComplete, OnHeader
  <2>5. "idle" \in Points
    BY DEF Points
  <2> QED BY <2>3, <2>4, <2>5 DEF RaceStart, MineAllOk
<1>4. MadeOk
  BY DEF RaceStart, MadeOk
<1>5. NandOk
  <2>1. nand = Formatted
    BY DEF Init
  <2>2. Formatted \in [Blocks -> BlockType]
    BY FormattedParts
  <2>3. ASSUME NEW b \in Blocks PROVE BlockOk(b, Formatted[b])
    BY FormattedLinks, FormattedZero DEF BlockOk, LinkOf
  <2> QED BY <2>1, <2>2, <2>3 DEF NandOk
<1> QED BY <1>1, <1>2, <1>3, <1>4, <1>5 DEF RaceInv

-----------------------------------------------------------------------------
(* A thread moves on: the others stay as they are. *)
LEMMA MovedOn ==
  ASSUME MineAllOk, NEW t \in Threads, NEW p \in Points, NEW m \in MineType, MineOk(p, m),
         at' = [at EXCEPT ![t] = p], mine' = [mine EXCEPT ![t] = m]
  PROVE  MineAllOk'
<1>1. at' \in [Threads -> Points] /\ at'[t] = p /\ \A u \in Threads : u # t => at'[u] = at[u]
  BY DEF MineAllOk
<1>2. mine' \in [Threads -> MineType] /\ mine'[t] = m
      /\ \A u \in Threads : u # t => mine'[u] = mine[u]
  BY DEF MineAllOk
<1>3. ASSUME NEW u \in Threads PROVE MineOk(at'[u], mine'[u])
  <2>1. CASE u = t
    BY <1>1, <1>2, <2>1, Zenon
  <2>2. CASE u # t
    <3>1. at'[u] = at[u] /\ mine'[u] = mine[u] /\ MineOk(at[u], mine[u])
      BY <1>1, <1>2, <2>2 DEF MineAllOk
    <3> QED BY <3>1, Zenon
  <2> QED BY <2>1, <2>2
<1> DEFINE A == \A u \in Threads : MineOk(at'[u], mine'[u])
<1>4. A
  BY <1>3
<1> QED BY <1>1, <1>2, <1>4 DEF MineAllOk, MineOk, BlockOk, HeadOk, PageOk, LinkOf

(* What getFreePtr does to the map and to the thread. *)
LEMMA NumberSteps ==
  ASSUME RaceInv, NEW t \in Threads,
         UNCHANGED <<pc, local, created>>,
         \/ TakeFileID(t) \/ TakeLogID(t) \/ ReadSlot(t) \/ StoreFreePtr(t)
         \/ StoreLog(t) \/ StoreFile(t)
  PROVE  RaceInv'
<1> USE DEF OnPartial, OnComplete, OnHeader
<1>1. /\ vaddrMap \in MapType /\ ListsOk /\ MineAllOk /\ MadeOk /\ NandOk
      /\ mine[t] \in MineType /\ MineOk(at[t], mine[t])
  BY DEF RaceInv, MineAllOk
<1>2. ASSUME UNCHANGED <<lists, nand, made>>, vaddrMap' \in MapType, MineAllOk' PROVE RaceInv'
  BY <1>1, <1>2 DEF RaceInv, ListsOk, MadeOk, NandOk, MapType, BlockOk, HeadOk, PageOk, LinkOf
<1>3. ASSUME NEW p \in Points, at' = [at EXCEPT ![t] = p], mine' = mine, MineOk(p, mine[t])
      PROVE  MineAllOk'
  <2>1. mine' = [mine EXCEPT ![t] = mine[t]]
    BY <1>1, <1>3 DEF MineAllOk
  <2> QED BY <1>1, <1>3, <2>1, MovedOn
<1>4. ASSUME NEW id \in Nat, vaddrMap' = StoreSlot(id, mine[t].page) PROVE vaddrMap' \in MapType
  <2>1. CASE id \in Ids
    <3>1. vaddrMap' = [vaddrMap EXCEPT !.map[id] = mine[t].page]
      BY <1>4, <2>1 DEF StoreSlot
    <3>2. vaddrMap.map \in [Ids -> Int] /\ mine[t].page \in Int
      BY <1>1 DEF MapType, MineType
    <3>3. [vaddrMap.map EXCEPT ![id] = mine[t].page] \in [Ids -> Int]
      BY <2>1, <3>2
    <3> QED BY <1>1, <3>1, <3>3 DEF MapType
  <2>2. CASE id \notin Ids
    BY <1>1, <1>4, <2>2 DEF StoreSlot
  <2> QED BY <2>1, <2>2
<1>5. CASE TakeFileID(t)
  <2> DEFINE m == [mine[t] EXCEPT !.fileID = vaddrMap.freePtr]
  <2>1. at' = [at EXCEPT ![t] = "fileSlot"] /\ mine' = [mine EXCEPT ![t] = m]
        /\ UNCHANGED <<lists, nand, made, vaddrMap>>
    BY <1>1, <1>5 DEF TakeFileID, Move, InMemory, MineAllOk
  <2>2. m \in MineType
    BY <1>1 DEF MineType, MapType
  <2>3. "fileSlot" \in Points /\ MineOk("fileSlot", m)
    BY DEF Points, MineOk
  <2> HIDE DEF m
  <2>4. MineAllOk'
    BY <1>1, <2>1, <2>2, <2>3, MovedOn
  <2> QED BY <1>1, <1>2, <2>1, <2>4
<1>6. CASE TakeLogID(t)
  <2> DEFINE m == [mine[t] EXCEPT !.logID = vaddrMap.freePtr]
  <2>1. at' = [at EXCEPT ![t] = "logSlot"] /\ mine' = [mine EXCEPT ![t] = m]
        /\ UNCHANGED <<lists, nand, made, vaddrMap>>
    BY <1>1, <1>6 DEF TakeLogID, Move, InMemory, MineAllOk
  <2>2. m \in MineType
    BY <1>1 DEF MineType, MapType
  <2>3. "logSlot" \in Points /\ MineOk("logSlot", m)
    BY DEF Points, MineOk
  <2> HIDE DEF m
  <2>4. MineAllOk'
    BY <1>1, <2>1, <2>2, <2>3, MovedOn
  <2> QED BY <1>1, <1>2, <2>1, <2>4
<1>7. CASE ReadSlot(t)
  <2>1. PICK ptr \in {mine[t].fileID, mine[t].logID} :
          /\ \/ Move(t, "fileSlot", "fileStore") \/ Move(t, "logSlot", "logStore")
          /\ \E w \in SlotWords(ptr) : mine' = [mine EXCEPT ![t].next = Abs(w)]
    BY <1>7 DEF ReadSlot
  <2>2. PICK w \in SlotWords(ptr) : mine' = [mine EXCEPT ![t].next = Abs(w)]
    BY <2>1
  <2>3. Abs(w) \in Nat
    <3>1. w \in Int
      BY <1>1, <2>2, JunkAssumption DEF SlotWords, MapType
    <3> QED BY <3>1 DEF Abs
  <2> DEFINE m == [mine[t] EXCEPT !.next = Abs(w)]
  <2>4. mine' = [mine EXCEPT ![t] = m] /\ UNCHANGED <<lists, nand, made, vaddrMap>>
    BY <1>1, <1>7, <2>2 DEF ReadSlot, InMemory, MineAllOk
  <2>5. m \in MineType
    BY <1>1, <2>3 DEF MineType
  <2>6. PICK p \in {"fileStore", "logStore"} : at' = [at EXCEPT ![t] = p]
    BY <2>1 DEF Move
  <2>7. p \in Points /\ MineOk(p, m)
    BY <2>6 DEF Points, MineOk
  <2> HIDE DEF m
  <2>8. MineAllOk'
    BY <1>1, <2>4, <2>5, <2>6, <2>7, MovedOn
  <2> QED BY <1>1, <1>2, <2>4, <2>8
<1>8. CASE StoreFreePtr(t)
  <2>1. PICK p \in {"takeLog", "chooseList"} : at' = [at EXCEPT ![t] = p]
    BY <1>8 DEF StoreFreePtr, Move
  <2>2. vaddrMap' = [vaddrMap EXCEPT !.freePtr = mine[t].next] /\ mine' = mine
        /\ UNCHANGED <<lists, nand, made>>
    BY <1>8 DEF StoreFreePtr, InMemory
  <2>3. vaddrMap' \in MapType
    BY <1>1, <2>2 DEF MapType, MineType
  <2>4. p \in Points /\ MineOk(p, mine[t])
    BY <2>1 DEF Points, MineOk
  <2>5. MineAllOk'
    BY <1>3, <2>1, <2>2, <2>4
  <2> QED BY <1>2, <2>2, <2>3, <2>5
<1>9. CASE StoreLog(t)
  <2>1. at[t] = "storeLog" /\ at' = [at EXCEPT ![t] = "storeFile"] /\ mine' = mine
        /\ vaddrMap' = StoreSlot(mine[t].logID, mine[t].page) /\ UNCHANGED <<lists, nand, made>>
    BY <1>9 DEF StoreLog, Move, InMemory
  <2>2. vaddrMap' \in MapType
    BY <1>1, <1>4, <2>1 DEF MineType
  <2>3. "storeFile" \in Points /\ MineOk("storeFile", mine[t])
    BY <1>1, <2>1 DEF Points, MineOk
  <2>4. MineAllOk'
    BY <1>3, <2>1, <2>3
  <2> QED BY <1>2, <2>1, <2>2, <2>4
<1>10. CASE StoreFile(t)
  <2>1. at[t] = "storeFile" /\ at' = [at EXCEPT ![t] = "seekBlock"] /\ mine' = mine
        /\ vaddrMap' = StoreSlot(mine[t].fileID, mine[t].page) /\ UNCHANGED <<lists, nand, made>>
    BY <1>10 DEF StoreFile, Move, InMemory
  <2>2. vaddrMap' \in MapType
    BY <1>1, <1>4, <2>1 DEF MineType
  <2>3. "seekBlock" \in Points /\ MineOk("seekBlock", mine[t])
    BY <1>1, <2>1 DEF Points, MineOk
  <2>4. MineAllOk'
    BY <1>3, <2>1, <2>3
  <2> QED BY <1>2, <2>1, <2>2, <2>4
<1> QED BY <1>5, <1>6, <1>7, <1>8, <1>9, <1>10

(* getFreeBlock on the partial list. *)
LEMMA PartialSteps ==
  ASSUME RaceInv, NEW t \in Threads,
         UNCHANGED <<pc, local, created>>,
         \/ ChooseList(t) \/ TakePartial(t) \/ SeekPartial(t) \/ ReadPartial(t) \/ StorePartial(t)
  PROVE  RaceInv'
<1> USE DEF OnPartial, OnComplete, OnHeader
<1>1. /\ vaddrMap \in MapType /\ ListsOk /\ MineAllOk /\ MadeOk /\ NandOk
      /\ mine[t] \in MineType /\ MineOk(at[t], mine[t])
  BY DEF RaceInv, MineAllOk
<1>2. ASSUME UNCHANGED <<vaddrMap, nand, made>>, ListsOk', MineAllOk' PROVE RaceInv'
  BY <1>1, <1>2 DEF RaceInv, MadeOk, NandOk, MapType, BlockOk, HeadOk, PageOk, LinkOf
<1>3. ASSUME UNCHANGED <<vaddrMap, nand, made, lists>>, MineAllOk' PROVE RaceInv'
  BY <1>1, <1>2, <1>3 DEF ListsOk, HeadOk
<1>4. ASSUME NEW p \in Points, at' = [at EXCEPT ![t] = p], mine' = mine, MineOk(p, mine[t])
      PROVE  MineAllOk'
  <2>1. mine' = [mine EXCEPT ![t] = mine[t]]
    BY <1>1, <1>4 DEF MineAllOk
  <2> QED BY <1>1, <1>4, <2>1, MovedOn
<1>5. CASE ChooseList(t)
  <2>1. PICK p \in {"takePartial", "takeComplete"} : at' = [at EXCEPT ![t] = p]
    BY <1>5 DEF ChooseList, Move
  <2>2. mine' = mine /\ UNCHANGED <<vaddrMap, nand, made, lists>>
    BY <1>5 DEF ChooseList, InMemory
  <2>3. p \in Points /\ MineOk(p, mine[t])
    BY <2>1 DEF Points, MineOk
  <2> QED BY <1>3, <1>4, <2>1, <2>2, <2>3
<1>6. CASE TakePartial(t)
  <2> DEFINE m == [mine[t] EXCEPT !.page = lists.partialHead + 1]
  <2>1. at' = [at EXCEPT ![t] = "seekPartial"] /\ mine' = [mine EXCEPT ![t] = m]
        /\ UNCHANGED <<vaddrMap, nand, made, lists>>
    BY <1>1, <1>6 DEF TakePartial, Move, InMemory, MineAllOk
  <2>2. HeadOk(lists.partialHead)
    BY <1>1 DEF ListsOk
  <2>3. lists.partialHead \in Nat /\ PageOk(lists.partialHead + 1)
    BY <2>2, HeadPlaces
  <2>4. m \in MineType /\ m.page = lists.partialHead + 1
    BY <1>1, <2>3 DEF MineType
  <2> HIDE DEF m
  <2>5. "seekPartial" \in Points /\ MineOk("seekPartial", m)
    BY <2>3, <2>4 DEF Points, MineOk
  <2>6. MineAllOk'
    BY <1>1, <2>1, <2>4, <2>5, MovedOn
  <2> QED BY <1>3, <2>1, <2>6
<1>7. CASE SeekPartial(t)
  <2> DEFINE h == lists.partialHead
             m == [mine[t] EXCEPT !.sought = PagePlace(h)]
  <2>1. at[t] = "seekPartial" /\ at' = [at EXCEPT ![t] = "readPartial"]
        /\ mine' = [mine EXCEPT ![t] = m] /\ UNCHANGED <<vaddrMap, nand, made, lists>>
    BY <1>1, <1>7 DEF SeekPartial, Seek, Move, MineAllOk
  <2>2. HeadOk(h)
    BY <1>1 DEF ListsOk
  <2>3. PageOf(h) = 0 /\ (BlockOf(h) = 0 \/ BlockOf(h) \in 2 .. NumBlocks - 1)
    BY <2>2, HeadPlaces
  <2>4. BlockOf(h) \in Nat /\ PageOf(h) \in Nat
    BY <2>3, NumBlocksAssumption
  <2> HIDE DEF h
  <2>5. m \in MineType /\ m.page = mine[t].page /\ m.sought[1] = BlockOf(h) /\ m.sought[2] = PageOf(h)
    BY <1>1, <2>4 DEF MineType, PagePlace
  <2> HIDE DEF m
  <2>6. "readPartial" \in Points /\ MineOk("readPartial", m)
    BY <1>1, <2>1, <2>3, <2>5 DEF Points, MineOk
  <2>7. MineAllOk'
    BY <1>1, <2>1, <2>5, <2>6, MovedOn
  <2> QED BY <1>3, <2>1, <2>7
<1>8. CASE ReadPartial(t)
  <2> DEFINE page == PageAt(mine[t].sought)
             m == [mine[t] EXCEPT !.next = page.nextLogBlock]
  <2>1. at[t] = "readPartial" /\ page.contents.kind # "header"
        /\ at' = [at EXCEPT ![t] = "popPartial"] /\ mine' = [mine EXCEPT ![t] = m]
        /\ UNCHANGED <<vaddrMap, nand, made, lists>>
    BY <1>1, <1>8 DEF ReadPartial, Transfer, Move, MineAllOk
  <2>2. PageOk(mine[t].page) /\ mine[t].sought[2] = 0
        /\ (mine[t].sought[1] = 0 \/ mine[t].sought[1] \in 2 .. NumBlocks - 1)
    BY <1>1, <2>1 DEF MineOk
  <2>3. page = nand[mine[t].sought[1]].contents[0]
    BY <2>2 DEF PageAt
  <2>4. \A b \in Blocks : BlockOk(b, nand[b])
    BY <1>1 DEF NandOk
  <2>5. 0 \in Blocks /\ 2 .. NumBlocks - 1 \subseteq Blocks
    BY NumBlocksAssumption DEF Blocks
  <2> HIDE DEF page
  <2>6. HeadOk(page.nextLogBlock)
    <3>1. CASE mine[t].sought[1] = 0
      BY <2>1, <2>3, <2>4, <2>5, <3>1 DEF BlockOk, HeadOk
    <3>2. CASE mine[t].sought[1] \in 2 .. NumBlocks - 1
      BY <2>3, <2>4, <2>5, <3>2, LinkHead DEF BlockOk
    <3> QED BY <2>2, <3>1, <3>2
  <2>7. page.nextLogBlock \in Nat
    BY <2>6, HeadPlaces
  <2>8. m \in MineType /\ m.page = mine[t].page /\ m.next = page.nextLogBlock
    BY <1>1, <2>7 DEF MineType
  <2> HIDE DEF m
  <2>9. "popPartial" \in Points /\ MineOk("popPartial", m)
    BY <2>2, <2>6, <2>8 DEF Points, MineOk
  <2>10. MineAllOk'
    BY <1>1, <2>1, <2>8, <2>9, MovedOn
  <2> QED BY <1>3, <2>1, <2>10
<1>9. CASE StorePartial(t)
  <2>1. at[t] = "popPartial" /\ at' = [at EXCEPT ![t] = "storeLog"] /\ mine' = mine
        /\ lists' = [lists EXCEPT !.partialHead = mine[t].next] /\ UNCHANGED <<vaddrMap, nand, made>>
    BY <1>9 DEF StorePartial, Move, InMemory
  <2>2. HeadOk(mine[t].next) /\ PageOk(mine[t].page) /\ mine[t].next \in Nat
    BY <1>1, <2>1 DEF MineOk, MineType
  <2>3. "storeLog" \in Points /\ MineOk("storeLog", mine[t])
    BY <2>2 DEF Points, MineOk
  <2>4. MineAllOk'
    BY <1>4, <2>1, <2>3
  <2>5. lists' \in ListType /\ lists'.partialHead = mine[t].next /\ lists'.completeHead = 0
    BY <1>1, <2>1, <2>2 DEF ListsOk, ListType
  <2>6. ListsOk'
    BY <2>2, <2>5 DEF ListsOk, HeadOk
  <2> QED BY <1>2, <2>1, <2>4, <2>6
<1> QED BY <1>5, <1>6, <1>7, <1>8, <1>9

(* getFreeBlock on the complete list, before it erases. *)
LEMMA CompleteSteps ==
  ASSUME RaceInv, NEW t \in Threads,
         UNCHANGED <<pc, local, created>>,
         \/ TakeComplete(t) \/ SeekComplete(t) \/ ReadComplete(t) \/ StoreComplete(t)
  PROVE  RaceInv'
<1> USE DEF OnPartial, OnComplete, OnHeader
<1>1. /\ vaddrMap \in MapType /\ ListsOk /\ MineAllOk /\ MadeOk /\ NandOk
      /\ mine[t] \in MineType /\ MineOk(at[t], mine[t])
  BY DEF RaceInv, MineAllOk
<1>2. ASSUME UNCHANGED <<vaddrMap, nand, made>>, ListsOk', MineAllOk' PROVE RaceInv'
  BY <1>1, <1>2 DEF RaceInv, MadeOk, NandOk, MapType, BlockOk, HeadOk, PageOk, LinkOf
<1>3. ASSUME UNCHANGED <<vaddrMap, nand, made, lists>>, MineAllOk' PROVE RaceInv'
  BY <1>1, <1>2, <1>3 DEF ListsOk, HeadOk
<1>4. CASE TakeComplete(t)
  <2> DEFINE m == [mine[t] EXCEPT !.page = lists.completeHead]
  <2>1. at' = [at EXCEPT ![t] = "seekComplete"] /\ mine' = [mine EXCEPT ![t] = m]
        /\ UNCHANGED <<vaddrMap, nand, made, lists>>
    BY <1>1, <1>4 DEF TakeComplete, Move, InMemory, MineAllOk
  <2>2. m \in MineType /\ m.page = 0
    BY <1>1 DEF MineType, ListsOk
  <2> HIDE DEF m
  <2>3. "seekComplete" \in Points /\ MineOk("seekComplete", m)
    BY <2>2 DEF Points, MineOk
  <2>4. MineAllOk'
    BY <1>1, <2>1, <2>2, <2>3, MovedOn
  <2> QED BY <1>3, <2>1, <2>4
<1>5. CASE SeekComplete(t)
  <2> DEFINE place == PagePlace(LastPageOfBlock(mine[t].page))
             m == [mine[t] EXCEPT !.sought = place]
  <2>1. at[t] = "seekComplete" /\ at' = [at EXCEPT ![t] = "readComplete"]
        /\ mine' = [mine EXCEPT ![t] = m] /\ UNCHANGED <<vaddrMap, nand, made, lists>>
    BY <1>1, <1>5 DEF SeekComplete, Seek, Move, MineAllOk
  <2>2. mine[t].page = 0
    BY <1>1, <2>1 DEF MineOk
  <2>3. place = <<0, BLOCKSIZE - 1>>
    BY <2>2, LastPageOfZero DEF PagePlace
  <2>4. place \in Nat \X Nat
    BY <2>3, BlockSizeAssumption
  <2> HIDE DEF place
  <2>5. m \in MineType /\ m.page = mine[t].page /\ m.sought = place
    BY <1>1, <2>4 DEF MineType
  <2> HIDE DEF m
  <2>6. "readComplete" \in Points /\ MineOk("readComplete", m)
    BY <2>2, <2>3, <2>5 DEF Points, MineOk
  <2>7. MineAllOk'
    BY <1>1, <2>1, <2>5, <2>6, MovedOn
  <2> QED BY <1>3, <2>1, <2>7
<1>6. CASE ReadComplete(t)
  <2> DEFINE page == PageAt(mine[t].sought)
             m == [mine[t] EXCEPT !.next = page.nextLogBlock]
  <2>1. at[t] = "readComplete" /\ at' = [at EXCEPT ![t] = "popComplete"]
        /\ mine' = [mine EXCEPT ![t] = m] /\ UNCHANGED <<vaddrMap, nand, made, lists>>
    BY <1>1, <1>6 DEF ReadComplete, Transfer, Move, MineAllOk
  <2>2. mine[t].page = 0 /\ mine[t].sought[1] = 0 /\ mine[t].sought[2] = BLOCKSIZE - 1
    BY <1>1, <2>1 DEF MineOk
  <2>3. page = nand[0].contents[BLOCKSIZE - 1]
    BY <2>2 DEF PageAt
  <2>4. 0 \in Blocks /\ \A b \in Blocks : BlockOk(b, nand[b])
    BY <1>1, NumBlocksAssumption DEF NandOk, Blocks
  <2> HIDE DEF page
  <2>5. page.nextLogBlock = 0
    BY <2>3, <2>4 DEF BlockOk
  <2>6. m \in MineType /\ m.page = 0 /\ m.next = 0
    BY <1>1, <2>2, <2>5 DEF MineType
  <2> HIDE DEF m
  <2>7. "popComplete" \in Points /\ MineOk("popComplete", m)
    BY <2>6 DEF Points, MineOk
  <2>8. MineAllOk'
    BY <1>1, <2>1, <2>6, <2>7, MovedOn
  <2> QED BY <1>3, <2>1, <2>8
<1>7. CASE StoreComplete(t)
  <2>1. at[t] = "popComplete" /\ at' = [at EXCEPT ![t] = "seekCount"] /\ mine' = mine
        /\ lists' = [lists EXCEPT !.completeHead = mine[t].next] /\ UNCHANGED <<vaddrMap, nand, made>>
    BY <1>7 DEF StoreComplete, Move, InMemory
  <2>2. mine[t].next = 0 /\ mine[t].page = 0
    BY <1>1, <2>1 DEF MineOk
  <2>3. "seekCount" \in Points /\ MineOk("seekCount", mine[t])
    BY <2>2 DEF Points, MineOk
  <2>4. mine' = [mine EXCEPT ![t] = mine[t]]
    BY <1>1, <2>1 DEF MineAllOk
  <2>5. MineAllOk'
    BY <1>1, <2>1, <2>3, <2>4, MovedOn
  <2>6. lists' \in ListType /\ lists'.partialHead = lists.partialHead /\ lists'.completeHead = 0
    BY <1>1, <2>1, <2>2 DEF ListsOk, ListType
  <2>7. ListsOk'
    BY <1>1, <2>6 DEF ListsOk, HeadOk
  <2> QED BY <1>2, <2>1, <2>5, <2>7
<1> QED BY <1>4, <1>5, <1>6, <1>7

(* A block is written. *)
LEMMA BlockWritten ==
  ASSUME NandOk, NEW b \in Blocks, b # 1, NEW block \in BlockType, BlockOk(b, block),
         nand' = [nand EXCEPT ![b] = block]
  PROVE  NandOk'
<1>1. 1 \in Blocks
  BY NumBlocksAssumption, LogSpaceAssumption DEF Blocks
<1>2. nand' \in [Blocks -> BlockType] /\ nand'[b] = block /\ \A c \in Blocks : c # b => nand'[c] = nand[c]
  BY DEF NandOk
<1>3. nand'[1] = Formatted[1]
  BY <1>1, <1>2 DEF NandOk
<1>4. ASSUME NEW c \in Blocks PROVE BlockOk(c, nand'[c])
  <2>1. CASE c = b
    BY <1>2, <2>1
  <2>2. CASE c # b
    BY <1>2, <2>2 DEF NandOk
  <2> QED BY <2>1, <2>2
<1> DEFINE A == \A c \in Blocks : BlockOk(c, nand'[c])
<1>5. A
  BY <1>4
<1> QED BY <1>2, <1>3, <1>5 DEF NandOk, BlockOk, LinkOf

(* eraseNAND, which only ever erases block 0. *)
LEMMA EraseSteps ==
  ASSUME RaceInv, NEW t \in Threads,
         UNCHANGED <<pc, local, created>>,
         \/ SeekCount(t) \/ ReadCount(t) \/ SeekErased(t) \/ WriteErased(t)
  PROVE  RaceInv'
<1> USE DEF OnPartial, OnComplete, OnHeader
<1>1. /\ vaddrMap \in MapType /\ ListsOk /\ MineAllOk /\ MadeOk /\ NandOk
      /\ mine[t] \in MineType /\ MineOk(at[t], mine[t])
  BY DEF RaceInv, MineAllOk
<1>2. ASSUME UNCHANGED <<vaddrMap, lists, made>>, NandOk', MineAllOk' PROVE RaceInv'
  BY <1>1, <1>2 DEF RaceInv, MadeOk, ListsOk, MapType, HeadOk, PageOk
<1>3. ASSUME UNCHANGED <<vaddrMap, nand, made, lists>>, MineAllOk' PROVE RaceInv'
  BY <1>1, <1>2, <1>3 DEF NandOk, BlockOk, LinkOf
<1>4. mine[t].page = 0 /\ ErasedBlock(t) = 0 /\ 0 \in Blocks
  <2>1. at[t] \in OnComplete
    BY DEF SeekCount, ReadCount, SeekErased, WriteErased, Move
  <2>2. mine[t].page = 0
    BY <1>1, <2>1 DEF MineOk
  <2> QED BY <2>2, LastPageOfZero, NumBlocksAssumption DEF ErasedBlock, Blocks
<1>5. ASSUME NEW p \in {"seekCount", "readCount", "seekErased", "writeErased"}, NEW m \in MineType,
             m.page = 0
      PROVE  p \in Points /\ MineOk(p, m)
  BY <1>5 DEF Points, MineOk
<1>6. ASSUME NEW place \in Nat \X Nat, NEW p \in {"readCount", "writeErased"},
             at' = [at EXCEPT ![t] = p], Seek(t, place)
      PROVE  RaceInv'
  <2> DEFINE m == [mine[t] EXCEPT !.sought = place]
  <2>1. mine' = [mine EXCEPT ![t] = m] /\ UNCHANGED <<vaddrMap, nand, made, lists>>
    BY <1>1, <1>6 DEF Seek, MineAllOk
  <2>2. m \in MineType /\ m.page = 0
    BY <1>1, <1>4 DEF MineType
  <2> HIDE DEF m
  <2>3. MineAllOk'
    BY <1>1, <1>5, <1>6, <2>1, <2>2, MovedOn
  <2> QED BY <1>3, <2>1, <2>3
<1>7. CASE SeekCount(t)
  <2>1. EraseCountPlace(ErasedBlock(t)) \in Nat \X Nat
    BY <1>4, BlockSizeAssumption DEF EraseCountPlace
  <2> QED BY <1>6, <1>7, <2>1 DEF SeekCount, Move
<1>8. CASE SeekErased(t)
  <2>1. BlockPlace(ErasedBlock(t)) \in Nat \X Nat
    BY <1>4 DEF BlockPlace
  <2> QED BY <1>6, <1>8, <2>1 DEF SeekErased, Move
<1>9. CASE ReadCount(t)
  <2>1. PICK word \in Junk :
          mine' = [mine EXCEPT ![t].count = EraseCountWord(nand, ErasedBlock(t), word)]
    BY <1>9 DEF ReadCount
  <2>2. EraseCountWord(nand, ErasedBlock(t), word) \in Int
    <3>1. EraseCountWord(nand, 0, word) = nand[0].eraseCount
      BY DEF EraseCountWord
    <3>2. nand[0] \in BlockType
      BY <1>1, <1>4 DEF NandOk
    <3> QED BY <1>4, <3>1, <3>2 DEF BlockType
  <2> DEFINE count == EraseCountWord(nand, ErasedBlock(t), word)
             m == [mine[t] EXCEPT !.count = count]
  <2> HIDE DEF count
  <2>3. at' = [at EXCEPT ![t] = "seekErased"] /\ mine' = [mine EXCEPT ![t] = m]
        /\ UNCHANGED <<vaddrMap, nand, made, lists>>
    BY <1>1, <1>9, <2>1 DEF ReadCount, Transfer, Move, MineAllOk, count
  <2>4. m \in MineType /\ m.page = 0
    BY <1>1, <1>4, <2>2 DEF MineType, count
  <2> HIDE DEF m
  <2>5. MineAllOk'
    BY <1>1, <1>5, <2>3, <2>4, MovedOn
  <2> QED BY <1>3, <2>3, <2>5
<1>10. CASE WriteErased(t)
  <2> DEFINE m == [mine[t] EXCEPT !.count = 0]
             z == [ZeroNAND[0] EXCEPT !.eraseCount = mine[t].count + 1]
  <2>1. at' = [at EXCEPT ![t] = "storeLog"] /\ mine' = [mine EXCEPT ![t] = m]
        /\ nand' = [nand EXCEPT ![0] = z] /\ UNCHANGED <<vaddrMap, made, lists>>
    BY <1>1, <1>4, <1>10 DEF WriteErased, Transfer, Move, MineAllOk
  <2>2. m \in MineType /\ m.page = 0
    BY <1>1, <1>4 DEF MineType
  <2>3. mine[t].count + 1 \in Int
    BY <1>1 DEF MineType
  <2>4. z \in BlockType /\ BlockOk(0, z)
    BY <2>3, ZeroBlock
  <2> HIDE DEF m, z
  <2>5. "storeLog" \in Points /\ MineOk("storeLog", m)
    BY <2>2 DEF Points, MineOk, PageOk
  <2>6. MineAllOk'
    BY <1>1, <2>1, <2>2, <2>5, MovedOn
  <2>7. NandOk'
    <3>1. NandOk /\ 0 \in Blocks /\ 0 # 1 /\ nand' = [nand EXCEPT ![0] = z]
      BY <1>1, <1>4, <2>1
    <3> QED BY <3>1, <2>4, BlockWritten, Zenon
  <2> QED BY <1>2, <2>1, <2>6, <2>7
<1> QED BY <1>7, <1>8, <1>9, <1>10

(* The file that a thread has finished. *)
LEMMA FileMade ==
  ASSUME RaceInv, NEW t \in Threads, PageOk(mine[t].page), Finish(t),
         at' = [at EXCEPT ![t] = "idle"]
  PROVE  MadeOk' /\ MineAllOk'
<1>1. made \in Seq(MadeType) /\ MineAllOk /\ mine[t] \in MineType
  BY DEF RaceInv, MadeOk, MineAllOk
<1> DEFINE file == [fileID |-> mine[t].fileID, logID |-> mine[t].logID, page |-> mine[t].page]
<1>2. file \in MadeType /\ PageOk(file.page)
  BY <1>1 DEF MineType, MadeType
<1>3. made' = Append(made, file) /\ mine' = [mine EXCEPT ![t] = Fresh]
  BY DEF Finish
<1> HIDE DEF file
<1>4. made' \in Seq(MadeType)
  BY <1>1, <1>2, <1>3
<1>5. ASSUME NEW i \in DOMAIN made' PROVE PageOk(made'[i].page)
  <2>1. CASE i = Len(made) + 1
    BY <1>1, <1>2, <1>3, <2>1
  <2>2. CASE i # Len(made) + 1
    <3>1. i \in DOMAIN made /\ made'[i] = made[i]
      BY <1>1, <1>2, <1>3, <2>2
    <3> QED BY <3>1 DEF RaceInv, MadeOk
  <2> QED BY <2>1, <2>2
<1>6. MadeOk'
  <2> DEFINE A == \A i \in DOMAIN made' : PageOk(made'[i].page)
  <2>1. A
    BY <1>5
  <2> QED BY <1>4, <2>1 DEF MadeOk, PageOk
<1>7. Fresh \in MineType
  <2>1. 0 \in Blocks
    BY NumBlocksAssumption DEF Blocks
  <2>2. ZeroNAND[0] \in BlockType
    BY <2>1, FormattedParts
  <2> QED BY <2>2 DEF Fresh, MineType
<1>8. "idle" \in Points /\ MineOk("idle", Fresh)
  BY DEF Points, MineOk, OnPartial, OnComplete, OnHeader
<1>9. MineAllOk'
  BY <1>1, <1>3, <1>7, <1>8, MovedOn
<1> QED BY <1>6, <1>9

(* writeNAND of the header. *)
LEMMA HeaderSteps ==
  ASSUME RaceInv, NEW t \in Threads,
         UNCHANGED <<pc, local, created>>,
         \/ SeekBlock(t) \/ RefusePage(t) \/ LoadBlock(t) \/ SeekBack(t) \/ WriteBack(t)
  PROVE  RaceInv'
<1> USE DEF OnPartial, OnComplete, OnHeader
<1>1. /\ vaddrMap \in MapType /\ ListsOk /\ MineAllOk /\ MadeOk /\ NandOk
      /\ mine[t] \in MineType /\ MineOk(at[t], mine[t])
  BY DEF RaceInv, MineAllOk
<1>2. ASSUME UNCHANGED <<vaddrMap, lists>>, MadeOk', NandOk', MineAllOk' PROVE RaceInv'
  BY <1>1, <1>2 DEF RaceInv, ListsOk, MapType, HeadOk
<1>3. ASSUME UNCHANGED nand PROVE NandOk'
  BY <1>1, <1>3 DEF NandOk, BlockOk, LinkOf
<1>4. ASSUME UNCHANGED made PROVE MadeOk'
  BY <1>1, <1>4 DEF MadeOk, PageOk
<1> DEFINE b == HeaderBlock(t)
           j == PageOf(mine[t].page)
<1>5. PageOk(mine[t].page)
  BY <1>1 DEF SeekBlock, RefusePage, LoadBlock, SeekBack, WriteBack, Move, MineOk
<1>6. /\ b \in Blocks /\ b # 1 /\ j \in PageIdx /\ j \in {0, 1} /\ j + 1 \in 0 .. BLOCKSIZE
      /\ b # 0 => b \in 2 .. NumBlocks - 1 /\ j = 1
  BY <1>5, PagePlaces DEF HeaderBlock
<1>7. b = BlockOf(mine[t].page)
  BY DEF HeaderBlock
<1> HIDE DEF b, j
<1>8. ASSUME NEW p \in {"readBlock", "writeBlock"}, at' = [at EXCEPT ![t] = p],
             Seek(t, BlockPlace(b)),
             p = "writeBlock" => at[t] = "seekBack"
      PROVE  RaceInv'
  <2> DEFINE m == [mine[t] EXCEPT !.sought = BlockPlace(b)]
  <2>1. mine' = [mine EXCEPT ![t] = m] /\ UNCHANGED <<vaddrMap, nand, made, lists>>
    BY <1>1, <1>8 DEF Seek, MineAllOk
  <2>2. BlockPlace(b) \in Nat \X Nat
    BY <1>6, NumBlocksAssumption DEF BlockPlace, Blocks
  <2>3. m \in MineType /\ m.page = mine[t].page /\ m.block = mine[t].block
    BY <1>1, <2>2 DEF MineType
  <2> HIDE DEF m
  <2>4. p \in Points /\ MineOk(p, m)
    <3>1. p = "writeBlock" => BlockOk(BlockOf(mine[t].page), mine[t].block)
                              /\ mine[t].block.nextPage = PageOf(mine[t].page)
      BY <1>1, <1>8 DEF MineOk
    <3> QED BY <1>5, <2>3, <3>1 DEF Points, MineOk
  <2>5. MineAllOk'
    BY <1>1, <1>8, <2>1, <2>3, <2>4, MovedOn
  <2> QED BY <1>2, <1>3, <1>4, <2>1, <2>5
<1>9. CASE SeekBlock(t)
  BY <1>8, <1>9 DEF SeekBlock, Move, b
<1>10. CASE SeekBack(t)
  BY <1>8, <1>10 DEF SeekBack, Move, b
<1>11. CASE RefusePage(t)
  <2>1. at' = [at EXCEPT ![t] = "idle"] /\ Finish(t) /\ UNCHANGED <<vaddrMap, lists, nand>>
    BY <1>11 DEF RefusePage, Transfer, Move
  <2>2. MadeOk' /\ MineAllOk'
    BY <1>5, <2>1, FileMade
  <2> QED BY <1>2, <1>3, <2>1, <2>2
<1>12. CASE LoadBlock(t)
  <2> DEFINE m == [mine[t] EXCEPT !.block = nand[b]]
  <2>1. at' = [at EXCEPT ![t] = "seekBack"] /\ mine' = [mine EXCEPT ![t] = m] /\ j = nand[b].nextPage
        /\ UNCHANGED <<vaddrMap, nand, made, lists>>
    BY <1>1, <1>12 DEF LoadBlock, Transfer, Move, MineAllOk, b, j
  <2>2. nand[b] \in BlockType /\ BlockOk(b, nand[b])
    BY <1>1, <1>6 DEF NandOk
  <2>3. m \in MineType /\ m.page = mine[t].page /\ m.block = nand[b]
    BY <1>1, <2>2 DEF MineType
  <2> HIDE DEF m
  <2>4. "seekBack" \in Points /\ MineOk("seekBack", m)
    <3>1. BlockOk(BlockOf(m.page), m.block)
      BY <1>7, <2>2, <2>3
    <3>2. m.block.nextPage = PageOf(m.page)
      BY <2>1, <2>3 DEF j
    <3>3. PageOk(m.page)
      BY <1>5, <2>3
    <3> QED BY <3>1, <3>2, <3>3 DEF Points, MineOk
  <2>5. MineAllOk'
    BY <1>1, <2>1, <2>3, <2>4, MovedOn
  <2> QED BY <1>2, <1>3, <1>4, <2>1, <2>5
<1>13. CASE WriteBack(t)
  <2>1. PICK link \in Junk : nand' = [nand EXCEPT ![HeaderBlock(t)] = Rewritten(t, link)]
    BY <1>13 DEF WriteBack
  <2> DEFINE h == HeaderPage(t, link)
             old == mine[t].block
             new == Rewritten(t, link)
  <2>2. nand' = [nand EXCEPT ![b] = new]
    BY <2>1 DEF b
  <2>3. at[t] = "writeBlock" /\ at' = [at EXCEPT ![t] = "idle"] /\ Finish(t) /\ UNCHANGED <<vaddrMap, lists>>
    BY <1>13 DEF WriteBack, Transfer, Move
  <2>4. BlockOk(b, old) /\ old.nextPage = j /\ old \in BlockType
    BY <1>1, <1>7, <2>3 DEF MineOk, MineType, j
  <2>5. h \in Page /\ h.contents.kind = "header"
    <3> DEFINE header == [kind |-> "header", logId |-> mine[t].logID, fileId |-> mine[t].fileID]
    <3>1. header \in Payload /\ header.kind = "header"
      BY <1>1 DEF Payload, MineType
    <3>2. link \in Nat
      BY JunkAssumption
    <3>3. h = NewPage(header, 0, link, PTYPE_INODE)
      BY DEF HeaderPage
    <3> HIDE DEF header, h
    <3> QED BY <3>1, <3>2, <3>3 DEF NewPage, Page, PTYPE_INODE
  <2> HIDE DEF h, old
  <2> DEFINE pages == [old.contents EXCEPT ![j] = h]
  <2>6. pages \in [PageIdx -> Page] /\ pages[j] = h
        /\ \A i \in PageIdx : i # j => pages[i] = old.contents[i]
    BY <1>6, <2>4, <2>5 DEF BlockType
  <2>7. new = [contents |-> pages, nextPage |-> j + 1, eraseCount |-> old.eraseCount]
    BY <2>4 DEF Rewritten, h, old, j
  <2> HIDE DEF pages, new
  <2>8. new \in BlockType
    <3>1. old.eraseCount \in Int
      BY <2>4 DEF BlockType
    <3> QED BY <1>6, <2>6, <2>7, <3>1 DEF BlockType
  <2>9. BlockOk(b, new)
    <3>1. new.contents = pages
      BY <2>7
    <3>2. CASE b = 0
      <4>1. pages[BLOCKSIZE - 1] = old.contents[BLOCKSIZE - 1]
        BY <1>6, <2>6, LastPageOfZero
      <4>2. pages[0] = h \/ pages[0] = old.contents[0]
        BY <2>6, LastPageOfZero
      <4> QED BY <2>4, <2>5, <3>1, <3>2, <4>1, <4>2 DEF BlockOk
    <3>3. CASE b # 0
      <4>1. pages[0] = old.contents[0]
        BY <1>6, <2>6, <3>3, LastPageOfZero
      <4> QED BY <2>4, <3>1, <3>3, <4>1 DEF BlockOk
    <3> QED BY <3>2, <3>3
  <2>10. NandOk'
    BY <1>1, <1>6, <2>2, <2>8, <2>9, BlockWritten
  <2>11. MadeOk' /\ MineAllOk'
    BY <1>5, <2>3, FileMade
  <2> QED BY <1>2, <2>3, <2>10, <2>11
<1> QED BY <1>9, <1>10, <1>11, <1>12, <1>13
-----------------------------------------------------------------------------
(* A state in which nothing of this has changed. *)
LEMMA RaceRests ==
  ASSUME RaceInv, UNCHANGED <<nand, lists, vaddrMap, at, mine, made>>
  PROVE  RaceInv'
BY DEF RaceInv, MapType, ListsOk, MineAllOk, MineOk, MadeOk, NandOk, BlockOk, HeadOk, PageOk, LinkOf

(* What the shared state and the threads are like whatever threads         *)
(* interleave in xmp_create, up to the first transfer that an lseek of     *)
(* another thread displaces, and when slots and blocks have run out: heads *)
(* and links are addresses of blocks for logs or 0, and only block 0 is    *)
(* ever erased.                                                            *)
THEOREM RaceInvariant == RaceSpec => []RaceInv
<1>1. Init /\ RaceStart => RaceInv
  BY RaceBegins
<1>2. RaceInv /\ [RaceNext]_allVars => RaceInv'
  <2>1. ASSUME RaceInv, NEW t \in Threads, RaceStep(t) PROVE RaceInv'
    <3>1. UNCHANGED <<pc, local, created>>
      BY <2>1 DEF RaceStep
    <3>2. CASE ReadUnset(t) \/ Displaced(t)
      <4>1. UNCHANGED <<nand, lists, vaddrMap, at, mine, made>>
        BY <3>2 DEF ReadUnset, Displaced, vars
      <4> QED BY <2>1, <4>1, RaceRests
    <3> QED BY <2>1, <3>1, <3>2, NumberSteps, PartialSteps, CompleteSteps, EraseSteps, HeaderSteps
        DEF RaceStep
  <2>2. ASSUME RaceInv, UNCHANGED allVars PROVE RaceInv'
    <3>1. UNCHANGED <<nand, lists, vaddrMap, at, mine, made>>
      BY <2>2 DEF allVars, vars, raceVars
    <3> QED BY <2>2, <3>1, RaceRests
  <2> QED BY <2>1, <2>2 DEF RaceNext
<1> QED BY <1>1, <1>2, PTL DEF RaceSpec

(* No interleaving of getFreeBlock, eraseNAND, writeNAND and the stores to *)
(* the map gives a file the block of the virtual address map or writes to  *)
(* it, before a transfer is displaced or an unset link followed.           *)
THEOREM RaceKeepsMap == RaceSpec => []MapBlockKept
<1>1. RaceInv => MapBlockKept
  <2> SUFFICES ASSUME RaceInv PROVE MapBlockKept
    OBVIOUS
  <2>1. nand[1] = Formatted[1]
    BY DEF RaceInv, NandOk
  <2>2. ASSUME NEW i \in DOMAIN made PROVE BlockOf(made[i].page) # 1
    BY PagePlaces DEF RaceInv, MadeOk
  <2> QED BY <2>1, <2>2 DEF MapBlockKept
<1> QED BY <1>1, RaceInvariant, PTL
=============================================================================
