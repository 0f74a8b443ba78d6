-------------------------- MODULE Cycology_proofs --------------------------
(***************************************************************************)
(* The file system of module Cycology keeps its types and its counts of    *)
(* open handles, for every size of the memory and of the map, every set of *)
(* names and every world: whatever unset memory holds and whenever the     *)
(* daemon dies.                                                            *)
(*                                                                         *)
(* Both rest on the numbers of the slots.  They are taken from the map in  *)
(* pairs, the odd one for the file and the even one for its log, so that   *)
(* the entry of a log never takes the place of an openFile; and a map on   *)
(* the memory is one that xmp_destroy saved, so that a restart, also after *)
(* a crash, goes on with such pairs.                                       *)
(***************************************************************************)
EXTENDS Cycology, TLAPS, FiniteSetTheorems

(* A map whose free slots start at an odd one and are still linked as      *)
(* makefs linked them.                                                     *)
GoodMaps ==
  {vm \in MapType :
     /\ vm.freePtr \in Ids
     /\ vm.freePtr # 0 =>
          /\ vm.freePtr % 2 = 1
          /\ \A i \in Ids : i >= vm.freePtr => vm.map[i] = FreshMap.map[i]}

(* The payloads there can be on the memory. *)
HeaderPayloads ==
  [kind : {"header"}, logId : Ids, fileId : Ids, first : Int, prev : Int, fileCount : Int]
SuperPayloads == [kind : {"super"}, freeLists : ListsType, latest_vaddr_map : {BLOCKSIZE}]
MapPayloads   == [kind : {"map"}, vaddrMap : GoodMaps]
GoodPayloads  == {Blank} \cup SuperPayloads \cup MapPayloads \cup HeaderPayloads

GoodPages ==
  [contents : GoodPayloads, eraseCount : Int, nextLogBlock : Int,
   nextBlockErases : Int, pageType : Int]
GoodBlocks == [contents : [PageIdx -> GoodPages], nextPage : 0 .. BLOCKSIZE, eraseCount : Int]
GoodMemory == [Blocks -> GoodBlocks]

OpenFiles ==
  [kind : {"file"}, currentOpens : Nat, modified : Nat, mainExtentLog : {NoLog} \cup LogType]
TableType == [Ids -> {NULL, LogEntry} \cup OpenFiles]

(* Only stubs of files carry a number, an odd one, and an inode. *)
StubsNumbered ==
  \A e \in Entries : stub[e] # NoStub => stub[e].ino # 0 /\ stub[e].fileId % 2 = 1

(* A handle is on an openFile in the table, or on one that was replaced. *)
HandlesFound ==
  \A h \in handles : h[3] # 0 => h[3] % 2 = 1 /\ table[h[3]].kind = "file"

(* openFiles are in odd slots and count their handles; one without a log,  *)
(* which xmp_release could not write a header for, counts one too many.    *)
Counted ==
  \A id \in Ids : table[id].kind = "file" =>
    /\ id % 2 = 1
    /\ table[id].currentOpens >= Cardinality(HandlesOn(id))
    /\ table[id].mainExtentLog \notin LogType =>
         table[id].currentOpens > Cardinality(HandlesOn(id))

FsType ==
  /\ nand \in GoodMemory
  /\ stub \in [Entries -> [ino : {0} \cup Inodes, fileId : Ids]]
  /\ mounted \in BOOLEAN
  /\ lists \in ListsType
  /\ vaddrMap \in GoodMaps
  /\ table \in TableType
  /\ handles \subseteq Entries \X (1 .. MaxOpens) \X Ids
  /\ IsFiniteSet(handles)
  /\ hidden \subseteq Entries
  /\ world \in Worlds

FsInv ==
  /\ FsType
  /\ StubsNumbered
  /\ HandlesFound
  /\ Counted
  /\ ~ mounted => handles = {}

-----------------------------------------------------------------------------
(* Addresses: the block and the page of a number, also of a negative one.  *)
LEMMA Address ==
  ASSUME NEW k \in Int
  PROVE  /\ BlockOf(k) \in Int
         /\ PageOf(k) \in Int
         /\ PageOf(k) < BLOCKSIZE
         /\ BlockOf(k) >= 0 /\ PageOf(k) >= 0 => PageOf(k) \in PageIdx
<1> USE BlockSizeAssumption
<1>1. CASE k >= 0
  <2>1. k \div BLOCKSIZE \in Int /\ k % BLOCKSIZE \in 0 .. BLOCKSIZE - 1
    BY <1>1
  <2> QED BY <2>1, <1>1 DEF BlockOf, PageOf, PageIdx
<1>2. CASE k < 0
  <2>1. (-k) \div BLOCKSIZE \in Int /\ (-k) % BLOCKSIZE \in 0 .. BLOCKSIZE - 1
    BY <1>2
  <2> DEFINE d == (-k) \div BLOCKSIZE
             r == (-k) % BLOCKSIZE
  <2>2. BlockOf(k) = -d /\ PageOf(k) = -r
    BY <1>2 DEF BlockOf, PageOf
  <2> HIDE DEF d, r
  <2>3. d \in Int /\ r \in 0 .. BLOCKSIZE - 1
    BY <2>1 DEF d, r
  <2> QED BY <2>2, <2>3 DEF PageIdx
<1> QED BY <1>1, <1>2

(* An address of the memory is a page of a block. *)
LEMMA InMemory ==
  ASSUME NEW k \in Pages
  PROVE  k \in Int /\ BlockOf(k) \in Blocks /\ PageOf(k) \in PageIdx
<1> USE BlockSizeAssumption, NumBlocksAssumption
<1>1. k \in Nat /\ k < NumBlocks * BLOCKSIZE
  BY DEF Pages
<1>2. k = BLOCKSIZE * (k \div BLOCKSIZE) + (k % BLOCKSIZE)
      /\ k % BLOCKSIZE \in 0 .. BLOCKSIZE - 1 /\ k \div BLOCKSIZE \in Nat
  BY <1>1
<1> DEFINE q == k \div BLOCKSIZE
<1>3. q < NumBlocks
  <2> HIDE DEF q
  <2>1. q \in Nat /\ BLOCKSIZE * q <= k
    BY <1>1, <1>2 DEF q
  <2>2. SUFFICES ASSUME q >= NumBlocks PROVE FALSE
    BY <2>1
  <2>3. BLOCKSIZE * q >= BLOCKSIZE * NumBlocks
    BY <2>1, <2>2
  <2> QED BY <1>1, <2>1, <2>3
<1> QED BY <1>1, <1>2, <1>3 DEF BlockOf, PageOf, Blocks, PageIdx

(* Reading a page of the memory. *)
LEMMA ReadGood ==
  ASSUME NEW m \in GoodMemory, NEW k \in Pages
  PROVE  ReadNAND(m, k) \in GoodPages
BY InMemory DEF ReadNAND, GoodMemory, GoodBlocks

(* Writing one, accepted or refused. *)
LEMMA WriteGood ==
  ASSUME NEW m \in GoodMemory, NEW k \in Int, NEW page \in GoodPages, NEW r \in BOOLEAN
  PROVE  WriteNAND(m, k, page, r) \in GoodMemory
<1> USE BlockSizeAssumption
<1> DEFINE b == BlockOf(k)
           j == PageOf(k)
<1>0. b \in Int /\ j \in Int /\ j < BLOCKSIZE
  BY Address
<1>1. CASE ~ WriteAccepted(m, k, r)
  BY <1>1 DEF WriteNAND
<1>2. CASE WriteAccepted(m, k, r)
  <2>1. b \in Blocks /\ (r \/ j = m[b].nextPage)
    BY <1>2 DEF WriteAccepted
  <2>2. WriteNAND(m, k, page, r) =
          [m EXCEPT ![b].contents[j] = page, ![b].nextPage = IF r THEN @ ELSE @ + 1]
    BY <1>2 DEF WriteNAND
  <2> HIDE DEF b, j
  <2> DEFINE f == [m[b].contents EXCEPT ![j] = page]
             n == IF r THEN m[b].nextPage ELSE m[b].nextPage + 1
             B == [m[b] EXCEPT !.contents = f, !.nextPage = n]
  <2>3. m[b] \in GoodBlocks
    BY <2>1 DEF GoodMemory
  <2>4. f \in [PageIdx -> GoodPages]
    BY <2>3 DEF GoodBlocks
  <2>5. n \in 0 .. BLOCKSIZE
    BY <1>0, <2>1, <2>3 DEF GoodBlocks
  <2>6. B \in GoodBlocks
    <3> HIDE DEF f, n
    <3> QED BY <2>3, <2>4, <2>5 DEF GoodBlocks
  <2>7. WriteNAND(m, k, page, r) = [m EXCEPT ![b] = B]
    BY <2>1, <2>2, <2>3 DEF GoodMemory, GoodBlocks
  <2> HIDE DEF B
  <2> QED BY <2>1, <2>6, <2>7 DEF GoodMemory
<1> QED BY <1>1, <1>2

LEMMA WritesGood ==
  ASSUME NEW m \in GoodMemory, NEW k \in Int, NEW page \in GoodPages
  PROVE  WriteNAND(m, k, page, TRUE) \in GoodMemory /\ WriteNAND(m, k, page, FALSE) \in GoodMemory
<1>1. TRUE \in BOOLEAN /\ FALSE \in BOOLEAN
  OBVIOUS
<1> QED BY <1>1, WriteGood, Zenon

LEMMA ZeroPageGood == ZeroPage \in GoodPages
BY DEF ZeroPage, GoodPages, GoodPayloads, PTYPE_ERASED

(* Erasing a block. *)
LEMMA EraseGood ==
  ASSUME NEW m \in GoodMemory, NEW k \in Int, NEW w \in Int
  PROVE  EraseNAND(m, k, w) \in GoodMemory
<1> USE BlockSizeAssumption
<1>1. CASE k \notin Blocks
  BY <1>1 DEF EraseNAND
<1>2. CASE k \in Blocks
  <2>1. m[k] \in GoodBlocks
    BY <1>2 DEF GoodMemory
  <2>2. m[k].contents[BLOCKSIZE - 1] \in GoodPages
    BY <2>1 DEF GoodBlocks, PageIdx
  <2> DEFINE c == EraseCountWord(m, k, w)
             B == [contents |-> [i \in PageIdx |-> ZeroPage], nextPage |-> 0,
                   eraseCount |-> c + 1]
  <2>3. c \in Int
    BY <2>1, <2>2 DEF EraseCountWord, GoodBlocks, GoodPages
  <2> HIDE DEF c
  <2>4. B \in GoodBlocks
    BY <2>3, ZeroPageGood DEF GoodBlocks
  <2>5. EraseNAND(m, k, w) = [m EXCEPT ![k] = B]
    BY <1>2 DEF EraseNAND, c
  <2> HIDE DEF B
  <2> QED BY <1>2, <2>4, <2>5 DEF GoodMemory
<1> QED BY <1>1, <1>2

-----------------------------------------------------------------------------
(* getFreeBlock, for a new file or for a log that grows. *)
LEMMA FreeBlockGood ==
  ASSUME NEW m \in GoodMemory, NEW l \in ListsType, NEW new \in BOOLEAN, NEW junk \in Int
  PROVE  /\ GetFreeBlock(m, l, new, junk).page \in Int
         /\ GetFreeBlock(m, l, new, junk).lists \in ListsType
         /\ GetFreeBlock(m, l, new, junk).nand \in GoodMemory
<1> USE BlockSizeAssumption
<1>1. \A k \in Int : ReadLink(m, k, junk) \in Int
  BY ReadGood DEF ReadLink, GoodPages
<1>2. \A k \in Int : LastPageOfBlock(k) \in Int
  <2> SUFFICES ASSUME NEW k \in Int PROVE LastPageOfBlock(k) \in Int
    OBVIOUS
  <2>1. BlockOf(k + BLOCKSIZE) \in Int
    BY Address
  <2> QED BY <2>1 DEF LastPageOfBlock
<1>3. l.completeHead \in Int /\ l.partialHead \in Int
  BY DEF ListsType
<1>4. CASE ~ new \/ l.partialHead = 0
  <2> DEFINE x == ReadLink(m, LastPageOfBlock(l.completeHead), junk)
             e == EraseNAND(m, BlockOf(l.completeHead), junk)
  <2>1. x \in Int
    BY <1>1, <1>2, <1>3
  <2>2. e \in GoodMemory
    BY <1>3, Address, EraseGood
  <2>3. GetFreeBlock(m, l, new, junk) =
          [page |-> l.completeHead, lists |-> [l EXCEPT !.completeHead = x], nand |-> e]
    BY <1>4 DEF GetFreeBlock
  <2> HIDE DEF x, e
  <2> QED BY <1>3, <2>1, <2>2, <2>3 DEF ListsType
<1>5. CASE new /\ l.partialHead # 0
  <2> DEFINE x == ReadLink(m, l.partialHead, junk)
  <2>1. x \in Int
    BY <1>1, <1>3
  <2>2. GetFreeBlock(m, l, new, junk) =
          [page |-> l.partialHead + 1, lists |-> [l EXCEPT !.partialHead = x], nand |-> m]
    BY <1>5 DEF GetFreeBlock
  <2> HIDE DEF x
  <2> QED BY <1>3, <2>1, <2>2 DEF ListsType
<1> QED BY <1>4, <1>5

(* getFreePage. *)
LEMMA FreePageGood ==
  ASSUME NEW m \in GoodMemory, NEW l \in ListsType, NEW log \in LogType, NEW junk \in Int
  PROVE  /\ GetFreePage(m, l, log, junk).address \in Int
         /\ GetFreePage(m, l, log, junk).link \in Int
         /\ GetFreePage(m, l, log, junk).lists \in ListsType
         /\ GetFreePage(m, l, log, junk).nand \in GoodMemory
         /\ GetFreePage(m, l, log, junk).log \in LogType
<1> USE BlockSizeAssumption
<1> DEFINE p == GetFreePage(m, l, log, junk)
           g == GetFreeBlock(m, l, FALSE, junk)
           B == BlockOf(g.page)
           a == log.nextPage
           Good(q) == /\ q.address \in Int /\ q.link \in Int /\ q.lists \in ListsType
                      /\ q.nand \in GoodMemory /\ q.log \in LogType
           s(next, link) == [address |-> a, link |-> link, lists |-> l, nand |-> m,
                             log |-> [log EXCEPT !.nextPage = next]]
           t == [address |-> a, link |-> g.page, lists |-> g.lists, nand |-> g.nand,
                 log |-> [log EXCEPT !.nextPage = g.page, !.last = B]]
<1>1. g.page \in Int /\ g.lists \in ListsType /\ g.nand \in GoodMemory
  BY FreeBlockGood
<1>2. a \in Int /\ log.prev \in Int /\ log.last \in Int
  BY DEF LogType
<1>3. B \in Int
  BY <1>1, Address
<1>4. \A next, link \in Int : Good(s(next, link))
  BY <1>2 DEF LogType
<1>5. Good(t)
  <2> HIDE DEF g, B, a
  <2> QED BY <1>1, <1>2, <1>3 DEF LogType
<1>6. \/ p = s(a + 1, junk)
      \/ p = s(log.prev * BLOCKSIZE + (BLOCKSIZE - 1), junk)
      \/ p = t
      \/ p = s(log.last * BLOCKSIZE + (BLOCKSIZE - 2), log.last * BLOCKSIZE)
  <2>1. CASE PageOf(a) = 0
    BY <2>1 DEF GetFreePage
  <2>2. CASE PageOf(a) # 0 /\ PageOf(a + 3) = 0
    BY <2>2 DEF GetFreePage
  <2>3. CASE PageOf(a) # 0 /\ PageOf(a + 3) # 0 /\ PageOf(a + 2) = 0
    BY <2>3 DEF GetFreePage
  <2>4. CASE PageOf(a) # 0 /\ PageOf(a + 3) # 0 /\ PageOf(a + 2) # 0 /\ PageOf(a + 1) = 0
    BY <2>4 DEF GetFreePage
  <2>5. CASE PageOf(a) # 0 /\ PageOf(a + 3) # 0 /\ PageOf(a + 2) # 0 /\ PageOf(a + 1) # 0
    BY <2>5 DEF GetFreePage
  <2> QED BY <2>1, <2>2, <2>3, <2>4, <2>5
<1>7. /\ a + 1 \in Int
      /\ log.prev * BLOCKSIZE + (BLOCKSIZE - 1) \in Int
      /\ log.last * BLOCKSIZE + (BLOCKSIZE - 2) \in Int
      /\ log.last * BLOCKSIZE \in Int
  BY <1>2
<1>8. Good(p)
  <2> HIDE DEF p, s, t, a, Good
  <2> QED BY <1>4, <1>5, <1>6, <1>7
<1> QED BY <1>8

LEMMA LinkGood ==
  ASSUME NEW k \in Int
  PROVE  LinkPage(k) \in GoodPages
BY DEF LinkPage, NewPage, GoodPages, GoodPayloads, PTYPE_ERASED

(* logs_recycle. *)
LEMMA RecycleGood ==
  ASSUME NEW m \in GoodMemory, NEW l \in ListsType, NEW first \in Int, NEW prev \in Int,
         NEW next \in Int
  PROVE  /\ LogsRecycle(m, l, first, prev, next).nand \in GoodMemory
         /\ LogsRecycle(m, l, first, prev, next).lists \in ListsType
<1> USE BlockSizeAssumption
<1> DEFINE partial == PageOf(next) <= BLOCKSIZE - 3
           lastFull == IF ~ partial THEN PageOf(next)
                       ELSE IF BlockOf(next) # first THEN prev ELSE 0
           m1 == IF partial /\ l.partialTail # 0
                   THEN WriteNAND(m, l.partialTail, LinkPage(next), FALSE)
                   ELSE m
           l1 == IF partial
                   THEN [l EXCEPT !.partialHead = IF l.partialTail = 0 THEN next ELSE @,
                                  !.partialTail = next]
                   ELSE l
           m2 == IF lastFull # 0 /\ l.completeTail # 0
                   THEN WriteNAND(m1, l.completeTail, LinkPage(first), TRUE)
                   ELSE m1
           l2 == IF lastFull # 0
                   THEN [l1 EXCEPT !.completeHead = IF l.completeTail = 0 THEN first ELSE @,
                                   !.completeTail = lastFull]
                   ELSE l1
<1>1. l.partialTail \in Int /\ l.completeTail \in Int
  BY DEF ListsType
<1>2. m1 \in GoodMemory
  BY <1>1, WritesGood, LinkGood
<1>3. l1 \in ListsType
  BY DEF ListsType
<1>4. lastFull \in Int
  BY Address
<1>5. LogsRecycle(m, l, first, prev, next) = [nand |-> m2, lists |-> l2]
  BY DEF LogsRecycle
<1> HIDE DEF m1, l1, lastFull, partial
<1>6. m2 \in GoodMemory
  BY <1>1, <1>2, WritesGood, LinkGood
<1>7. l2 \in ListsType
  BY <1>3, <1>4 DEF ListsType
<1> HIDE DEF m2, l2
<1> QED BY <1>5, <1>6, <1>7

(* The pair of slots getFreePtr gives, and the map that is left. *)
LEMMA Pair ==
  ASSUME NEW vm \in GoodMaps, vm.freePtr # 0, PopFreePtr(vm).freePtr > 0
  PROVE  /\ vm.freePtr \in Ids /\ vm.freePtr % 2 = 1
         /\ PopFreePtr(vm).freePtr = vm.freePtr + 1 /\ vm.freePtr + 1 \in Ids
         /\ PopFreePtr(PopFreePtr(vm)) =
              [vm EXCEPT !.freePtr = IF vm.freePtr + 1 < MaxId THEN vm.freePtr + 2 ELSE 0]
<1> USE MaxIdAssumption
<1> DEFINE f == vm.freePtr
<1>0. /\ f \in Ids /\ f % 2 = 1
      /\ \A i \in Ids : i >= f => vm.map[i] = FreshMap.map[i]
      /\ vm \in MapType
  BY Zenon DEF GoodMaps
<1>1. /\ f \in Ids /\ f > 0 /\ f % 2 = 1
      /\ \A i \in Ids : i >= f => vm.map[i] = FreshMap.map[i]
      /\ vm \in [freePtr : Int, map : [Ids -> Int]]
  <2>1. f \in Ids /\ f # 0
    BY <1>0, Zenon
  <2>2. f > 0
    <3> HIDE DEF f
    <3> QED BY <2>1, SMT DEF Ids
  <2> QED BY <1>0, <2>2, Zenon DEF MapType
<1>2. \A i \in Ids : i > 0 => FreshMap.map[i] = IF i < MaxId THEN -(i + 1) ELSE 0
  BY DEF FreshMap, Ids
<1>3. vm.map[f] = IF f < MaxId THEN -(f + 1) ELSE 0
  <2>1. f \in Ids /\ f > 0 /\ f >= f
    BY <1>1 DEF Ids
  <2>2. vm.map[f] = FreshMap.map[f]
    BY <1>1, <2>1, Zenon
  <2>3. FreshMap.map[f] = IF f < MaxId THEN -(f + 1) ELSE 0
    BY <1>2, <2>1, Zenon
  <2> QED BY <2>2, <2>3, Zenon
<1>4. f < MaxId /\ PopFreePtr(vm) = [vm EXCEPT !.freePtr = f + 1]
  <2>1. PopFreePtr(vm) = [vm EXCEPT !.freePtr = Abs(vm.map[f])]
    BY DEF PopFreePtr
  <2>2. PopFreePtr(vm).freePtr = Abs(vm.map[f])
    BY <1>1, <2>1
  <2>3. f < MaxId
    BY <1>1, <1>3, <2>2 DEF Abs, Ids
  <2>4. Abs(vm.map[f]) = f + 1
    BY <1>1, <1>3, <2>3 DEF Abs, Ids
  <2> QED BY <2>1, <2>3, <2>4
<1>5. f + 1 \in Ids /\ vm.map[f + 1] = IF f + 1 < MaxId THEN -(f + 2) ELSE 0
  <2> DEFINE g == f + 1
  <2>1. g \in Ids /\ g > 0 /\ g >= f /\ g + 1 = f + 2
    <3> HIDE DEF f
    <3> QED BY <1>1, <1>4, SMT DEF Ids
  <2>2. vm.map[g] = FreshMap.map[g]
    <3> HIDE DEF g
    <3> QED BY <1>1, <2>1, Zenon
  <2>3. FreshMap.map[g] = IF g < MaxId THEN -(g + 1) ELSE 0
    <3> HIDE DEF g
    <3> QED BY <1>2, <2>1, Zenon
  <2> QED BY <2>1, <2>2, <2>3, Zenon
<1>6. PopFreePtr(PopFreePtr(vm)) =
        [vm EXCEPT !.freePtr = IF f + 1 < MaxId THEN f + 2 ELSE 0]
  <2> DEFINE w == [vm EXCEPT !.freePtr = f + 1]
             z == IF f + 1 < MaxId THEN f + 2 ELSE 0
  <2>1. w.freePtr = f + 1 /\ w.map = vm.map /\ w \in [freePtr : Int, map : [Ids -> Int]]
    BY <1>1 DEF Ids
  <2>2. Abs(w.map[w.freePtr]) = z
    BY <1>1, <1>5, <2>1 DEF Abs, Ids
  <2>3. PopFreePtr(w) = [w EXCEPT !.freePtr = Abs(w.map[w.freePtr])]
    BY DEF PopFreePtr
  <2> HIDE DEF z
  <2>4. [w EXCEPT !.freePtr = z] = [vm EXCEPT !.freePtr = z]
    BY <1>1
  <2> HIDE DEF w
  <2>5. PopFreePtr(w) = [vm EXCEPT !.freePtr = z]
    BY <2>2, <2>3, <2>4
  <2>6. PopFreePtr(vm) = w
    BY <1>4 DEF w
  <2> QED BY <2>5, <2>6 DEF z
<1> QED BY <1>1, <1>4, <1>5, <1>6

-----------------------------------------------------------------------------
(* A set onto which a finite set is mapped is finite and no larger. *)
LEMMA ImageSmaller ==
  ASSUME NEW S, IsFiniteSet(S), NEW T, NEW F \in [S -> T], \A t \in T : \E s \in S : F[s] = t
  PROVE  IsFiniteSet(T) /\ Cardinality(T) <= Cardinality(S)
<1>1. F \in Surjection(S, T)
  BY Zenon DEF Surjection
<1> QED BY <1>1, FS_Surjection, Zenon

(* While an entry has no stub, an inode is left for one. *)
LEMMA InodeLeft ==
  ASSUME FsType, NEW e \in Entries, stub[e] = NoStub
  PROVE  FreeInode \in Inodes /\ \A f \in Entries : stub[f].ino # FreeInode
<1> DEFINE N == Cardinality(Entries)
           Others == Entries \ {e}
           Used == {stub[f].ino : f \in Others}
           F == [f \in Others |-> stub[f].ino]
<1>1. IsFiniteSet(Entries) /\ N \in Nat
  BY EntriesAssumption, FS_CardinalityType
<1>2. IsFiniteSet(Others) /\ Cardinality(Others) = N - 1
  BY <1>1, FS_RemoveElement
<1>3. IsFiniteSet(Used) /\ Cardinality(Used) <= Cardinality(Others)
  <2>1. F \in [Others -> Used]
    OBVIOUS
  <2>2. \A t \in Used : \E f \in Others : F[f] = t
    OBVIOUS
  <2> HIDE DEF F, Used, Others
  <2> QED BY <1>2, <2>1, <2>2, ImageSmaller, Zenon
<1>4. IsFiniteSet(Inodes) /\ Cardinality(Inodes) = N
  <2>1. N = 0 \/ N >= 1
    BY <1>1
  <2> HIDE DEF N
  <2>2. IsFiniteSet(1 .. N) /\ Cardinality(1 .. N) = IF 1 > N THEN 0 ELSE N - 1 + 1
    BY <1>1, FS_Interval
  <2> QED BY <1>1, <2>1, <2>2 DEF Inodes, N
<1>5. ~ (Inodes \subseteq Used)
  <2> SUFFICES ASSUME Inodes \subseteq Used PROVE FALSE
    OBVIOUS
  <2> HIDE DEF Used, Others, N
  <2>1. Cardinality(Inodes) <= Cardinality(Used)
    BY <1>3, FS_Subset
  <2>2. Cardinality(Used) \in Nat
    BY <1>3, FS_CardinalityType
  <2> QED BY <1>1, <1>2, <1>3, <1>4, <2>1, <2>2
<1>6. PICK i \in Inodes : i \notin Used
  BY <1>5
<1>7. i # 0
  BY <1>1, <1>6 DEF Inodes
<1>8. \A f \in Entries : stub[f].ino # i
  BY <1>6, <1>7 DEF NoStub
<1> QED BY <1>6, <1>8 DEF FreeInode

(* The words a world puts into unset memory. *)
LEMMA Junk ==
  ASSUME FsType
  PROVE  /\ \A junk \in world.links : junk \in Int
         /\ \A mod \in world.flags : mod \in Nat
         /\ world.slots \in Nat
<1>1. world \in [links : (SUBSET Nat) \ {{}}, flags : (SUBSET Nat) \ {{}},
                 crashes : BOOLEAN, files : Nat, slots : Nat]
  BY WorldsAssumption DEF FsType
<1>2. world.links \subseteq Nat /\ world.flags \subseteq Nat /\ world.slots \in Nat
  BY <1>1
<1>3. \A n \in Nat : n \in Int
  OBVIOUS
<1> QED BY <1>2, <1>3, Zenon

(* What xmp_create takes: an odd slot, the next one and a page. *)
LEMMA AllocationGood ==
  ASSUME FsType, NEW junk \in Int, SlotsLeft
  PROVE  /\ Allocation(junk).fileID \in Ids /\ Allocation(junk).fileID % 2 = 1
         /\ Allocation(junk).logID \in Ids
         /\ Allocation(junk).logID = Allocation(junk).fileID + 1
         /\ Allocation(junk).vaddrMap \in GoodMaps
         /\ Allocation(junk).lists \in ListsType
         /\ Allocation(junk).nand \in GoodMemory
         /\ Allocation(junk).log \in LogType
<1> USE MaxIdAssumption
<1> DEFINE f == vaddrMap.freePtr
           g == GetFreeBlock(nand, lists, TRUE, junk)
           z == IF f + 1 < MaxId THEN f + 2 ELSE 0
           v == [vaddrMap EXCEPT !.freePtr = z]
           M == [vaddrMap.map EXCEPT ![f + 1] = g.page, ![f] = g.page]
           w == [v EXCEPT !.map = M]
           B == BlockOf(g.page)
           log == [nextPage |-> g.page, last |-> B, first |-> B, prev |-> -1,
                   logId |-> f + 1, fileId |-> f]
<1>1. f # 0 /\ PopFreePtr(vaddrMap).freePtr > 0
  <2>1. PopFreePtr(vaddrMap).freePtr \in 1 .. world.slots /\ f # 0
    BY DEF SlotsLeft
  <2>2. world.slots \in Nat
    BY Junk
  <2> QED BY <2>1, <2>2
<1>2. /\ f \in Ids /\ f % 2 = 1 /\ f + 1 \in Ids
      /\ PopFreePtr(vaddrMap).freePtr = f + 1
      /\ PopFreePtr(PopFreePtr(vaddrMap)) = v
  BY <1>1, Pair DEF FsType
<1>3. g.page \in Int /\ g.lists \in ListsType /\ g.nand \in GoodMemory
  BY FreeBlockGood DEF FsType
<1>4. B \in Int
  BY <1>3, Address
<1>5. vaddrMap \in [freePtr : Int, map : [Ids -> Int]]
      /\ \A i \in Ids : i >= f => vaddrMap.map[i] = FreshMap.map[i]
  BY <1>1, Zenon DEF FsType, GoodMaps, MapType
<1>6. v.map = vaddrMap.map /\ v.freePtr = z
  BY <1>5
<1>7. Allocation(junk) = [fileID |-> f, logID |-> f + 1, vaddrMap |-> w,
                          lists |-> g.lists, nand |-> g.nand, log |-> log]
  <2> HIDE DEF v, g
  <2>1. Allocation(junk) =
          [fileID |-> f, logID |-> f + 1,
           vaddrMap |-> [v EXCEPT !.map = [@ EXCEPT ![f + 1] = g.page, ![f] = g.page]],
           lists |-> g.lists, nand |-> g.nand, log |-> log]
    BY <1>2 DEF Allocation, g
  <2>2. [v EXCEPT !.map = [@ EXCEPT ![f + 1] = g.page, ![f] = g.page]] = w
    BY <1>6
  <2> QED BY <2>1, <2>2, Zenon
<1>8. w \in GoodMaps
  <2> HIDE DEF g
  <2>1. M \in [Ids -> Int]
    BY <1>2, <1>3, <1>5
  <2>2. z \in Ids /\ (z # 0 => z = f + 2 /\ z % 2 = 1)
    <3> HIDE DEF f
    <3> QED BY <1>2 DEF Ids
  <2>3. \A i \in Ids : i >= f + 2 => M[i] = FreshMap.map[i]
    <3> SUFFICES ASSUME NEW i \in Ids, i >= f + 2 PROVE M[i] = FreshMap.map[i]
      OBVIOUS
    <3>1. i # f /\ i # f + 1 /\ i >= f
      <4> HIDE DEF f
      <4> QED BY <1>2 DEF Ids
    <3>2. M[i] = vaddrMap.map[i]
      BY <1>2, <1>5, <3>1
    <3> QED BY <1>5, <3>1, <3>2, Zenon
  <2>4. w.freePtr = z /\ w.map = M /\ w \in [freePtr : Int, map : [Ids -> Int]]
    <3> HIDE DEF M, z
    <3>1. z \in Int
      BY <2>2 DEF Ids
    <3> QED BY <1>5, <2>1, <3>1
  <2>5. \A i \in Ids : z # 0 /\ i >= z => M[i] = FreshMap.map[i]
    <3> HIDE DEF z, M, f
    <3> QED BY <2>2, <2>3
  <2> HIDE DEF w, z, M
  <2> QED BY <2>2, <2>4, <2>5, Zenon DEF GoodMaps, MapType
<1>9. log \in LogType
  <2> HIDE DEF g, B, f
  <2> QED BY <1>2, <1>3, <1>4 DEF LogType
<1> HIDE DEF f, w, g, log
<1> QED BY <1>2, <1>3, <1>7, <1>8, <1>9

-----------------------------------------------------------------------------
LEMMA FreshGood == FreshLists \in ListsType /\ FreshMap \in GoodMaps
<1> USE MaxIdAssumption, BlockSizeAssumption, NumBlocksAssumption
<1>1. FreshLists \in ListsType
  BY DEF FreshLists, ListsType
<1>2. FreshMap \in MapType /\ FreshMap.freePtr = 1
  BY DEF FreshMap, MapType, Ids
<1>3. 1 \in Ids /\ 1 % 2 = 1
  BY DEF Ids
<1> QED BY <1>1, <1>2, <1>3 DEF GoodMaps

(* The memory makefs leaves. *)
LEMMA MakefsGood ==
  /\ ZeroNAND \in GoodMemory
  /\ WriteOutSuperBlock(ZeroNAND) \in GoodMemory
  /\ WriteOutVaddrMap(WriteOutSuperBlock(ZeroNAND)) \in GoodMemory
<1> USE BlockSizeAssumption, NumBlocksAssumption
<1> DEFINE super == NewPage(SuperPayload(FreshLists), -1, 0, PTYPE_SUPER)
           map == NewPage(MapPayload(FreshMap), 0, 0, PTYPE_ADDRMAP)
           m1 == WriteOutSuperBlock(ZeroNAND)
           m2 == WriteOutVaddrMap(m1)
<1>0. 0 \in Int /\ BLOCKSIZE \in Int
  OBVIOUS
<1>1. ZeroNAND \in GoodMemory
  BY ZeroPageGood DEF ZeroNAND, GoodMemory, GoodBlocks
<1>2. super \in GoodPages
  BY FreshGood DEF NewPage, SuperPayload, GoodPages, GoodPayloads, SuperPayloads, PTYPE_SUPER
<1>3. map \in GoodPages
  BY FreshGood DEF NewPage, MapPayload, GoodPages, GoodPayloads, MapPayloads, PTYPE_ADDRMAP
<1>4. m1 \in GoodMemory
  <2> HIDE DEF super
  <2>1. WriteNAND(ZeroNAND, 0, super, FALSE) \in GoodMemory
    BY <1>0, <1>1, <1>2, WritesGood, Zenon
  <2> QED BY <2>1 DEF WriteOutSuperBlock, super
<1>5. m2 \in GoodMemory
  <2> HIDE DEF map, m1
  <2>1. WriteNAND(m1, BLOCKSIZE, map, FALSE) \in GoodMemory
    BY <1>0, <1>3, <1>4, WritesGood, Zenon
  <2> QED BY <2>1 DEF WriteOutVaddrMap, map
<1> QED BY <1>1, <1>4, <1>5

LEMMA FormattedGood == Formatted \in GoodMemory
<1> USE BlockSizeAssumption, NumBlocksAssumption
<1> DEFINE m2 == WriteOutVaddrMap(WriteOutSuperBlock(ZeroNAND))
           link(b) == NewPage(Blank, 0, (b + 1) * BLOCKSIZE, PTYPE_NEXTLINK)
<1>1. m2 \in GoodMemory
  BY MakefsGood
<1>2. ASSUME NEW b \in Blocks
      PROVE  WriteNAND(m2, b * BLOCKSIZE, link(b), FALSE)[b] \in GoodBlocks
  <2>1. link(b) \in GoodPages
    <3>1. (b + 1) * BLOCKSIZE \in Int
      BY DEF Blocks
    <3> QED BY <3>1 DEF NewPage, GoodPages, GoodPayloads, PTYPE_NEXTLINK
  <2>2. b * BLOCKSIZE \in Int
    BY DEF Blocks
  <2> HIDE DEF m2, link
  <2>3. WriteNAND(m2, b * BLOCKSIZE, link(b), FALSE) \in GoodMemory
    BY <1>1, <2>1, <2>2, WritesGood
  <2> QED BY <2>3 DEF GoodMemory
<1>3. Formatted = [b \in Blocks |-> IF b \in 2 .. NumBlocks - 2
                                      THEN WriteNAND(m2, b * BLOCKSIZE, link(b), FALSE)[b]
                                      ELSE m2[b]]
  BY DEF Formatted, LinkFreeBlocks
<1> HIDE DEF m2, link
<1> QED BY <1>1, <1>2, <1>3 DEF GoodMemory

LEMMA NoTableType == NoTable \in TableType /\ \A id \in Ids : NoTable[id].kind # "file"
BY DEF NoTable, TableType, NULL

LEMMA FsStarts == Init => FsInv
<1> SUFFICES ASSUME Init PROVE FsInv
  OBVIOUS
<1>1. FsType
  <2>1. [e \in Entries |-> NoStub] \in [Entries -> [ino : {0} \cup Inodes, fileId : Ids]]
    BY MaxIdAssumption DEF NoStub, Ids
  <2>2. IsFiniteSet({})
    BY FS_EmptySet
  <2> QED BY <2>1, <2>2, FreshGood, FormattedGood, NoTableType DEF Init, FsType
<1>2. StubsNumbered
  BY DEF Init, StubsNumbered
<1>3. HandlesFound /\ Counted
  BY NoTableType DEF Init, HandlesFound, Counted
<1> QED BY <1>1, <1>2, <1>3 DEF Init, FsInv

(* Nothing about handles and openFiles changes with the rest of the state. *)
LEMMA TableKept ==
  ASSUME HandlesFound, Counted, UNCHANGED <<table, handles>>
  PROVE  HandlesFound' /\ Counted'
BY DEF HandlesFound, Counted, HandlesOn

(* The daemon stops, in an orderly way or not. *)
LEMMA StopKeeps ==
  ASSUME FsInv, Stopped, nand' \in GoodMemory,
         stub' \in [Entries -> [ino : {0} \cup Inodes, fileId : Ids]], StubsNumbered'
  PROVE  FsInv'
<1>1. FsType'
  <2>1. IsFiniteSet({})
    BY FS_EmptySet
  <2>2. /\ mounted' = FALSE /\ lists' = FreshLists /\ vaddrMap' = FreshMap
        /\ table' = NoTable /\ handles' = {} /\ hidden' = {} /\ world' = world
    BY DEF Stopped
  <2>3. world' \in Worlds
    BY <2>2 DEF FsInv, FsType
  <2> QED BY <2>1, <2>2, <2>3, FreshGood, NoTableType DEF FsType
<1>2. HandlesFound' /\ Counted' /\ handles' = {}
  BY NoTableType DEF HandlesFound, Counted, Stopped
<1> QED BY <1>1, <1>2 DEF FsInv

LEMMA MountKeeps ==
  ASSUME FsInv, Mount
  PROVE  FsInv'
<1> USE BlockSizeAssumption, NumBlocksAssumption, LogSpaceAssumption
<1> DEFINE super == ReadNAND(nand, 0).contents
           page == ReadNAND(nand, super.latest_vaddr_map)
<1>1. 0 \in Pages /\ BLOCKSIZE \in Pages
  <2>1. NumBlocks * BLOCKSIZE >= 3 * BLOCKSIZE
    OBVIOUS
  <2> QED BY <2>1 DEF Pages
<1>2. super \in GoodPayloads /\ super.kind = "super"
  BY <1>1, ReadGood DEF FsInv, FsType, Mount, SuperIntact, GoodPages
<1>3. super.freeLists \in ListsType /\ super.latest_vaddr_map = BLOCKSIZE
  <2> HIDE DEF super
  <2> QED BY <1>2 DEF GoodPayloads, SuperPayloads, MapPayloads, HeaderPayloads, Blank
<1>4. page.contents \in GoodPayloads /\ page.contents.kind = "map"
  <2>1. page \in GoodPages
    <3> HIDE DEF super
    <3> QED BY <1>1, <1>3, ReadGood DEF FsInv, FsType
  <2> QED BY <2>1 DEF Mount, GoodPages
<1>5. page.contents.vaddrMap \in GoodMaps
  <2> HIDE DEF page
  <2> QED BY <1>4 DEF GoodPayloads, SuperPayloads, MapPayloads, HeaderPayloads, Blank
<1>6. /\ lists' = super.freeLists /\ vaddrMap' = page.contents.vaddrMap
      /\ mounted' = TRUE /\ table' = NoTable
      /\ UNCHANGED <<nand, stub, handles, hidden, world>> /\ handles = {}
  BY DEF Mount, FsInv
<1> HIDE DEF super, page
<1>7. FsType'
  BY <1>3, <1>5, <1>6, NoTableType DEF FsInv, FsType
<1>8. StubsNumbered'
  BY <1>6 DEF FsInv, StubsNumbered
<1>9. HandlesFound' /\ Counted'
  BY <1>6, NoTableType DEF HandlesFound, Counted
<1> QED BY <1>6, <1>7, <1>8, <1>9 DEF FsInv

(* What xmp_destroy writes: the lists to page 0 and the map to its page. *)
LEMMA DestroyWrites ==
  ASSUME FsInv, Destroy
  PROVE  \E page, mapPage \in GoodPages :
           /\ page.contents.freeLists = lists
           /\ mapPage.contents = MapPayload(vaddrMap)
           /\ nand' = WriteNAND(WriteNAND(nand, 0, page, TRUE), BLOCKSIZE, mapPage, TRUE)
<1> USE BlockSizeAssumption, NumBlocksAssumption, LogSpaceAssumption
<1> DEFINE old == ReadNAND(nand, 0)
           page == [old EXCEPT !.contents.freeLists = lists]
           mapPage == [page EXCEPT !.contents = MapPayload(vaddrMap)]
<1>0. 0 \in Int /\ BLOCKSIZE \in Int
  OBVIOUS
<1>1. 0 \in Pages
  <2>1. NumBlocks * BLOCKSIZE >= 3 * BLOCKSIZE
    OBVIOUS
  <2> QED BY <2>1 DEF Pages
<1>2. old \in GoodPages /\ old.contents.kind = "super"
  BY <1>1, ReadGood DEF FsInv, FsType, Destroy, SuperIntact
<1>3. old.contents \in SuperPayloads
  <2> HIDE DEF old
  <2>1. old.contents \in GoodPayloads
    BY <1>2 DEF GoodPages
  <2> QED BY <1>2, <2>1 DEF GoodPayloads, SuperPayloads, MapPayloads, HeaderPayloads, Blank
<1>4. lists \in ListsType /\ vaddrMap \in GoodMaps /\ nand \in GoodMemory
  BY DEF FsInv, FsType
<1> DEFINE c == [old.contents EXCEPT !.freeLists = lists]
<1>5. c \in SuperPayloads /\ c.latest_vaddr_map = BLOCKSIZE
  <2> HIDE DEF old
  <2> QED BY <1>3, <1>4 DEF SuperPayloads
<1>6. page = [old EXCEPT !.contents = c]
  <2> HIDE DEF old
  <2> QED BY <1>2 DEF GoodPages
<1>7. page \in GoodPages /\ page.contents = c
  <2> HIDE DEF c, page, old
  <2>1. c \in GoodPayloads
    BY <1>5 DEF GoodPayloads
  <2> QED BY <1>2, <1>6, <2>1 DEF GoodPages
<1>8. mapPage \in GoodPages
  <2>1. MapPayload(vaddrMap) \in GoodPayloads
    BY <1>4 DEF MapPayload, GoodPayloads, MapPayloads
  <2> HIDE DEF page
  <2> QED BY <1>7, <2>1 DEF GoodPages
<1>9. nand' = WriteNAND(WriteNAND(nand, 0, page, TRUE), BLOCKSIZE, mapPage, TRUE)
  <2>1. nand' = WriteNAND(WriteNAND(nand, 0, page, TRUE),
                          page.contents.latest_vaddr_map, mapPage, TRUE)
    BY DEF Destroy
  <2> HIDE DEF page, mapPage, c
  <2> QED BY <1>5, <1>7, <2>1
<1>10. page.contents.freeLists = lists
  <2>1. c.freeLists = lists
    <3> HIDE DEF old
    <3> QED BY <1>3 DEF SuperPayloads
  <2> HIDE DEF page, c
  <2> QED BY <1>7, <2>1
<1>11. mapPage.contents = MapPayload(vaddrMap)
  <2> HIDE DEF page
  <2> QED BY <1>7 DEF GoodPages
<1> HIDE DEF page, mapPage, c
<1> QED BY <1>7, <1>8, <1>9, <1>10, <1>11, Zenon

LEMMA DestroyKeeps ==
  ASSUME FsInv, Destroy
  PROVE  FsInv'
<1> USE BlockSizeAssumption
<1>1. PICK page \in GoodPages, mapPage \in GoodPages :
        nand' = WriteNAND(WriteNAND(nand, 0, page, TRUE), BLOCKSIZE, mapPage, TRUE)
  BY DestroyWrites, Zenon
<1>2. 0 \in Int /\ BLOCKSIZE \in Int /\ nand \in GoodMemory
  BY DEF FsInv, FsType
<1>3. WriteNAND(nand, 0, page, TRUE) \in GoodMemory
  BY <1>2, WritesGood, Zenon
<1>4. nand' \in GoodMemory
  BY <1>1, <1>2, <1>3, WritesGood, Zenon
<1>5. stub' \in [Entries -> [ino : {0} \cup Inodes, fileId : Ids]] /\ StubsNumbered'
  BY DEF Destroy, FsInv, FsType, StubsNumbered
<1> QED BY <1>4, <1>5, StopKeeps DEF Destroy

LEMMA CrashKeeps ==
  ASSUME FsInv, Crash
  PROVE  FsInv'
<1>1. /\ nand' \in GoodMemory /\ StubsNumbered'
      /\ stub' \in [Entries -> [ino : {0} \cup Inodes, fileId : Ids]]
  BY DEF Crash, FsInv, FsType, StubsNumbered
<1> QED BY <1>1, StopKeeps DEF Crash

-----------------------------------------------------------------------------
(* The handles given out before a file takes slot f: those on the openFile *)
(* that was there are on no slot any more, the others are as they were.    *)
LEMMA Detached ==
  ASSUME FsInv, NEW f \in Ids
  PROVE  /\ IsFiniteSet(Detach(f))
         /\ Detach(f) \subseteq Entries \X (1 .. MaxOpens) \X Ids
         /\ \A h \in Detach(f) : h[3] # 0 => h \in handles /\ h[3] # f
         /\ \A h \in handles : h[3] # f => h \in Detach(f)
<1> USE MaxIdAssumption
<1> DEFINE D(h) == <<h[1], h[2], IF h[3] = f THEN 0 ELSE h[3]>>
           F == [h \in handles |-> D(h)]
<1>1. Detach(f) = {D(h) : h \in handles}
  BY DEF Detach
<1>2. handles \subseteq Entries \X (1 .. MaxOpens) \X Ids /\ IsFiniteSet(handles)
  BY DEF FsInv, FsType
<1>3. IsFiniteSet(Detach(f))
  <2>1. F \in [handles -> Detach(f)] /\ \A t \in Detach(f) : \E h \in handles : F[h] = t
    <3> HIDE DEF D
    <3> QED BY <1>1
  <2> HIDE DEF F
  <2> QED BY <1>2, <2>1, ImageSmaller, Zenon
<1>4. ASSUME NEW h \in handles
      PROVE  /\ D(h) \in Entries \X (1 .. MaxOpens) \X Ids
             /\ D(h)[3] = IF h[3] = f THEN 0 ELSE h[3]
             /\ h[3] # f => D(h) = h
  <2>1. h \in Entries \X (1 .. MaxOpens) \X Ids
    BY <1>2
  <2>2. 0 \in Ids
    BY DEF Ids
  <2> QED BY <2>1, <2>2
<1> HIDE DEF D
<1>5. Detach(f) \subseteq Entries \X (1 .. MaxOpens) \X Ids
  BY <1>1, <1>4, Zenon
<1>6. ASSUME NEW x \in Detach(f), x[3] # 0
      PROVE  x \in handles /\ x[3] # f
  <2>1. PICK h \in handles : x = D(h)
    BY <1>1
  <2>2. h[3] # f
    BY <1>4, <1>6, <2>1
  <2> QED BY <1>4, <2>1, <2>2
<1>7. \A h \in handles : h[3] # f => h \in Detach(f)
  BY <1>1, <1>4, Zenon
<1> QED BY <1>3, <1>5, <1>6, <1>7

(* A new file takes slot f for its openFile and slot f + 1 for its log. *)
LEMMA TakesSlots ==
  ASSUME FsInv, NEW f \in Ids, f % 2 = 1, f + 1 \in Ids,
         NEW o \in OpenFiles, o.currentOpens = 1, o.mainExtentLog \in LogType,
         table' = [table EXCEPT ![f + 1] = LogEntry, ![f] = o],
         NEW S, IsFiniteSet(S), Cardinality(S) <= 1,
         S \subseteq Entries \X (1 .. MaxOpens) \X Ids, \A h \in S : h[3] = f,
         handles' = Detach(f) \cup S
  PROVE  /\ table' \in TableType
         /\ IsFiniteSet(handles')
         /\ handles' \subseteq Entries \X (1 .. MaxOpens) \X Ids
         /\ HandlesFound' /\ Counted'
<1>1. /\ IsFiniteSet(Detach(f))
      /\ Detach(f) \subseteq Entries \X (1 .. MaxOpens) \X Ids
      /\ \A h \in Detach(f) : h[3] # 0 => h \in handles /\ h[3] # f
      /\ \A h \in handles : h[3] # f => h \in Detach(f)
  BY Detached
<1>2. table \in TableType /\ HandlesFound /\ Counted
  BY DEF FsInv, FsType
<1>3. table' \in TableType
  <2>1. LogEntry \in {NULL, LogEntry} \cup OpenFiles
    OBVIOUS
  <2> QED BY <1>2, <2>1 DEF TableType
<1>4. /\ table'[f] = o /\ table'[f].kind = "file"
      /\ table'[f + 1].kind # "file"
      /\ \A id \in Ids : id # f /\ id # f + 1 => table'[id] = table[id]
  <2>1. f \in Int /\ f # f + 1
    BY DEF Ids
  <2>2. table'[f] = o /\ table'[f + 1] = LogEntry
    BY <1>2, <2>1 DEF TableType
  <2>3. o.kind = "file" /\ LogEntry.kind # "file"
    BY DEF OpenFiles, LogEntry
  <2> QED BY <1>2, <2>2, <2>3 DEF TableType
<1>5. \A id \in Ids : id % 2 = 1 => id # f + 1
  BY DEF Ids
<1>6. IsFiniteSet(handles') /\ handles' \subseteq Entries \X (1 .. MaxOpens) \X Ids
  <2>1. IsFiniteSet(Detach(f) \cup S)
    BY <1>1, FS_Union, Zenon
  <2> QED BY <1>1, <2>1
<1>7. \A h \in handles' : h[3] \in Ids
  BY <1>6
<1>8. HandlesFound'
  <2> SUFFICES ASSUME NEW h \in handles', h[3] # 0
               PROVE  h[3] % 2 = 1 /\ table'[h[3]].kind = "file"
    BY DEF HandlesFound
  <2>1. CASE h \in S
    BY <1>4, <2>1
  <2>2. CASE h \in Detach(f)
    <3>1. h \in handles /\ h[3] # f
      BY <1>1, <2>2
    <3>2. h[3] % 2 = 1 /\ table[h[3]].kind = "file"
      BY <1>2, <3>1 DEF HandlesFound
    <3>3. h[3] # f + 1
      BY <1>5, <1>7, <3>2
    <3> QED BY <1>4, <1>7, <3>1, <3>2, <3>3
  <2> QED BY <2>1, <2>2
<1>9. Counted'
  <2> SUFFICES ASSUME NEW id \in Ids, table'[id].kind = "file"
               PROVE  /\ id % 2 = 1
                      /\ table'[id].currentOpens >= Cardinality(HandlesOn(id)')
                      /\ table'[id].mainExtentLog \notin LogType =>
                           table'[id].currentOpens > Cardinality(HandlesOn(id)')
    BY DEF Counted
  <2>1. CASE id = f
    <3>1. HandlesOn(f)' \subseteq S
      <4> SUFFICES ASSUME NEW h \in handles', h[3] = f PROVE h \in S
        BY DEF HandlesOn
      <4>1. f # 0
        OBVIOUS
      <4> QED BY <1>1, <4>1
    <3>2. IsFiniteSet(HandlesOn(f)') /\ Cardinality(HandlesOn(f)') <= Cardinality(S)
      BY <3>1, FS_Subset
    <3>3. Cardinality(HandlesOn(f)') \in Nat /\ Cardinality(S) \in Nat
      BY <3>2, FS_CardinalityType
    <3>4. 1 >= Cardinality(HandlesOn(f)')
      BY <3>2, <3>3
    <3> QED BY <1>4, <2>1, <3>4
  <2>2. CASE id # f
    <3>1. id # f + 1 /\ table'[id] = table[id]
      BY <1>4, <2>2
    <3>2. id % 2 = 1 /\ id # 0
      BY <1>2, <3>1 DEF Counted
    <3>3. HandlesOn(id)' = HandlesOn(id)
      <4>1. \A h \in handles' : h[3] = id => h \in handles
        BY <1>1, <2>2, <3>2
      <4>2. \A h \in handles : h[3] = id => h \in handles'
        BY <1>1, <2>2
      <4> QED BY <4>1, <4>2 DEF HandlesOn
    <3> QED BY <1>2, <3>1, <3>3 DEF Counted
  <2> QED BY <2>1, <2>2
<1> QED BY <1>3, <1>6, <1>8, <1>9

(* The stub xmp_create writes. *)
LEMMA StubWritten ==
  ASSUME FsInv, NEW e \in Entries, stub[e] = NoStub, NEW f \in Ids, f % 2 = 1,
         stub' = [stub EXCEPT ![e] = [ino |-> FreeInode, fileId |-> f]]
  PROVE  stub' \in [Entries -> [ino : {0} \cup Inodes, fileId : Ids]] /\ StubsNumbered'
<1>1. FreeInode \in Inodes
  BY InodeLeft DEF FsInv
<1>2. FreeInode # 0
  <2>1. Cardinality(Entries) \in Nat
    BY EntriesAssumption, FS_CardinalityType
  <2> QED BY <1>1, <2>1 DEF Inodes
<1> DEFINE s == [ino |-> FreeInode, fileId |-> f]
<1>3. s \in [ino : {0} \cup Inodes, fileId : Ids] /\ s.ino # 0 /\ s.fileId % 2 = 1
  BY <1>1, <1>2
<1>4. stub \in [Entries -> [ino : {0} \cup Inodes, fileId : Ids]] /\ StubsNumbered
  BY DEF FsInv, FsType
<1>5. stub' = [stub EXCEPT ![e] = s]
  OBVIOUS
<1> HIDE DEF s
<1> QED BY <1>3, <1>4, <1>5 DEF StubsNumbered

(* The openFile of a new file. *)
LEMMA OpenFileGood ==
  ASSUME NEW n \in Nat, NEW mod \in Nat, NEW log \in {NoLog} \cup LogType
  PROVE  /\ OpenFile(n, mod, log) \in OpenFiles
         /\ OpenFile(n, mod, log).currentOpens = n
         /\ OpenFile(n, mod, log).mainExtentLog = log
BY DEF OpenFile, OpenFiles

(* A header for a log. *)
LEMMA HeaderGood ==
  ASSUME NEW log \in LogType, NEW link \in Int, NEW type \in Int
  PROVE  NewPage(HeaderPayload(log), 0, link, type) \in GoodPages
<1>1. HeaderPayload(log) \in GoodPayloads
  BY DEF HeaderPayload, LogType, GoodPayloads, HeaderPayloads
<1> QED BY <1>1 DEF NewPage, GoodPages

LEMMA CreateKeeps ==
  ASSUME FsInv, NEW e \in Entries, Create(e)
  PROVE  FsInv'
<1> USE MaxOpensAssumption
<1>1. FsType /\ SlotsLeft /\ stub[e] = NoStub /\ mounted
  BY DEF FsInv, Create, Unused, Serving
<1>2. PICK junk \in world.links, mod \in world.flags :
        LET a == Allocation(junk)
            p == GetFreePage(a.nand, a.lists, a.log, junk)
            header == NewPage(HeaderPayload(p.log), 0, p.link, PTYPE_INODE)
        IN /\ nand' = WriteNAND(p.nand, p.address, header, FALSE)
           /\ lists' = p.lists
           /\ vaddrMap' = a.vaddrMap
           /\ PutOpenFile(a, OpenFile(1, mod, p.log))
           /\ stub' = [stub EXCEPT ![e] = [ino |-> FreeInode, fileId |-> a.fileID]]
           /\ handles' = Detach(a.fileID) \cup {<<e, 1, a.fileID>>}
  BY Zenon DEF Create
<1>3. junk \in Int /\ mod \in Nat
  BY <1>1, Junk
<1> DEFINE a == Allocation(junk)
           p == GetFreePage(a.nand, a.lists, a.log, junk)
           header == NewPage(HeaderPayload(p.log), 0, p.link, PTYPE_INODE)
           o == OpenFile(1, mod, p.log)
           S == {<<e, 1, a.fileID>>}
<1>4. /\ nand' = WriteNAND(p.nand, p.address, header, FALSE)
      /\ lists' = p.lists /\ vaddrMap' = a.vaddrMap
      /\ table' = [table EXCEPT ![a.logID] = LogEntry, ![a.fileID] = o]
      /\ stub' = [stub EXCEPT ![e] = [ino |-> FreeInode, fileId |-> a.fileID]]
      /\ handles' = Detach(a.fileID) \cup S
  BY <1>2, Zenon DEF PutOpenFile
<1>5. /\ a.fileID \in Ids /\ a.fileID % 2 = 1 /\ a.logID \in Ids /\ a.logID = a.fileID + 1
      /\ a.vaddrMap \in GoodMaps /\ a.lists \in ListsType /\ a.nand \in GoodMemory
      /\ a.log \in LogType
  BY <1>1, <1>3, AllocationGood
<1> HIDE DEF a
<1>6. /\ p.address \in Int /\ p.link \in Int /\ p.lists \in ListsType
      /\ p.nand \in GoodMemory /\ p.log \in LogType
  BY <1>3, <1>5, FreePageGood
<1> HIDE DEF p
<1>7. header \in GoodPages
  <2>1. PTYPE_INODE \in Int
    BY DEF PTYPE_INODE
  <2> QED BY <1>6, <2>1, HeaderGood, Zenon
<1>8. o \in OpenFiles /\ o.currentOpens = 1 /\ o.mainExtentLog \in LogType
  BY <1>3, <1>6, OpenFileGood
<1> HIDE DEF header, o
<1>9. nand' \in GoodMemory
  BY <1>4, <1>6, <1>7, WritesGood, Zenon
<1>10. stub' \in [Entries -> [ino : {0} \cup Inodes, fileId : Ids]] /\ StubsNumbered'
  BY <1>1, <1>4, <1>5, StubWritten, Zenon
<1>11. /\ IsFiniteSet(S) /\ Cardinality(S) <= 1
       /\ S \subseteq Entries \X (1 .. MaxOpens) \X Ids /\ \A h \in S : h[3] = a.fileID
  <2>1. IsFiniteSet(S) /\ Cardinality(S) = 1
    BY FS_Singleton, Zenon
  <2>2. 1 \in 1 .. MaxOpens
    OBVIOUS
  <2> QED BY <1>5, <2>1, <2>2
<1> HIDE DEF S
<1>12. /\ table' \in TableType /\ IsFiniteSet(handles')
       /\ handles' \subseteq Entries \X (1 .. MaxOpens) \X Ids
       /\ HandlesFound' /\ Counted'
  <2>1. /\ table' = [table EXCEPT ![a.fileID + 1] = LogEntry, ![a.fileID] = o]
        /\ a.fileID + 1 \in Ids
    BY <1>4, <1>5, Zenon
  <2> QED BY <1>4, <1>5, <1>8, <1>11, <2>1, TakesSlots, Zenon
<1>13. mounted' = mounted /\ hidden' = hidden /\ world' = world
  BY DEF Create
<1>14. FsType'
  BY <1>1, <1>4, <1>5, <1>6, <1>9, <1>10, <1>12, <1>13 DEF FsType
<1> QED BY <1>1, <1>10, <1>12, <1>13, <1>14 DEF FsInv

LEMMA CreateFailsKeeps ==
  ASSUME FsInv, NEW e \in Entries, CreateFails(e)
  PROVE  FsInv'
<1>1. FsType /\ SlotsLeft /\ mounted
  BY DEF FsInv, CreateFails, Serving
<1>2. PICK junk \in world.links, mod \in world.flags :
        LET a == Allocation(junk) IN
          /\ nand' = a.nand
          /\ lists' = a.lists
          /\ vaddrMap' = a.vaddrMap
          /\ PutOpenFile(a, OpenFile(1, mod, a.log))
          /\ handles' = Detach(a.fileID)
  BY Zenon DEF CreateFails
<1>3. junk \in Int /\ mod \in Nat
  BY <1>1, Junk
<1> DEFINE a == Allocation(junk)
           o == OpenFile(1, mod, a.log)
<1>4. /\ nand' = a.nand /\ lists' = a.lists /\ vaddrMap' = a.vaddrMap
      /\ table' = [table EXCEPT ![a.logID] = LogEntry, ![a.fileID] = o]
      /\ handles' = Detach(a.fileID)
  BY <1>2, Zenon DEF PutOpenFile
<1>5. /\ a.fileID \in Ids /\ a.fileID % 2 = 1 /\ a.logID \in Ids /\ a.logID = a.fileID + 1
      /\ a.vaddrMap \in GoodMaps /\ a.lists \in ListsType /\ a.nand \in GoodMemory
      /\ a.log \in LogType
  BY <1>1, <1>3, AllocationGood
<1> HIDE DEF a
<1>6. o \in OpenFiles /\ o.currentOpens = 1 /\ o.mainExtentLog \in LogType
  BY <1>3, <1>5, OpenFileGood
<1> HIDE DEF o
<1>7. /\ table' \in TableType /\ IsFiniteSet(handles')
      /\ handles' \subseteq Entries \X (1 .. MaxOpens) \X Ids
      /\ HandlesFound' /\ Counted'
  <2>1. /\ table' = [table EXCEPT ![a.fileID + 1] = LogEntry, ![a.fileID] = o]
        /\ a.fileID + 1 \in Ids
    BY <1>4, <1>5, Zenon
  <2>2. handles' = Detach(a.fileID) \cup {}
    BY <1>4
  <2>3. IsFiniteSet({}) /\ Cardinality({}) <= 1 /\ {} \subseteq Entries \X (1 .. MaxOpens) \X Ids
        /\ \A h \in {} : h[3] = a.fileID
    BY FS_EmptySet
  <2> QED BY <1>5, <1>6, <2>1, <2>2, <2>3, TakesSlots, Zenon
<1>8. mounted' = mounted /\ hidden' = hidden /\ world' = world /\ stub' = stub
  BY DEF CreateFails
<1>9. FsType'
  BY <1>1, <1>4, <1>5, <1>7, <1>8 DEF FsType
<1>10. StubsNumbered'
  BY <1>8 DEF FsInv, StubsNumbered
<1> QED BY <1>1, <1>7, <1>8, <1>9, <1>10 DEF FsInv

LEMMA CreateCrashesKeeps ==
  ASSUME FsInv, NEW e \in Entries, CreateCrashes(e)
  PROVE  FsInv'
<1>1. FsType /\ SlotsLeft /\ stub[e] = NoStub /\ Stopped
  BY DEF FsInv, CreateCrashes, Unused
<1>2. PICK junk \in world.links :
        /\ nand' = Allocation(junk).nand
        /\ stub' = [stub EXCEPT ![e] = [ino |-> FreeInode, fileId |-> Allocation(junk).fileID]]
  BY Zenon DEF CreateCrashes
<1>3. junk \in Int
  BY <1>1, Junk
<1>4. /\ Allocation(junk).fileID \in Ids /\ Allocation(junk).fileID % 2 = 1
      /\ Allocation(junk).nand \in GoodMemory
  BY <1>1, <1>3, AllocationGood, Zenon
<1>5. stub' \in [Entries -> [ino : {0} \cup Inodes, fileId : Ids]] /\ StubsNumbered'
  BY <1>1, <1>2, <1>4, StubWritten, Zenon
<1> QED BY <1>1, <1>2, <1>4, <1>5, StopKeeps, Zenon

-----------------------------------------------------------------------------
(* xmp_open adds a handle on slot f, whose openFile counts one more. *)
LEMMA Opened ==
  ASSUME FsInv, NEW e \in Entries, NEW f \in Ids, f % 2 = 1, NewHandle(e, f),
         table' \in TableType, table'[f].kind = "file",
         table'[f].currentOpens > Cardinality(HandlesOn(f)),
         table'[f].mainExtentLog \notin LogType =>
           table'[f].currentOpens > Cardinality(HandlesOn(f)) + 1,
         \A id \in Ids : id # f =>
           table'[id] = table[id] \/ (table'[id] = LogEntry /\ table[id] = NULL)
  PROVE  /\ IsFiniteSet(handles')
         /\ handles' \subseteq Entries \X (1 .. MaxOpens) \X Ids
         /\ HandlesFound' /\ Counted'
<1>1. PICK n \in 1 .. MaxOpens : handles' = handles \cup {<<e, n, f>>}
  BY Zenon DEF NewHandle
<1> DEFINE x == <<e, n, f>>
<1>2. x \in Entries \X (1 .. MaxOpens) \X Ids /\ x[3] = f
  OBVIOUS
<1>3. handles' = handles \cup {x}
  BY <1>1
<1> HIDE DEF x
<1>4. /\ IsFiniteSet(handles) /\ handles \subseteq Entries \X (1 .. MaxOpens) \X Ids
      /\ HandlesFound /\ Counted /\ table \in TableType
  BY DEF FsInv, FsType
<1>5. IsFiniteSet(handles') /\ handles' \subseteq Entries \X (1 .. MaxOpens) \X Ids
  <2>1. IsFiniteSet(handles \cup {x})
    BY <1>4, FS_AddElement, Zenon
  <2> QED BY <1>2, <1>3, <1>4, <2>1
<1>6. \A id \in Ids : id # f /\ table[id].kind = "file" => table'[id] = table[id]
  BY DEF NULL
<1>7. \A id \in Ids : id # f /\ table'[id].kind = "file" => table'[id] = table[id]
  BY DEF LogEntry
<1>8. HandlesFound'
  <2> SUFFICES ASSUME NEW h \in handles', h[3] # 0
               PROVE  h[3] % 2 = 1 /\ table'[h[3]].kind = "file"
    BY DEF HandlesFound
  <2>1. CASE h[3] = f
    BY <2>1
  <2>2. CASE h[3] # f
    <3>1. h \in handles /\ h[3] \in Ids
      BY <1>2, <1>3, <1>5, <2>2
    <3>2. h[3] % 2 = 1 /\ table[h[3]].kind = "file"
      BY <1>4, <3>1, Zenon DEF HandlesFound
    <3> QED BY <1>6, <2>2, <3>1, <3>2
  <2> QED BY <2>1, <2>2
<1>9. Counted'
  <2> SUFFICES ASSUME NEW id \in Ids, table'[id].kind = "file"
               PROVE  /\ id % 2 = 1
                      /\ table'[id].currentOpens >= Cardinality(HandlesOn(id)')
                      /\ table'[id].mainExtentLog \notin LogType =>
                           table'[id].currentOpens > Cardinality(HandlesOn(id)')
    BY DEF Counted
  <2>1. CASE id = f
    <3>1. HandlesOn(f)' = HandlesOn(f) \cup {x}
      BY <1>2, <1>3 DEF HandlesOn
    <3>2. IsFiniteSet(HandlesOn(f))
      <4>1. HandlesOn(f) \in SUBSET handles
        BY DEF HandlesOn
      <4> QED BY <1>4, <4>1, FS_Subset, Zenon
    <3>3. Cardinality(HandlesOn(f)) \in Nat
      BY <3>2, FS_CardinalityType
    <3>4. Cardinality(HandlesOn(f)') = Cardinality(HandlesOn(f))
          \/ Cardinality(HandlesOn(f)') = Cardinality(HandlesOn(f)) + 1
      BY <3>1, <3>2, FS_AddElement
    <3>5. table'[f].currentOpens \in Nat
      BY DEF TableType, OpenFiles, NULL, LogEntry
    <3> DEFINE c == table'[f].currentOpens
               k == Cardinality(HandlesOn(f))
               k2 == Cardinality(HandlesOn(f)')
               out == table'[f].mainExtentLog \notin LogType
    <3>6. c \in Nat /\ k \in Nat /\ (k2 = k \/ k2 = k + 1) /\ c > k /\ (out => c > k + 1)
      BY <3>3, <3>4, <3>5
    <3>7. c >= k2 /\ (out => c > k2)
      <4> HIDE DEF c, k, k2, out
      <4> QED BY <3>6
    <3> QED BY <2>1, <3>7, Zenon
  <2>2. CASE id # f
    <3>1. table'[id] = table[id]
      BY <1>7, <2>2
    <3>2. HandlesOn(id)' = HandlesOn(id)
      BY <1>2, <1>3, <2>2 DEF HandlesOn
    <3> QED BY <1>4, <3>1, <3>2 DEF Counted
  <2> QED BY <2>1, <2>2
<1> QED BY <1>5, <1>8, <1>9

LEMMA OpenCachedKeeps ==
  ASSUME FsInv, NEW e \in Entries, OpenCached(e)
  PROVE  FsInv'
<1> DEFINE f == FileId(e)
           o == table[f]
           q == [o EXCEPT !.currentOpens = @ + 1]
<1>1. /\ mounted /\ stub[e] # NoStub /\ o.kind = "file"
      /\ table' = [table EXCEPT ![f].currentOpens = @ + 1]
      /\ NewHandle(e, f)
      /\ UNCHANGED <<nand, stub, mounted, lists, vaddrMap, hidden, world>>
  BY DEF OpenCached, Serving
<1>2. f \in Ids /\ f % 2 = 1
  BY <1>1 DEF FileId, FsInv, FsType, StubsNumbered
<1>3. FsType /\ table \in TableType /\ Counted
  BY DEF FsInv, FsType
<1> HIDE DEF f
<1>4. o \in OpenFiles
  BY <1>1, <1>2, <1>3 DEF TableType, NULL, LogEntry
<1>5. /\ q \in OpenFiles /\ q.kind = "file" /\ q.currentOpens = o.currentOpens + 1
      /\ q.mainExtentLog = o.mainExtentLog
  <2> HIDE DEF o
  <2> QED BY <1>4 DEF OpenFiles
<1>6. table' = [table EXCEPT ![f] = q]
  BY <1>1
<1> HIDE DEF q
<1>7. table' \in TableType /\ table'[f] = q /\ \A id \in Ids : id # f => table'[id] = table[id]
  BY <1>2, <1>3, <1>5, <1>6 DEF TableType
<1>8. /\ o.currentOpens >= Cardinality(HandlesOn(f))
      /\ o.mainExtentLog \notin LogType => o.currentOpens > Cardinality(HandlesOn(f))
  BY <1>1, <1>2, <1>3 DEF Counted
<1>9. o.currentOpens \in Nat /\ Cardinality(HandlesOn(f)) \in Nat
  <2>1. HandlesOn(f) \in SUBSET handles
    BY DEF HandlesOn
  <2>2. IsFiniteSet(HandlesOn(f))
    BY <1>3, <2>1, FS_Subset, Zenon DEF FsType
  <2> QED BY <1>4, <2>2, FS_CardinalityType DEF OpenFiles
<1>10. /\ q.currentOpens > Cardinality(HandlesOn(f))
       /\ q.mainExtentLog \notin LogType => q.currentOpens > Cardinality(HandlesOn(f)) + 1
  <2> DEFINE c == o.currentOpens
             k == Cardinality(HandlesOn(f))
             out == o.mainExtentLog \notin LogType
  <2>1. c \in Nat /\ k \in Nat /\ c >= k /\ (out => c > k)
    BY <1>8, <1>9
  <2>2. c + 1 > k /\ (out => c + 1 > k + 1)
    <3> HIDE DEF c, k, out
    <3> QED BY <2>1
  <2> QED BY <1>5, <2>2, Zenon
<1>11. /\ IsFiniteSet(handles')
       /\ handles' \subseteq Entries \X (1 .. MaxOpens) \X Ids
       /\ HandlesFound' /\ Counted'
  BY <1>1, <1>2, <1>5, <1>7, <1>10, Opened, Zenon
<1>12. FsType'
  BY <1>1, <1>3, <1>7, <1>11 DEF FsType
<1>13. StubsNumbered'
  BY <1>1 DEF FsInv, StubsNumbered
<1> QED BY <1>1, <1>11, <1>12, <1>13 DEF FsInv

(* The page a handler reads, from its address or from anywhere. *)
LEMMA PagesReadGood ==
  ASSUME NEW m \in GoodMemory, NEW k, NEW page \in PagesRead(m, k)
  PROVE  page \in GoodPages
<1>1. CASE k \in Pages
  BY <1>1, ReadGood DEF PagesRead
<1>2. CASE k \notin Pages
  <2>1. PICK q \in Pages : page = ReadNAND(m, q)
    BY <1>2 DEF PagesRead
  <2> QED BY <2>1, ReadGood
<1> QED BY <1>1, <1>2

LEMMA LogNumber ==
  ASSUME NEW page \in GoodPages
  PROVE  ILogNo(page) \in Ids
<1>1. 0 \in Ids
  BY MaxIdAssumption DEF Ids
<1>2. page.contents \in GoodPayloads
  BY DEF GoodPages
<1>3. page.contents.kind = "header" => page.contents.logId \in Ids
  BY <1>2 DEF GoodPayloads, SuperPayloads, MapPayloads, HeaderPayloads, Blank
<1> QED BY <1>1, <1>3 DEF ILogNo

LEMMA OpenUncachedKeeps ==
  ASSUME FsInv, NEW e \in Entries, OpenUncached(e)
  PROVE  FsInv'
<1> DEFINE f == FileId(e)
<1>1. /\ mounted /\ stub[e] # NoStub /\ table[f] = NULL /\ NewHandle(e, f)
      /\ UNCHANGED <<nand, stub, mounted, lists, vaddrMap, hidden, world>>
  BY DEF OpenUncached, Serving
<1>2. f \in Ids /\ f % 2 = 1
  BY <1>1 DEF FileId, FsInv, FsType, StubsNumbered
<1>3. PICK page \in PagesRead(nand, vaddrMap.map[f]), mod \in world.flags :
        table' = [table EXCEPT ![ILogNo(page)] = IF @ = NULL THEN LogEntry ELSE @,
                               ![f] = OpenFile(2, mod, NoLog)]
  BY Zenon DEF OpenUncached
<1>4. FsType /\ table \in TableType
  BY DEF FsInv, FsType
<1>5. page \in GoodPages
  BY <1>4, PagesReadGood DEF FsType
<1>6. mod \in Nat
  BY <1>4, Junk
<1> DEFINE i == ILogNo(page)
           o == OpenFile(2, mod, NoLog)
           r == IF table[i] = NULL THEN LogEntry ELSE table[i]
<1>7. i \in Ids
  BY <1>5, LogNumber
<1>8. o \in OpenFiles /\ o.currentOpens = 2 /\ o.kind = "file"
  BY <1>6 DEF OpenFile, OpenFiles
<1>9. table' = [table EXCEPT ![i] = r, ![f] = o]
  BY <1>3
<1>10. r \in {NULL, LogEntry} \cup OpenFiles
  <2> HIDE DEF i
  <2> QED BY <1>4, <1>7 DEF TableType
<1>11. r = table[i] \/ (r = LogEntry /\ table[i] = NULL)
  OBVIOUS
<1> HIDE DEF f, i, o, r
<1>12. table' \in TableType /\ table'[f] = o
  BY <1>2, <1>4, <1>7, <1>8, <1>9, <1>10 DEF TableType
<1>13. \A id \in Ids : id # f =>
         table'[id] = table[id] \/ (table'[id] = LogEntry /\ table[id] = NULL)
  BY <1>4, <1>7, <1>9, <1>11 DEF TableType
<1>14. HandlesOn(f) = {}
  <2>1. \A h \in handles : h[3] # f
    BY <1>1, <1>2 DEF FsInv, HandlesFound, NULL
  <2> QED BY <2>1 DEF HandlesOn
<1>15. table'[f].currentOpens > Cardinality(HandlesOn(f)) + 1
       /\ table'[f].currentOpens > Cardinality(HandlesOn(f)) /\ table'[f].kind = "file"
  <2>1. Cardinality(HandlesOn(f)) = 0
    BY <1>14, FS_EmptySet
  <2> QED BY <1>8, <1>12, <2>1
<1>16. /\ IsFiniteSet(handles')
       /\ handles' \subseteq Entries \X (1 .. MaxOpens) \X Ids
       /\ HandlesFound' /\ Counted'
  BY <1>1, <1>2, <1>12, <1>13, <1>15, Opened, Zenon
<1>17. FsType'
  BY <1>1, <1>4, <1>12, <1>16 DEF FsType
<1>18. StubsNumbered'
  BY <1>1 DEF FsInv, StubsNumbered
<1> QED BY <1>1, <1>16, <1>17, <1>18 DEF FsInv

-----------------------------------------------------------------------------
(* The openFile of a handle that is released counts the handle and so,     *)
(* when the count comes to 0, has a log.                                   *)
LEMMA ReleasedFile ==
  ASSUME FsInv, NEW h \in handles, h[3] # 0
  PROVE  /\ h[3] \in Ids /\ h[3] % 2 = 1
         /\ table[h[3]] \in OpenFiles
         /\ IsFiniteSet(HandlesOn(h[3])) /\ Cardinality(HandlesOn(h[3])) \in Nat
         /\ Cardinality(HandlesOn(h[3])) >= 1
         /\ table[h[3]].currentOpens >= Cardinality(HandlesOn(h[3]))
         /\ table[h[3]].mainExtentLog \notin LogType =>
              table[h[3]].currentOpens > Cardinality(HandlesOn(h[3]))
<1> DEFINE id == h[3]
<1>1. id \in Ids
  BY DEF FsInv, FsType
<1>2. id % 2 = 1 /\ table[id].kind = "file"
  BY DEF FsInv, HandlesFound
<1>3. h \in HandlesOn(id) /\ HandlesOn(id) \in SUBSET handles
  BY DEF HandlesOn
<1> HIDE DEF id
<1>4. table[id] \in OpenFiles
  BY <1>1, <1>2 DEF FsInv, FsType, TableType, NULL, LogEntry
<1>5. IsFiniteSet(HandlesOn(id))
  BY <1>3, FS_Subset, Zenon DEF FsInv, FsType
<1>6. Cardinality(HandlesOn(id)) \in Nat /\ Cardinality(HandlesOn(id)) # 0
  <2>1. HandlesOn(id) # {}
    BY <1>3
  <2> QED BY <1>5, <2>1, FS_CardinalityType, FS_EmptySet
<1>7. /\ table[id].currentOpens >= Cardinality(HandlesOn(id))
      /\ table[id].mainExtentLog \notin LogType =>
           table[id].currentOpens > Cardinality(HandlesOn(id))
  BY <1>1, <1>2 DEF FsInv, Counted
<1>8. Cardinality(HandlesOn(id)) >= 1
  BY <1>6
<1> QED BY <1>1, <1>2, <1>4, <1>5, <1>6, <1>7, <1>8 DEF id

(* A handle is gone and the openFile it was on, if any, counts one less. *)
LEMMA Released ==
  ASSUME FsInv, NEW h \in handles, handles' = handles \ {h}, table' \in TableType,
         \A id \in Ids : id # h[3] \/ h[3] = 0 => table'[id] = table[id],
         h[3] # 0 => /\ table'[h[3]].kind = "file"
                     /\ table'[h[3]].currentOpens = table[h[3]].currentOpens - 1
                     /\ table[h[3]].mainExtentLog \in LogType =>
                          table'[h[3]].mainExtentLog \in LogType
  PROVE  /\ IsFiniteSet(handles')
         /\ handles' \subseteq Entries \X (1 .. MaxOpens) \X Ids
         /\ HandlesFound' /\ Counted'
<1>1. /\ IsFiniteSet(handles) /\ handles \subseteq Entries \X (1 .. MaxOpens) \X Ids
      /\ HandlesFound /\ Counted /\ table \in TableType
  BY DEF FsInv, FsType
<1>2. IsFiniteSet(handles') /\ handles' \subseteq Entries \X (1 .. MaxOpens) \X Ids
  <2>1. IsFiniteSet(handles \ {h})
    BY <1>1, FS_RemoveElement, Zenon
  <2> QED BY <1>1, <2>1
<1>3. HandlesFound'
  <2> SUFFICES ASSUME NEW x \in handles', x[3] # 0
               PROVE  x[3] % 2 = 1 /\ table'[x[3]].kind = "file"
    BY DEF HandlesFound
  <2>1. x \in handles /\ x[3] \in Ids
    BY <1>2
  <2>2. x[3] % 2 = 1 /\ table[x[3]].kind = "file"
    BY <1>1, <2>1, Zenon DEF HandlesFound
  <2>3. CASE x[3] = h[3]
    BY <2>2, <2>3
  <2>4. CASE x[3] # h[3]
    BY <2>1, <2>2, <2>4
  <2> QED BY <2>3, <2>4
<1>4. Counted'
  <2> SUFFICES ASSUME NEW id \in Ids, table'[id].kind = "file"
               PROVE  /\ id % 2 = 1
                      /\ table'[id].currentOpens >= Cardinality(HandlesOn(id)')
                      /\ table'[id].mainExtentLog \notin LogType =>
                           table'[id].currentOpens > Cardinality(HandlesOn(id)')
    BY DEF Counted
  <2>1. CASE id = h[3] /\ h[3] # 0
    <3> DEFINE S == HandlesOn(id)
               c == table[id].currentOpens
               c2 == table'[id].currentOpens
               k == Cardinality(S)
               k2 == Cardinality(HandlesOn(id)')
               out == table[id].mainExtentLog \notin LogType
    <3>1. /\ id % 2 = 1 /\ table[id] \in OpenFiles /\ IsFiniteSet(S) /\ k \in Nat
          /\ c >= k /\ (out => c > k)
      BY <2>1, ReleasedFile, Zenon
    <3>2. c \in Nat
      BY <3>1 DEF OpenFiles
    <3>3. HandlesOn(id)' = S \ {h} /\ h \in S
      BY <2>1 DEF HandlesOn
    <3>4. k2 = k - 1
      <4> HIDE DEF S
      <4>1. Cardinality(S \ {h}) = k - 1
        BY <3>1, <3>3, FS_RemoveElement
      <4> QED BY <3>3, <4>1, Zenon
    <3>5. c2 = c - 1
      BY <2>1
    <3>6. table'[id].mainExtentLog \notin LogType => out
      BY <2>1
    <3>7. c2 >= k2 /\ (out => c2 > k2)
      <4>1. c \in Nat /\ k \in Nat /\ c >= k /\ (out => c > k)
        BY <3>1, <3>2
      <4> HIDE DEF c, c2, k, k2, out
      <4> QED BY <3>4, <3>5, <4>1
    <3> QED BY <3>1, <3>6, <3>7, Zenon
  <2>2. CASE id # h[3] \/ h[3] = 0
    <3>1. table'[id] = table[id]
      BY <2>2
    <3>2. id # h[3]
      <4>1. id % 2 = 1
        BY <1>1, <3>1 DEF Counted
      <4>2. id # 0
        BY <4>1
      <4> QED BY <2>2, <4>2
    <3>3. HandlesOn(id)' = HandlesOn(id)
      BY <3>2 DEF HandlesOn
    <3> QED BY <1>1, <3>1, <3>3 DEF Counted
  <2> QED BY <2>1, <2>2
<1> QED BY <1>2, <1>3, <1>4

LEMMA ReleaseKeeps ==
  ASSUME FsInv, NEW h \in handles, Release(h)
  PROVE  FsInv'
<1>1. /\ mounted /\ handles' = handles \ {h}
      /\ UNCHANGED <<stub, mounted, vaddrMap, hidden, world>>
  BY DEF Release, Serving
<1>2. FsType /\ nand \in GoodMemory /\ lists \in ListsType /\ table \in TableType
  BY DEF FsInv, FsType
<1> DEFINE id == h[3]
           o == table[id]
           n == o.currentOpens - 1
           Result == /\ nand' \in GoodMemory /\ lists' \in ListsType /\ table' \in TableType
                     /\ \A i \in Ids : i # id \/ id = 0 => table'[i] = table[i]
                     /\ id # 0 => /\ table'[id].kind = "file"
                                  /\ table'[id].currentOpens = n
                                  /\ o.mainExtentLog \in LogType =>
                                       table'[id].mainExtentLog \in LogType
<1>3. ASSUME id = 0 PROVE Result
  <2>1. UNCHANGED <<nand, lists, table>>
    BY <1>3 DEF Release
  <2>2. Result
    BY <1>2, <1>3, <2>1
  <2> QED BY <2>2
<1>4. ASSUME id # 0 /\ n = 0 /\ o.modified = 1 PROVE Result
  <2>1. PICK junk \in world.links :
          LET p == GetFreePage(nand, lists, o.mainExtentLog, junk)
              header == NewPage(HeaderPayload(p.log), 0, p.link, PTYPE_ERASED)
          IN /\ nand' = WriteNAND(p.nand, p.address, header, FALSE)
             /\ lists' = p.lists
             /\ table' = [table EXCEPT ![id] = OpenFile(n, 1, p.log)]
    BY <1>4, Zenon DEF Release
  <2>2. junk \in Int
    BY <1>2, Junk
  <2>3. id \in Ids /\ o \in OpenFiles /\ o.mainExtentLog \in LogType
    <3>1. /\ id \in Ids /\ o \in OpenFiles /\ Cardinality(HandlesOn(id)) >= 1
          /\ Cardinality(HandlesOn(id)) \in Nat
          /\ o.mainExtentLog \notin LogType => o.currentOpens > Cardinality(HandlesOn(id))
      BY <1>4, ReleasedFile, Zenon
    <3>2. o.currentOpens \in Nat
      BY <3>1 DEF OpenFiles
    <3> DEFINE c == o.currentOpens
               k == Cardinality(HandlesOn(id))
    <3>3. ~ (c > k)
      <4>1. c - 1 = 0 /\ c \in Nat /\ k \in Nat /\ k >= 1
        BY <1>4, <3>1, <3>2
      <4> HIDE DEF c, k
      <4> QED BY <4>1
    <3> QED BY <3>1, <3>3, Zenon
  <2> DEFINE p == GetFreePage(nand, lists, o.mainExtentLog, junk)
             header == NewPage(HeaderPayload(p.log), 0, p.link, PTYPE_ERASED)
             q == OpenFile(n, 1, p.log)
  <2>4. /\ nand' = WriteNAND(p.nand, p.address, header, FALSE) /\ lists' = p.lists
        /\ table' = [table EXCEPT ![id] = q]
    BY <2>1
  <2>5. /\ p.address \in Int /\ p.link \in Int /\ p.lists \in ListsType
        /\ p.nand \in GoodMemory /\ p.log \in LogType
    <3> HIDE DEF o
    <3> QED BY <1>2, <2>2, <2>3, FreePageGood
  <2> HIDE DEF p
  <2>6. header \in GoodPages
    <3>1. PTYPE_ERASED \in Int
      BY DEF PTYPE_ERASED
    <3> QED BY <2>5, <3>1, HeaderGood, Zenon
  <2>7. n = 0
    BY <1>4
  <2>8. q \in OpenFiles /\ q.kind = "file" /\ q.currentOpens = n /\ q.mainExtentLog \in LogType
    <3> HIDE DEF n
    <3> QED BY <2>5, <2>7 DEF OpenFile, OpenFiles
  <2> HIDE DEF header, q
  <2>9. nand' \in GoodMemory
    BY <2>4, <2>5, <2>6, WritesGood, Zenon
  <2>10. table' \in TableType /\ table'[id] = q /\ \A i \in Ids : i # id => table'[i] = table[i]
    <3> HIDE DEF id
    <3> QED BY <1>2, <2>3, <2>4, <2>8 DEF TableType
  <2> QED BY <1>4, <2>4, <2>5, <2>8, <2>9, <2>10, Zenon
<1>5. ASSUME id # 0 /\ ~ (n = 0 /\ o.modified = 1) PROVE Result
  <2>1. table' = [table EXCEPT ![id].currentOpens = n] /\ UNCHANGED <<nand, lists>>
    BY <1>5, Zenon DEF Release
  <2>2. id \in Ids /\ o \in OpenFiles /\ n \in Nat
    <3>1. /\ id \in Ids /\ o \in OpenFiles /\ Cardinality(HandlesOn(id)) >= 1
          /\ Cardinality(HandlesOn(id)) \in Nat
          /\ o.currentOpens >= Cardinality(HandlesOn(id))
      BY <1>5, ReleasedFile, Zenon
    <3>2. o.currentOpens \in Nat
      BY <3>1 DEF OpenFiles
    <3> DEFINE c == o.currentOpens
               k == Cardinality(HandlesOn(id))
    <3>3. c - 1 \in Nat
      <4>1. c \in Nat /\ k \in Nat /\ k >= 1 /\ c >= k
        BY <3>1, <3>2
      <4> HIDE DEF c, k
      <4> QED BY <4>1
    <3> QED BY <3>1, <3>3, Zenon
  <2> DEFINE q == [o EXCEPT !.currentOpens = n]
  <2>3. q \in OpenFiles /\ q.kind = "file" /\ q.currentOpens = n /\ q.mainExtentLog = o.mainExtentLog
    <3> HIDE DEF o, n
    <3> QED BY <2>2 DEF OpenFiles
  <2>4. table' = [table EXCEPT ![id] = q]
    BY <2>1
  <2> HIDE DEF q
  <2>5. table' \in TableType /\ table'[id] = q /\ \A i \in Ids : i # id => table'[i] = table[i]
    <3> HIDE DEF id
    <3> QED BY <1>2, <2>2, <2>3, <2>4 DEF TableType
  <2>6. nand' = nand /\ lists' = lists
    BY <2>1
  <2> QED BY <1>2, <1>5, <2>3, <2>5, <2>6, Zenon
<1>6. Result
  <2> HIDE DEF Result
  <2> QED BY <1>3, <1>4, <1>5
<1>7. /\ IsFiniteSet(handles')
      /\ handles' \subseteq Entries \X (1 .. MaxOpens) \X Ids
      /\ HandlesFound' /\ Counted'
  BY <1>1, <1>6, Released, Zenon
<1>8. FsType'
  BY <1>1, <1>2, <1>6, <1>7 DEF FsType
<1>9. StubsNumbered'
  BY <1>1 DEF FsInv, StubsNumbered
<1> QED BY <1>1, <1>7, <1>8, <1>9 DEF FsInv

-----------------------------------------------------------------------------
LEMMA HideKeeps ==
  ASSUME FsInv, NEW e \in Entries, Hide(e)
  PROVE  FsInv'
<1>1. /\ hidden' = hidden \cup {e}
      /\ UNCHANGED <<nand, stub, mounted, lists, vaddrMap, table, handles, world>>
  BY DEF Hide
<1>2. FsType'
  BY <1>1 DEF FsInv, FsType
<1>3. HandlesFound' /\ Counted'
  BY <1>1, TableKept DEF FsInv
<1> QED BY <1>1, <1>2, <1>3 DEF FsInv, StubsNumbered

(* An entry loses its stub. *)
LEMMA StubRemoved ==
  ASSUME FsInv, NEW e \in Entries, RemoveStub(e)
  PROVE  /\ stub' \in [Entries -> [ino : {0} \cup Inodes, fileId : Ids]]
         /\ StubsNumbered' /\ hidden' \subseteq Entries
<1>1. NoStub \in [ino : {0} \cup Inodes, fileId : Ids]
  BY MaxIdAssumption DEF NoStub, Ids
<1>2. stub' = [stub EXCEPT ![e] = NoStub] /\ hidden' = hidden \ {e}
  BY DEF RemoveStub
<1>3. stub \in [Entries -> [ino : {0} \cup Inodes, fileId : Ids]] /\ hidden \subseteq Entries
  BY DEF FsInv, FsType
<1>4. \A f \in Entries : f # e => stub'[f] = stub[f]
  BY <1>2, <1>3
<1>5. stub'[e] = NoStub
  BY <1>2, <1>3
<1>6. StubsNumbered'
  BY <1>4, <1>5 DEF FsInv, StubsNumbered
<1> QED BY <1>1, <1>2, <1>3, <1>6

LEMMA UnlinkLinkKeeps ==
  ASSUME FsInv, NEW e \in Entries, UnlinkLink(e)
  PROVE  FsInv'
<1>1. RemoveStub(e) /\ UNCHANGED <<nand, mounted, lists, vaddrMap, table, handles, world>>
  BY DEF UnlinkLink
<1>2. /\ stub' \in [Entries -> [ino : {0} \cup Inodes, fileId : Ids]]
      /\ StubsNumbered' /\ hidden' \subseteq Entries
  BY <1>1, StubRemoved
<1>3. HandlesFound' /\ Counted'
  BY <1>1, TableKept DEF FsInv
<1>4. FsType'
  BY <1>1, <1>2 DEF FsInv, FsType
<1> QED BY <1>1, <1>2, <1>3, <1>4 DEF FsInv

(* The numbers in a page that is read as a header. *)
LEMMA AsHeaderGood ==
  ASSUME NEW page \in GoodPages
  PROVE  AsHeader(page).first \in Int /\ AsHeader(page).prev \in Int
<1>1. page.contents \in GoodPayloads
  BY DEF GoodPages
<1>2. page.contents.kind = "header" =>
        page.contents.first \in Int /\ page.contents.prev \in Int
  BY <1>1 DEF GoodPayloads, SuperPayloads, MapPayloads, HeaderPayloads, Blank
<1>3. CASE page.contents.kind = "header"
  BY <1>2, <1>3 DEF AsHeader
<1>4. CASE page.contents.kind = "super"
  BY <1>4 DEF AsHeader, NoHeader
<1>5. CASE page.contents.kind # "header" /\ page.contents.kind # "super"
  BY <1>5 DEF AsHeader, NoHeader
<1> QED BY <1>3, <1>4, <1>5

LEMMA UnlinkLastKeeps ==
  ASSUME FsInv, NEW e \in Entries, UnlinkLast(e)
  PROVE  FsInv'
<1>1. RemoveStub(e) /\ UNCHANGED <<mounted, vaddrMap, table, handles, world>>
  BY DEF UnlinkLast
<1>2. /\ nand \in GoodMemory /\ lists \in ListsType /\ vaddrMap \in MapType
  BY DEF FsInv, FsType, GoodMaps
<1>3. PICK page \in PagesRead(nand, vaddrMap.map[FileId(e)]) :
        LET logID == AsHeader(page).logId IN
        /\ logID \in Ids
        /\ \E page2 \in PagesRead(nand, vaddrMap.map[logID]) :
             LET h == AsHeader(page2)
                 r == LogsRecycle(nand, lists, h.first, h.prev, vaddrMap.map[logID])
             IN IF h.fileCount - 1 = 0
                  THEN nand' = r.nand /\ lists' = r.lists
                  ELSE UNCHANGED <<nand, lists>>
  BY Zenon DEF UnlinkLast
<1> DEFINE logID == AsHeader(page).logId
           a == vaddrMap.map[logID]
<1>4. logID \in Ids /\ a \in Int
  BY <1>2, <1>3 DEF MapType
<1>5. PICK page2 \in PagesRead(nand, a) :
        LET h == AsHeader(page2)
            r == LogsRecycle(nand, lists, h.first, h.prev, a)
        IN IF h.fileCount - 1 = 0
             THEN nand' = r.nand /\ lists' = r.lists
             ELSE UNCHANGED <<nand, lists>>
  BY <1>3, Zenon
<1> HIDE DEF logID, a
<1> DEFINE h == AsHeader(page2)
           r == LogsRecycle(nand, lists, h.first, h.prev, a)
<1>6. h.first \in Int /\ h.prev \in Int
  BY <1>2, AsHeaderGood, PagesReadGood
<1>7. (nand' = r.nand /\ lists' = r.lists) \/ (nand' = nand /\ lists' = lists)
  BY <1>5
<1> HIDE DEF h
<1>8. r.nand \in GoodMemory /\ r.lists \in ListsType
  BY <1>2, <1>4, <1>6, RecycleGood
<1> HIDE DEF r
<1>9. nand' \in GoodMemory /\ lists' \in ListsType
  BY <1>2, <1>7, <1>8, Zenon
<1>10. /\ stub' \in [Entries -> [ino : {0} \cup Inodes, fileId : Ids]]
       /\ StubsNumbered' /\ hidden' \subseteq Entries
  BY <1>1, StubRemoved
<1>11. HandlesFound' /\ Counted'
  BY <1>1, TableKept DEF FsInv
<1>12. FsType'
  BY <1>1, <1>9, <1>10 DEF FsInv, FsType
<1> QED BY <1>1, <1>10, <1>11, <1>12 DEF FsInv

LEMMA LinkKeeps ==
  ASSUME FsInv, NEW e \in Entries, NEW f \in Entries, Link(e, f)
  PROVE  FsInv'
<1>1. /\ stub' = [stub EXCEPT ![f] = stub[e]] /\ stub[e] # NoStub
      /\ UNCHANGED <<nand, mounted, lists, vaddrMap, table, handles, hidden, world>>
  BY DEF Link, volatile
<1>2. stub \in [Entries -> [ino : {0} \cup Inodes, fileId : Ids]]
  BY DEF FsInv, FsType
<1>3. stub' \in [Entries -> [ino : {0} \cup Inodes, fileId : Ids]]
  BY <1>1, <1>2
<1>4. \A g \in Entries : stub'[g] = stub[g] \/ stub'[g] = stub[e]
  BY <1>1, <1>2
<1>5. StubsNumbered'
  BY <1>1, <1>4 DEF FsInv, StubsNumbered
<1>6. HandlesFound' /\ Counted'
  BY <1>1, TableKept DEF FsInv
<1>7. FsType'
  BY <1>1, <1>3 DEF FsInv, FsType
<1> QED BY <1>1, <1>5, <1>6, <1>7 DEF FsInv

LEMMA RenameKeeps ==
  ASSUME FsInv, NEW e \in Entries, NEW f \in Entries, Rename(e, f)
  PROVE  FsInv'
<1> DEFINE R(h) == <<IF h[1] = e THEN f ELSE h[1], h[2], h[3]>>
           F == [h \in handles |-> R(h)]
<1>1. /\ stub[e] # NoStub
      /\ stub' = [stub EXCEPT ![f] = stub[e], ![e] = NoStub]
      /\ handles' = {R(h) : h \in handles}
      /\ hidden' = hidden \ {f}
      /\ UNCHANGED <<nand, mounted, lists, vaddrMap, table, world>>
  BY DEF Rename
<1>2. /\ stub \in [Entries -> [ino : {0} \cup Inodes, fileId : Ids]] /\ table \in TableType
      /\ IsFiniteSet(handles) /\ handles \subseteq Entries \X (1 .. MaxOpens) \X Ids
      /\ hidden \subseteq Entries /\ StubsNumbered /\ HandlesFound /\ Counted
  BY DEF FsInv, FsType
<1>3. NoStub \in [ino : {0} \cup Inodes, fileId : Ids]
  BY MaxIdAssumption DEF NoStub, Ids
<1>4. stub' \in [Entries -> [ino : {0} \cup Inodes, fileId : Ids]]
  BY <1>1, <1>2, <1>3
<1>5. \A g \in Entries : stub'[g] = stub[g] \/ stub'[g] = stub[e] \/ stub'[g] = NoStub
  BY <1>1, <1>2
<1>6. StubsNumbered'
  BY <1>1, <1>2, <1>5 DEF StubsNumbered
<1>7. \A h \in handles : R(h) \in Entries \X (1 .. MaxOpens) \X Ids /\ R(h)[3] = h[3]
  BY <1>2
<1> HIDE DEF R
<1>8. handles' \subseteq Entries \X (1 .. MaxOpens) \X Ids
  BY <1>1, <1>7, Zenon
<1>9. IsFiniteSet(handles')
  <2>1. F \in [handles -> handles'] /\ \A t \in handles' : \E h \in handles : F[h] = t
    BY <1>1
  <2> HIDE DEF F
  <2> QED BY <1>2, <2>1, ImageSmaller, Zenon
<1>10. HandlesFound'
  <2> SUFFICES ASSUME NEW x \in handles', x[3] # 0
               PROVE  x[3] % 2 = 1 /\ table'[x[3]].kind = "file"
    BY DEF HandlesFound
  <2>1. PICK h \in handles : x = R(h)
    BY <1>1
  <2>2. x[3] = h[3]
    BY <1>7, <2>1
  <2> QED BY <1>1, <1>2, <2>2 DEF HandlesFound
<1>11. ASSUME NEW id \in Ids
       PROVE  /\ Cardinality(HandlesOn(id)') <= Cardinality(HandlesOn(id))
              /\ Cardinality(HandlesOn(id)') \in Nat /\ Cardinality(HandlesOn(id)) \in Nat
  <2> DEFINE S == HandlesOn(id)
             T == HandlesOn(id)'
             G == [h \in S |-> R(h)]
  <2>1. IsFiniteSet(S)
    <3>1. S \in SUBSET handles
      BY DEF HandlesOn
    <3> QED BY <1>2, <3>1, FS_Subset, Zenon
  <2>2. T = {x \in handles' : x[3] = id} /\ S = {h \in handles : h[3] = id}
    BY DEF HandlesOn
  <2> HIDE DEF S, T
  <2>3. G \in [S -> T]
    <3>1. \A h \in S : R(h) \in T
      BY <1>1, <1>7, <2>2
    <3> QED BY <3>1
  <2>4. \A t \in T : \E h \in S : G[h] = t
    <3> SUFFICES ASSUME NEW t \in T PROVE \E h \in S : G[h] = t
      OBVIOUS
    <3>1. t \in handles' /\ t[3] = id
      BY <2>2
    <3>2. PICK h \in handles : t = R(h)
      BY <1>1, <3>1
    <3>3. h \in S
      BY <1>7, <2>2, <3>1, <3>2
    <3> QED BY <3>2, <3>3
  <2> HIDE DEF G
  <2>5. IsFiniteSet(T) /\ Cardinality(T) <= Cardinality(S)
    BY <2>1, <2>3, <2>4, ImageSmaller, Zenon
  <2> QED BY <2>1, <2>5, FS_CardinalityType, Zenon DEF S, T
<1>12. Counted'
  <2> SUFFICES ASSUME NEW id \in Ids, table[id].kind = "file"
               PROVE  /\ id % 2 = 1
                      /\ table[id].currentOpens >= Cardinality(HandlesOn(id)')
                      /\ table[id].mainExtentLog \notin LogType =>
                           table[id].currentOpens > Cardinality(HandlesOn(id)')
    BY <1>1 DEF Counted
  <2> DEFINE c == table[id].currentOpens
             k == Cardinality(HandlesOn(id))
             k2 == Cardinality(HandlesOn(id)')
             out == table[id].mainExtentLog \notin LogType
  <2>1. id % 2 = 1 /\ c >= k /\ (out => c > k)
    BY <1>2, Zenon DEF Counted
  <2>2. c \in Nat
    BY <1>2 DEF TableType, OpenFiles, NULL, LogEntry
  <2>3. k \in Nat /\ k2 \in Nat /\ k2 <= k
    BY <1>11, Zenon
  <2>4. c >= k2 /\ (out => c > k2)
    <3> HIDE DEF c, k, k2, out
    <3> QED BY <2>1, <2>2, <2>3
  <2> QED BY <2>1, <2>4, Zenon
<1>13. FsType'
  BY <1>1, <1>4, <1>8, <1>9 DEF FsInv, FsType
<1>14. ~ mounted' => handles' = {}
  BY <1>1 DEF FsInv
<1> QED BY <1>6, <1>10, <1>12, <1>13, <1>14 DEF FsInv

-----------------------------------------------------------------------------
LEMMA FsKeeps == FsInv /\ [Next]_vars => FsInv'
<1> SUFFICES ASSUME FsInv, [Next]_vars PROVE FsInv'
  OBVIOUS
<1>1. CASE UNCHANGED vars
  <2>1. UNCHANGED <<nand, stub, mounted, lists, vaddrMap, table, handles, hidden, world>>
    BY <1>1 DEF vars
  <2>2. FsType'
    BY <2>1 DEF FsInv, FsType
  <2>3. HandlesFound' /\ Counted'
    BY <2>1, TableKept DEF FsInv
  <2> QED BY <2>1, <2>2, <2>3 DEF FsInv, StubsNumbered
<1>2. ASSUME NEW e \in Entries, UnlinkOpen(e) PROVE FsInv'
  BY <1>1, <1>2 DEF UnlinkOpen
<1>3. CASE Next
  BY <1>2, <1>3, MountKeeps, DestroyKeeps, CrashKeeps, CreateKeeps, CreateFailsKeeps,
     CreateCrashesKeeps, OpenCachedKeeps, OpenUncachedKeeps, ReleaseKeeps, HideKeeps,
     UnlinkLinkKeeps, UnlinkLastKeeps, LinkKeeps, RenameKeeps, Zenon DEF Next
<1> QED BY <1>1, <1>3

LEMMA FsTypes == FsInv => TypeOK
<1> SUFFICES ASSUME FsInv PROVE TypeOK
  OBVIOUS
<1> USE BlockSizeAssumption
<1>1. GoodPayloads \subseteq PayloadType
  <2>1. GoodMaps \subseteq MapType
    BY DEF GoodMaps
  <2> QED BY <2>1 DEF GoodPayloads, SuperPayloads, MapPayloads, HeaderPayloads, PayloadType
<1>2. GoodPages \subseteq PageType
  BY <1>1 DEF GoodPages, PageType
<1>3. nand \in [Blocks -> [contents : [PageIdx -> PageType],
                          nextPage : 0 .. BLOCKSIZE, eraseCount : Int]]
  BY <1>2 DEF FsInv, FsType, GoodMemory, GoodBlocks
<1>4. vaddrMap \in MapType
  BY DEF FsInv, FsType, GoodMaps
<1> QED BY <1>3, <1>4 DEF FsInv, FsType, TypeOK, TableType, OpenFiles

LEMMA FsCounts == FsInv => CountCoversHandles
BY DEF FsInv, Counted, CountCoversHandles

(* The inductive invariant holds in every reachable state, in every world. *)
THEOREM FsInvariant == Spec => []FsInv
<1>1. Init => FsInv
  BY FsStarts
<1>2. FsInv /\ [Next]_vars => FsInv'
  BY FsKeeps
<1> QED BY <1>1, <1>2, PTL DEF Spec

(* The handlers keep the shape of the state: every block's frontier within *)
(* the block and every number in a header or a stub a slot of the map, for *)
(* every memory, map and world.                                            *)
THEOREM FsTypeOK == Spec => []TypeOK
<1>1. FsInv => TypeOK
  BY FsTypes
<1> QED BY <1>1, FsInvariant, PTL

(* xmp_release never reaches the work of the last close while another      *)
(* handle on the openFile is out, for every number of names and handles,   *)
(* with crashes and restarts between any two calls.                        *)
THEOREM FsCountCovers == Spec => []CountCoversHandles
<1>1. FsInv => CountCoversHandles
  BY FsCounts
<1> QED BY <1>1, FsInvariant, PTL

-----------------------------------------------------------------------------
(***************************************************************************)
(* What the file system of module Cycology guarantees in a calm world      *)
(* until the super page is lost: every file has a block of its own, its    *)
(* number and its header are its own, and nothing written is changed.      *)
(* For every size of the memory and of the map, every set of names and     *)
(* every number of mounts.                                                 *)
(*                                                                         *)
(* The argument is about which blocks are still handed out.  The list of   *)
(* makefs leads from block to block; logs_recycle can store one link only, *)
(* in the last block while that is empty, because every later tail of the  *)
(* list is a page that has been written.  So after the blocks of the list  *)
(* at most one block is handed out again, the first to be recycled, and    *)
(* its log begins one page further on; then getFreeBlock takes block 0 and *)
(* the super page is gone.                                                 *)
(***************************************************************************)

At(c, j) == c * BLOCKSIZE + j
LogBlocks == 2 .. NumBlocks - 1
LastBlock == NumBlocks - 1

(* The lists and the map of the daemon, or those it will be started with. *)
CurLists == IF mounted THEN lists ELSE ReadNAND(nand, 0).contents.freeLists
CurMap   == IF mounted THEN vaddrMap ELSE ReadNAND(nand, BLOCKSIZE).contents.vaddrMap

NamedIn(st) == {e \in Entries : st[e] # NoStub}

(* The links of makefs, and the last block, which has none at first. *)
Chained(m) ==
  /\ \A c \in 2 .. NumBlocks - 2 :
       m[c].contents[0].nextLogBlock = At(c + 1, 0) /\ m[c].nextPage >= 1
  /\ m[LastBlock].nextPage = 0 =>
       m[LastBlock].contents[0].nextLogBlock = 0 /\ m[LastBlock].contents[1].contents = Blank

(* Block r was recycled: its only log page is a header, which ends a list. *)
Spare(m, r) ==
  /\ r \in 2 .. NumBlocks - 2
  /\ m[r].nextPage = 2
  /\ m[r].contents[1].nextLogBlock = 0

(* The list of partially used blocks leads to the blocks U: all from block *)
(* b on and, if the last block has been given a link, the recycled one.    *)
FromBlock(m, l, U, b) ==
  /\ l.partialHead = At(b, 0)
  /\ \A c \in b .. NumBlocks - 2 : m[c].nextPage = 1
  /\ \/ m[LastBlock].nextPage = 0 /\ U = b .. LastBlock
     \/ /\ m[LastBlock].nextPage = 1
        /\ \E r \in 2 .. b - 1 : /\ Spare(m, r)
                                 /\ m[LastBlock].contents[0].nextLogBlock = At(r, 1)
                                 /\ U = {r} \cup (b .. LastBlock)
LeadsTo(m, l, U) ==
  \/ l.partialHead = 0 /\ U = {}
  \/ \E b \in LogBlocks : FromBlock(m, l, U, b)
  \/ /\ m[LastBlock].nextPage >= 1
     /\ \E r \in LogBlocks : Spare(m, r) /\ l.partialHead = At(r, 1) /\ U = {r}

(* The tail of that list: the last block while it is empty, then a page    *)
(* that has been written, so that a link is refused.                       *)
Tail(m, l) ==
  \/ m[LastBlock].nextPage = 0 /\ l.partialTail = At(LastBlock, 0)
  \/ /\ m[LastBlock].nextPage >= 1
     /\ \E c \in LogBlocks, j \in 1 .. 2 : l.partialTail = At(c, j) /\ m[c].nextPage > j

HeaderOf(id, c) ==
  [kind |-> "header", logId |-> id + 1, fileId |-> id, first |-> c, prev |-> -1, fileCount |-> 1]

(* The file of number id has the log that begins at page j of block c. *)
HasLog(m, vm, id, c, j) ==
  /\ id \in 1 .. MaxId - 1 /\ id % 2 = 1
  /\ vm.freePtr = 0 \/ id < vm.freePtr
  /\ vm.map[id] = At(c, j) /\ vm.map[id + 1] = At(c, j)
  /\ m[LastBlock].nextPage = 0 => j = 1
  /\ \/ m[c].contents[j].contents = Blank
     \/ /\ m[c].contents[j].contents = HeaderOf(id, c)
        /\ m[c].contents[j].nextLogBlock = 0
        /\ m[c].nextPage = j + 1

(* Every file has a log, in a block the list does not lead to. *)
LogsTaken(m, vm, st, U) ==
  \A e \in NamedIn(st) :
    \E c \in LogBlocks \ U, j \in 1 .. 2 : HasLog(m, vm, st[e].fileId, c, j)

(* Inode, number and block each tell files apart. *)
Apart(vm, st) ==
  \A e, f \in NamedIn(st) : st[e] # st[f] =>
    /\ st[e].ino # st[f].ino
    /\ st[e].fileId # st[f].fileId
    /\ BlockOf(vm.map[st[e].fileId]) # BlockOf(vm.map[st[f].fileId])

Layout(m, l, vm, st) ==
  /\ l.completeHead = 0 /\ l.completeTail = 0
  /\ vm.map[0] = 0
  /\ Chained(m)
  /\ Tail(m, l)
  /\ Apart(vm, st)
  /\ \E U \in SUBSET LogBlocks : LeadsTo(m, l, U) /\ LogsTaken(m, vm, st, U)

(* No openFile is marked as modified. *)
Unmodified == \A id \in Ids : table[id].kind = "file" => table[id].modified = 0

CalmInv ==
  Calm => Unmodified /\ (SuperIntact => Layout(nand, CurLists, CurMap, stub))

-----------------------------------------------------------------------------
(* Block and page number of page j of block c. *)
LEMMA AtSplit ==
  ASSUME NEW c \in Nat, NEW j \in PageIdx
  PROVE  BlockOf(At(c, j)) = c /\ PageOf(At(c, j)) = j /\ At(c, j) \in Nat
<1> USE BlockSizeAssumption
<1>1. At(c, j) \in Nat
  BY DEF PageIdx, At
<1>2. At(c, j) \div BLOCKSIZE = c /\ At(c, j) % BLOCKSIZE = j
  BY DEF PageIdx, At
<1> QED BY <1>1, <1>2 DEF BlockOf, PageOf

(* A page of a block of the memory is in the memory; block 0 has page 0. *)
LEMMA AtPages ==
  ASSUME NEW c \in Blocks, NEW j \in PageIdx
  PROVE  At(c, j) \in Pages /\ (c > 0 => At(c, j) # 0)
<1> USE BlockSizeAssumption, NumBlocksAssumption
<1>1. c \in Nat /\ c <= NumBlocks - 1 /\ j \in Nat /\ j <= BLOCKSIZE - 1
  BY DEF Blocks, PageIdx
<1>2. c * BLOCKSIZE <= (NumBlocks - 1) * BLOCKSIZE
  BY <1>1
<1>3. (NumBlocks - 1) * BLOCKSIZE = NumBlocks * BLOCKSIZE - BLOCKSIZE
  OBVIOUS
<1>4. c * BLOCKSIZE \in Nat /\ NumBlocks * BLOCKSIZE \in Nat
  BY <1>1
<1>5. c > 0 => c * BLOCKSIZE >= BLOCKSIZE
  BY <1>1
<1> DEFINE x == c * BLOCKSIZE
           y == NumBlocks * BLOCKSIZE
<1>6. x \in Nat /\ y \in Nat /\ x <= y - BLOCKSIZE /\ (c > 0 => x >= BLOCKSIZE)
  BY <1>2, <1>3, <1>4, <1>5
<1>7. At(c, j) = x + j /\ Pages = 0 .. y - 1
  BY DEF At, Pages
<1> HIDE DEF x, y
<1> QED BY <1>1, <1>6, <1>7

(* Blocks and pages of logs. *)
LEMMA LogPages ==
  /\ LogBlocks \subseteq Blocks /\ LastBlock \in LogBlocks
  /\ \A c \in LogBlocks : c \in Nat /\ c >= 2 /\ c <= LastBlock
  /\ 0 \in PageIdx /\ 1 \in PageIdx /\ 2 \in PageIdx
  /\ \A j \in 1 .. 2 : j \in PageIdx
BY NumBlocksAssumption, BlockSizeAssumption, LogBlockAssumption, LogSpaceAssumption
   DEF LogBlocks, LastBlock, Blocks, PageIdx

LEMMA ReadAt ==
  ASSUME NEW m, NEW c \in Blocks, NEW j \in PageIdx
  PROVE  ReadNAND(m, At(c, j)) = m[c].contents[j]
<1>1. c \in Nat
  BY NumBlocksAssumption DEF Blocks
<1> QED BY <1>1, AtSplit DEF ReadNAND

(* A write in sequence: it is taken when the page is the block's next, and *)
(* is otherwise refused.                                                   *)
InSequence(m, k, page) == WriteNAND(m, k, page, FALSE)

(* Nothing is written, or one page in sequence. *)
Programs(m, m2) ==
  m2 = m \/ \E c \in Blocks, j \in PageIdx : \E page : m2 = InSequence(m, At(c, j), page)

LEMMA WriteAt ==
  ASSUME NEW m \in GoodMemory, NEW c \in Blocks, NEW j \in PageIdx, NEW page,
         NEW w, w = InSequence(m, At(c, j), page)
  PROVE  /\ m[c].nextPage # j => w = m
         /\ m[c].nextPage = j =>
              /\ w[c].nextPage = j + 1
              /\ w[c].contents[j] = page
              /\ \A i \in PageIdx : i # j => w[c].contents[i] = m[c].contents[i]
         /\ \A b \in Blocks : b # c => w[b] = m[b]
<1> DEFINE k == At(c, j)
<1>0. w = WriteNAND(m, k, page, FALSE)
  BY DEF InSequence
<1>1. BlockOf(k) = c /\ PageOf(k) = j
  <2>1. c \in Nat
    BY NumBlocksAssumption DEF Blocks
  <2> QED BY <2>1, AtSplit
<1> HIDE DEF k
<1>2. CASE m[c].nextPage # j
  <2>1. ~ WriteAccepted(m, k, FALSE)
    BY <1>1, <1>2 DEF WriteAccepted
  <2>2. w = m
    BY <1>0, <2>1 DEF WriteNAND
  <2> QED BY <1>2, <2>2, Zenon
<1>3. CASE m[c].nextPage = j
  <2>1. WriteAccepted(m, k, FALSE)
    BY <1>1, <1>3 DEF WriteAccepted
  <2>2. w = [m EXCEPT ![c].contents[j] = page, ![c].nextPage = @ + 1]
    BY <1>0, <1>1, <2>1 DEF WriteNAND
  <2> DEFINE f == [m[c].contents EXCEPT ![j] = page]
             B == [m[c] EXCEPT !.contents = f, !.nextPage = j + 1]
  <2>3. m[c] \in [contents : [PageIdx -> GoodPages], nextPage : 0 .. BLOCKSIZE, eraseCount : Int]
        /\ DOMAIN m = Blocks
    BY DEF GoodMemory, GoodBlocks
  <2>4. w = [m EXCEPT ![c] = B]
    BY <1>3, <2>2, <2>3
  <2>5. f[j] = page /\ \A i \in PageIdx : i # j => f[i] = m[c].contents[i]
    BY <2>3
  <2>6. B.contents = f /\ B.nextPage = j + 1
    BY <2>3
  <2>7. w[c] = B /\ \A b \in Blocks : b # c => w[b] = m[b]
    BY <2>3, <2>4
  <2> HIDE DEF B, f
  <2>8. /\ w[c].nextPage = j + 1 /\ w[c].contents[j] = page
        /\ \A i \in PageIdx : i # j => w[c].contents[i] = m[c].contents[i]
    BY <2>5, <2>6, <2>7
  <2> QED BY <1>3, <2>7, <2>8, Zenon
<1> QED BY <1>2, <1>3

-----------------------------------------------------------------------------
(* The layout is about the blocks of logs. *)
LEMMA LayoutKept ==
  ASSUME NEW m, NEW m2, NEW l, NEW vm, NEW st, Layout(m, l, vm, st),
         \A c \in LogBlocks : m2[c] = m[c]
  PROVE  Layout(m2, l, vm, st)
<1>1. /\ l.completeHead = 0 /\ l.completeTail = 0 /\ vm.map[0] = 0
      /\ Chained(m) /\ Tail(m, l) /\ Apart(vm, st)
  BY DEF Layout
<1>2. PICK U \in SUBSET LogBlocks : LeadsTo(m, l, U) /\ LogsTaken(m, vm, st, U)
  BY DEF Layout
<1>3. m2[LastBlock] = m[LastBlock] /\ \A c \in 2 .. NumBlocks - 2 : m2[c] = m[c]
  <2>1. \A c \in 2 .. NumBlocks - 2 : c \in LogBlocks
    BY NumBlocksAssumption DEF LogBlocks
  <2> QED BY <2>1, LogPages
<1>4. Chained(m2)
  BY <1>1, <1>3 DEF Chained
<1>5. Tail(m2, l)
  BY <1>1, <1>3 DEF Tail
<1>6. \A r : Spare(m, r) => Spare(m2, r)
  BY <1>3 DEF Spare
<1>7. ASSUME NEW b \in LogBlocks, FromBlock(m, l, U, b)
      PROVE  FromBlock(m2, l, U, b)
  <2>1. \A c \in b .. NumBlocks - 2 : c \in 2 .. NumBlocks - 2
    BY NumBlocksAssumption DEF LogBlocks
  <2> QED BY <1>3, <1>6, <1>7, <2>1, Zenon DEF FromBlock
<1>8. LeadsTo(m2, l, U)
  BY <1>2, <1>3, <1>6, <1>7, Zenon DEF LeadsTo
<1>9. LogsTaken(m2, vm, st, U)
  <2> SUFFICES ASSUME NEW e \in NamedIn(st)
               PROVE  \E c \in LogBlocks \ U, j \in 1 .. 2 : HasLog(m2, vm, st[e].fileId, c, j)
    BY DEF LogsTaken
  <2>1. PICK c \in LogBlocks \ U, j \in 1 .. 2 : HasLog(m, vm, st[e].fileId, c, j)
    BY <1>2 DEF LogsTaken
  <2>2. m2[c] = m[c]
    OBVIOUS
  <2>3. HasLog(m2, vm, st[e].fileId, c, j)
    BY <1>3, <2>1, <2>2, Zenon DEF HasLog
  <2> QED BY <2>3
<1> QED BY <1>1, <1>2, <1>4, <1>5, <1>8, <1>9 DEF Layout

(* It only depends on which files there are, not on their names. *)
LEMMA LayoutRenamed ==
  ASSUME NEW m, NEW l, NEW vm, NEW st, NEW st2, Layout(m, l, vm, st),
         \A e \in NamedIn(st2) : \E f \in NamedIn(st) : st2[e] = st[f]
  PROVE  Layout(m, l, vm, st2)
<1>1. Apart(vm, st2)
  <2> SUFFICES ASSUME NEW e \in NamedIn(st2), NEW f \in NamedIn(st2), st2[e] # st2[f]
               PROVE  /\ st2[e].ino # st2[f].ino
                      /\ st2[e].fileId # st2[f].fileId
                      /\ BlockOf(vm.map[st2[e].fileId]) # BlockOf(vm.map[st2[f].fileId])
    BY DEF Apart
  <2>1. PICK e1 \in NamedIn(st) : st2[e] = st[e1]
    OBVIOUS
  <2>2. PICK f1 \in NamedIn(st) : st2[f] = st[f1]
    OBVIOUS
  <2> QED BY <2>1, <2>2, Zenon DEF Layout, Apart
<1>2. \A U : LogsTaken(m, vm, st, U) => LogsTaken(m, vm, st2, U)
  BY Zenon DEF LogsTaken
<1> QED BY <1>1, <1>2, Zenon DEF Layout

-----------------------------------------------------------------------------
(* getFreeBlock for a new file. *)
ForNewFile(m, l, junk) == GetFreeBlock(m, l, TRUE, junk)

(* The lists with another head. *)
LEMMA HeadMoves ==
  ASSUME NEW m, NEW l \in ListsType, NEW c \in LogBlocks, NEW i \in PageIdx, NEW j,
         l.partialHead = At(c, i), l.partialHead + 1 = At(c, j), NEW junk, NEW g, g = ForNewFile(m, l, junk)
  PROVE  /\ g.page = At(c, j) /\ g.nand = m
         /\ g.lists.partialHead = m[c].contents[i].nextLogBlock
         /\ g.lists.partialTail = l.partialTail
         /\ g.lists.completeHead = l.completeHead /\ g.lists.completeTail = l.completeTail
<1>1. c \in Blocks /\ c > 0 /\ c \in Nat
  BY LogPages
<1>2. l.partialHead \in Pages /\ l.partialHead # 0
  BY <1>1, AtPages
<1>3. ReadLink(m, l.partialHead, junk) = m[c].contents[i].nextLogBlock
  BY <1>1, <1>2, ReadAt DEF ReadLink
<1> DEFINE x == m[c].contents[i].nextLogBlock
           a == At(c, j)
           y == [l EXCEPT !.partialHead = x]
<1> HIDE DEF x, a
<1>5. g = [page |-> a, lists |-> y, nand |-> m]
  <2>1. ForNewFile(m, l, junk) =
          [page |-> l.partialHead + 1,
           lists |-> [l EXCEPT !.partialHead = ReadLink(m, l.partialHead, junk)], nand |-> m]
    BY <1>2 DEF GetFreeBlock, ForNewFile
  <2> QED BY <1>3, <2>1, Zenon DEF x, a
<1>6. /\ y.partialHead = x /\ y.partialTail = l.partialTail
      /\ y.completeHead = l.completeHead /\ y.completeTail = l.completeTail
  BY DEF ListsType
<1> HIDE DEF y
<1>7. g.page = a /\ g.lists = y /\ g.nand = m
  BY <1>5
<1> QED BY <1>6, <1>7, Zenon DEF x, a

(* The block that getFreeBlock hands out for a new file: one of those the  *)
(* list leads to.  Its page is the next of the block, or the block is the  *)
(* last one and empty.                                                     *)
Handed(m, l, vm, st, g, U, c, j) ==
  /\ LogsTaken(m, vm, st, U)
  /\ g.page = At(c, j) /\ g.nand = m
  /\ g.lists.completeHead = 0 /\ g.lists.completeTail = 0
  /\ g.lists.partialTail = l.partialTail
  /\ LeadsTo(m, g.lists, U \ {c})
  /\ m[LastBlock].nextPage = 0 => j = 1
  /\ m[c].nextPage = j \/ (m[c].nextPage = 0 /\ m[c].contents[j].contents = Blank)

LEMMA NextHanded ==
  ASSUME NEW m \in GoodMemory, NEW l \in ListsType, NEW vm, NEW st, Layout(m, l, vm, st),
         l.partialHead # 0, NEW junk, NEW g, g = ForNewFile(m, l, junk)
  PROVE  \E U \in SUBSET LogBlocks : \E c \in U, j \in 1 .. 2 :
           Handed(m, l, vm, st, g, U, c, j)
<1> USE NumBlocksAssumption, LogSpaceAssumption
<1>1. PICK U \in SUBSET LogBlocks : LeadsTo(m, l, U) /\ LogsTaken(m, vm, st, U)
  BY DEF Layout
<1>2. /\ l.completeHead = 0 /\ l.completeTail = 0 /\ Chained(m)
  BY DEF Layout
<1>3. LastBlock \in LogBlocks
  BY LogPages
<1>4. ASSUME NEW b \in LogBlocks, FromBlock(m, l, U, b)
      PROVE  b \in U /\ Handed(m, l, vm, st, g, U, b, 1)
  <2>1. l.partialHead = At(b, 0) /\ \A c \in b .. NumBlocks - 2 : m[c].nextPage = 1
    BY <1>4 DEF FromBlock
  <2> DEFINE x == m[b].contents[0].nextLogBlock
  <2>2. /\ g.page = At(b, 1) /\ g.nand = m /\ g.lists.partialHead = x
        /\ g.lists.partialTail = l.partialTail
        /\ g.lists.completeHead = 0 /\ g.lists.completeTail = 0
    <3>1. 0 \in PageIdx /\ b \in Nat
      BY LogPages
    <3>2. l.partialHead + 1 = At(b, 1)
      BY <2>1, <3>1, BlockSizeAssumption DEF At
    <3> QED BY <1>2, <2>1, <3>1, <3>2, HeadMoves
  <2>3. ASSUME b # LastBlock
        PROVE  b \in U /\ LeadsTo(m, g.lists, U \ {b}) /\ m[b].nextPage = 1
    <3>1. b \in 2 .. NumBlocks - 2 /\ b \in b .. NumBlocks - 2 /\ b + 1 \in LogBlocks
      BY <2>3 DEF LogBlocks, LastBlock
    <3>2. x = At(b + 1, 0)
      BY <1>2, <3>1 DEF Chained
    <3>3. \A c \in (b + 1) .. NumBlocks - 2 : m[c].nextPage = 1
      BY <2>1, <3>1
    <3>4. CASE m[LastBlock].nextPage = 0 /\ U = b .. LastBlock
      <4>1. U \ {b} = (b + 1) .. LastBlock /\ b \in U
        BY <3>1, <3>4 DEF LastBlock
      <4>2. FromBlock(m, g.lists, U \ {b}, b + 1)
        BY <2>2, <3>2, <3>3, <3>4, <4>1 DEF FromBlock
      <4> QED BY <2>1, <3>1, <4>1, <4>2 DEF LeadsTo
    <3>5. ASSUME m[LastBlock].nextPage = 1, NEW r \in 2 .. b - 1, Spare(m, r),
                 m[LastBlock].contents[0].nextLogBlock = At(r, 1), U = {r} \cup (b .. LastBlock)
          PROVE  b \in U /\ LeadsTo(m, g.lists, U \ {b}) /\ m[b].nextPage = 1
      <4>1. U \ {b} = {r} \cup ((b + 1) .. LastBlock) /\ b \in U /\ r \in 2 .. (b + 1) - 1
        BY <3>1, <3>5 DEF LastBlock
      <4>2. FromBlock(m, g.lists, U \ {b}, b + 1)
        BY <2>2, <3>2, <3>3, <3>5, <4>1 DEF FromBlock
      <4> QED BY <2>1, <3>1, <4>1, <4>2 DEF LeadsTo
    <3> QED BY <1>4, <3>4, <3>5, Zenon DEF FromBlock
  <2>4. ASSUME b = LastBlock
        PROVE  /\ b \in U /\ LeadsTo(m, g.lists, U \ {b})
               /\ m[b].nextPage = 1 \/ (m[b].nextPage = 0 /\ m[b].contents[1].contents = Blank)
    <3>1. LastBlock .. LastBlock = {LastBlock} /\ LastBlock \in Int
      BY DEF LastBlock
    <3>2. CASE m[LastBlock].nextPage = 0 /\ U = b .. LastBlock
      <4>1. U = {LastBlock}
        BY <2>4, <3>1, <3>2
      <4>2. x = 0 /\ m[b].contents[1].contents = Blank
        BY <1>2, <2>4, <3>2 DEF Chained
      <4>3. U \ {b} = {} /\ b \in U
        BY <2>4, <4>1
      <4> QED BY <2>2, <2>4, <3>2, <4>2, <4>3 DEF LeadsTo
    <3>3. ASSUME m[LastBlock].nextPage = 1, NEW r \in 2 .. b - 1, Spare(m, r),
                 m[LastBlock].contents[0].nextLogBlock = At(r, 1), U = {r} \cup (b .. LastBlock)
          PROVE  /\ b \in U /\ LeadsTo(m, g.lists, U \ {b})
                 /\ m[b].nextPage = 1 \/ (m[b].nextPage = 0 /\ m[b].contents[1].contents = Blank)
      <4>1. U \ {b} = {r} /\ b \in U /\ r \in LogBlocks
        BY <2>4, <3>1, <3>3 DEF LogBlocks, LastBlock
      <4>2. x = At(r, 1)
        BY <2>4, <3>3
      <4>3. m[LastBlock].nextPage >= 1
        BY <3>3
      <4>4. LeadsTo(m, g.lists, U \ {b})
        BY <2>2, <3>3, <4>1, <4>2, <4>3 DEF LeadsTo
      <4> QED BY <2>4, <3>3, <4>1, <4>4
    <3> QED BY <1>4, <3>2, <3>3, Zenon DEF FromBlock
  <2>5. LeadsTo(m, g.lists, U \ {b}) /\ b \in U
    BY <2>3, <2>4
  <2> QED BY <1>1, <2>2, <2>3, <2>4, <2>5, Zenon DEF Handed
<1>5. ASSUME m[LastBlock].nextPage >= 1, NEW r \in LogBlocks, Spare(m, r),
             l.partialHead = At(r, 1), U = {r}
      PROVE  r \in U /\ Handed(m, l, vm, st, g, U, r, 2)
  <2>1. /\ g.page = At(r, 2) /\ g.nand = m
        /\ g.lists.partialHead = m[r].contents[1].nextLogBlock
        /\ g.lists.partialTail = l.partialTail
        /\ g.lists.completeHead = 0 /\ g.lists.completeTail = 0
    <3>1. 1 \in PageIdx /\ r \in Nat
      BY LogPages
    <3>2. l.partialHead + 1 = At(r, 2)
      BY <1>5, <3>1, BlockSizeAssumption DEF At
    <3> QED BY <1>2, <1>5, <3>1, <3>2, HeadMoves
  <2>2. m[r].contents[1].nextLogBlock = 0 /\ m[r].nextPage = 2
    BY <1>5 DEF Spare
  <2>3. U \ {r} = {}
    BY <1>5
  <2>4. LeadsTo(m, g.lists, U \ {r})
    BY <2>1, <2>2, <2>3 DEF LeadsTo
  <2>5. m[LastBlock].nextPage # 0
    BY <1>5
  <2> QED BY <1>1, <1>5, <2>1, <2>2, <2>4, <2>5 DEF Handed
<1>6. 1 \in 1 .. 2 /\ 2 \in 1 .. 2
  OBVIOUS
<1>7. \E c \in U, j \in 1 .. 2 : Handed(m, l, vm, st, g, U, c, j)
  BY <1>1, <1>4, <1>5, <1>6, Zenon DEF LeadsTo
<1> QED BY <1>7

(* What is done in one block leaves the rest of the list alone. *)
LEMMA LeadsToKept ==
  ASSUME NEW m, NEW m2, NEW l, NEW U \in SUBSET LogBlocks, LeadsTo(m, l, U),
         NEW c \in LogBlocks, c \notin U,
         \A b \in LogBlocks : b # c => m2[b] = m[b],
         m[LastBlock].nextPage >= 1 => m2[LastBlock].nextPage >= 1
  PROVE  LeadsTo(m2, l, U)
<1> USE NumBlocksAssumption, LogSpaceAssumption
<1>1. \A r \in U : Spare(m, r) => Spare(m2, r)
  <2>1. \A r \in U : m2[r] = m[r]
    OBVIOUS
  <2> QED BY <2>1, Zenon DEF Spare
<1>2. ASSUME NEW b \in LogBlocks, FromBlock(m, l, U, b)
      PROVE  FromBlock(m2, l, U, b)
  <2>1. b .. LastBlock \subseteq U
    BY <1>2, Zenon DEF FromBlock
  <2>2. LastBlock \in U /\ \A i \in b .. NumBlocks - 2 : i \in U
    BY <2>1 DEF LogBlocks, LastBlock
  <2>3. m2[LastBlock] = m[LastBlock] /\ \A i \in b .. NumBlocks - 2 : m2[i] = m[i]
    BY <2>2
  <2>4. CASE m[LastBlock].nextPage = 0 /\ U = b .. LastBlock
    BY <1>2, <2>3, <2>4, Zenon DEF FromBlock
  <2>5. ASSUME m[LastBlock].nextPage = 1, NEW r \in 2 .. b - 1, Spare(m, r),
               m[LastBlock].contents[0].nextLogBlock = At(r, 1), U = {r} \cup (b .. LastBlock)
        PROVE  FromBlock(m2, l, U, b)
    <3>1. Spare(m2, r)
      BY <1>1, <2>5
    <3> QED BY <1>2, <2>3, <2>5, <3>1, Zenon DEF FromBlock
  <2> QED BY <1>2, <2>4, <2>5, Zenon DEF FromBlock
<1>3. ASSUME NEW r \in LogBlocks, Spare(m, r), U = {r}
      PROVE  Spare(m2, r)
  BY <1>1, <1>3
<1> QED BY <1>2, <1>3, Zenon DEF LeadsTo

-----------------------------------------------------------------------------
(* What xmp_create takes, in terms of what getFreeBlock hands out. *)
LEMMA AllocationIs ==
  ASSUME FsType, NEW junk \in Int, SlotsLeft, NEW g, g = ForNewFile(nand, lists, junk),
         NEW f, f = vaddrMap.freePtr, NEW a, a = Allocation(junk)
  PROVE  /\ f \in 1 .. MaxId - 1 /\ f % 2 = 1
         /\ a.fileID = f /\ a.logID = f + 1
         /\ a.vaddrMap.map[f] = g.page /\ a.vaddrMap.map[f + 1] = g.page
         /\ a.vaddrMap.map[0] = vaddrMap.map[0]
         /\ \A i \in Ids : i # f /\ i # f + 1 => a.vaddrMap.map[i] = vaddrMap.map[i]
         /\ a.vaddrMap.freePtr = 0 \/ a.vaddrMap.freePtr = f + 2
         /\ a.lists = g.lists /\ a.nand = g.nand
         /\ a.log = [nextPage |-> g.page, last |-> BlockOf(g.page), first |-> BlockOf(g.page),
                     prev |-> -1, logId |-> f + 1, fileId |-> f]
<1> USE MaxIdAssumption
<1>1. f # 0 /\ PopFreePtr(vaddrMap).freePtr > 0
  <2>1. PopFreePtr(vaddrMap).freePtr \in 1 .. world.slots /\ f # 0
    BY DEF SlotsLeft
  <2>2. world.slots \in Nat
    BY Junk
  <2> QED BY <2>1, <2>2
<1> DEFINE z == IF f + 1 < MaxId THEN f + 2 ELSE 0
           v == [vaddrMap EXCEPT !.freePtr = z]
           M == [vaddrMap.map EXCEPT ![f + 1] = g.page, ![f] = g.page]
           log == [nextPage |-> g.page, last |-> BlockOf(g.page), first |-> BlockOf(g.page),
                   prev |-> -1, logId |-> f + 1, fileId |-> f]
<1>2. /\ f \in Ids /\ f % 2 = 1 /\ f + 1 \in Ids
      /\ PopFreePtr(vaddrMap).freePtr = f + 1
      /\ PopFreePtr(PopFreePtr(vaddrMap)) = v
  BY <1>1, Pair DEF FsType
<1>3. vaddrMap \in [freePtr : Int, map : [Ids -> Int]]
  BY Zenon DEF FsType, GoodMaps, MapType
<1>4. v.map = vaddrMap.map /\ v.freePtr = z /\ v \in [freePtr : Int, map : [Ids -> Int]]
  <2>1. z \in Int
    BY <1>2 DEF Ids
  <2> HIDE DEF z
  <2> QED BY <1>3, <2>1
<1>5. a = [fileID |-> f, logID |-> f + 1,
           vaddrMap |-> [v EXCEPT !.map = [@ EXCEPT ![f + 1] = g.page, ![f] = g.page]],
           lists |-> g.lists, nand |-> g.nand, log |-> log]
  <2> HIDE DEF v
  <2> QED BY <1>2 DEF Allocation, ForNewFile
<1> DEFINE w == [v EXCEPT !.map = [@ EXCEPT ![f + 1] = g.page, ![f] = g.page]]
<1>6. w.map = M /\ w.freePtr = z
  <2>1. w = [v EXCEPT !.map = M]
    BY <1>4
  <2> HIDE DEF v, M, z
  <2> QED BY <1>4, <2>1
<1>7. z = 0 \/ z = f + 2
  OBVIOUS
<1>8. f \in 1 .. MaxId - 1
  BY <1>1, <1>2 DEF Ids
<1>10. /\ M[f] = g.page /\ M[f + 1] = g.page /\ M[0] = vaddrMap.map[0]
       /\ \A i \in Ids : i # f /\ i # f + 1 => M[i] = vaddrMap.map[i]
  BY <1>2, <1>3, <1>8 DEF Ids
<1> HIDE DEF w, M, z, log
<1>9. a.fileID = f /\ a.logID = f + 1 /\ a.vaddrMap = w /\ a.lists = g.lists /\ a.nand = g.nand
      /\ a.log = log
  BY <1>5 DEF w
<1> QED BY <1>2, <1>6, <1>7, <1>8, <1>9, <1>10, Zenon DEF log

(* The header of a new log goes to the page that was handed out. *)
LEMMA HeaderPlace ==
  ASSUME NEW m, NEW l, NEW log \in LogType, NEW junk, NEW c \in LogBlocks, NEW j \in 1 .. 2,
         log.nextPage = At(c, j), NEW p, p = GetFreePage(m, l, log, junk)
  PROVE  /\ p.address = At(c, j) /\ p.link = junk /\ p.lists = l /\ p.nand = m
         /\ p.log.logId = log.logId /\ p.log.fileId = log.fileId
         /\ p.log.first = log.first /\ p.log.prev = log.prev
<1> USE BlockSizeAssumption, LogBlockAssumption
<1> DEFINE a == log.nextPage
           s(next) == [address |-> a, link |-> junk, lists |-> l, nand |-> m,
                       log |-> [log EXCEPT !.nextPage = next]]
<1>1. c \in Nat
  BY LogPages
<1>2. PageOf(a) = j /\ (j < 2 => PageOf(a + 3) = j + 3) /\ PageOf(a + 2) = j + 2
      /\ PageOf(a + 1) = j + 1
  <2>1. /\ a = At(c, j) /\ a + 1 = At(c, j + 1) /\ a + 2 = At(c, j + 2) /\ a + 3 = At(c, j + 3)
    <3>1. c * BLOCKSIZE \in Int
      BY <1>1
    <3> QED BY <3>1 DEF At
  <2>2. j \in PageIdx /\ j + 1 \in PageIdx /\ j + 2 \in PageIdx /\ (j < 2 => j + 3 \in PageIdx)
    BY DEF PageIdx
  <2> QED BY <1>1, <2>1, <2>2, AtSplit
<1>3. PageOf(a) # 0 /\ PageOf(a + 2) # 0 /\ PageOf(a + 1) # 0
  BY <1>2
<1>4. p = s(log.prev * BLOCKSIZE + (BLOCKSIZE - 1)) \/ p = s(a + 1)
  <2> HIDE DEF a
  <2>1. CASE PageOf(a + 3) = 0
    BY <1>3, <2>1 DEF GetFreePage, a
  <2>2. CASE PageOf(a + 3) # 0
    BY <1>3, <2>2 DEF GetFreePage, a
  <2> QED BY <2>1, <2>2
<1>5. ASSUME NEW n, p = s(n)
      PROVE  /\ p.address = At(c, j) /\ p.link = junk /\ p.lists = l /\ p.nand = m
             /\ p.log.logId = log.logId /\ p.log.fileId = log.fileId
             /\ p.log.first = log.first /\ p.log.prev = log.prev
  BY <1>5 DEF LogType
<1> HIDE DEF s, a
<1> QED BY <1>4, <1>5

-----------------------------------------------------------------------------
(* The pair of slots from f on is taken from the map. *)
SlotsTaken(vm, vm2, f) ==
  /\ f \in 1 .. MaxId - 1 /\ f % 2 = 1 /\ vm.freePtr = f
  /\ vm2.map[0] = vm.map[0]
  /\ \A i \in Ids : i # f /\ i # f + 1 => vm2.map[i] = vm.map[i]
  /\ vm2.freePtr = 0 \/ vm2.freePtr = f + 2

(* Nothing is written, or something beyond the first page of block c. *)
BlockUsed(m, m2, c) ==
  /\ \A b \in LogBlocks : m[b].nextPage \in Nat /\ m2[b].nextPage \in Nat
  /\ \A b \in LogBlocks : b # c => m2[b] = m[b]
  /\ m2[c].nextPage >= m[c].nextPage
  /\ m2[c].contents[0] = m[c].contents[0]
  /\ m[c].nextPage = 0 => m2[c] = m[c]

(* Block c is taken, of the blocks U the list led to, and the slots from f *)
(* on; no file uses them yet.                                              *)
Taken(m, l, vm, st, U, c, f) ==
  /\ l.completeHead = 0 /\ l.completeTail = 0 /\ vm.map[0] = 0
  /\ Chained(m) /\ Tail(m, l) /\ Apart(vm, st)
  /\ LeadsTo(m, l, U \ {c})
  /\ LogsTaken(m, vm, st, U)
  /\ \A e \in NamedIn(st) : st[e].fileId # f /\ BlockOf(vm.map[st[e].fileId]) # c

(* A pair of slots and a block are taken; nothing or the header has been   *)
(* written to the block.                                                   *)
LEMMA LayoutTaken ==
  ASSUME NEW m, NEW m2, NEW l, NEW vm, NEW vm2, NEW st, NEW g,
         NEW U \in SUBSET LogBlocks, NEW c \in U, NEW j \in 1 .. 2, NEW f,
         Layout(m, l, vm, st), Handed(m, l, vm, st, g, U, c, j),
         SlotsTaken(vm, vm2, f), BlockUsed(m, m2, c)
  PROVE  Taken(m2, g.lists, vm2, st, U, c, f)
<1> USE MaxIdAssumption
<1>0. /\ f \in 1 .. MaxId - 1 /\ f % 2 = 1 /\ vm.freePtr = f /\ vm2.map[0] = vm.map[0]
      /\ \A i \in Ids : i # f /\ i # f + 1 => vm2.map[i] = vm.map[i]
      /\ vm2.freePtr = 0 \/ vm2.freePtr = f + 2
  BY DEF SlotsTaken
<1>b. /\ \A b \in LogBlocks : m[b].nextPage \in Nat /\ m2[b].nextPage \in Nat
      /\ \A b \in LogBlocks : b # c => m2[b] = m[b]
      /\ m2[c].nextPage >= m[c].nextPage
      /\ m2[c].contents[0] = m[c].contents[0]
      /\ m[c].nextPage = 0 => m2[c] = m[c]
  BY DEF BlockUsed
<1>1. /\ vm.map[0] = 0 /\ Chained(m) /\ Tail(m, l) /\ Apart(vm, st)
  BY DEF Layout
<1>2. /\ LogsTaken(m, vm, st, U) /\ LeadsTo(m, g.lists, U \ {c})
      /\ g.lists.completeHead = 0 /\ g.lists.completeTail = 0
      /\ g.lists.partialTail = l.partialTail
  BY DEF Handed
<1>3. c \in LogBlocks /\ LastBlock \in LogBlocks
  BY LogPages
<1>4. m[LastBlock].nextPage >= 1 => m2[LastBlock].nextPage >= 1
  BY <1>b, <1>3
<1>5. m2[LastBlock].nextPage = 0 => m2[LastBlock] = m[LastBlock]
  BY <1>b, <1>3
<1>6. LeadsTo(m2, g.lists, U \ {c})
  <2>1. U \ {c} \in SUBSET LogBlocks /\ c \notin U \ {c}
    OBVIOUS
  <2> QED BY <1>b, <1>2, <1>3, <1>4, <2>1, LeadsToKept
<1>7. Chained(m2)
  <2>1. \A b \in 2 .. NumBlocks - 2 : b \in LogBlocks
    BY NumBlocksAssumption DEF LogBlocks
  <2>2. \A b \in LogBlocks : m2[b].contents[0] = m[b].contents[0]
    BY <1>b
  <2>3. \A b \in LogBlocks : m[b].nextPage >= 1 => m2[b].nextPage >= 1
    BY <1>b, <1>3
  <2> QED BY <1>1, <1>5, <2>1, <2>2, <2>3 DEF Chained
<1>8. Tail(m2, g.lists)
  <2>1. CASE m[LastBlock].nextPage = 0 /\ l.partialTail = At(LastBlock, 0)
    <3>1. m2[LastBlock] = m[LastBlock]
      BY <1>b, <1>3, <2>1
    <3> QED BY <1>2, <2>1, <3>1 DEF Tail
  <2>2. ASSUME m[LastBlock].nextPage >= 1, NEW b \in LogBlocks, NEW i \in 1 .. 2,
               l.partialTail = At(b, i), m[b].nextPage > i
        PROVE  Tail(m2, g.lists)
    <3>1. m2[b].nextPage > i
      <4>1. CASE b = c
        BY <1>b, <2>2, <4>1
      <4>2. CASE b # c
        BY <1>b, <2>2, <4>2
      <4> QED BY <4>1, <4>2
    <3> QED BY <1>2, <1>4, <2>2, <3>1 DEF Tail
  <2> QED BY <1>1, <2>1, <2>2, Zenon DEF Tail
<1>10. vm2.map[0] = 0
  BY <1>0, <1>1
<1>11. ASSUME NEW e \in NamedIn(st), NEW d \in LogBlocks \ U, NEW i \in 1 .. 2,
              HasLog(m, vm, st[e].fileId, d, i)
       PROVE  /\ HasLog(m2, vm2, st[e].fileId, d, i)
              /\ st[e].fileId # f /\ vm2.map[st[e].fileId] = vm.map[st[e].fileId]
              /\ BlockOf(vm2.map[st[e].fileId]) = d
  <2> DEFINE id == st[e].fileId
  <2>1. /\ id \in 1 .. MaxId - 1 /\ id % 2 = 1 /\ (vm.freePtr = 0 \/ id < vm.freePtr)
        /\ vm.map[id] = At(d, i) /\ vm.map[id + 1] = At(d, i)
        /\ m[LastBlock].nextPage = 0 => i = 1
        /\ \/ m[d].contents[i].contents = Blank
           \/ /\ m[d].contents[i].contents = HeaderOf(id, d)
              /\ m[d].contents[i].nextLogBlock = 0
              /\ m[d].nextPage = i + 1
    BY <1>11, Zenon DEF HasLog
  <2> HIDE DEF id
  <2>2. id < f
    BY <1>0, <2>1
  <2>3. id # f /\ id # f + 1 /\ id + 1 # f /\ id + 1 # f + 1
    BY <1>0, <2>1, <2>2
  <2>4. id \in Ids /\ id + 1 \in Ids
    BY <2>1 DEF Ids
  <2>5. vm2.map[id] = At(d, i) /\ vm2.map[id + 1] = At(d, i)
    BY <1>0, <2>1, <2>3, <2>4
  <2>6. vm2.freePtr = 0 \/ id < vm2.freePtr
    BY <1>0, <2>1, <2>2
  <2>7. m2[d] = m[d]
    BY <1>b
  <2>8. m2[LastBlock].nextPage = 0 => i = 1
    BY <1>5, <2>1
  <2>9. HasLog(m2, vm2, id, d, i)
    BY <2>1, <2>5, <2>6, <2>7, <2>8, Zenon DEF HasLog
  <2>10. BlockOf(At(d, i)) = d
    <3>1. d \in Nat /\ i \in PageIdx
      BY LogPages
    <3> QED BY <3>1, AtSplit
  <2> QED BY <2>1, <2>3, <2>5, <2>9, <2>10, Zenon DEF id
<1>12. LogsTaken(m2, vm2, st, U)
  BY <1>2, <1>11, Zenon DEF LogsTaken
<1>13. \A e \in NamedIn(st) : /\ st[e].fileId # f
                              /\ vm2.map[st[e].fileId] = vm.map[st[e].fileId]
                              /\ BlockOf(vm2.map[st[e].fileId]) # c
  <2> SUFFICES ASSUME NEW e \in NamedIn(st)
               PROVE  /\ st[e].fileId # f
                      /\ vm2.map[st[e].fileId] = vm.map[st[e].fileId]
                      /\ BlockOf(vm2.map[st[e].fileId]) # c
    OBVIOUS
  <2>1. PICK d \in LogBlocks \ U, i \in 1 .. 2 : HasLog(m, vm, st[e].fileId, d, i)
    BY <1>2 DEF LogsTaken
  <2>2. d # c
    OBVIOUS
  <2> QED BY <1>11, <2>1, <2>2, Zenon
<1>14. Apart(vm2, st)
  <2> SUFFICES ASSUME NEW e \in NamedIn(st), NEW h \in NamedIn(st), st[e] # st[h]
               PROVE  /\ st[e].ino # st[h].ino
                      /\ st[e].fileId # st[h].fileId
                      /\ BlockOf(vm2.map[st[e].fileId]) # BlockOf(vm2.map[st[h].fileId])
    BY Zenon DEF Apart
  <2>1. /\ st[e].ino # st[h].ino
        /\ st[e].fileId # st[h].fileId
        /\ BlockOf(vm.map[st[e].fileId]) # BlockOf(vm.map[st[h].fileId])
    BY <1>1, Zenon DEF Apart
  <2>2. /\ vm2.map[st[e].fileId] = vm.map[st[e].fileId]
        /\ vm2.map[st[h].fileId] = vm.map[st[h].fileId]
    BY <1>13
  <2> QED BY <2>1, <2>2
<1> QED BY <1>2, <1>6, <1>7, <1>8, <1>10, <1>12, <1>13, <1>14 DEF Taken

(* The file gets a stub. *)
LEMMA LayoutNew ==
  ASSUME NEW m, NEW l, NEW vm, NEW st, NEW st2,
         NEW U \in SUBSET LogBlocks, NEW c \in U, NEW j \in 1 .. 2, NEW f,
         Taken(m, l, vm, st, U, c, f), HasLog(m, vm, f, c, j),
         NEW e \in Entries, NEW s, s.fileId = f, \A h \in NamedIn(st) : st[h].ino # s.ino,
         \A h \in NamedIn(st2) : IF h = e THEN st2[h] = s ELSE h \in NamedIn(st) /\ st2[h] = st[h]
  PROVE  Layout(m, l, vm, st2)
<1>0. /\ l.completeHead = 0 /\ l.completeTail = 0 /\ vm.map[0] = 0
      /\ Chained(m) /\ Tail(m, l) /\ Apart(vm, st) /\ LeadsTo(m, l, U \ {c})
      /\ LogsTaken(m, vm, st, U)
      /\ \A h \in NamedIn(st) : st[h].fileId # f /\ BlockOf(vm.map[st[h].fileId]) # c
  BY DEF Taken
<1>1. LogsTaken(m, vm, st2, U \ {c})
  <2> SUFFICES ASSUME NEW h \in NamedIn(st2)
               PROVE  \E d \in LogBlocks \ (U \ {c}), i \in 1 .. 2 :
                        HasLog(m, vm, st2[h].fileId, d, i)
    BY DEF LogsTaken
  <2>1. CASE h = e
    <3>1. c \in LogBlocks \ (U \ {c}) /\ st2[h].fileId = f
      BY <2>1
    <3> QED BY <3>1
  <2>2. CASE h # e
    <3>1. h \in NamedIn(st) /\ st2[h] = st[h]
      BY <2>2
    <3>2. PICK d \in LogBlocks \ U, i \in 1 .. 2 : HasLog(m, vm, st[h].fileId, d, i)
      BY <1>0, <3>1 DEF LogsTaken
    <3>3. d \in LogBlocks \ (U \ {c})
      OBVIOUS
    <3> QED BY <3>1, <3>2, <3>3
  <2> QED BY <2>1, <2>2
<1>2. BlockOf(vm.map[f]) = c
  <2>1. c \in Nat /\ j \in PageIdx
    BY LogPages
  <2>2. vm.map[f] = At(c, j)
    BY DEF HasLog
  <2> QED BY <2>1, <2>2, AtSplit
<1>3. Apart(vm, st2)
  <2> SUFFICES ASSUME NEW h \in NamedIn(st2), NEW k \in NamedIn(st2), st2[h] # st2[k]
               PROVE  /\ st2[h].ino # st2[k].ino
                      /\ st2[h].fileId # st2[k].fileId
                      /\ BlockOf(vm.map[st2[h].fileId]) # BlockOf(vm.map[st2[k].fileId])
    BY Zenon DEF Apart
  <2>1. CASE h = e /\ k # e
    <3>1. st2[h] = s /\ k \in NamedIn(st) /\ st2[k] = st[k]
      BY <2>1
    <3> QED BY <1>0, <1>2, <3>1
  <2>2. CASE h # e /\ k = e
    <3>1. st2[k] = s /\ h \in NamedIn(st) /\ st2[h] = st[h]
      BY <2>2
    <3> QED BY <1>0, <1>2, <3>1
  <2>3. CASE h # e /\ k # e
    <3>1. h \in NamedIn(st) /\ st2[h] = st[h] /\ k \in NamedIn(st) /\ st2[k] = st[k]
      BY <2>3
    <3>2. /\ st[h].ino # st[k].ino /\ st[h].fileId # st[k].fileId
          /\ BlockOf(vm.map[st[h].fileId]) # BlockOf(vm.map[st[k].fileId])
      BY <1>0, <3>1 DEF Apart
    <3> QED BY <3>1, <3>2
  <2> QED BY <2>1, <2>2, <2>3
<1>4. U \ {c} \in SUBSET LogBlocks
  OBVIOUS
<1> QED BY <1>0, <1>1, <1>3, <1>4 DEF Layout

-----------------------------------------------------------------------------
(* In a calm world nothing dies and unset memory holds zeros. *)
LEMMA CalmWorld ==
  ASSUME Calm
  PROVE  /\ ~ world.crashes
         /\ \A junk \in world.links : junk = 0
         /\ \A mod \in world.flags : mod = 0
BY DEF Calm

(* The super page is page 0. *)
LEMMA SuperAt ==
  /\ 0 \in Blocks /\ 1 \in Blocks /\ 0 \in PageIdx
  /\ At(0, 0) = 0 /\ At(1, 0) = BLOCKSIZE
  /\ \A m : ReadNAND(m, 0) = m[0].contents[0]
  /\ \A m : ReadNAND(m, BLOCKSIZE) = m[1].contents[0]
<1> USE BlockSizeAssumption, NumBlocksAssumption, LogSpaceAssumption
<1>1. 0 \in Blocks /\ 1 \in Blocks /\ 0 \in PageIdx
  BY DEF Blocks, PageIdx
<1>2. At(0, 0) = 0 /\ At(1, 0) = BLOCKSIZE
  BY DEF At
<1>3. \A m : ReadNAND(m, At(0, 0)) = m[0].contents[0]
  BY <1>1, ReadAt
<1>4. \A m : ReadNAND(m, At(1, 0)) = m[1].contents[0]
  BY <1>1, ReadAt
<1> QED BY <1>1, <1>2, <1>3, <1>4

(* When the list is exhausted, getFreeBlock takes page 0 and erases the    *)
(* super page.                                                             *)
LEMMA Exhausted ==
  ASSUME NEW m \in GoodMemory, NEW l, l.partialHead = 0, l.completeHead = 0, NEW junk,
         NEW g, g = ForNewFile(m, l, junk)
  PROVE  g.page = 0 /\ g.nand[0].contents[0].contents = Blank
<1> USE BlockSizeAssumption
<1>1. BlockOf(0) = 0
  BY DEF BlockOf
<1>2. g.page = 0 /\ g.nand = EraseNAND(m, 0, junk)
  BY <1>1 DEF ForNewFile, GetFreeBlock
<1> DEFINE B == [contents |-> [i \in PageIdx |-> ZeroPage], nextPage |-> 0,
                 eraseCount |-> EraseCountWord(m, 0, junk) + 1]
<1>3. EraseNAND(m, 0, junk) = [m EXCEPT ![0] = B]
  BY SuperAt DEF EraseNAND
<1>4. B.contents[0] = ZeroPage
  BY SuperAt
<1> HIDE DEF B
<1>5. g.nand[0] = B
  BY <1>2, <1>3, SuperAt DEF GoodMemory
<1> QED BY <1>2, <1>4, <1>5 DEF ZeroPage

LEMMA NextPages ==
  ASSUME NEW m \in GoodMemory, NEW b \in Blocks
  PROVE  m[b].nextPage \in Nat
BY BlockSizeAssumption DEF GoodMemory, GoodBlocks

LEMMA CreateLayout ==
  ASSUME FsInv, Calm, CalmInv, NEW e \in Entries, Create(e), SuperIntact'
  PROVE  Layout(nand', lists', vaddrMap', stub') /\ Programs(nand, nand')
<1>1. FsType /\ SlotsLeft /\ stub[e] = NoStub /\ Layout(nand, lists, vaddrMap, stub)
  BY DEF FsInv, Create, Unused, Serving, CalmInv, CurLists, CurMap
<1>2. PICK junk \in world.links, mod \in world.flags :
        LET a == Allocation(junk)
            p == GetFreePage(a.nand, a.lists, a.log, junk)
            header == NewPage(HeaderPayload(p.log), 0, p.link, PTYPE_INODE)
        IN /\ nand' = WriteNAND(p.nand, p.address, header, FALSE)
           /\ lists' = p.lists
           /\ vaddrMap' = a.vaddrMap
           /\ stub' = [stub EXCEPT ![e] = [ino |-> FreeInode, fileId |-> a.fileID]]
  BY Zenon DEF Create
<1>3. junk = 0
  BY CalmWorld
<1>4. nand \in GoodMemory /\ lists \in ListsType /\ vaddrMap \in MapType
      /\ stub \in [Entries -> [ino : {0} \cup Inodes, fileId : Ids]]
  BY <1>1 DEF FsType, GoodMaps
<1> DEFINE a == Allocation(junk)
           p == GetFreePage(a.nand, a.lists, a.log, junk)
           header == NewPage(HeaderPayload(p.log), 0, p.link, PTYPE_INODE)
           g == ForNewFile(nand, lists, junk)
           f == vaddrMap.freePtr
           s == [ino |-> FreeInode, fileId |-> f]
<1>5. /\ f \in 1 .. MaxId - 1 /\ f % 2 = 1 /\ a.fileID = f
      /\ a.vaddrMap.map[f] = g.page /\ a.vaddrMap.map[f + 1] = g.page
      /\ a.vaddrMap.map[0] = vaddrMap.map[0]
      /\ \A i \in Ids : i # f /\ i # f + 1 => a.vaddrMap.map[i] = vaddrMap.map[i]
      /\ a.vaddrMap.freePtr = 0 \/ a.vaddrMap.freePtr = f + 2
      /\ a.lists = g.lists /\ a.nand = g.nand
      /\ a.log = [nextPage |-> g.page, last |-> BlockOf(g.page), first |-> BlockOf(g.page),
                  prev |-> -1, logId |-> f + 1, fileId |-> f]
  <2>1. g = ForNewFile(nand, lists, junk) /\ f = vaddrMap.freePtr /\ a = Allocation(junk)
        /\ junk \in Int
    BY <1>3
  <2> HIDE DEF a, g, f
  <2> QED BY <1>1, <2>1, AllocationIs
<1>6. a.log \in LogType /\ a.nand \in GoodMemory
  BY <1>1, <1>3, AllocationGood
<1>7. /\ nand' = WriteNAND(p.nand, p.address, header, FALSE)
      /\ lists' = p.lists /\ vaddrMap' = a.vaddrMap
      /\ stub' = [stub EXCEPT ![e] = s]
  BY <1>2, <1>5, Zenon
<1>8. a.log.nextPage = g.page /\ a.log.first = BlockOf(g.page) /\ a.log.prev = -1
      /\ a.log.logId = f + 1 /\ a.log.fileId = f
  <2> HIDE DEF a, g, f
  <2> QED BY <1>5
<1> HIDE DEF a, g, f
<1>9. CASE lists.partialHead = 0
  <2>1. g.page = 0 /\ g.nand[0].contents[0].contents = Blank
    <3>1. lists.completeHead = 0
      BY <1>1 DEF Layout
    <3> QED BY <1>4, <1>9, <3>1, Exhausted DEF g
  <2>2. p.address = 0 /\ p.nand = a.nand
    <3>1. /\ a.log.nextPage = 0 /\ PageOf(0) = 0
          /\ PageOf(1) # 0 /\ PageOf(2) # 0 /\ PageOf(3) # 0
      BY <1>8, <2>1, BlockSizeAssumption, LogBlockAssumption DEF PageOf
    <3> QED BY <3>1 DEF GetFreePage
  <2>3. header.contents.kind = "header"
    BY DEF NewPage, HeaderPayload
  <2> HIDE DEF header, p
  <2>4. nand' = InSequence(a.nand, At(0, 0), header)
    BY <1>7, <2>2, SuperAt, Zenon DEF InSequence
  <2>5. nand'[0].contents[0].contents.kind # "super"
    <3>1. CASE a.nand[0].nextPage # 0
      <4>1. nand' = a.nand
        BY <1>6, <2>4, <3>1, SuperAt, WriteAt
      <4> QED BY <1>5, <2>1, <4>1 DEF Blank
    <3>2. CASE a.nand[0].nextPage = 0
      <4>1. nand'[0].contents[0] = header
        BY <1>6, <2>4, <3>2, SuperAt, WriteAt
      <4> QED BY <2>3, <4>1
    <3> QED BY <3>1, <3>2
  <2>6. FALSE
    BY <2>5, SuperAt DEF SuperIntact
  <2> QED BY <2>6
<1>10. CASE lists.partialHead # 0
  <2>0. PICK U \in SUBSET LogBlocks : \E c \in U, j \in 1 .. 2 :
          Handed(nand, lists, vaddrMap, stub, g, U, c, j)
    <3>1. \E U \in SUBSET LogBlocks : \E c \in U, j \in 1 .. 2 :
            Handed(nand, lists, vaddrMap, stub, g, U, c, j)
      BY <1>1, <1>4, <1>10, NextHanded DEF g
    <3> QED BY <3>1
  <2>1. PICK c \in U, j \in 1 .. 2 : Handed(nand, lists, vaddrMap, stub, g, U, c, j)
    BY <2>0
  <2>2. /\ g.page = At(c, j) /\ g.nand = nand
        /\ nand[LastBlock].nextPage = 0 => j = 1
        /\ nand[c].nextPage = j \/ (nand[c].nextPage = 0 /\ nand[c].contents[j].contents = Blank)
    BY <2>1 DEF Handed
  <2>3. c \in LogBlocks /\ c \in Blocks /\ j \in PageIdx /\ BlockOf(At(c, j)) = c
    BY LogPages, AtSplit
  <2>4. /\ p.address = At(c, j) /\ p.link = 0 /\ p.lists = g.lists /\ p.nand = nand
        /\ p.log.logId = f + 1 /\ p.log.fileId = f /\ p.log.first = c /\ p.log.prev = -1
    <3>1. a.log.nextPage = At(c, j)
      BY <1>8, <2>2
    <3>2. /\ p.address = At(c, j) /\ p.link = junk /\ p.lists = a.lists /\ p.nand = a.nand
          /\ p.log.logId = a.log.logId /\ p.log.fileId = a.log.fileId
          /\ p.log.first = a.log.first /\ p.log.prev = a.log.prev
      BY <1>6, <2>3, <3>1, HeaderPlace
    <3> HIDE DEF p
    <3> QED BY <1>3, <1>5, <1>8, <2>2, <2>3, <3>2
  <2> HIDE DEF p
  <2>5. header.contents = HeaderOf(f, c) /\ header.nextLogBlock = 0
    BY <2>4 DEF NewPage, HeaderPayload, HeaderOf
  <2> HIDE DEF header
  <2>6. nand' = InSequence(nand, At(c, j), header) /\ lists' = g.lists
    BY <1>7, <2>4, Zenon DEF InSequence
  <2>7. /\ nand[c].nextPage # j => nand' = nand
        /\ nand[c].nextPage = j =>
             /\ nand'[c].nextPage = j + 1 /\ nand'[c].contents[j] = header
             /\ \A i \in PageIdx : i # j => nand'[c].contents[i] = nand[c].contents[i]
        /\ \A b \in Blocks : b # c => nand'[b] = nand[b]
    BY <1>4, <2>3, <2>6, WriteAt
  <2>8. /\ nand[c].nextPage \in Nat /\ nand[LastBlock].nextPage \in Nat
        /\ \A b \in LogBlocks : nand[b].nextPage \in Nat
    BY <1>4, <2>3, LogPages, NextPages
  <2>9. /\ \A b \in LogBlocks : b # c => nand'[b] = nand[b]
        /\ nand'[c].nextPage \in Nat /\ nand'[LastBlock].nextPage \in Nat
        /\ nand'[c].nextPage >= nand[c].nextPage
        /\ nand'[c].contents[0] = nand[c].contents[0]
        /\ nand[c].nextPage = 0 => nand'[c] = nand[c]
    <3>1. 0 \in PageIdx /\ j # 0 /\ j \in Nat
      BY SuperAt
    <3>2. LastBlock \in Blocks /\ LogBlocks \subseteq Blocks
      BY LogPages
    <3>3. CASE nand[c].nextPage # j
      BY <2>7, <2>8, <3>3
    <3>4. CASE nand[c].nextPage = j
      <4>1. nand'[c].nextPage = j + 1 /\ nand'[c].contents[0] = nand[c].contents[0]
        BY <2>7, <3>1, <3>4
      <4>2. nand'[LastBlock].nextPage \in Nat
        BY <2>7, <2>8, <3>1, <3>2, <4>1
      <4> QED BY <2>7, <3>1, <3>2, <3>4, <4>1, <4>2
    <3> QED BY <3>3, <3>4
  <2>10. /\ vaddrMap'.map[0] = vaddrMap.map[0]
         /\ vaddrMap'.map[f] = At(c, j) /\ vaddrMap'.map[f + 1] = At(c, j)
         /\ \A i \in Ids : i # f /\ i # f + 1 => vaddrMap'.map[i] = vaddrMap.map[i]
         /\ vaddrMap'.freePtr = 0 \/ vaddrMap'.freePtr = f + 2
    BY <1>5, <1>7, <2>2
  <2>11. Taken(nand', lists', vaddrMap', stub, U, c, f)
    <3>1. SlotsTaken(vaddrMap, vaddrMap', f) /\ BlockUsed(nand, nand', c)
      <4>1. vaddrMap.freePtr = f
        BY DEF f
      <4>2. SlotsTaken(vaddrMap, vaddrMap', f)
        BY <1>5, <2>10, <4>1 DEF SlotsTaken
      <4>3. \A b \in LogBlocks : nand'[b].nextPage \in Nat
        BY <2>8, <2>9
      <4> QED BY <2>8, <2>9, <4>2, <4>3 DEF BlockUsed
    <3>2. Taken(nand', g.lists, vaddrMap', stub, U, c, f)
      BY <1>1, <2>1, <3>1, LayoutTaken
    <3> QED BY <2>6, <3>2
  <2>12. HasLog(nand', vaddrMap', f, c, j)
    <3>1. vaddrMap'.map[f] = At(c, j) /\ vaddrMap'.map[f + 1] = At(c, j)
      BY <2>10
    <3>2. vaddrMap'.freePtr = 0 \/ f < vaddrMap'.freePtr
      BY <1>5, <2>10
    <3>3. nand'[LastBlock].nextPage = 0 => j = 1
      BY <2>2, <2>3, <2>8, <2>9, LogPages
    <3>4. \/ nand'[c].contents[j].contents = Blank
          \/ /\ nand'[c].contents[j].contents = HeaderOf(f, c)
             /\ nand'[c].contents[j].nextLogBlock = 0
             /\ nand'[c].nextPage = j + 1
      <4>1. CASE nand[c].nextPage = j
        BY <2>5, <2>7, <4>1
      <4>2. CASE nand[c].nextPage # j
        BY <2>2, <2>7, <4>2
      <4> QED BY <4>1, <4>2
    <3> QED BY <1>5, <3>1, <3>2, <3>3, <3>4, Zenon DEF HasLog
  <2>13. s.fileId = f /\ \A h \in NamedIn(stub) : stub[h].ino # s.ino
    BY <1>1, InodeLeft DEF NamedIn
  <2>14. \A h \in NamedIn(stub') :
           IF h = e THEN stub'[h] = s ELSE h \in NamedIn(stub) /\ stub'[h] = stub[h]
    <3> HIDE DEF s
    <3> QED BY <1>4, <1>7 DEF NamedIn
  <2> HIDE DEF s
  <2>15. Layout(nand', lists', vaddrMap', stub')
    BY <2>11, <2>12, <2>13, <2>14, LayoutNew
  <2>16. Programs(nand, nand')
    BY <2>3, <2>6, Zenon DEF Programs
  <2> QED BY <2>15, <2>16
<1> QED BY <1>9, <1>10

(* Nothing is lost when the file is not created after all. *)
LEMMA TakenLayout ==
  ASSUME NEW m, NEW l, NEW vm, NEW st, NEW U \in SUBSET LogBlocks, NEW c \in U, NEW f,
         Taken(m, l, vm, st, U, c, f)
  PROVE  Layout(m, l, vm, st)
<1>1. U \ {c} \in SUBSET LogBlocks
  OBVIOUS
<1>2. LogsTaken(m, vm, st, U)
  BY DEF Taken
<1>3. LogsTaken(m, vm, st, U \ {c})
  <2> SUFFICES ASSUME NEW e \in NamedIn(st)
               PROVE  \E d \in LogBlocks \ (U \ {c}), i \in 1 .. 2 :
                        HasLog(m, vm, st[e].fileId, d, i)
    BY DEF LogsTaken
  <2>1. PICK d \in LogBlocks \ U, i \in 1 .. 2 : HasLog(m, vm, st[e].fileId, d, i)
    BY <1>2 DEF LogsTaken
  <2>2. d \in LogBlocks \ (U \ {c})
    OBVIOUS
  <2> QED BY <2>1, <2>2
<1> QED BY <1>1, <1>3 DEF Layout, Taken

LEMMA CreateFailsLayout ==
  ASSUME FsInv, Calm, CalmInv, NEW e \in Entries, CreateFails(e), SuperIntact'
  PROVE  Layout(nand', lists', vaddrMap', stub') /\ Programs(nand, nand')
<1>1. FsType /\ SlotsLeft /\ Layout(nand, lists, vaddrMap, stub) /\ stub' = stub
  BY DEF FsInv, CreateFails, Unused, Serving, CalmInv, CurLists, CurMap
<1>2. PICK junk \in world.links, mod \in world.flags :
        LET a == Allocation(junk)
        IN nand' = a.nand /\ lists' = a.lists /\ vaddrMap' = a.vaddrMap
  BY Zenon DEF CreateFails
<1>3. junk \in Int
  BY CalmWorld
<1>4. nand \in GoodMemory /\ lists \in ListsType
  BY <1>1 DEF FsType
<1> DEFINE a == Allocation(junk)
           g == ForNewFile(nand, lists, junk)
           f == vaddrMap.freePtr
<1>5. g = ForNewFile(nand, lists, junk) /\ f = vaddrMap.freePtr /\ a = Allocation(junk)
  OBVIOUS
<1>6. nand' = a.nand /\ lists' = a.lists /\ vaddrMap' = a.vaddrMap
  BY <1>2, Zenon
<1> HIDE DEF a, g, f
<1>7. /\ f \in 1 .. MaxId - 1 /\ f % 2 = 1 /\ a.fileID = f
      /\ a.vaddrMap.map[f] = g.page /\ a.vaddrMap.map[f + 1] = g.page
      /\ a.vaddrMap.map[0] = vaddrMap.map[0]
      /\ \A i \in Ids : i # f /\ i # f + 1 => a.vaddrMap.map[i] = vaddrMap.map[i]
      /\ a.vaddrMap.freePtr = 0 \/ a.vaddrMap.freePtr = f + 2
      /\ a.lists = g.lists /\ a.nand = g.nand
  <2>1. FsType /\ SlotsLeft
    BY <1>1
  <2>2. /\ f \in 1 .. MaxId - 1 /\ f % 2 = 1
        /\ a.fileID = f /\ a.logID = f + 1
        /\ a.vaddrMap.map[f] = g.page /\ a.vaddrMap.map[f + 1] = g.page
        /\ a.vaddrMap.map[0] = vaddrMap.map[0]
        /\ \A i \in Ids : i # f /\ i # f + 1 => a.vaddrMap.map[i] = vaddrMap.map[i]
        /\ a.vaddrMap.freePtr = 0 \/ a.vaddrMap.freePtr = f + 2
        /\ a.lists = g.lists /\ a.nand = g.nand
        /\ a.log = [nextPage |-> g.page, last |-> BlockOf(g.page), first |-> BlockOf(g.page),
                    prev |-> -1, logId |-> f + 1, fileId |-> f]
    BY <1>3, <1>5, <2>1, AllocationIs
  <2> QED BY <2>2
<1>8. CASE lists.partialHead = 0
  <2>1. lists.completeHead = 0
    BY <1>1 DEF Layout
  <2>2. g.nand[0].contents[0].contents = Blank
    BY <1>4, <1>5, <1>8, <2>1, Exhausted
  <2>3. nand'[0].contents[0].contents.kind # "super"
    BY <1>6, <1>7, <2>2 DEF Blank
  <2>4. FALSE
    BY <2>3, SuperAt DEF SuperIntact
  <2> QED BY <2>4
<1>9. CASE lists.partialHead # 0
  <2>1. PICK U \in SUBSET LogBlocks : \E c \in U, j \in 1 .. 2 :
          Handed(nand, lists, vaddrMap, stub, g, U, c, j)
    <3>1. \E U \in SUBSET LogBlocks : \E c \in U, j \in 1 .. 2 :
            Handed(nand, lists, vaddrMap, stub, g, U, c, j)
      BY <1>1, <1>4, <1>5, <1>9, NextHanded
    <3> QED BY <3>1
  <2>2. PICK c \in U, j \in 1 .. 2 : Handed(nand, lists, vaddrMap, stub, g, U, c, j)
    BY <2>1
  <2>3. nand' = nand /\ lists' = g.lists
    BY <1>6, <1>7, <2>2 DEF Handed
  <2>4. SlotsTaken(vaddrMap, vaddrMap', f)
    BY <1>5, <1>6, <1>7 DEF SlotsTaken
  <2>5. BlockUsed(nand, nand', c)
    <3>1. \A b \in LogBlocks : nand[b].nextPage \in Nat
      BY <1>4, LogPages, NextPages
    <3> QED BY <2>3, <3>1 DEF BlockUsed
  <2>6. Taken(nand', g.lists, vaddrMap', stub, U, c, f)
    BY <1>1, <2>2, <2>4, <2>5, LayoutTaken
  <2>7. Layout(nand', lists', vaddrMap', stub')
    BY <1>1, <2>3, <2>6, TakenLayout
  <2> QED BY <2>3, <2>7 DEF Programs
<1> QED BY <1>8, <1>9

-----------------------------------------------------------------------------
(* logs_recycle of a log that has only its header. *)
LEMMA RecycleIs ==
  ASSUME NEW m, NEW l \in ListsType, l.partialTail # 0, NEW c \in LogBlocks, NEW j \in 1 .. 2,
         NEW r, r = LogsRecycle(m, l, c, -1, At(c, j))
  PROVE  /\ r.nand = InSequence(m, l.partialTail, LinkPage(At(c, j)))
         /\ r.lists.partialHead = l.partialHead /\ r.lists.partialTail = At(c, j)
         /\ r.lists.completeHead = l.completeHead /\ r.lists.completeTail = l.completeTail
<1> USE BlockSizeAssumption, LogBlockAssumption
<1> DEFINE k == At(c, j)
           w == WriteNAND(m, l.partialTail, LinkPage(k), FALSE)
           y == [l EXCEPT !.partialHead = IF l.partialTail = 0 THEN k ELSE @, !.partialTail = k]
<1>1. PageOf(k) = j /\ BlockOf(k) = c
  <2>1. c \in Nat /\ j \in PageIdx
    BY LogPages
  <2> QED BY <2>1, AtSplit
<1>2. PageOf(k) <= BLOCKSIZE - 3
  BY <1>1
<1>3. y.partialHead = l.partialHead /\ y.partialTail = k
      /\ y.completeHead = l.completeHead /\ y.completeTail = l.completeTail
  <2> HIDE DEF k
  <2> QED BY DEF ListsType
<1>4. r = LogsRecycle(m, l, c, -1, k)
  OBVIOUS
<1> HIDE DEF k
<1>5. r = [nand |-> w, lists |-> y]
  BY <1>1, <1>2, <1>4 DEF LogsRecycle
<1> HIDE DEF y, w
<1>6. r.nand = w /\ r.lists = y
  BY <1>5
<1> QED BY <1>3, <1>6, Zenon DEF w, k, InSequence

(* st2 is st without the file of entry e. *)
Without(st, st2, e) ==
  \A h \in NamedIn(st2) : h \in NamedIn(st) /\ st2[h] = st[h] /\ st[h] # st[e]

LEMMA RecycledLayout ==
  ASSUME NEW m \in GoodMemory, NEW l \in ListsType, NEW vm, NEW st, NEW st2,
         Layout(m, l, vm, st), NEW e \in NamedIn(st), Without(st, st2, e),
         NEW c \in LogBlocks, NEW j \in 1 .. 2, NEW U \in SUBSET LogBlocks, c \notin U,
         LeadsTo(m, l, U), LogsTaken(m, vm, st, U), HasLog(m, vm, st[e].fileId, c, j),
         m[c].contents[j].nextLogBlock = 0, m[c].nextPage = j + 1,
         NEW r, r = LogsRecycle(m, l, c, -1, At(c, j))
  PROVE  Layout(r.nand, r.lists, vm, st2)
<1> USE NumBlocksAssumption, LogSpaceAssumption
<1>1. /\ l.completeHead = 0 /\ l.completeTail = 0 /\ vm.map[0] = 0
      /\ Chained(m) /\ Tail(m, l) /\ Apart(vm, st)
  BY DEF Layout
<1>2. /\ LastBlock \in LogBlocks /\ LastBlock \in Blocks /\ 0 \in PageIdx
      /\ \A b \in LogBlocks : b \in Nat /\ b \in Blocks /\ b > 0
      /\ \A i \in 1 .. 2 : i \in PageIdx
  BY LogPages
<1>3. l.partialTail # 0
  BY <1>1, <1>2, AtPages DEF Tail
<1>4. /\ r.nand = InSequence(m, l.partialTail, LinkPage(At(c, j)))
      /\ r.lists.partialHead = l.partialHead /\ r.lists.partialTail = At(c, j)
      /\ r.lists.completeHead = 0 /\ r.lists.completeTail = 0
  BY <1>1, <1>3, RecycleIs
<1>5. Apart(vm, st2)
  <2> SUFFICES ASSUME NEW h \in NamedIn(st2), NEW k \in NamedIn(st2), st2[h] # st2[k]
               PROVE  /\ st2[h].ino # st2[k].ino
                      /\ st2[h].fileId # st2[k].fileId
                      /\ BlockOf(vm.map[st2[h].fileId]) # BlockOf(vm.map[st2[k].fileId])
    BY Zenon DEF Apart
  <2>1. h \in NamedIn(st) /\ st2[h] = st[h] /\ k \in NamedIn(st) /\ st2[k] = st[k]
    BY DEF Without
  <2>2. /\ st[h].ino # st[k].ino /\ st[h].fileId # st[k].fileId
        /\ BlockOf(vm.map[st[h].fileId]) # BlockOf(vm.map[st[k].fileId])
    BY <1>1, <2>1 DEF Apart
  <2> QED BY <2>1, <2>2
<1>6. \A h \in NamedIn(st2) : \E d \in LogBlocks \ U, i \in 1 .. 2 :
        d # c /\ HasLog(m, vm, st2[h].fileId, d, i)
  <2> SUFFICES ASSUME NEW h \in NamedIn(st2)
               PROVE  \E d \in LogBlocks \ U, i \in 1 .. 2 :
                        d # c /\ HasLog(m, vm, st2[h].fileId, d, i)
    OBVIOUS
  <2>1. h \in NamedIn(st) /\ st2[h] = st[h] /\ st[h] # st[e]
    BY DEF Without
  <2>2. PICK d \in LogBlocks \ U, i \in 1 .. 2 : HasLog(m, vm, st[h].fileId, d, i)
    BY <2>1 DEF LogsTaken
  <2>3. vm.map[st[h].fileId] = At(d, i) /\ vm.map[st[e].fileId] = At(c, j)
    BY <2>2 DEF HasLog
  <2>4. BlockOf(At(d, i)) = d /\ BlockOf(At(c, j)) = c
    BY <1>2, AtSplit
  <2>5. BlockOf(vm.map[st[h].fileId]) # BlockOf(vm.map[st[e].fileId])
    BY <1>1, <2>1, Zenon DEF Apart
  <2>6. d # c
    BY <2>3, <2>4, <2>5
  <2> QED BY <2>1, <2>2, <2>6
<1>7. ASSUME m[LastBlock].nextPage = 0, l.partialTail = At(LastBlock, 0)
      PROVE  Layout(r.nand, r.lists, vm, st2)
  <2> DEFINE m2 == r.nand
  <2>1. /\ m2[LastBlock].nextPage = 1
        /\ m2[LastBlock].contents[0] = LinkPage(At(c, j))
        /\ \A i \in PageIdx : i # 0 => m2[LastBlock].contents[i] = m[LastBlock].contents[i]
        /\ \A b \in Blocks : b # LastBlock => m2[b] = m[b]
    <3>1. m2 = InSequence(m, At(LastBlock, 0), LinkPage(At(c, j)))
      BY <1>4, <1>7
    <3> HIDE DEF m2
    <3>2. m2[LastBlock].nextPage = 0 + 1
      BY <1>2, <1>7, <3>1, WriteAt
    <3> QED BY <1>2, <1>7, <3>1, <3>2, WriteAt
  <2>2. m2[LastBlock].contents[0].nextLogBlock = At(c, j)
    <3> HIDE DEF m2
    <3> QED BY <2>1 DEF LinkPage, NewPage
  <2> HIDE DEF m2
  <2>3. j = 1 /\ c # LastBlock /\ m[c].nextPage = 2 /\ m2[c] = m[c]
    <3>1. j = 1
      BY <1>7 DEF HasLog
    <3> QED BY <1>2, <1>7, <2>1, <3>1
  <2>4. c \in 2 .. NumBlocks - 2
    BY <2>3 DEF LogBlocks, LastBlock
  <2>5. Spare(m2, c)
    BY <2>3, <2>4 DEF Spare
  <2>6. \A b \in 2 .. NumBlocks - 2 : m2[b] = m[b]
    <3>1. \A b \in 2 .. NumBlocks - 2 : b \in Blocks /\ b # LastBlock
      BY DEF Blocks, LastBlock
    <3> QED BY <2>1, <3>1
  <2>7. Chained(m2)
    BY <1>1, <2>1, <2>6 DEF Chained
  <2>8. Tail(m2, r.lists)
    <3>1. m2[LastBlock].nextPage >= 1 /\ m2[c].nextPage > 1 /\ 1 \in 1 .. 2
      BY <2>1, <2>3
    <3> QED BY <1>4, <2>3, <3>1 DEF Tail
  <2>9. ASSUME NEW h \in NamedIn(st2), NEW d \in LogBlocks \ U, NEW i \in 1 .. 2,
               HasLog(m, vm, st2[h].fileId, d, i)
        PROVE  HasLog(m2, vm, st2[h].fileId, d, i)
    <3>1. m2[LastBlock].nextPage # 0
      BY <2>1
    <3>2. CASE d # LastBlock
      <4>1. m2[d] = m[d]
        BY <1>2, <2>1, <3>2
      <4> QED BY <2>9, <3>1, <4>1, Zenon DEF HasLog
    <3>3. CASE d = LastBlock
      <4>1. m[d].contents[i].contents = Blank
        <5>1. m[d].nextPage # i + 1
          BY <1>7, <3>3
        <5> QED BY <2>9, <5>1 DEF HasLog
      <4>2. i \in PageIdx /\ i # 0
        BY <1>2
      <4>3. m2[d].contents[i] = m[d].contents[i]
        BY <2>1, <3>3, <4>2
      <4> QED BY <2>9, <3>1, <4>1, <4>3 DEF HasLog
    <3> QED BY <3>2, <3>3
  <2>10. CASE l.partialHead = 0 /\ U = {}
    <3>1. LeadsTo(m2, r.lists, U)
      BY <1>4, <2>10 DEF LeadsTo
    <3>2. LogsTaken(m2, vm, st2, U)
      BY <1>6, <2>9, Zenon DEF LogsTaken
    <3> QED BY <1>1, <1>4, <1>5, <2>7, <2>8, <3>1, <3>2 DEF Layout, m2
  <2>11. ASSUME NEW b \in LogBlocks, FromBlock(m, l, U, b)
         PROVE  Layout(r.nand, r.lists, vm, st2)
    <3> DEFINE V == {c} \cup (b .. LastBlock)
    <3>1. /\ l.partialHead = At(b, 0) /\ U = b .. LastBlock
          /\ \A i \in b .. NumBlocks - 2 : m[i].nextPage = 1
      BY <1>7, <2>11 DEF FromBlock
    <3>2. c \in 2 .. b - 1 /\ V \in SUBSET LogBlocks
      BY <2>4, <3>1 DEF LogBlocks, LastBlock
    <3>3. \A i \in b .. NumBlocks - 2 : m2[i].nextPage = 1
      <4>1. \A i \in b .. NumBlocks - 2 : i \in 2 .. NumBlocks - 2
        BY DEF LogBlocks
      <4> QED BY <2>6, <3>1, <4>1
    <3>4. FromBlock(m2, r.lists, V, b)
      BY <1>4, <2>1, <2>2, <2>3, <2>5, <3>1, <3>2, <3>3 DEF FromBlock
    <3>5. LeadsTo(m2, r.lists, V)
      BY <3>4 DEF LeadsTo
    <3>6. LogsTaken(m2, vm, st2, V)
      <4> SUFFICES ASSUME NEW h \in NamedIn(st2)
                   PROVE  \E d \in LogBlocks \ V, i \in 1 .. 2 :
                            HasLog(m2, vm, st2[h].fileId, d, i)
        BY DEF LogsTaken
      <4>1. PICK d \in LogBlocks \ U, i \in 1 .. 2 :
              d # c /\ HasLog(m, vm, st2[h].fileId, d, i)
        BY <1>6
      <4>2. d \in LogBlocks \ V
        BY <3>1, <4>1
      <4> QED BY <2>9, <4>1, <4>2
    <3> QED BY <1>1, <1>4, <1>5, <2>7, <2>8, <3>2, <3>5, <3>6 DEF Layout, m2
  <2>12. ~ (m[LastBlock].nextPage >= 1)
    BY <1>7
  <2> QED BY <2>10, <2>11, <2>12, Zenon DEF LeadsTo
<1>8. ASSUME m[LastBlock].nextPage >= 1, NEW b \in LogBlocks, NEW i \in 1 .. 2,
             l.partialTail = At(b, i), m[b].nextPage > i
      PROVE  Layout(r.nand, r.lists, vm, st2)
  <2>1. m[b].nextPage # i
    BY <1>8
  <2>2. r.nand = m
    BY <1>2, <1>4, <1>8, <2>1, WriteAt
  <2>3. Tail(m, r.lists)
    <3>1. m[c].nextPage > j
      OBVIOUS
    <3> QED BY <1>4, <1>8, <3>1 DEF Tail
  <2>4. LeadsTo(m, r.lists, U)
    BY <1>4, Zenon DEF LeadsTo, FromBlock
  <2>5. LogsTaken(m, vm, st2, U)
    BY <1>6, Zenon DEF LogsTaken
  <2> QED BY <1>1, <1>4, <1>5, <2>2, <2>3, <2>4, <2>5 DEF Layout
<1> QED BY <1>1, <1>7, <1>8, Zenon DEF Tail

-----------------------------------------------------------------------------
(* When the last name of a file goes, no other entry is of that file. *)
LEMMA LastLink ==
  ASSUME FsInv, NEW e \in Entries, stub[e] # NoStub, NLink(e) = 1, RemoveStub(e)
  PROVE  Without(stub, stub', e)
<1> DEFINE S == {f \in Entries : stub[f].ino = stub[e].ino}
<1>1. stub \in [Entries -> [ino : {0} \cup Inodes, fileId : Ids]]
      /\ stub' = [stub EXCEPT ![e] = NoStub]
  BY DEF FsInv, FsType, RemoveStub
<1>2. IsFiniteSet(S)
  BY EntriesAssumption, FS_Subset
<1>3. Cardinality(S) = 1
  BY DEF NLink
<1>4. \E x : S = {x}
  <2> HIDE DEF S
  <2> QED BY <1>2, <1>3, FS_Singleton
<1>5. S = {e}
  <2>1. e \in S
    OBVIOUS
  <2> HIDE DEF S
  <2> QED BY <1>4, <2>1
<1> SUFFICES ASSUME NEW h \in NamedIn(stub')
             PROVE  h \in NamedIn(stub) /\ stub'[h] = stub[h] /\ stub[h] # stub[e]
  BY DEF Without
<1>6. h \in Entries /\ h # e /\ stub'[h] = stub[h] /\ stub[h] # NoStub
  BY <1>1 DEF NamedIn
<1>7. h \notin S
  <2> HIDE DEF S
  <2> QED BY <1>5, <1>6
<1> QED BY <1>6, <1>7 DEF NamedIn

(* A page cast to a log header. *)
LEMMA HeaderFields ==
  /\ \A page : page.contents = Blank => AsHeader(page).logId = 0
  /\ \A page : page.contents.kind = "super" => AsHeader(page).fileCount = 0
  /\ \A page, id, c : page.contents = HeaderOf(id, c) =>
       /\ AsHeader(page).logId = id + 1 /\ AsHeader(page).first = c
       /\ AsHeader(page).prev = -1 /\ AsHeader(page).fileCount = 1
<1>1. ASSUME NEW page, page.contents = Blank
      PROVE  AsHeader(page).logId = 0
  <2>1. page.contents.kind = "blank"
    BY <1>1 DEF Blank
  <2>2. AsHeader(page) = NoHeader
    BY <2>1 DEF AsHeader
  <2> QED BY <2>2 DEF NoHeader
<1>2. ASSUME NEW page, page.contents.kind = "super"
      PROVE  AsHeader(page).fileCount = 0
  <2>1. AsHeader(page) = [NoHeader EXCEPT !.logId = page.contents.freeLists.partialTail]
    BY <1>2 DEF AsHeader
  <2> QED BY <2>1 DEF NoHeader
<1>3. ASSUME NEW page, NEW id, NEW c, page.contents = HeaderOf(id, c)
      PROVE  /\ AsHeader(page).logId = id + 1 /\ AsHeader(page).first = c
             /\ AsHeader(page).prev = -1 /\ AsHeader(page).fileCount = 1
  <2>1. page.contents.kind = "header"
    BY <1>3 DEF HeaderOf
  <2>2. AsHeader(page) = page.contents
    BY <2>1 DEF AsHeader
  <2> QED BY <1>3, <2>2 DEF HeaderOf
<1> QED BY <1>1, <1>2, <1>3

LEMMA UnlinkLastLayout ==
  ASSUME FsInv, Calm, CalmInv, NEW e \in Entries, UnlinkLast(e)
  PROVE  Layout(nand', lists', vaddrMap', stub') /\ Programs(nand, nand')
<1>1. /\ FsType /\ Layout(nand, lists, vaddrMap, stub) /\ SuperIntact
      /\ stub[e] # NoStub /\ NLink(e) = 1 /\ RemoveStub(e) /\ vaddrMap' = vaddrMap
  BY DEF FsInv, UnlinkLast, Unlinking, Serving, CalmInv, CurLists, CurMap
<1>2. PICK page \in PagesRead(nand, vaddrMap.map[FileId(e)]) :
        \E page2 \in PagesRead(nand, vaddrMap.map[AsHeader(page).logId]) :
          LET h == AsHeader(page2)
              r == LogsRecycle(nand, lists, h.first, h.prev, vaddrMap.map[AsHeader(page).logId])
          IN IF h.fileCount - 1 = 0
               THEN nand' = r.nand /\ lists' = r.lists
               ELSE UNCHANGED <<nand, lists>>
  BY Zenon DEF UnlinkLast
<1>3. PICK page2 \in PagesRead(nand, vaddrMap.map[AsHeader(page).logId]) :
          LET h == AsHeader(page2)
              r == LogsRecycle(nand, lists, h.first, h.prev, vaddrMap.map[AsHeader(page).logId])
          IN IF h.fileCount - 1 = 0
               THEN nand' = r.nand /\ lists' = r.lists
               ELSE UNCHANGED <<nand, lists>>
  BY <1>2
<1>4. nand \in GoodMemory /\ lists \in ListsType
  BY <1>1 DEF FsType
<1>5. e \in NamedIn(stub) /\ Without(stub, stub', e)
  BY <1>1, LastLink DEF NamedIn
<1>6. PICK U \in SUBSET LogBlocks : LeadsTo(nand, lists, U) /\ LogsTaken(nand, vaddrMap, stub, U)
  BY <1>1 DEF Layout
<1>7. PICK c \in LogBlocks \ U, j \in 1 .. 2 : HasLog(nand, vaddrMap, stub[e].fileId, c, j)
  BY <1>5, <1>6 DEF LogsTaken
<1> DEFINE id == stub[e].fileId
<1>8. /\ vaddrMap.map[id] = At(c, j) /\ vaddrMap.map[id + 1] = At(c, j)
      /\ \/ nand[c].contents[j].contents = Blank
         \/ /\ nand[c].contents[j].contents = HeaderOf(id, c)
            /\ nand[c].contents[j].nextLogBlock = 0
            /\ nand[c].nextPage = j + 1
  BY <1>7 DEF HasLog
<1>9. At(c, j) \in Pages /\ ReadNAND(nand, At(c, j)) = nand[c].contents[j]
  BY LogPages, AtPages, ReadAt
<1>10. page = nand[c].contents[j]
  BY <1>8, <1>9 DEF PagesRead, FileId
<1>11. CASE nand[c].contents[j].contents = Blank
  <2>1. AsHeader(page).logId = 0
    BY <1>10, <1>11, HeaderFields
  <2>2. vaddrMap.map[0] = 0 /\ 0 \in Pages
    BY <1>1, SuperAt, AtPages DEF Layout
  <2>3. page2 = nand[0].contents[0]
    BY <2>1, <2>2, SuperAt DEF PagesRead
  <2>4. AsHeader(page2).fileCount = 0
    BY <1>1, <2>3, SuperAt, HeaderFields DEF SuperIntact
  <2>5. nand' = nand /\ lists' = lists
    <3>1. ~ (AsHeader(page2).fileCount - 1 = 0)
      BY <2>4
    <3> QED BY <1>3, <3>1, Zenon
  <2>6. \A h \in NamedIn(stub') : \E f \in NamedIn(stub) : stub'[h] = stub[f]
    BY <1>5 DEF Without
  <2>7. Layout(nand, lists, vaddrMap, stub')
    BY <1>1, <2>6, LayoutRenamed
  <2> QED BY <1>1, <2>5, <2>7 DEF Programs
<1>12. CASE /\ nand[c].contents[j].contents = HeaderOf(id, c)
            /\ nand[c].contents[j].nextLogBlock = 0
            /\ nand[c].nextPage = j + 1
  <2> HIDE DEF id
  <2>1. AsHeader(page).logId = id + 1
    BY <1>10, <1>12, HeaderFields
  <2>2. page2 = nand[c].contents[j]
    BY <1>8, <1>9, <2>1 DEF PagesRead
  <2>3. /\ AsHeader(page2).first = c /\ AsHeader(page2).prev = -1
        /\ AsHeader(page2).fileCount = 1
    BY <1>12, <2>2, HeaderFields
  <2> DEFINE r == LogsRecycle(nand, lists, c, -1, At(c, j))
  <2>4. nand' = r.nand /\ lists' = r.lists
    <3>1. AsHeader(page2).fileCount - 1 = 0
      BY <2>3
    <3>2. vaddrMap.map[AsHeader(page).logId] = At(c, j)
      BY <1>8, <2>1
    <3> QED BY <1>3, <2>3, <3>1, <3>2, Zenon
  <2>5. r = LogsRecycle(nand, lists, c, -1, At(c, j)) /\ c \in LogBlocks /\ c \notin U
    OBVIOUS
  <2> HIDE DEF r
  <2>6. Layout(r.nand, r.lists, vaddrMap, stub')
    BY <1>1, <1>4, <1>5, <1>6, <1>7, <1>12, <2>5, RecycledLayout
  <2>7. PICK b \in LogBlocks, i \in PageIdx : lists.partialTail = At(b, i)
    BY <1>1, LogPages, Zenon DEF Layout, Tail
  <2>8. b \in Blocks /\ At(b, i) # 0
    BY LogPages, AtPages
  <2>9. r.nand = InSequence(nand, lists.partialTail, LinkPage(At(c, j)))
    BY <1>4, <2>5, <2>7, <2>8, RecycleIs
  <2>10. Programs(nand, nand')
    BY <2>4, <2>7, <2>8, <2>9, Zenon DEF Programs
  <2> QED BY <1>1, <2>4, <2>6, <2>10
<1> QED BY <1>8, <1>11, <1>12

-----------------------------------------------------------------------------
(* A write with random access replaces one page. *)
AtRandom(m, k, page) == WriteNAND(m, k, page, TRUE)

LEMMA RewriteAt ==
  ASSUME NEW m \in GoodMemory, NEW c \in Blocks, NEW j \in PageIdx, NEW page,
         NEW w, w = AtRandom(m, At(c, j), page)
  PROVE  /\ w[c].contents[j] = page /\ w[c].nextPage = m[c].nextPage
         /\ \A i \in PageIdx : i # j => w[c].contents[i] = m[c].contents[i]
         /\ \A b \in Blocks : b # c => w[b] = m[b]
<1> DEFINE k == At(c, j)
<1>1. BlockOf(k) = c /\ PageOf(k) = j
  <2>1. c \in Nat
    BY NumBlocksAssumption DEF Blocks
  <2> QED BY <2>1, AtSplit
<1>2. w = WriteNAND(m, k, page, TRUE)
  BY DEF AtRandom
<1> HIDE DEF k
<1>3. WriteAccepted(m, k, TRUE)
  BY <1>1 DEF WriteAccepted
<1>4. w = [m EXCEPT ![c].contents[j] = page, ![c].nextPage = @]
  BY <1>1, <1>2, <1>3 DEF WriteNAND
<1> DEFINE f == [m[c].contents EXCEPT ![j] = page]
           B == [m[c] EXCEPT !.contents = f]
<1>5. m[c] \in [contents : [PageIdx -> GoodPages], nextPage : 0 .. BLOCKSIZE, eraseCount : Int]
      /\ DOMAIN m = Blocks
  BY DEF GoodMemory, GoodBlocks
<1>6. w = [m EXCEPT ![c] = B]
  BY <1>4, <1>5
<1>7. f[j] = page /\ \A i \in PageIdx : i # j => f[i] = m[c].contents[i]
  BY <1>5
<1>8. B.contents = f /\ B.nextPage = m[c].nextPage
  BY <1>5
<1>9. w[c] = B /\ \A b \in Blocks : b # c => w[b] = m[b]
  BY <1>5, <1>6
<1> HIDE DEF B, f
<1> QED BY <1>7, <1>8, <1>9

(* xmp_destroy: the lists and the map are where the next mount finds them, *)
(* and no other page changes.                                              *)
LEMMA DestroySaves ==
  ASSUME FsInv, Destroy
  PROVE  /\ ReadNAND(nand', 0).contents.freeLists = lists
         /\ ReadNAND(nand', BLOCKSIZE).contents.vaddrMap = vaddrMap
         /\ \A b \in Blocks : b \notin {0, 1} => nand'[b] = nand[b]
         /\ \A b \in Blocks, i \in PageIdx : i # 0 => nand'[b].contents[i] = nand[b].contents[i]
<1>1. PICK page \in GoodPages, mapPage \in GoodPages :
        /\ page.contents.freeLists = lists /\ mapPage.contents = MapPayload(vaddrMap)
        /\ nand' = WriteNAND(WriteNAND(nand, 0, page, TRUE), BLOCKSIZE, mapPage, TRUE)
  BY DestroyWrites, Zenon
<1> DEFINE m1 == AtRandom(nand, At(0, 0), page)
<1>2. m1 = AtRandom(nand, At(0, 0), page) /\ nand \in GoodMemory
  BY DEF FsInv, FsType
<1>3. nand' = AtRandom(m1, At(1, 0), mapPage)
  BY <1>1, SuperAt, Zenon DEF AtRandom
<1>4. m1 \in GoodMemory
  <2>1. 0 \in Int
    OBVIOUS
  <2>2. WriteNAND(nand, 0, page, TRUE) \in GoodMemory
    BY <1>2, <2>1, WritesGood, Zenon
  <2> QED BY <2>2, SuperAt, Zenon DEF AtRandom
<1> HIDE DEF m1
<1>5. /\ m1[0].contents[0] = page
      /\ \A i \in PageIdx : i # 0 => m1[0].contents[i] = nand[0].contents[i]
      /\ \A b \in Blocks : b # 0 => m1[b] = nand[b]
  BY <1>2, SuperAt, RewriteAt
<1>6. /\ nand'[1].contents[0] = mapPage
      /\ \A i \in PageIdx : i # 0 => nand'[1].contents[i] = m1[1].contents[i]
      /\ \A b \in Blocks : b # 1 => nand'[b] = m1[b]
  BY <1>3, <1>4, SuperAt, RewriteAt
<1>7. nand'[0].contents[0] = page /\ nand'[1].contents[0] = mapPage
  BY <1>5, <1>6, SuperAt
<1>8. mapPage.contents.vaddrMap = vaddrMap
  BY <1>1 DEF MapPayload
<1>9. \A b \in Blocks : b \notin {0, 1} => nand'[b] = nand[b]
  BY <1>5, <1>6
<1>10. \A b \in Blocks, i \in PageIdx : i # 0 => nand'[b].contents[i] = nand[b].contents[i]
  BY <1>5, <1>6, SuperAt
<1> QED BY <1>1, <1>7, <1>8, <1>9, <1>10, SuperAt

LEMMA DestroyLayout ==
  ASSUME FsInv, Calm, CalmInv, Destroy
  PROVE  Layout(nand', CurLists', CurMap', stub')
<1>1. Layout(nand, lists, vaddrMap, stub) /\ stub' = stub /\ ~ mounted'
  BY DEF CalmInv, CurLists, CurMap, Destroy, Stopped
<1>2. CurLists' = lists /\ CurMap' = vaddrMap
  BY <1>1, DestroySaves DEF CurLists, CurMap
<1>3. \A c \in LogBlocks : nand'[c] = nand[c]
  BY LogPages, DestroySaves
<1>4. Layout(nand', lists, vaddrMap, stub)
  BY <1>1, <1>3, LayoutKept
<1> QED BY <1>1, <1>2, <1>4

LEMMA MountLayout ==
  ASSUME FsInv, Calm, CalmInv, Mount
  PROVE  Layout(nand', CurLists', CurMap', stub')
<1>1. ~ mounted /\ SuperIntact /\ mounted' /\ nand' = nand /\ stub' = stub
  BY DEF Mount
<1> DEFINE super == ReadNAND(nand, 0).contents
<1>2. lists' = super.freeLists
      /\ vaddrMap' = ReadNAND(nand, super.latest_vaddr_map).contents.vaddrMap
  BY DEF Mount
<1>3. super.latest_vaddr_map = BLOCKSIZE
  <2>1. 0 \in Pages
    BY SuperAt, AtPages
  <2>2. super \in GoodPayloads /\ super.kind = "super"
    BY <1>1, <2>1, ReadGood DEF FsInv, FsType, SuperIntact, GoodPages
  <2> HIDE DEF super
  <2> QED BY <2>2 DEF GoodPayloads, SuperPayloads, MapPayloads, HeaderPayloads, Blank
<1>4. CurLists' = CurLists /\ CurMap' = CurMap
  BY <1>1, <1>2, <1>3 DEF CurLists, CurMap
<1>5. Layout(nand, CurLists, CurMap, stub)
  BY <1>1 DEF CalmInv
<1> QED BY <1>1, <1>4, <1>5

-----------------------------------------------------------------------------
(* Nothing that makes or counts an openFile marks it as modified. *)
LEMMA UnmodifiedPut ==
  ASSUME Unmodified, FsType, NEW i \in Ids, NEW x, x.kind = "file" => x.modified = 0,
         NEW j \in Ids, NEW y, y.kind = "file" => y.modified = 0,
         table' = [table EXCEPT ![i] = x, ![j] = y]
  PROVE  Unmodified'
<1>1. DOMAIN table = Ids
  BY DEF FsType, TableType
<1> SUFFICES ASSUME NEW id \in Ids, table'[id].kind = "file"
             PROVE  table'[id].modified = 0
  BY DEF Unmodified
<1> QED BY <1>1 DEF Unmodified

LEMMA UnmodifiedCount ==
  ASSUME Unmodified, FsType, NEW i \in Ids, table[i].kind = "file", NEW n,
         table' = [table EXCEPT ![i].currentOpens = n]
  PROVE  Unmodified'
<1> DEFINE x == [table[i] EXCEPT !.currentOpens = n]
<1>1. DOMAIN table = Ids /\ table[i] \in OpenFiles
  BY DEF FsType, TableType, NULL, LogEntry
<1>2. x.modified = 0
  BY <1>1 DEF OpenFiles, Unmodified
<1>3. table' = [table EXCEPT ![i] = x]
  BY <1>1
<1> HIDE DEF x
<1> SUFFICES ASSUME NEW id \in Ids, table'[id].kind = "file"
             PROVE  table'[id].modified = 0
  BY DEF Unmodified
<1> QED BY <1>1, <1>2, <1>3 DEF Unmodified

(* xmp_create puts an openFile that is not marked. *)
LEMMA UnmodifiedCreate ==
  ASSUME FsInv, Calm, CalmInv, NEW e \in Entries, Create(e) \/ CreateFails(e)
  PROVE  Unmodified'
<1>1. FsType /\ SlotsLeft /\ Unmodified
  BY DEF FsInv, CalmInv, Create, CreateFails
<1>2. PICK junk \in world.links, mod \in world.flags : \E log :
        table' = [table EXCEPT ![Allocation(junk).logID] = LogEntry,
                               ![Allocation(junk).fileID] = OpenFile(1, mod, log)]
  <2>1. CASE Create(e)
    <3>1. PICK junk \in world.links, mod \in world.flags :
            LET a == Allocation(junk)
                p == GetFreePage(a.nand, a.lists, a.log, junk)
            IN PutOpenFile(a, OpenFile(1, mod, p.log))
      BY <2>1, Zenon DEF Create
    <3> QED BY <3>1, Zenon DEF PutOpenFile
  <2>2. CASE CreateFails(e)
    BY <2>2, Zenon DEF CreateFails, PutOpenFile
  <2> QED BY <2>1, <2>2
<1> PICK log :
        table' = [table EXCEPT ![Allocation(junk).logID] = LogEntry,
                               ![Allocation(junk).fileID] = OpenFile(1, mod, log)]
  BY <1>2
<1>3. junk \in Int /\ mod = 0
  BY CalmWorld
<1>4. Allocation(junk).logID \in Ids /\ Allocation(junk).fileID \in Ids
  BY <1>1, <1>3, AllocationGood
<1>5. LogEntry.kind # "file" /\ OpenFile(1, mod, log).modified = 0
  BY <1>3 DEF LogEntry, OpenFile
<1> QED BY <1>1, <1>4, <1>5, UnmodifiedPut

-----------------------------------------------------------------------------
(* Handlers that write nothing and give no block or number away. *)
LEMMA QuietLayout ==
  ASSUME Calm, CalmInv, SuperIntact, UNCHANGED <<nand, lists, vaddrMap, mounted>>,
         \A e \in NamedIn(stub') : \E f \in NamedIn(stub) : stub'[e] = stub[f]
  PROVE  Layout(nand', CurLists', CurMap', stub')
<1>1. Layout(nand, CurLists, CurMap, stub)
  BY DEF CalmInv
<1>2. CurLists' = CurLists /\ CurMap' = CurMap /\ nand' = nand
  BY DEF CurLists, CurMap
<1>3. Layout(nand, CurLists, CurMap, stub')
  BY <1>1, LayoutRenamed
<1> QED BY <1>2, <1>3

(* What the invariant says of the next state, in a calm world. *)
CalmNext == Unmodified' /\ (SuperIntact' => Layout(nand', CurLists', CurMap', stub'))

LEMMA OpensCalm ==
  ASSUME FsInv, Calm, CalmInv, NEW e \in Entries, OpenCached(e) \/ OpenUncached(e)
  PROVE  CalmNext
<1>1. FsType /\ Unmodified /\ SuperIntact /\ UNCHANGED <<nand, lists, vaddrMap, mounted, stub>>
  BY DEF FsInv, CalmInv, OpenCached, OpenUncached, Serving
<1>2. Layout(nand', CurLists', CurMap', stub')
  BY <1>1, QuietLayout
<1>3. FileId(e) \in Ids
  BY <1>1 DEF FsType, FileId
<1>4. CASE OpenCached(e)
  <2>1. table[FileId(e)].kind = "file"
        /\ table' = [table EXCEPT ![FileId(e)].currentOpens = @ + 1]
    BY <1>4 DEF OpenCached
  <2>2. \E n : table' = [table EXCEPT ![FileId(e)].currentOpens = n]
    BY <2>1
  <2>3. Unmodified'
    BY <1>1, <1>3, <2>1, <2>2, UnmodifiedCount
  <2> QED BY <1>2, <2>3 DEF CalmNext
<1>5. CASE OpenUncached(e)
  <2>1. PICK page \in PagesRead(nand, vaddrMap.map[FileId(e)]), mod \in world.flags :
          table' = [table EXCEPT ![ILogNo(page)] = IF @ = NULL THEN LogEntry ELSE @,
                                 ![FileId(e)] = OpenFile(2, mod, NoLog)]
    BY <1>5, Zenon DEF OpenUncached
  <2>2. ILogNo(page) \in Ids
    BY <1>1, PagesReadGood, LogNumber DEF FsType
  <2> DEFINE x == IF table[ILogNo(page)] = NULL THEN LogEntry ELSE table[ILogNo(page)]
             y == OpenFile(2, mod, NoLog)
  <2>3. x.kind = "file" => x.modified = 0
    BY <1>1, <2>2 DEF LogEntry, Unmodified
  <2>4. y.kind = "file" => y.modified = 0
    BY CalmWorld DEF OpenFile
  <2>5. table' = [table EXCEPT ![ILogNo(page)] = x, ![FileId(e)] = y]
    BY <2>1
  <2> HIDE DEF x, y
  <2>6. Unmodified'
    BY <1>1, <1>3, <2>2, <2>3, <2>4, <2>5, UnmodifiedPut
  <2> QED BY <1>2, <2>6 DEF CalmNext
<1> QED BY <1>4, <1>5

LEMMA ReleaseCalm ==
  ASSUME FsInv, Calm, CalmInv, NEW h \in handles, Release(h)
  PROVE  CalmNext
<1>1. FsType /\ Unmodified /\ SuperIntact /\ UNCHANGED <<stub, vaddrMap, mounted>>
  BY DEF FsInv, CalmInv, Release, Serving
<1>2. CASE h[3] = 0
  <2>1. UNCHANGED <<nand, lists, table>>
    BY <1>2 DEF Release
  <2>2. Layout(nand', CurLists', CurMap', stub')
    BY <1>1, <2>1, QuietLayout
  <2> QED BY <1>1, <2>1, <2>2 DEF CalmNext, Unmodified
<1>3. CASE h[3] # 0
  <2>1. h[3] \in Ids /\ table[h[3]].kind = "file"
    BY <1>3, ReleasedFile DEF FsInv, HandlesFound
  <2>2. table[h[3]].modified = 0
    BY <1>1, <2>1 DEF Unmodified
  <2>3. UNCHANGED <<nand, lists>>
        /\ \E n : table' = [table EXCEPT ![h[3]].currentOpens = n]
    <3>1. table[h[3]].modified # 1
      BY <2>2
    <3> QED BY <1>3, <3>1, Zenon DEF Release
  <2>4. Layout(nand', CurLists', CurMap', stub')
    BY <1>1, <2>3, QuietLayout
  <2>5. Unmodified'
    BY <1>1, <2>1, <2>3, UnmodifiedCount
  <2> QED BY <2>4, <2>5 DEF CalmNext
<1> QED BY <1>2, <1>3

(* Handlers that change the tree of stubs alone. *)
LEMMA TreeCalm ==
  ASSUME FsInv, Calm, CalmInv, SuperIntact, UNCHANGED <<nand, lists, vaddrMap, mounted, table>>,
         \A e \in NamedIn(stub') : \E f \in NamedIn(stub) : stub'[e] = stub[f]
  PROVE  CalmNext
<1>1. Unmodified'
  BY DEF CalmInv, Unmodified
<1>2. Layout(nand', CurLists', CurMap', stub')
  BY QuietLayout
<1> QED BY <1>1, <1>2 DEF CalmNext

LEMMA NamesCalm ==
  ASSUME FsInv, Calm, CalmInv, NEW e \in Entries, NEW f \in Entries,
         Hide(e) \/ UnlinkLink(e) \/ UnlinkOpen(e) \/ Link(e, f) \/ Rename(e, f)
  PROVE  CalmNext
<1>1. UNCHANGED <<nand, lists, vaddrMap, mounted, table>> /\ SuperIntact
  BY DEF Hide, UnlinkLink, UnlinkOpen, Unlinking, Link, Rename, Serving, volatile, vars
<1>2. DOMAIN stub = Entries
  BY DEF FsInv, FsType
<1>3. \A h \in NamedIn(stub') : \E k \in NamedIn(stub) : stub'[h] = stub[k]
  <2>1. CASE Hide(e) \/ UnlinkOpen(e)
    <3>1. stub' = stub
      BY <2>1 DEF Hide, UnlinkOpen, vars
    <3> QED BY <3>1
  <2>2. CASE UnlinkLink(e)
    <3>1. stub' = [stub EXCEPT ![e] = NoStub]
      BY <2>2 DEF UnlinkLink, RemoveStub
    <3> QED BY <1>2, <3>1 DEF NamedIn
  <2>3. CASE Link(e, f)
    <3>1. stub' = [stub EXCEPT ![f] = stub[e]] /\ stub[e] # NoStub
      BY <2>3 DEF Link
    <3> QED BY <1>2, <3>1 DEF NamedIn
  <2>4. CASE Rename(e, f)
    <3>1. stub' = [stub EXCEPT ![f] = stub[e], ![e] = NoStub] /\ stub[e] # NoStub
      BY <2>4 DEF Rename
    <3> QED BY <1>2, <3>1 DEF NamedIn
  <2> QED BY <2>1, <2>2, <2>3, <2>4
<1> QED BY <1>1, <1>3, TreeCalm

LEMMA CreatesCalm ==
  ASSUME FsInv, Calm, CalmInv, NEW e \in Entries, Create(e) \/ CreateFails(e)
  PROVE  CalmNext
<1>1. mounted' /\ CurLists' = lists' /\ CurMap' = vaddrMap'
  <2>1. mounted /\ mounted' = mounted
    BY Zenon DEF Create, CreateFails, Serving
  <2> QED BY <2>1 DEF CurLists, CurMap
<1>2. SuperIntact' => Layout(nand', lists', vaddrMap', stub')
  BY CreateLayout, CreateFailsLayout
<1> QED BY <1>1, <1>2, UnmodifiedCreate DEF CalmNext

LEMMA UnlinkLastCalm ==
  ASSUME FsInv, Calm, CalmInv, NEW e \in Entries, UnlinkLast(e)
  PROVE  CalmNext
<1>1. mounted' /\ CurLists' = lists' /\ CurMap' = vaddrMap' /\ table' = table
  BY DEF UnlinkLast, Unlinking, Serving, CurLists, CurMap
<1>2. Unmodified'
  BY <1>1 DEF CalmInv, Unmodified
<1> QED BY <1>1, <1>2, UnlinkLastLayout DEF CalmNext

LEMMA MountsCalm ==
  ASSUME FsInv, Calm, CalmInv, Mount \/ Destroy
  PROVE  CalmNext
<1>1. table' = NoTable
  BY DEF Mount, Destroy, Stopped
<1>2. Unmodified'
  BY <1>1, NoTableType DEF Unmodified
<1> QED BY <1>2, MountLayout, DestroyLayout DEF CalmNext

(* The world stays the one the behaviour began in. *)
LEMMA WorldStays == [Next]_vars => (Calm' <=> Calm)
<1> SUFFICES ASSUME [Next]_vars PROVE Calm' <=> Calm
  OBVIOUS
<1>1. world' = world
  <2>1. CASE UNCHANGED vars
    BY <2>1 DEF vars
  <2>2. CASE Next
    BY <2>2 DEF Next, Mount, Destroy, Crash, Stopped, Create, CreateFails, CreateCrashes,
       OpenCached, OpenUncached, Release, Hide, UnlinkLink, UnlinkLast, UnlinkOpen, Link,
       Rename, vars
  <2> QED BY <2>1, <2>2
<1> QED BY <1>1 DEF Calm

LEMMA CalmKeeps == FsInv /\ CalmInv /\ [Next]_vars => CalmInv'
<1> SUFFICES ASSUME FsInv, CalmInv, [Next]_vars, Calm' PROVE CalmNext
  BY DEF CalmInv, CalmNext
<1>2. Calm
  BY WorldStays
<1>3. CASE UNCHANGED vars
  <2>1. UNCHANGED <<nand, lists, vaddrMap, mounted, table, stub>>
    BY <1>3 DEF vars
  <2>2. Unmodified'
    BY <1>2, <2>1 DEF CalmInv, Unmodified
  <2>3. CASE SuperIntact
    BY <1>2, <2>1, <2>3, TreeCalm
  <2>4. CASE ~ SuperIntact
    BY <2>1, <2>2, <2>4 DEF CalmNext, SuperIntact
  <2> QED BY <2>3, <2>4
<1>4. CASE Next
  <2>1. ~ Crash /\ \A e \in Entries : ~ CreateCrashes(e)
    BY <1>2, CalmWorld DEF Crash, CreateCrashes
  <2> QED BY <1>2, <1>4, <2>1, OpensCalm, ReleaseCalm, NamesCalm, CreatesCalm, UnlinkLastCalm,
             MountsCalm, Zenon DEF Next
<1> QED BY <1>3, <1>4

-----------------------------------------------------------------------------
(* The memory makefs leaves. *)
LEMMA FormattedIs ==
  /\ \A b \in 2 .. NumBlocks - 2 : /\ Formatted[b].nextPage = 1
                                   /\ Formatted[b].contents[0].nextLogBlock = At(b + 1, 0)
  /\ Formatted[LastBlock].nextPage = 0
  /\ Formatted[LastBlock].contents[0].nextLogBlock = 0
  /\ Formatted[LastBlock].contents[1].contents = Blank
  /\ ReadNAND(Formatted, 0).contents.freeLists = FreshLists
  /\ ReadNAND(Formatted, BLOCKSIZE).contents.vaddrMap = FreshMap
<1> USE BlockSizeAssumption, NumBlocksAssumption, LogSpaceAssumption
<1> DEFINE super == NewPage(SuperPayload(FreshLists), -1, 0, PTYPE_SUPER)
           map == NewPage(MapPayload(FreshMap), 0, 0, PTYPE_ADDRMAP)
           z == ZeroNAND
           m1 == WriteOutSuperBlock(z)
           m2 == WriteOutVaddrMap(m1)
           link(b) == NewPage(Blank, 0, (b + 1) * BLOCKSIZE, PTYPE_NEXTLINK)
<1>1. super.contents.freeLists = FreshLists /\ map.contents.vaddrMap = FreshMap
      /\ \A b : link(b).nextLogBlock = (b + 1) * BLOCKSIZE
  BY DEF NewPage, SuperPayload, MapPayload
<1>2. z \in GoodMemory /\ m1 \in GoodMemory /\ m2 \in GoodMemory
  BY MakefsGood
<1>3. /\ \A b \in Blocks : z[b].nextPage = 0
      /\ \A b \in Blocks, i \in PageIdx : z[b].contents[i] = ZeroPage
  BY DEF ZeroNAND
<1>4. m1 = InSequence(z, At(0, 0), super) /\ m2 = InSequence(m1, At(1, 0), map)
  BY SuperAt, Zenon DEF InSequence, WriteOutSuperBlock, WriteOutVaddrMap
<1>5. Formatted = [b \in Blocks |->
                     IF b \in 2 .. NumBlocks - 2
                       THEN WriteNAND(m2, b * BLOCKSIZE, link(b), FALSE)[b] ELSE m2[b]]
  BY DEF Formatted, LinkFreeBlocks
<1> HIDE DEF super, map, z, m1, m2, link
<1>6. m1[0].contents[0] = super /\ \A b \in Blocks : b # 0 => m1[b] = z[b]
  BY <1>2, <1>3, <1>4, SuperAt, WriteAt
<1>7. m2[1].contents[0] = map /\ \A b \in Blocks : b # 1 => m2[b] = m1[b]
  <2>1. m1[1].nextPage = 0
    BY <1>3, <1>6, SuperAt
  <2> QED BY <1>2, <1>4, <2>1, SuperAt, WriteAt
<1>8. \A b \in Blocks : b # 0 /\ b # 1 => m2[b] = z[b]
  BY <1>6, <1>7
<1>9. ASSUME NEW b \in 2 .. NumBlocks - 2
      PROVE  /\ Formatted[b].nextPage = 1
             /\ Formatted[b].contents[0].nextLogBlock = At(b + 1, 0)
  <2>1. b \in Blocks /\ b # 0 /\ b # 1 /\ b \in Nat
    BY DEF Blocks
  <2> DEFINE w == InSequence(m2, At(b, 0), link(b))
  <2>2. w = InSequence(m2, At(b, 0), link(b))
    OBVIOUS
  <2>3. At(b, 0) = b * BLOCKSIZE /\ At(b + 1, 0) = (b + 1) * BLOCKSIZE
    <3>1. b * BLOCKSIZE \in Int /\ (b + 1) * BLOCKSIZE \in Int
      BY <2>1
    <3> QED BY <3>1 DEF At
  <2>4. Formatted[b] = w[b]
    <3>1. Formatted[b] = WriteNAND(m2, b * BLOCKSIZE, link(b), FALSE)[b]
      BY <1>5, <2>1, Zenon
    <3> QED BY <2>3, <3>1, Zenon DEF InSequence
  <2> HIDE DEF w
  <2>5. m2[b].nextPage = 0
    BY <1>3, <1>8, <2>1
  <2>6. w[b].nextPage = 0 + 1 /\ w[b].contents[0] = link(b)
    BY <1>2, <2>1, <2>2, <2>5, SuperAt, WriteAt
  <2> QED BY <1>1, <2>3, <2>4, <2>6
<1>10. \A b \in Blocks : b \notin 2 .. NumBlocks - 2 => Formatted[b] = m2[b]
  BY <1>5, Zenon
<1>11. /\ LastBlock \in Blocks /\ LastBlock \notin 2 .. NumBlocks - 2
       /\ LastBlock # 0 /\ LastBlock # 1
  BY DEF LastBlock, Blocks
<1>12. Formatted[LastBlock] = z[LastBlock]
  BY <1>8, <1>10, <1>11
<1>13. /\ Formatted[LastBlock].nextPage = 0
       /\ Formatted[LastBlock].contents[0] = ZeroPage
       /\ Formatted[LastBlock].contents[1] = ZeroPage
  BY <1>3, <1>11, <1>12, LogPages
<1>14. ReadNAND(Formatted, 0) = super /\ ReadNAND(Formatted, BLOCKSIZE) = map
  <2>1. Formatted[0] = m2[0] /\ Formatted[1] = m2[1]
    BY <1>10, SuperAt
  <2> QED BY <1>6, <1>7, <2>1, SuperAt
<1>15. ZeroPage.nextLogBlock = 0 /\ ZeroPage.contents = Blank
  BY DEF ZeroPage
<1> QED BY <1>1, <1>9, <1>13, <1>14, <1>15

LEMMA CalmStarts == Init => CalmInv
<1> USE BlockSizeAssumption, NumBlocksAssumption, LogSpaceAssumption, MaxIdAssumption
<1> SUFFICES ASSUME Init PROVE CalmInv
  OBVIOUS
<1>1. nand = Formatted /\ ~ mounted /\ table = NoTable /\ stub = [e \in Entries |-> NoStub]
  BY DEF Init
<1>2. Unmodified
  BY <1>1, NoTableType DEF Unmodified
<1>3. CurLists = FreshLists /\ CurMap = FreshMap
  BY <1>1, FormattedIs DEF CurLists, CurMap
<1>4. NamedIn(stub) = {}
  BY <1>1 DEF NamedIn
<1>5. Chained(nand)
  BY <1>1, FormattedIs DEF Chained
<1>6. /\ FreshLists.partialHead = At(2, 0) /\ FreshLists.partialTail = At(LastBlock, 0)
      /\ FreshLists.completeHead = 0 /\ FreshLists.completeTail = 0
  BY DEF FreshLists, At, LastBlock
<1>7. FreshMap.map[0] = 0
  BY DEF FreshMap, Ids
<1>8. Tail(nand, FreshLists)
  BY <1>1, <1>6, FormattedIs DEF Tail
<1>9. FromBlock(nand, FreshLists, 2 .. LastBlock, 2)
  BY <1>1, <1>6, FormattedIs DEF FromBlock
<1>10. 2 \in LogBlocks /\ 2 .. LastBlock \in SUBSET LogBlocks
  BY DEF LogBlocks, LastBlock
<1>11. LeadsTo(nand, FreshLists, 2 .. LastBlock)
  BY <1>9, <1>10 DEF LeadsTo
<1>12. Apart(FreshMap, stub) /\ LogsTaken(nand, FreshMap, stub, 2 .. LastBlock)
  BY <1>4 DEF Apart, LogsTaken
<1>13. Layout(nand, FreshLists, FreshMap, stub)
  BY <1>5, <1>6, <1>7, <1>8, <1>10, <1>11, <1>12 DEF Layout
<1> QED BY <1>2, <1>3, <1>13 DEF CalmInv

(* In a calm world the list of free blocks and the logs of the files never *)
(* overlap until the super page is lost.                                   *)
THEOREM CalmInvariant == Spec => []CalmInv
<1>1. Init => CalmInv
  BY CalmStarts
<1>2. FsInv /\ CalmInv /\ [Next]_vars => CalmInv'
  BY CalmKeeps
<1> QED BY <1>1, <1>2, FsInvariant, PTL DEF Spec

-----------------------------------------------------------------------------
(* Each named file has a log of its own. *)
LEMMA OwnLog ==
  ASSUME CalmInv, Calm, Serving
  PROVE  /\ Apart(vaddrMap, stub) /\ Named = NamedIn(stub)
         /\ \A e \in Named : \E c \in LogBlocks, j \in 1 .. 2 :
              HasLog(nand, vaddrMap, stub[e].fileId, c, j)
<1>1. Layout(nand, lists, vaddrMap, stub) /\ Named = NamedIn(stub)
  BY DEF CalmInv, Serving, CurLists, CurMap, Named, NamedIn
<1>2. PICK U \in SUBSET LogBlocks : LogsTaken(nand, vaddrMap, stub, U)
  BY <1>1 DEF Layout
<1>3. \A e \in Named : \E c \in LogBlocks, j \in 1 .. 2 :
        HasLog(nand, vaddrMap, stub[e].fileId, c, j)
  BY <1>1, <1>2, Zenon DEF LogsTaken
<1> QED BY <1>1, <1>3 DEF Layout

LEMMA CalmNoShared == CalmInv => NoSharedBlock
<1> SUFFICES ASSUME CalmInv, Calm, Serving, NEW e \in Named, NEW f \in Named, ~ SameFile(e, f)
             PROVE  BlockOf(HeaderPage(e)) # BlockOf(HeaderPage(f))
  BY DEF NoSharedBlock
<1>1. Apart(vaddrMap, stub) /\ Named = NamedIn(stub)
  BY OwnLog
<1>2. stub[e] # stub[f]
  BY DEF SameFile
<1> QED BY <1>1, <1>2, Zenon DEF Apart, HeaderPage, FileId

LEMMA CalmHeaderOwn == CalmInv => HeaderIsOwn
<1> SUFFICES ASSUME CalmInv, Calm, Serving, NEW e \in Named
             PROVE  LET a == HeaderPage(e)
                        h == ReadNAND(nand, a).contents
                    IN /\ a \in Pages
                       /\ h = Blank \/ /\ h.kind = "header"
                                       /\ h.fileId = FileId(e)
                                       /\ h.first = BlockOf(a)
                                       /\ vaddrMap.map[h.logId] = a
  BY Zenon DEF HeaderIsOwn
<1>1. PICK c \in LogBlocks, j \in 1 .. 2 : HasLog(nand, vaddrMap, stub[e].fileId, c, j)
  BY OwnLog
<1> DEFINE id == stub[e].fileId
           a == At(c, j)
<1>2. /\ vaddrMap.map[id] = a /\ vaddrMap.map[id + 1] = a
      /\ nand[c].contents[j].contents = Blank \/ nand[c].contents[j].contents = HeaderOf(id, c)
  BY <1>1 DEF HasLog
<1>3. a \in Pages /\ BlockOf(a) = c /\ ReadNAND(nand, a) = nand[c].contents[j]
  BY LogPages, AtPages, AtSplit, ReadAt
<1>4. HeaderPage(e) = a /\ FileId(e) = id
  BY <1>2 DEF HeaderPage, FileId
<1>5. HeaderOf(id, c).kind = "header" /\ HeaderOf(id, c).fileId = id
      /\ HeaderOf(id, c).first = c /\ HeaderOf(id, c).logId = id + 1
  BY DEF HeaderOf
<1> HIDE DEF a, id
<1> QED BY <1>2, <1>3, <1>4, <1>5

LEMMA CalmNumbers == CalmInv => FileNumbersInUse
<1> SUFFICES ASSUME CalmInv, Calm, Serving, NEW e \in Named
             PROVE  /\ vaddrMap.map[FileId(e)] > 0 /\ FileId(e) # vaddrMap.freePtr
                    /\ \A f \in Named : FileId(e) = FileId(f) => SameFile(e, f)
  BY DEF FileNumbersInUse
<1>1. PICK c \in LogBlocks, j \in 1 .. 2 : HasLog(nand, vaddrMap, stub[e].fileId, c, j)
  BY OwnLog
<1>2. At(c, j) > 0
  <2>1. At(c, j) \in Nat /\ At(c, j) # 0
    BY LogPages, AtPages, AtSplit
  <2> QED BY <2>1
<1>3. vaddrMap.map[FileId(e)] > 0 /\ FileId(e) # vaddrMap.freePtr
  BY <1>1, <1>2, MaxIdAssumption DEF HasLog, FileId
<1>4. \A f \in Named : FileId(e) = FileId(f) => SameFile(e, f)
  BY OwnLog, Zenon DEF Apart, FileId, SameFile
<1> QED BY <1>3, <1>4

(* getFreeBlock and logs_recycle give a block to one owner at a time: in a *)
(* calm world two files never have their logs in one block while the super *)
(* page is there, for every memory, map and set of names and through any   *)
(* number of mounts.                                                       *)
THEOREM FilesApart == Spec => []NoSharedBlock
<1>1. CalmInv => NoSharedBlock
  BY CalmNoShared
<1> QED BY <1>1, CalmInvariant, PTL

(* The header that xmp_open and xmp_unlink find through the map is the     *)
(* file's own, or was refused by the memory and is a page of zeros.        *)
THEOREM HeadersOwn == Spec => []HeaderIsOwn
<1>1. CalmInv => HeaderIsOwn
  BY CalmHeaderOwn
<1> QED BY <1>1, CalmInvariant, PTL

(* getFreePtr never hands out a number that a file has. *)
THEOREM NumbersApart == Spec => []FileNumbersInUse
<1>1. CalmInv => FileNumbersInUse
  BY CalmNumbers
<1> QED BY <1>1, CalmInvariant, PTL

-----------------------------------------------------------------------------
(* What a step may do to the pages that are written. *)
PagesStay ==
  SuperIntact' =>
    \A b \in Blocks : \A i \in PageIdx :
      i < nand[b].nextPage /\ <<b, i>> \notin {<<0, 0>>, <<1, 0>>} =>
        nand'[b].contents[i] = nand[b].contents[i]

(* A write in sequence changes no page below the frontier of its block. *)
LEMMA ProgramKeeps ==
  ASSUME nand \in GoodMemory, Programs(nand, nand')
  PROVE  PagesStay
<1>1. CASE nand' = nand
  BY <1>1 DEF PagesStay
<1>2. ASSUME NEW c \in Blocks, NEW j \in PageIdx, NEW page,
             nand' = InSequence(nand, At(c, j), page)
      PROVE  PagesStay
  <2> SUFFICES ASSUME NEW b \in Blocks, NEW i \in PageIdx, i < nand[b].nextPage
               PROVE  nand'[b].contents[i] = nand[b].contents[i]
    BY DEF PagesStay
  <2>1. /\ nand[c].nextPage # j => nand' = nand
        /\ nand[c].nextPage = j =>
             \A k \in PageIdx : k # j => nand'[c].contents[k] = nand[c].contents[k]
        /\ \A k \in Blocks : k # c => nand'[k] = nand[k]
    BY <1>2, WriteAt
  <2>2. CASE b # c
    BY <2>1, <2>2
  <2>3. CASE b = c /\ nand[c].nextPage # j
    BY <2>1, <2>3
  <2>4. CASE b = c /\ nand[c].nextPage = j
    <3>1. i # j
      BY <2>4, BlockSizeAssumption DEF PageIdx
    <3> QED BY <2>1, <2>4, <3>1
  <2> QED BY <2>2, <2>3, <2>4
<1> QED BY <1>1, <1>2, Zenon DEF Programs

LEMMA CalmPages ==
  ASSUME FsInv, Calm, CalmInv, [Next]_vars
  PROVE  PagesStay
<1>1. nand \in GoodMemory
  BY DEF FsInv, FsType
<1>2. ASSUME nand' = nand PROVE PagesStay
  BY <1>2 DEF PagesStay
<1>3. ASSUME NEW e \in Entries, Create(e) PROVE PagesStay
  <2>1. CASE SuperIntact'
    BY <1>1, <1>3, <2>1, CreateLayout, ProgramKeeps
  <2> QED BY <2>1 DEF PagesStay
<1>4. ASSUME NEW e \in Entries, CreateFails(e) PROVE PagesStay
  <2>1. CASE SuperIntact'
    BY <1>1, <1>4, <2>1, CreateFailsLayout, ProgramKeeps
  <2> QED BY <2>1 DEF PagesStay
<1>5. ASSUME NEW e \in Entries, UnlinkLast(e) PROVE PagesStay
  BY <1>1, <1>5, UnlinkLastLayout, ProgramKeeps
<1>6. ASSUME Destroy PROVE PagesStay
  <2> SUFFICES ASSUME NEW b \in Blocks, NEW i \in PageIdx,
                      <<b, i>> \notin {<<0, 0>>, <<1, 0>>}
               PROVE  nand'[b].contents[i] = nand[b].contents[i]
    BY DEF PagesStay
  <2>1. i # 0 \/ b \notin {0, 1}
    OBVIOUS
  <2> QED BY <1>6, <2>1, DestroySaves
<1>7. ASSUME NEW h \in handles, Release(h) PROVE nand' = nand
  <2>1. CASE h[3] = 0
    BY <1>7, <2>1 DEF Release
  <2>2. CASE h[3] # 0
    <3>1. h[3] \in Ids /\ table[h[3]].kind = "file"
      BY <2>2, ReleasedFile DEF FsInv, HandlesFound
    <3>2. table[h[3]].modified # 1
      BY <3>1 DEF CalmInv, Unmodified
    <3> QED BY <1>7, <2>2, <3>2, Zenon DEF Release
  <2> QED BY <2>1, <2>2
<1>8. ASSUME NEW e \in Entries,
             OpenCached(e) \/ OpenUncached(e) \/ Hide(e) \/ UnlinkLink(e) \/ UnlinkOpen(e)
      PROVE  nand' = nand
  BY <1>8 DEF OpenCached, OpenUncached, Hide, UnlinkLink, UnlinkOpen, vars
<1>9. ASSUME NEW e \in Entries, NEW f \in Entries, Link(e, f) \/ Rename(e, f)
      PROVE  nand' = nand
  BY <1>9 DEF Link, Rename
<1>10. ASSUME Mount PROVE nand' = nand
  BY <1>10 DEF Mount
<1>11. CASE UNCHANGED vars
  BY <1>2, <1>11 DEF vars
<1>12. ~ Crash /\ \A e \in Entries : ~ CreateCrashes(e)
  BY CalmWorld DEF Crash, CreateCrashes
<1>13. CASE Next
  BY <1>2, <1>3, <1>4, <1>5, <1>6, <1>7, <1>8, <1>9, <1>10, <1>12, <1>13, Zenon DEF Next
<1> QED BY <1>11, <1>13

(* In a calm world no handler changes a page that has been written, other  *)
(* than the two that xmp_destroy rewrites, until the super page is lost.   *)
THEOREM PagesKept == Spec /\ Calm => WrittenPagesStay
<1>1. Calm /\ [Next]_vars => Calm'
  BY WorldStays
<1>2. FsInv /\ Calm /\ CalmInv /\ [Next]_vars => PagesStay
  BY CalmPages
<1>3. Spec /\ Calm => [][PagesStay]_vars
  BY <1>1, <1>2, FsInvariant, CalmInvariant, PTL DEF Spec
<1>4. [PagesStay]_vars =>
        [SuperIntact' =>
           \A b \in Blocks : \A i \in PageIdx :
             i < nand[b].nextPage /\ <<b, i>> \notin {<<0, 0>>, <<1, 0>>} =>
               nand'[b].contents[i] = nand[b].contents[i]]_vars
  BY DEF PagesStay
<1> QED BY <1>3, <1>4, PTL DEF WrittenPagesStay
=============================================================================
