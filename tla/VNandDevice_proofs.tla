------------------------- MODULE VNandDevice_proofs -------------------------
(***************************************************************************)
(* The device's promises for every size of block and memory and every      *)
(* client: TypeOK and ProgrammedOnceInOrder are together inductive.        *)
(***************************************************************************)
EXTENDS VNandDevice, TLAPS

(* Block and page number of an address inside the memory, as the offset    *)
(* computations of readNAND and writeNAND split it.                        *)
LEMMA PageSplit ==
  ASSUME NEW k \in Pages
  PROVE  /\ BlockOf(k) = k \div BLOCKSIZE
         /\ PageOf(k) = k % BLOCKSIZE
         /\ PageOf(k) \in PageIdx
BY BlockSizeAssumption, NumBlocksAssumption DEF Pages, BlockOf, PageOf, PageIdx

(* The zero page and a block of zero pages have the type of the memory. *)
LEMMA ZeroBlockType ==
  [i \in PageIdx |-> ZeroPage] \in [PageIdx -> {ZeroPage} \cup ClientPages]
OBVIOUS

(* The inductive invariant: the frontier of a block lies within it, and    *)
(* the pages below it are those writeNAND accepted since the erasure.      *)
THEOREM DeviceInvariant == Spec => [](TypeOK /\ ProgrammedOnceInOrder)
<1> DEFINE IInv == TypeOK /\ ProgrammedOnceInOrder
<1> USE BlockSizeAssumption, NumBlocksAssumption
<1>1. Init => IInv
  BY DEF Init, TypeOK, ProgrammedOnceInOrder, ZeroNAND, BlockState, PageIdx
<1>2. IInv /\ [Next]_vars => IInv'
  <2> SUFFICES ASSUME IInv, [Next]_vars PROVE IInv'
    OBVIOUS
  <2>1. ASSUME NEW k \in Pages, NEW page \in ClientPages, SequentialWrite(k, page)
        PROVE  IInv'
    <3> DEFINE b == BlockOf(k)
               i == PageOf(k)
    <3>1. i \in PageIdx
      BY PageSplit
    <3>2. CASE ~ WriteAccepted(nand, k, FALSE)
      BY <2>1, <3>2 DEF SequentialWrite, WriteNAND, TypeOK, ProgrammedOnceInOrder
    <3>3. CASE WriteAccepted(nand, k, FALSE)
      <4>1. b \in Blocks /\ i = nand[b].nextPage
        BY <3>3 DEF WriteAccepted
      <4>2. nand' = [nand EXCEPT ![b].contents[i] = page, ![b].nextPage = @ + 1]
        BY <2>1, <3>3 DEF SequentialWrite, WriteNAND
      <4>3. programmed' = [programmed EXCEPT ![b][i] = @ + 1]
        BY <2>1, <3>3 DEF SequentialWrite
      <4>4. nand[b].nextPage + 1 \in 0 .. BLOCKSIZE
        BY <3>1, <4>1 DEF PageIdx
      <4> HIDE DEF b, i
      <4>5. nand' \in [Blocks -> BlockState]
        BY <3>1, <4>1, <4>2, <4>4 DEF TypeOK, BlockState
      <4>6. programmed' \in [Blocks -> [PageIdx -> Nat]]
        BY <3>1, <4>1, <4>3 DEF TypeOK
      <4>8. erasures' \in [Blocks -> Nat]
        BY <2>1 DEF TypeOK, SequentialWrite
      <4>7. ProgrammedOnceInOrder'
        BY <3>1, <4>1, <4>2, <4>3, SMTT(60) DEF TypeOK, BlockState, ProgrammedOnceInOrder, PageIdx
      <4> QED BY <4>5, <4>6, <4>7, <4>8 DEF TypeOK
    <3> QED BY <3>2, <3>3
  <2>2. ASSUME NEW k \in Pages, NEW page \in ClientPages, RandomWrite(k, page)
        PROVE  IInv'
    <3> DEFINE b == BlockOf(k)
               i == PageOf(k)
    <3>1. i \in PageIdx
      BY PageSplit
    <3>2. CASE ~ WriteAccepted(nand, k, TRUE)
      BY <2>2, <3>2 DEF RandomWrite, WriteNAND, TypeOK, ProgrammedOnceInOrder
    <3>3. CASE WriteAccepted(nand, k, TRUE)
      <4>1. b \in Blocks
        BY <3>3 DEF WriteAccepted
      <4>2. nand' = [nand EXCEPT ![b].contents[i] = page, ![b].nextPage = @]
        BY <2>2, <3>3 DEF RandomWrite, WriteNAND
      <4> HIDE DEF b, i
      <4>3. nand' \in [Blocks -> BlockState]
        BY <3>1, <4>1, <4>2 DEF TypeOK, BlockState
      <4>4. ProgrammedOnceInOrder'
        <5>1. \A c \in Blocks : nand'[c].nextPage = nand[c].nextPage
          BY <4>1, <4>2 DEF TypeOK, BlockState
        <5> QED BY <2>2, <5>1 DEF ProgrammedOnceInOrder, RandomWrite
      <4> QED BY <2>2, <4>3, <4>4 DEF TypeOK, RandomWrite
    <3> QED BY <3>2, <3>3
  <2>3. ASSUME NEW b \in Blocks, Erase(b)
        PROVE  IInv'
    <3>1. PICK n \in Int : nand' = [nand EXCEPT ![b] =
             [contents |-> [i \in PageIdx |-> ZeroPage], nextPage |-> 0, eraseCount |-> n]]
      <4>1. PICK word \in Words : nand' = EraseNAND(nand, b, word)
        BY <2>3 DEF Erase
      <4>2. EraseCountWord(nand, b, word) \in Int
        <5> DEFINE last == nand[b].contents[BLOCKSIZE - 1]
        <5>1. last \in {ZeroPage} \cup ClientPages
          BY DEF TypeOK, BlockState, PageIdx
        <5> HIDE DEF last
        <5>2. /\ last.pageType \in Int /\ last.nextBlockErases \in Int
              /\ last.nextLogBlock \in Int /\ last.eraseCount \in Int
          <6>1. CASE last = ZeroPage
            BY <6>1 DEF ZeroPage, PTYPE_ERASED
          <6>2. CASE last \in ClientPages
            <7>1. PICK d \in Payloads, n \in {0, BLOCKSIZE} :
                    last = ClientPage(d, n)
              BY <6>2 DEF ClientPages
            <7> QED BY <7>1 DEF ClientPage, PTYPE_INODE
          <6> QED BY <5>1, <6>1, <6>2
        <5>3. nand[b].eraseCount \in Int /\ nand[b].nextPage \in Int /\ word \in Int
          BY WordsAssumption DEF TypeOK, BlockState
        <5> QED BY <5>2, <5>3 DEF EraseCountWord, last
      <4>3. nand' = [nand EXCEPT ![b] =
              [contents |-> [i \in PageIdx |-> ZeroPage], nextPage |-> 0,
               eraseCount |-> EraseCountWord(nand, b, word) + 1]]
        BY <4>1 DEF EraseNAND
      <4>4. EraseCountWord(nand, b, word) + 1 \in Int
        BY <4>2
      <4> QED BY <4>3, <4>4
    <3>2. nand' \in [Blocks -> BlockState]
      BY <3>1, ZeroBlockType DEF TypeOK, BlockState
    <3>3. programmed' \in [Blocks -> [PageIdx -> Nat]] /\ erasures' \in [Blocks -> Nat]
      BY <2>3 DEF Erase, TypeOK
    <3>4. ProgrammedOnceInOrder'
      BY <2>3, <3>1 DEF Erase, TypeOK, BlockState, ProgrammedOnceInOrder, PageIdx
    <3> QED BY <3>2, <3>3, <3>4 DEF TypeOK
  <2>4. CASE UNCHANGED vars
    BY <2>4 DEF vars, TypeOK, ProgrammedOnceInOrder
  <2> QED BY <2>1, <2>2, <2>3, <2>4 DEF Next
<1> QED BY <1>1, <1>2, PTL DEF Spec

(* Whatever the client writes and erases, the memory keeps its shape and   *)
(* nextPage never leaves the block.                                        *)
THEOREM DeviceTypeOK == Spec => []TypeOK
BY DeviceInvariant, PTL

(* Whatever the client writes and erases, writeNAND programs each page at  *)
(* most once between erasures, and in order.                               *)
THEOREM DeviceProgramsOnce == Spec => []ProgrammedOnceInOrder
BY DeviceInvariant, PTL
=============================================================================
