------------------------------ MODULE Creates ------------------------------
(***************************************************************************)
(* xmp_create, step by step, when fuse_main was given -s and runs one      *)
(* handler at a time.  The steps end where the shared CYCstate has been    *)
(* changed; calls of the virtual NAND are whole, because nothing else runs *)
(* before they return.  Module CreateRace has several threads.             *)
(*                                                                         *)
(* The memory is freshly formatted.  Slots are taken from the map until    *)
(* none is left and beyond, as getFreePtr does.                            *)
(***************************************************************************)
EXTENDS MakeFS, Sequences, FiniteSets

CONSTANTS
  Threads,      \* threads of the FUSE loop
  MaxCreates,   \* bound: files created in a behaviour
  Junk          \* words found beyond the end of the map, or in a link
                \* field that was not set

ASSUME ThreadsAssumption == Threads # {}
ASSUME MaxCreatesAssumption == MaxCreates \in Nat
ASSUME JunkAssumption == Junk \subseteq Nat /\ Junk # {}

VARIABLES
  nand,       \* the memory
  lists,      \* state->lists
  vaddrMap,   \* state->vaddrMap
  pc,         \* thread -> the next access of its call of xmp_create
  local,      \* thread -> its local variables fileID, logID, logHeaderPage,
              \* and the value it has read and not yet stored (next)
  created     \* the files whose stub has been written, oldest first

vars == <<nand, lists, vaddrMap, pc, local, created>>

Locals == [fileID |-> 0, logID |-> 0, page |-> 0, next |-> 0]

Init ==
  /\ nand = Formatted
  /\ lists = FreshLists
  /\ vaddrMap = FreshMap
  /\ pc = [t \in Threads |-> "idle"]
  /\ local = [t \in Threads |-> Locals]
  /\ created = << >>

Idle(t)    == pc[t] = "idle"
InCreate   == {t \in Threads : ~ Idle(t)}
Go(t, from, to) == pc[t] = from /\ pc' = [pc EXCEPT ![t] = to]

(* map->map[ptr]; beyond its end the array reads whatever is there. *)
SlotWords(ptr) == IF ptr \in Ids THEN {vaddrMap.map[ptr]} ELSE Junk

(* Mutant: the store is forgotten. *)
MutStoreSlot(ptr, page) == vaddrMap

(* A store to map->map[ptr]; one beyond the end hits no slot. *)
StoreSlot(ptr, page) ==
  IF ptr \in Ids THEN [vaddrMap EXCEPT !.map[ptr] = page] ELSE vaddrMap

-----------------------------------------------------------------------------
(* Mutant: the new head of the free slots is not stored. *)
MutPopSlot(t) == UNCHANGED vaddrMap

(* getFreePtr: one access reads map->freePtr and the slot it names, the    *)
(* next stores the new map->freePtr.                                       *)
PopSlot(t) == vaddrMap' = [vaddrMap EXCEPT !.freePtr = local[t].next]

(* The first call, for the file number. *)
ReadFileSlot(t) ==
  /\ Cardinality(InCreate) + Len(created) < MaxCreates
  /\ Go(t, "idle", "popFile")
  /\ \E w \in SlotWords(vaddrMap.freePtr) :
       local' = [local EXCEPT ![t] = [fileID |-> vaddrMap.freePtr, logID |-> 0,
                                      page |-> 0, next |-> Abs(w)]]
  /\ UNCHANGED <<nand, lists, vaddrMap, created>>

PopFileSlot(t) ==
  /\ Go(t, "popFile", "readLog")
  /\ PopSlot(t)
  /\ UNCHANGED <<nand, lists, local, created>>

(* The second, for the log number, in getLogForFile. *)
ReadLogSlot(t) ==
  /\ Go(t, "readLog", "popLog")
  /\ \E w \in SlotWords(vaddrMap.freePtr) :
       local' = [local EXCEPT ![t] = [fileID |-> local[t].fileID,
                                      logID |-> vaddrMap.freePtr,
                                      page |-> 0, next |-> Abs(w)]]
  /\ UNCHANGED <<nand, lists, vaddrMap, created>>

PopLogSlot(t) ==
  /\ Go(t, "popLog", "readBlock")
  /\ PopSlot(t)
  /\ UNCHANGED <<nand, lists, local, created>>

(* getFreeBlock for a new file reads the head of a list and its link ...   *)
ReadBlock(t) ==
  /\ pc[t] = "readBlock"
  /\ \E junk \in Junk :
       LET partial == lists.partialHead # 0
           g       == GetFreeBlock(nand, lists, TRUE, junk)
       IN /\ local' = [local EXCEPT ![t] =
                         [fileID |-> local[t].fileID, logID |-> local[t].logID,
                          page |-> g.page,
                          next |-> IF partial THEN g.lists.partialHead
                                              ELSE g.lists.completeHead]]
          /\ pc' = [pc EXCEPT ![t] = IF partial THEN "popPartial" ELSE "popComplete"]
  /\ UNCHANGED <<nand, lists, vaddrMap, created>>

(* ... and stores the new head of the list; *)
PopPartial(t) ==
  /\ Go(t, "popPartial", "mapLog")
  /\ lists' = [lists EXCEPT !.partialHead = local[t].next]
  /\ UNCHANGED <<nand, vaddrMap, local, created>>

(* a block of the complete list is erased as well. *)
PopComplete(t) ==
  /\ Go(t, "popComplete", "mapLog")
  /\ lists' = [lists EXCEPT !.completeHead = local[t].next]
  /\ \E junk \in Junk : nand' = EraseNAND(nand, BlockOf(local[t].page), junk)
  /\ UNCHANGED <<vaddrMap, local, created>>

(* The map entry of the log, at the end of getLogForFile. *)
MapLog(t) ==
  /\ Go(t, "mapLog", "mapFile")
  /\ vaddrMap' = StoreSlot(local[t].logID, local[t].page)
  /\ UNCHANGED <<nand, lists, local, created>>

(* The map entry of the file; then the stub is written, and the header to  *)
(* the first page of the log.                                              *)
MapFile(t) ==
  LET loc   == local[t]
      block == BlockOf(loc.page)
      log   == [nextPage |-> loc.page, last |-> block, first |-> block, prev |-> -1,
                logId |-> loc.logID, fileId |-> loc.fileID]
      header == [kind |-> "header", logId |-> loc.logID, fileId |-> loc.fileID]
  IN /\ Go(t, "mapFile", "idle")
     /\ vaddrMap' = StoreSlot(loc.fileID, loc.page)
     /\ \E junk \in Junk :
          LET p == GetFreePage(nand, lists, log, junk)
          IN /\ nand' = WriteNAND(p.nand, p.address,
                                  NewPage(header, 0, p.link, PTYPE_INODE), FALSE)
             /\ lists' = p.lists
     /\ created' = Append(created, [fileID |-> loc.fileID, logID |-> loc.logID,
                                    page |-> loc.page])
     /\ local' = [local EXCEPT ![t] = Locals]

Step(t) ==
  \/ ReadFileSlot(t) \/ PopFileSlot(t) \/ ReadLogSlot(t) \/ PopLogSlot(t)
  \/ ReadBlock(t) \/ PopPartial(t) \/ PopComplete(t)
  \/ MapLog(t) \/ MapFile(t)

SerialNext == \E t \in Threads : InCreate \subseteq {t} /\ Step(t)

SerialSpec == Init /\ [][SerialNext]_vars

-----------------------------------------------------------------------------
NumbersOf(f) == {f.fileID, f.logID}

Payload ==
  {Blank, SuperPayload(FreshLists), MapPayload(FreshMap)}
  \cup [kind : {"header"}, logId : Nat, fileId : Nat]
Page == [contents : Payload, eraseCount : Int, nextLogBlock : Nat,
         nextBlockErases : {0}, pageType : 0 .. 5]
Memory == [Blocks -> [contents : [PageIdx -> Page], nextPage : 0 .. BLOCKSIZE,
                      eraseCount : Int]]
Calls == {"popFile", "readLog", "popLog", "readBlock", "popPartial",
          "popComplete", "mapLog", "mapFile"}

(* The shape of the state: numbers, pages and links are never negative,    *)
(* and the frontier of a block stays within it.  Where they point to is    *)
(* what the other properties are about.                                    *)
TypeOK ==
  /\ nand \in Memory
  /\ lists \in [partialHead : Nat, partialTail : Nat,
                completeHead : Nat, completeTail : Nat]
  /\ vaddrMap \in [freePtr : Nat, map : [Ids -> Int]]
  /\ pc \in [Threads -> {"idle"} \cup Calls]
  /\ local \in [Threads -> [fileID : Nat, logID : Nat, page : Nat, next : Nat]]
  /\ created \in Seq([fileID : Nat, logID : Nat, page : Nat])

(* Creations that run one at a time (fuse -s), as long as slots and blocks *)
(* last, give every file numbers and a block of its own, although the two  *)
(* calls of getFreePtr, getFreeBlock and the stores to the map are         *)
(* separate accesses.                                                      *)
Alloc == INSTANCE LogAllocation WITH
  Numbers   <- Ids \ {0},
  LogBlocks <- 2 .. NumBlocks - 1,
  files     <- [i \in DOMAIN created |->
                  [fileID |-> created[i].fileID, logID |-> created[i].logID,
                   block |-> BlockOf(created[i].page)]]

Implements == Alloc!Spec

(* A created file is found again: both its numbers lead to the page it     *)
(* got, and there to the header with these numbers.                        *)
HeaderFound ==
  \A i \in DOMAIN created :
    LET f == created[i] IN
      /\ \A id \in NumbersOf(f) : vaddrMap.map[id] = f.page
      /\ ReadNAND(nand, f.page).contents =
           [kind |-> "header", logId |-> f.logID, fileId |-> f.fileID]

(* loggingDiskFormats.h: a file number is the "unique file number". *)
NumbersUnique ==
  \A i, j \in DOMAIN created :
    i # j => NumbersOf(created[i]) \cap NumbersOf(created[j]) = {}

(* helper.c: the header goes to "the first unused page of a newly          *)
(* allocated block".                                                       *)
BlocksUnique ==
  \A i, j \in DOMAIN created :
    i # j => BlockOf(created[i].page) # BlockOf(created[j].page)

=============================================================================
