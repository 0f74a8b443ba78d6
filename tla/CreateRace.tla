----------------------------- MODULE CreateRace -----------------------------
(***************************************************************************)
(* xmp_create run by several threads of the FUSE loop at once, which is    *)
(* what fuse_main starts unless it is given -s, at the grain of single     *)
(* reads and stores of the shared CYCstate and of the single lseek, read   *)
(* and write of the virtual NAND.  No handler and no function of           *)
(* vNANDlib.c takes a lock, and all of them use one file descriptor.       *)
(*                                                                         *)
(* What a transfer does at a place it was not meant for is not followed:   *)
(* mishap names the first one, and the behaviour ends there.  So does one  *)
(* in which getFreeBlock follows the link of a header, which is a word     *)
(* of a malloc'ed page that nobody set.                                    *)
(***************************************************************************)
EXTENDS Creates

CONSTANT MaxRaced   \* bound: files created in a behaviour

ASSUME MaxRacedAssumption == MaxRaced \in Nat

VARIABLES
  at,       \* thread -> the next access of its call of xmp_create
  mine,     \* thread -> its local variables, with the place its last lseek
            \* asked for and what its last read delivered
  made,     \* the files whose header was written or refused, oldest first
  offset,   \* the offset of the descriptor: <<block, part of the block>>
  mishap    \* "none", "displaced" or "unset"

raceVars == <<at, mine, made, offset, mishap>>
allVars  == <<vars, raceVars>>

(* The parts of a block in the file are its pages and two counters. *)
PagePlace(k)  == <<BlockOf(k), PageOf(k)>>
BlockPlace(b) == <<b, 0>>
EraseCountPlace(b) == <<b, BLOCKSIZE + 1>>
NextPlace(place) == <<place[1], place[2] + 1>>

Fresh == [fileID |-> 0, logID |-> 0, page |-> 0, next |-> 0,
          sought |-> <<0, 0>>, count |-> 0, block |-> ZeroNAND[0]]

(* initCYCstate has read the map's page last. *)
RaceStart ==
  /\ at = [t \in Threads |-> "idle"]
  /\ mine = [t \in Threads |-> Fresh]
  /\ made = << >>
  /\ offset = NextPlace(PagePlace(BLOCKSIZE))
  /\ mishap = "none"

Under == {t \in Threads : at[t] # "idle"}
Move(t, from, to) == at[t] = from /\ at' = [at EXCEPT ![t] = to]

(* Accesses of memory, that leave the device alone. *)
InMemory == UNCHANGED <<nand, made, offset, mishap>>
-----------------------------------------------------------------------------
(* getFreePtr: the head of the free slots is read, then the slot it        *)
(* names, then the new head is stored; once for the file number ...        *)
TakeFileID(t) ==
  /\ Cardinality(Under) + Len(made) < MaxRaced
  /\ Move(t, "idle", "fileSlot")
  /\ mine' = [mine EXCEPT ![t].fileID = vaddrMap.freePtr]
  /\ InMemory /\ UNCHANGED <<lists, vaddrMap>>

(* ... and once for the log number. *)
TakeLogID(t) ==
  /\ Move(t, "takeLog", "logSlot")
  /\ mine' = [mine EXCEPT ![t].logID = vaddrMap.freePtr]
  /\ InMemory /\ UNCHANGED <<lists, vaddrMap>>

ReadSlot(t) ==
  /\ \E ptr \in {mine[t].fileID, mine[t].logID} :
       /\ \/ Move(t, "fileSlot", "fileStore") /\ ptr = mine[t].fileID
          \/ Move(t, "logSlot", "logStore") /\ ptr = mine[t].logID
       /\ \E w \in SlotWords(ptr) : mine' = [mine EXCEPT ![t].next = Abs(w)]
  /\ InMemory /\ UNCHANGED <<lists, vaddrMap>>

StoreFreePtr(t) ==
  /\ Move(t, "fileStore", "takeLog") \/ Move(t, "logStore", "chooseList")
  /\ vaddrMap' = [vaddrMap EXCEPT !.freePtr = mine[t].next]
  /\ InMemory /\ UNCHANGED <<lists, mine>>

(* The map entry of the log, at the end of getLogForFile. *)
StoreLog(t) ==
  /\ Move(t, "storeLog", "storeFile")
  /\ vaddrMap' = StoreSlot(mine[t].logID, mine[t].page)
  /\ InMemory /\ UNCHANGED <<lists, mine>>

(* The map entry of the file; the stub is the thread's own. *)
StoreFile(t) ==
  /\ Move(t, "storeFile", "seekBlock")
  /\ vaddrMap' = StoreSlot(mine[t].fileID, mine[t].page)
  /\ InMemory /\ UNCHANGED <<lists, mine>>

-----------------------------------------------------------------------------
(* lseek, and a read or write at the offset the descriptor then has.       *)
Seek(t, place) ==
  /\ offset' = place
  /\ mine' = [mine EXCEPT ![t].sought = place]
  /\ UNCHANGED <<nand, lists, vaddrMap, made, mishap>>

Landed(t) == offset = mine[t].sought
Transfer(t, behind) ==
  /\ Landed(t)
  /\ offset' = behind
  /\ UNCHANGED <<lists, vaddrMap, mishap>>

Transfers == {"readPartial", "readComplete", "readCount", "writeErased", "readBlock", "writeBlock"}

(* Another thread moved the offset between this one's lseek and its read   *)
(* or write.                                                               *)
Displaced(t) ==
  /\ at[t] \in Transfers /\ ~ Landed(t)
  /\ mishap' = "displaced"
  /\ UNCHANGED <<vars, at, mine, made, offset>>
-----------------------------------------------------------------------------
(* getFreeBlock reads partialHead three times: to choose the list, for     *)
(* the page of the new file and for the page with the link.                *)
ChooseList(t) ==
  /\ \/ lists.partialHead # 0 /\ Move(t, "chooseList", "takePartial")
     \/ lists.partialHead = 0 /\ Move(t, "chooseList", "takeComplete")
  /\ InMemory /\ UNCHANGED <<lists, vaddrMap, mine>>

TakePartial(t) ==
  /\ Move(t, "takePartial", "seekPartial")
  /\ mine' = [mine EXCEPT ![t].page = lists.partialHead + 1]
  /\ InMemory /\ UNCHANGED <<lists, vaddrMap>>

SeekPartial(t) ==
  /\ Move(t, "seekPartial", "readPartial")
  /\ Seek(t, PagePlace(lists.partialHead))

(* The page a place is that of. *)
PageAt(place) == nand[place[1]].contents[place[2]]

ReadPartial(t) ==
  /\ Move(t, "readPartial", "popPartial")
  /\ PageAt(mine[t].sought).contents.kind # "header"
  /\ mine' = [mine EXCEPT ![t].next = PageAt(mine[t].sought).nextLogBlock]
  /\ Transfer(t, NextPlace(offset))
  /\ UNCHANGED <<nand, made>>

ReadUnset(t) ==
  /\ at[t] = "readPartial" /\ Landed(t)
  /\ PageAt(mine[t].sought).contents.kind = "header"
  /\ mishap' = "unset"
  /\ UNCHANGED <<vars, at, mine, made, offset>>

StorePartial(t) ==
  /\ Move(t, "popPartial", "storeLog")
  /\ lists' = [lists EXCEPT !.partialHead = mine[t].next]
  /\ InMemory /\ UNCHANGED <<vaddrMap, mine>>

(* With no block in the partial list, the head of the complete list ...    *)
TakeComplete(t) ==
  /\ Move(t, "takeComplete", "seekComplete")
  /\ mine' = [mine EXCEPT ![t].page = lists.completeHead]
  /\ InMemory /\ UNCHANGED <<lists, vaddrMap>>

SeekComplete(t) ==
  /\ Move(t, "seekComplete", "readComplete")
  /\ Seek(t, PagePlace(LastPageOfBlock(mine[t].page)))

ReadComplete(t) ==
  /\ Move(t, "readComplete", "popComplete")
  /\ mine' = [mine EXCEPT ![t].next = PageAt(mine[t].sought).nextLogBlock]
  /\ Transfer(t, NextPlace(offset))
  /\ UNCHANGED <<nand, made>>

StoreComplete(t) ==
  /\ Move(t, "popComplete", "seekCount")
  /\ lists' = [lists EXCEPT !.completeHead = mine[t].next]
  /\ InMemory /\ UNCHANGED <<vaddrMap, mine>>

-----------------------------------------------------------------------------
(* Mutant: the block is rounded up, as for the page with the link. *)
MutErasedBlock(t) == BlockOf(mine[t].page + BLOCKSIZE)

(* ... whose block eraseNAND erases: it reads the erase count of the       *)
(* block and writes an empty block.  (Only block 0 is ever erased, the     *)
(* one whose count it finds at its place; see EraseCountWord.)             *)
ErasedBlock(t) == BlockOf(mine[t].page)

SeekCount(t) ==
  /\ Move(t, "seekCount", "readCount")
  /\ Seek(t, EraseCountPlace(ErasedBlock(t)))

ReadCount(t) ==
  /\ Move(t, "readCount", "seekErased")
  /\ \E word \in Junk :
       mine' = [mine EXCEPT ![t].count = EraseCountWord(nand, ErasedBlock(t), word)]
  /\ Transfer(t, BlockPlace(ErasedBlock(t) + 1))
  /\ UNCHANGED <<nand, made>>

SeekErased(t) ==
  /\ Move(t, "seekErased", "writeErased")
  /\ Seek(t, BlockPlace(ErasedBlock(t)))

WriteErased(t) ==
  /\ Move(t, "writeErased", "storeLog")
  /\ nand' = [nand EXCEPT ![ErasedBlock(t)] =
                [ZeroNAND[0] EXCEPT !.eraseCount = mine[t].count + 1]]
  /\ mine' = [mine EXCEPT ![t].count = 0]
  /\ Transfer(t, BlockPlace(ErasedBlock(t) + 1))
  /\ UNCHANGED made

-----------------------------------------------------------------------------
(* writeNAND of the header: it reads the block of the page, refuses a page *)
(* that is not the block's next, and writes the block back, with what      *)
(* another thread wrote to it meanwhile undone.  The header's page is one  *)
(* of the first two of its block, for which getFreePage takes no block     *)
(* and sets no link.                                                       *)
HeaderBlock(t) == BlockOf(mine[t].page)

SeekBlock(t) ==
  /\ Move(t, "seekBlock", "readBlock")
  /\ Seek(t, BlockPlace(HeaderBlock(t)))

Finish(t) ==
  /\ made' = Append(made, [fileID |-> mine[t].fileID, logID |-> mine[t].logID,
                           page |-> mine[t].page])
  /\ mine' = [mine EXCEPT ![t] = Fresh]

RefusePage(t) ==
  /\ Move(t, "readBlock", "idle")
  /\ PageOf(mine[t].page) # nand[HeaderBlock(t)].nextPage
  /\ Finish(t)
  /\ Transfer(t, BlockPlace(HeaderBlock(t) + 1))
  /\ UNCHANGED nand

LoadBlock(t) ==
  /\ Move(t, "readBlock", "seekBack")
  /\ PageOf(mine[t].page) = nand[HeaderBlock(t)].nextPage
  /\ mine' = [mine EXCEPT ![t].block = nand[HeaderBlock(t)]]
  /\ Transfer(t, BlockPlace(HeaderBlock(t) + 1))
  /\ UNCHANGED <<nand, made>>

SeekBack(t) ==
  /\ Move(t, "seekBack", "writeBlock")
  /\ Seek(t, BlockPlace(HeaderBlock(t)))

HeaderPage(t, link) ==
  NewPage([kind |-> "header", logId |-> mine[t].logID, fileId |-> mine[t].fileID],
          0, link, PTYPE_INODE)

Rewritten(t, link) ==
  LET old == mine[t].block IN
  [contents   |-> [old.contents EXCEPT ![PageOf(mine[t].page)] = HeaderPage(t, link)],
   nextPage   |-> old.nextPage + 1,
   eraseCount |-> old.eraseCount]

WriteBack(t) ==
  /\ Move(t, "writeBlock", "idle")
  /\ \E link \in Junk : nand' = [nand EXCEPT ![HeaderBlock(t)] = Rewritten(t, link)]
  /\ Finish(t)
  /\ Transfer(t, BlockPlace(HeaderBlock(t) + 1))

-----------------------------------------------------------------------------
RaceStep(t) ==
  /\ mishap = "none"
  /\ UNCHANGED <<pc, local, created>>
  /\ \/ TakeFileID(t) \/ TakeLogID(t) \/ ReadSlot(t) \/ StoreFreePtr(t)
     \/ ChooseList(t) \/ TakePartial(t) \/ SeekPartial(t) \/ ReadPartial(t) \/ StorePartial(t)
     \/ TakeComplete(t) \/ SeekComplete(t) \/ ReadComplete(t) \/ StoreComplete(t)
     \/ SeekCount(t) \/ ReadCount(t) \/ SeekErased(t) \/ WriteErased(t)
     \/ StoreLog(t) \/ StoreFile(t)
     \/ SeekBlock(t) \/ RefusePage(t) \/ LoadBlock(t) \/ SeekBack(t) \/ WriteBack(t)
     \/ ReadUnset(t) \/ Displaced(t)

RaceNext == \E t \in Threads : RaceStep(t)
RaceSpec == Init /\ RaceStart /\ [][RaceNext]_allVars

-----------------------------------------------------------------------------
(* Whatever creations interleave, and when slots and blocks have run out,  *)
(* getFreeBlock gives no file the block of the virtual address map and     *)
(* nothing is written to it, up to the first transfer that another         *)
(* thread's lseek displaces, and the first link followed that was not set. *)
MapBlockKept ==
  /\ \A i \in DOMAIN made : BlockOf(made[i].page) # 1
  /\ nand[1] = Formatted[1]

(* loggingDiskFormats.h: a file number is the "unique file number". *)
NumbersNotShared ==
  \A i, j \in DOMAIN made : i # j => NumbersOf(made[i]) \cap NumbersOf(made[j]) = {}

(* vNANDlib.c of readNAND: "lseek to position of page and read entire      *)
(* page"; what is read and written is at the place it was meant for.       *)
TransfersLand == mishap # "displaced"
=============================================================================
