----------------------------- MODULE FreeLists -----------------------------
(***************************************************************************)
(* The free block lists and the pages of a log: getFreeBlock, getFreePage  *)
(* (example/helper.c) and logs_recycle (example/logs.c), over the memory   *)
(* of module VNand.                                                        *)
(*                                                                         *)
(* lists is struct freeList without the erase counts, which travel from    *)
(* page to page and are never read for a decision:                         *)
(*   [partialHead, partialTail, completeHead, completeTail : page address] *)
(* and log is struct activeLog with the fields of its header that are read *)
(* again:                                                                  *)
(*   [nextPage, last, first, prev, logId, fileId].                         *)
(* junk stands for a word of memory the code reads without having set it:  *)
(* the link field of a malloc'ed page, or of a page buffer on the stack    *)
(* that a refused readNAND left alone.                                     *)
(***************************************************************************)
EXTENDS VNand

(* The special pages of a block (first, last three) are four different     *)
(* pages and page 1, where makefs lets logs begin, is none of them.        *)
ASSUME LogBlockAssumption == BLOCKSIZE >= 5
(* Block 0 holds the super page, block 1 the map, the rest is for logs.    *)
ASSUME LogSpaceAssumption == NumBlocks >= 3

(* Mutant: the list of partially used blocks starts one block early. *)
MutFreshLists ==
  [partialHead |-> BLOCKSIZE, partialTail |-> BLOCKSIZE * (NumBlocks - 1),
   completeHead |-> 0, completeTail |-> 0]

(* The lists makefs writes: every block from 2 on is partially used. *)
FreshLists ==
  [partialHead |-> BLOCKSIZE * 2, partialTail |-> BLOCKSIZE * (NumBlocks - 1),
   completeHead |-> 0, completeTail |-> 0]

(* nextLogBlock of page k as readNAND delivers it. *)
ReadLink(m, k, junk) == IF k \in Pages THEN ReadNAND(m, k).nextLogBlock ELSE junk

(* The last page of the block a page address lies in. *)
LastPageOfBlock(k) == BlockOf(k + BLOCKSIZE) * BLOCKSIZE - 1

(* getFreeBlock: the page it stores in *freePage, the lists and the memory *)
(* it leaves.  A log that grows, or a new file when the partial list is    *)
(* empty, takes the head of the complete list and erases its block; there  *)
(* is no check that this list is not empty.                                *)
GetFreeBlock(m, lists, newFile, junk) ==
  IF ~ newFile \/ lists.partialHead = 0
    THEN [page  |-> lists.completeHead,
          lists |-> [lists EXCEPT !.completeHead =
                       ReadLink(m, LastPageOfBlock(lists.completeHead), junk)],
          nand  |-> EraseNAND(m, BlockOf(lists.completeHead), junk)]
    ELSE [page  |-> lists.partialHead + 1,
          lists |-> [lists EXCEPT !.partialHead = ReadLink(m, lists.partialHead, junk)],
          nand  |-> m]

(* getFreePage: the address of the page to write, its link field, and the  *)
(* log, lists and memory after the log has moved on.  The pages of a log   *)
(* are taken in the order 0 .. BLOCKSIZE-3, then the last page of the      *)
(* previous block, then the last but one, which needs the next block.      *)
GetFreePage(m, lists, log, junk) ==
  LET a    == log.nextPage
      step(next, link) ==
        [address |-> a, link |-> link, lists |-> lists, nand |-> m,
         log |-> [log EXCEPT !.nextPage = next]]
      g    == GetFreeBlock(m, lists, FALSE, junk)
  IN CASE PageOf(a) = 0     -> step(a + 1, junk)
       [] PageOf(a + 3) = 0 -> step(log.prev * BLOCKSIZE + (BLOCKSIZE - 1), junk)
       [] PageOf(a + 2) = 0 -> [address |-> a, link |-> g.page,
                                lists |-> g.lists, nand |-> g.nand,
                                log |-> [log EXCEPT !.nextPage = g.page,
                                                    !.last = BlockOf(g.page)]]
       [] PageOf(a + 1) = 0 -> step(log.last * BLOCKSIZE + (BLOCKSIZE - 2),
                                    log.last * BLOCKSIZE)
       [] OTHER             -> step(a + 1, junk)

(* A page memset to zero that holds only a link. *)
LinkPage(next) == NewPage(Blank, 0, next, PTYPE_ERASED)

(* Mutant: the link is written with random access. *)
MutLogsRecycle(m, lists, first, prev, nextPage) ==
  [nand |-> WriteNAND(m, lists.partialTail, LinkPage(nextPage), TRUE),
   lists |-> [lists EXCEPT !.partialTail = nextPage]]

(* logs_recycle(log, nextPage): the memory and the lists after the blocks  *)
(* of the log went back to the free lists.                                 *)
LogsRecycle(m, lists, first, prev, nextPage) ==
  LET partial  == PageOf(nextPage) <= BLOCKSIZE - 3
      lastFull == IF ~ partial THEN PageOf(nextPage)
                  ELSE IF BlockOf(nextPage) # first THEN prev ELSE 0
      m1 == IF partial /\ lists.partialTail # 0
              THEN WriteNAND(m, lists.partialTail, LinkPage(nextPage), FALSE)
              ELSE m
      l1 == IF partial
              THEN [lists EXCEPT !.partialHead =
                                   IF lists.partialTail = 0 THEN nextPage ELSE @,
                                 !.partialTail = nextPage]
              ELSE lists
      m2 == IF lastFull # 0 /\ lists.completeTail # 0
              THEN WriteNAND(m1, lists.completeTail, LinkPage(first), TRUE)
              ELSE m1
      l2 == IF lastFull # 0
              THEN [l1 EXCEPT !.completeHead =
                                IF lists.completeTail = 0 THEN first ELSE @,
                              !.completeTail = lastFull]
              ELSE l1
  IN [nand |-> m2, lists |-> l2]
=============================================================================
