------------------------------- MODULE VNand -------------------------------
(***************************************************************************)
(* The virtual NAND memory of example/vNANDlib.c: blocks of BLOCKSIZE      *)
(* pages, kept in one big file.  The three calls the file system makes     *)
(* (readNAND, writeNAND, eraseNAND) are operators over the value of the    *)
(* memory, so that the device module and the file system module share      *)
(* them.                                                                   *)
(*                                                                         *)
(* A memory is a function from block numbers to                            *)
(*   [contents   : page index -> page,                                     *)
(*    nextPage   : first page not yet written in sequence,                 *)
(*    eraseCount : what the code stores as the number of erasures]         *)
(* and a page is a record with the fields of struct fullPage.  The payload *)
(* (contents) is left abstract; the meta union is never read and left out. *)
(***************************************************************************)
EXTENDS Integers

CONSTANTS
  BLOCKSIZE,   \* pages per block (16 in the code)
  NumBlocks    \* blocks of the memory (the argument of makeVirtualNAND)

ASSUME BlockSizeAssumption == BLOCKSIZE \in Nat \ {0}
ASSUME NumBlocksAssumption == NumBlocks \in Nat \ {0}

Blocks  == 0 .. NumBlocks - 1
PageIdx == 0 .. BLOCKSIZE - 1
Pages   == 0 .. NumBlocks * BLOCKSIZE - 1

PTYPE_ERASED   == 0
PTYPE_SUPER    == 1
PTYPE_INODE    == 3
PTYPE_ADDRMAP  == 4
PTYPE_NEXTLINK == 5

(* The payload of a page of zero bytes. *)
Blank == [kind |-> "blank"]

(* A page of zero bytes, as memset leaves it. *)
ZeroPage ==
  [contents |-> Blank, eraseCount |-> 0, nextLogBlock |-> 0,
   nextBlockErases |-> 0, pageType |-> PTYPE_ERASED]

(* A page set up from zero bytes: payload, erase count, link and type. *)
NewPage(contents, eraseCount, link, type) ==
  [contents |-> contents, eraseCount |-> eraseCount, nextLogBlock |-> link,
   nextBlockErases |-> 0, pageType |-> type]

(* The big file as makeVirtualNAND creates it: all bytes zero. *)
ZeroNAND ==
  [b \in Blocks |-> [contents   |-> [i \in PageIdx |-> ZeroPage],
                     nextPage   |-> 0,
                     eraseCount |-> 0]]

(* k/BLOCKSIZE and k%BLOCKSIZE as C computes them, rounding to zero. *)
BlockOf(k) == IF k >= 0 THEN k \div BLOCKSIZE ELSE -((-k) \div BLOCKSIZE)
PageOf(k)  == IF k >= 0 THEN k % BLOCKSIZE ELSE -((-k) % BLOCKSIZE)

(* readNAND on an address inside the memory; it refuses the others and     *)
(* leaves the caller's buffer as it was.                                   *)
ReadNAND(m, k) == m[BlockOf(k)].contents[PageOf(k)]

(* Mutant: writeNAND does not ask for the block's next page. *)
MutWriteAccepted(m, k, random) == BlockOf(k) \in Blocks

(* What writeNAND checks before it stores anything: the block lies in the  *)
(* memory and, unless random_access is set, the page is the block's next.  *)
WriteAccepted(m, k, random) ==
  /\ BlockOf(k) \in Blocks
  /\ random \/ PageOf(k) = m[BlockOf(k)].nextPage

(* Mutant: a refused write still advances nextPage. *)
MutWriteNAND(m, k, page, random) ==
  IF WriteAccepted(m, k, random)
    THEN [m EXCEPT ![BlockOf(k)].contents[PageOf(k)] = page,
                   ![BlockOf(k)].nextPage = IF random THEN @ ELSE @ + 1]
    ELSE [m EXCEPT ![BlockOf(k)].nextPage = @ + 1]

(* The memory after writeNAND(page, k, random): unchanged when refused.  A *)
(* negative address within block 0 (logs_recycle may have stored -1 as the *)
(* tail of a list) hits no page of the block.                              *)
WriteNAND(m, k, page, random) ==
  IF WriteAccepted(m, k, random)
    THEN [m EXCEPT ![BlockOf(k)].contents[PageOf(k)] = page,
                   ![BlockOf(k)].nextPage = IF random THEN @ ELSE @ + 1]
    ELSE m

(* The word eraseNAND reads as the erase count of block k.  It seeks to    *)
(* 8 + (k+1) * (sizeof block - 4), which is k words before the counter:    *)
(* only block 0 reads its own counter, the others a word of their tail.    *)
(* word stands for the bytes of the payload or the meta union of the last  *)
(* page, which the model does not keep.                                    *)
EraseCountWord(m, k, word) ==
  LET last == m[k].contents[BLOCKSIZE - 1] IN
  CASE k = 0 -> m[k].eraseCount
    [] k = 1 -> m[k].nextPage
    [] k = 2 -> last.pageType
    [] k = 5 -> last.nextBlockErases
    [] k = 6 -> last.nextLogBlock
    [] k = 7 -> last.eraseCount
    [] OTHER -> word

(* The memory after eraseNAND(k), k a block number: every page zeroed.     *)
EraseNAND(m, k, word) ==
  IF k \in Blocks
    THEN [m EXCEPT ![k] = [contents   |-> [i \in PageIdx |-> ZeroPage],
                           nextPage   |-> 0,
                           eraseCount |-> EraseCountWord(m, k, word) + 1]]
    ELSE m
=============================================================================
