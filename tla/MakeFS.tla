------------------------------- MODULE MakeFS -------------------------------
(***************************************************************************)
(* example/makefs.c: the memory of a new file system.                      *)
(***************************************************************************)
EXTENDS FreeLists, AddrMap

(* The payloads of the super page and of the page of the map. *)
SuperPayload(l) == [kind |-> "super", freeLists |-> l, latest_vaddr_map |-> BLOCKSIZE]
MapPayload(vm)  == [kind |-> "map", vaddrMap |-> vm]

WriteOutSuperBlock(m) ==
  WriteNAND(m, 0, NewPage(SuperPayload(FreshLists), -1, 0, PTYPE_SUPER), FALSE)

WriteOutVaddrMap(m) ==
  WriteNAND(m, BLOCKSIZE, NewPage(MapPayload(FreshMap), 0, 0, PTYPE_ADDRMAP), FALSE)

(* Page 0 of blocks 2 .. NumBlocks-2 links to the next block. *)
LinkFreeBlocks(m) ==
  [b \in Blocks |->
     IF b \in 2 .. NumBlocks - 2
       THEN WriteNAND(m, b * BLOCKSIZE,
              NewPage(Blank, 0, (b + 1) * BLOCKSIZE, PTYPE_NEXTLINK), FALSE)[b]
       ELSE m[b]]

(* makefs on a zero memory. *)
Formatted == LinkFreeBlocks(WriteOutVaddrMap(WriteOutSuperBlock(ZeroNAND)))
=============================================================================
