------------------------------ MODULE AddrMap ------------------------------
(***************************************************************************)
(* The virtual address map (struct addrMap of fuseLogging.h).  A slot in   *)
(* use holds the page address of a log header; a free slot i holds minus   *)
(* the number of the next free slot; 0 ends the list.  Slot 0 is never on  *)
(* the list.                                                               *)
(***************************************************************************)
EXTENDS Integers

CONSTANT MaxId   \* the last slot (map->size - 1, 253 in the code)

ASSUME MaxIdAssumption == MaxId \in Nat \ {0}

Ids == 0 .. MaxId

(* Mutant: the sign of a free slot's word is kept. *)
MutAbs(n) == n

(* abs of the C library. *)
Abs(n) == IF n < 0 THEN -n ELSE n

(* The map makefs writes (writeOutVaddrMap). *)
FreshMap ==
  [freePtr |-> 1,
   map     |-> [i \in Ids |-> IF i \in 1 .. MaxId - 1 THEN -(i + 1) ELSE 0]]

(* getFreePtr returns vm.freePtr and leaves the map popped like this. *)
PopFreePtr(vm) == [vm EXCEPT !.freePtr = Abs(vm.map[@])]
=============================================================================
