---------------------------- MODULE VNandDevice ----------------------------
(***************************************************************************)
(* The virtual NAND as a device used by an arbitrary client: any page of   *)
(* any block may be offered for a write, any block for an erasure.  What   *)
(* the device promises here does not depend on the file system being       *)
(* right.                                                                  *)
(***************************************************************************)
EXTENDS VNand

CONSTANTS
  Payloads,    \* payloads a client may write, Blank not among them
  Words,       \* values of the payload bytes eraseNAND may read as a count
  MaxErases    \* bound: erasures of one block in a behaviour

ASSUME PayloadsAssumption == Blank \notin Payloads
ASSUME WordsAssumption == Words \subseteq Int
ASSUME MaxErasesAssumption == MaxErases \in Nat

VARIABLES
  nand,        \* the memory
  programmed,  \* history: sequential writes each page accepted since its
               \* block was last erased
  erasures     \* erasures of each block, counted for MaxErases

vars == <<nand, programmed, erasures>>

(* The pages a client writes: a payload, and a link a free list could hold. *)
ClientPage(d, n) ==
  [contents |-> d, eraseCount |-> 0, nextLogBlock |-> n,
   nextBlockErases |-> 0, pageType |-> PTYPE_INODE]

ClientPages == {ClientPage(d, n) : d \in Payloads, n \in {0, BLOCKSIZE}}

Init ==
  /\ nand = ZeroNAND
  /\ programmed = [b \in Blocks |-> [i \in PageIdx |-> 0]]
  /\ erasures = [b \in Blocks |-> 0]

(* writeNAND with random_access = 0. *)
SequentialWrite(k, page) ==
  /\ nand' = WriteNAND(nand, k, page, FALSE)
  /\ programmed' = IF WriteAccepted(nand, k, FALSE)
                     THEN [programmed EXCEPT ![BlockOf(k)][PageOf(k)] = @ + 1]
                     ELSE programmed
  /\ UNCHANGED erasures

(* writeNAND with random_access = 1. *)
RandomWrite(k, page) ==
  /\ nand' = WriteNAND(nand, k, page, TRUE)
  /\ UNCHANGED <<programmed, erasures>>

(* eraseNAND. *)
Erase(b) ==
  /\ erasures[b] < MaxErases
  /\ \E word \in Words : nand' = EraseNAND(nand, b, word)
  /\ programmed' = [programmed EXCEPT ![b] = [i \in PageIdx |-> 0]]
  /\ erasures' = [erasures EXCEPT ![b] = @ + 1]

Next ==
  \/ \E k \in Pages, page \in ClientPages : SequentialWrite(k, page)
  \/ \E k \in Pages, page \in ClientPages : RandomWrite(k, page)
  \/ \E b \in Blocks : Erase(b)

Spec == Init /\ [][Next]_vars

-----------------------------------------------------------------------------
BlockState == [contents : [PageIdx -> {ZeroPage} \cup ClientPages],
               nextPage : 0 .. BLOCKSIZE, eraseCount : Int]

(* Every block has BLOCKSIZE pages and a frontier that never runs past the *)
(* block's end, whatever the client does.                                  *)
TypeOK ==
  /\ nand \in [Blocks -> BlockState]
  /\ programmed \in [Blocks -> [PageIdx -> Nat]]
  /\ erasures \in [Blocks -> Nat]

(* Between two erasures writeNAND accepts each page at most once in        *)
(* sequence, and the accepted pages are exactly those below nextPage: the  *)
(* rule of NAND programming that writeNAND's check of nextPage and         *)
(* eraseNAND's reset of it enforce together.                               *)
ProgrammedOnceInOrder ==
  \A b \in Blocks : \A i \in PageIdx :
    programmed[b][i] = IF i < nand[b].nextPage THEN 1 ELSE 0

=============================================================================
