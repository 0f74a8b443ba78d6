--------------------------- MODULE LogAllocation ---------------------------
(***************************************************************************)
(* What creating files promises: every new file gets a file number, a log  *)
(* number and a block that nothing else has.  Nothing is said of the order *)
(* in which numbers and blocks are taken.                                  *)
(***************************************************************************)
EXTENDS Integers, Sequences

CONSTANTS
  Numbers,    \* slots of the virtual address map that may be given out
  LogBlocks   \* blocks that may hold a log

VARIABLE files   \* the files created so far: [fileID, logID, block]

NumbersOf(f) == {f.fileID, f.logID}
NumbersUsed  == UNION {NumbersOf(files[i]) : i \in DOMAIN files}
BlocksUsed   == {files[i].block : i \in DOMAIN files}

Init == files = << >>

Allocate ==
  \E f, l \in Numbers \ NumbersUsed, b \in LogBlocks \ BlocksUsed :
    /\ f # l
    /\ files' = Append(files, [fileID |-> f, logID |-> l, block |-> b])

Spec == Init /\ [][Allocate]_files
=============================================================================
