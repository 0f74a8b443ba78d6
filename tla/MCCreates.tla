----------------------------- MODULE MCCreates -----------------------------
(***************************************************************************)
(* The example programs.  Creations of files: one at a time on a new file  *)
(* system, or by several threads when there are files and few slots and    *)
(* blocks are left.  The page cache prototype.  The handlers on the        *)
(* directory tree, all of them on two names, and the reading of a          *)
(* directory of three names while others change it.  A behaviour is one of *)
(* the part that part names; the others rest in an initial state.          *)
(***************************************************************************)
EXTENDS CreateRace, PageCache, Passthrough

VARIABLE part

\* Numbers below ten keep the decimal text of a key at one character.
MCAddressOf == <<2, 5, 7>>
MCHeights   == <<2, 2, 1>>

\* The state after the first n files, created one after the other.
MCHeader(i)  == NewPage([kind |-> "header", logId |-> 2 * i, fileId |-> 2 * i - 1], 0, 0, PTYPE_INODE)
MCPage(i)    == (i + 1) * BLOCKSIZE + 1
FilesThere(n) ==
  /\ nand = [b \in Blocks |-> IF b \in 2 .. n + 1
                                THEN WriteNAND(Formatted, MCPage(b - 1), MCHeader(b - 1), FALSE)[b]
                                ELSE Formatted[b]]
  /\ lists = [FreshLists EXCEPT !.partialHead = (n + 2) * BLOCKSIZE]
  /\ vaddrMap = [freePtr |-> 2 * n + 1,
                 map |-> [id \in Ids |-> IF id \in 1 .. 2 * n THEN MCPage((id + 1) \div 2)
                                         ELSE FreshMap.map[id]]]
  /\ pc = [t \in Threads |-> "idle"]
  /\ local = [t \in Threads |-> Locals]
  /\ created = << >>

\* A part that does not run starts in one state only.
OneCache == cache.max = CHOOSE s \in Sizes : TRUE

MCInit ==
  /\ RaceStart
  /\ \/ part \in {"serial", "cache", "tree", "scan"} /\ Init
     \/ part = "race" /\ FilesThere(2)
  /\ PtInit /\ CacheInit /\ (part # "cache" => OneCache)
MCNext ==
  \/ part = "serial" /\ SerialNext /\ UNCHANGED <<part, raceVars, cacheVars, ptVars>>
  \/ part = "race" /\ RaceNext /\ UNCHANGED <<part, cacheVars, ptVars>>
  \/ part = "cache" /\ CacheNext /\ UNCHANGED <<part, allVars, ptVars>>
  \/ part = "tree" /\ TreeNext({1, 2}) /\ UNCHANGED <<part, allVars, cacheVars>>
  \/ part = "scan" /\ (ScanNext \/ DirChange) /\ UNCHANGED <<part, allVars, cacheVars>>
MCSpec == MCInit /\ [][MCNext]_<<part, allVars, cacheVars, ptVars>>
=============================================================================
