------------------------------ MODULE Cycology ------------------------------
(***************************************************************************)
(* The CYCOLOGY file system: the FUSE handlers of                          *)
(* example/passthroughBlocked_fh.c with example/helper.c and               *)
(* example/logs.c, over the virtual NAND that makefs has formatted.        *)
(*                                                                         *)
(* Directories and names live in an ordinary directory tree (rootdir/root) *)
(* where each file is a stub that holds its file number; the file's log    *)
(* header is a page of the NAND, found through the virtual address map.    *)
(* The free lists and the map are read when the file system is mounted and *)
(* written back only when it is unmounted.                                 *)
(*                                                                         *)
(* Here every handler is one step.  FUSE calls the handlers; the library   *)
(* does not pass on the unlink of an entry that is open: it renames the    *)
(* entry out of the way (hide_node) and calls unlink after the last        *)
(* release.                                                                *)
(***************************************************************************)
EXTENDS MakeFS, FiniteSets

CONSTANTS
  Entries,       \* names in the stub tree
  MaxOpens,      \* bound: handles open at a time through one entry
  Worlds         \* what behaviours differ in, records of
                 \*   links    the values an unset word of memory may hold
                 \*            when it is used as a link
                 \*   flags    those openFile.modified may hold: no code
                 \*            sets it
                 \*   crashes  whether the daemon may die
                 \*   files    bound: entries that exist at a time
                 \*   slots    bound: slots of the map that are used

ASSUME EntriesAssumption == IsFiniteSet(Entries)
ASSUME MaxOpensAssumption == MaxOpens \in Nat \ {0}
ASSUME WorldsAssumption ==
  Worlds \subseteq [links : (SUBSET Nat) \ {{}}, flags : (SUBSET Nat) \ {{}},
                    crashes : BOOLEAN, files : Nat, slots : Nat]

VARIABLES
  nand,      \* the memory (survives a crash)
  stub,      \* entry -> stub file: inode of the stub and file number in it
             \* (survives a crash)
  mounted,   \* whether the daemon runs
  lists,     \* state->lists
  vaddrMap,  \* state->vaddrMap
  table,     \* state->cache->openFileTable
  handles,   \* fi->fh values given out and not released: <<e, n, id>> is
             \* the n-th through entry e, on the openFile in slot id of the
             \* table, or on one replaced in the table if id = 0
  hidden,    \* entries libfuse has renamed away while they were open
  world      \* the member of Worlds this behaviour is in

vars == <<nand, stub, mounted, lists, vaddrMap, table, handles, hidden, world>>
volatile == <<mounted, lists, vaddrMap, table, handles, hidden>>

-----------------------------------------------------------------------------
(* Page payloads. *)

HeaderPayload(log) ==
  [kind |-> "header", logId |-> log.logId, fileId |-> log.fileId,
   first |-> log.first, prev |-> log.prev, fileCount |-> 1]

(* A page cast to struct logHeader.  Zero bytes give a header of zeros; in *)
(* the super page the word at the place of logId is partialTail, and those *)
(* of fileCount and of the inode are zero.                                 *)
NoHeader == [logId |-> 0, fileId |-> 0, first |-> 0, prev |-> 0, fileCount |-> 0]
AsHeader(page) ==
  CASE page.contents.kind = "header" -> page.contents
    [] page.contents.kind = "super" ->
         [NoHeader EXCEPT !.logId = page.contents.freeLists.partialTail]
    [] OTHER -> NoHeader

(* i_log_no of the inode in that header, which initInode sets to logId.    *)
ILogNo(page) == IF page.contents.kind = "header" THEN page.contents.logId ELSE 0

(* What readNAND may leave in a buffer: the page, or for a negative        *)
(* address (a free slot of the map) the page where the file offset of the  *)
(* big file happens to stand, because the lseek fails.  Bound: that is not *)
(* the page of the map.                                                    *)
PagesRead(m, k) ==
  IF k \in Pages THEN {ReadNAND(m, k)}
                 ELSE {ReadNAND(m, q) : q \in Pages \ {BLOCKSIZE}}

SuperIntact == ReadNAND(nand, 0).contents.kind = "super"

(* The daemon answers calls.  Bound: they are followed until the super     *)
(* page is lost.                                                           *)
Serving == mounted /\ SuperIntact

-----------------------------------------------------------------------------
(* openFileTable: NULL, an openFile, or an activeLog stored in the slot of *)
(* its log number, of which only the presence is looked at.                *)

NULL     == [kind |-> "null"]
LogEntry == [kind |-> "log"]
NoLog    == [logId |-> 0]
OpenFile(n, mod, log) ==
  [kind |-> "file", currentOpens |-> n, modified |-> mod, mainExtentLog |-> log]

NoTable == [i \in Ids |-> NULL]
NoStub  == [ino |-> 0, fileId |-> 0]
Inodes  == 1 .. Cardinality(Entries)

FreeInode == CHOOSE i \in Inodes : \A e \in Entries : stub[e].ino # i
Opens(e)  == {h \in handles : h[1] = e}
NLink(e)  == Cardinality({f \in Entries : stub[f].ino = stub[e].ino})
FileId(e) == stub[e].fileId

(* Nothing of the daemon's state survives it. *)
Stopped ==
  /\ mounted' = FALSE
  /\ lists' = FreshLists
  /\ vaddrMap' = FreshMap
  /\ table' = NoTable
  /\ handles' = {}
  /\ hidden' = {}
  /\ UNCHANGED world

-----------------------------------------------------------------------------
Init ==
  /\ nand = Formatted
  /\ stub = [e \in Entries |-> NoStub]
  /\ mounted = FALSE
  /\ lists = FreshLists
  /\ vaddrMap = FreshMap
  /\ table = NoTable
  /\ handles = {}
  /\ hidden = {}
  /\ world \in Worlds

-----------------------------------------------------------------------------
(* Mutant: the lists are not taken from the super page but stay as makefs  *)
(* made them.                                                              *)
MutMount ==
  /\ ~ mounted
  /\ SuperIntact
  /\ mounted' = TRUE
  /\ vaddrMap' = ReadNAND(nand, BLOCKSIZE).contents.vaddrMap
  /\ lists' = FreshLists
  /\ table' = NoTable
  /\ UNCHANGED <<nand, stub, handles, hidden, world>>

(* xmp_init and initCYCstate.  A memory whose super page or map is gone    *)
(* gives arbitrary lists or slots and is not mounted here.                 *)
Mount ==
  /\ ~ mounted
  /\ SuperIntact
  /\ LET super == ReadNAND(nand, 0).contents IN
       /\ ReadNAND(nand, super.latest_vaddr_map).contents.kind = "map"
       /\ lists' = super.freeLists
       /\ vaddrMap' = ReadNAND(nand, super.latest_vaddr_map).contents.vaddrMap
  /\ mounted' = TRUE
  /\ table' = NoTable
  /\ UNCHANGED <<nand, stub, handles, hidden, world>>

(* Mutant: only the super page is saved. *)
MutDestroy ==
  /\ mounted
  /\ SuperIntact
  /\ nand' = WriteNAND(nand, 0, [ReadNAND(nand, 0) EXCEPT !.contents.freeLists = lists], TRUE)
  /\ Stopped
  /\ UNCHANGED stub

(* xmp_destroy: page 0 is rewritten with the current lists, then the same  *)
(* buffer, its payload replaced by the map, over the map page.             *)
Destroy ==
  /\ mounted
  /\ SuperIntact
  /\ LET page == [ReadNAND(nand, 0) EXCEPT !.contents.freeLists = lists]
         mapPage == [page EXCEPT !.contents = MapPayload(vaddrMap)]
     IN nand' = WriteNAND(WriteNAND(nand, 0, page, TRUE),
                          page.contents.latest_vaddr_map, mapPage, TRUE)
  /\ Stopped
  /\ UNCHANGED stub

(* The daemon dies: killed, or by the null pointer of unimplemented(),     *)
(* which xmp_chmod, xmp_chown, xmp_truncate, xmp_utimens, xmp_write,       *)
(* xmp_fsync, xmp_fallocate and xmp_flock begin with.                      *)
Crash ==
  /\ world.crashes
  /\ mounted
  /\ Stopped
  /\ UNCHANGED <<nand, stub>>

-----------------------------------------------------------------------------
(* Mutant: the page of the log is entered for the file only. *)
MutAllocation(junk) ==
  LET fileID == vaddrMap.freePtr
      vm1    == PopFreePtr(vaddrMap)
      logID  == vm1.freePtr
      vm2    == PopFreePtr(vm1)
      g      == GetFreeBlock(nand, lists, TRUE, junk)
      block  == BlockOf(g.page)
  IN [fileID |-> fileID, logID |-> logID,
      vaddrMap |-> [vm2 EXCEPT !.map = [@ EXCEPT ![fileID] = g.page]],
      lists |-> g.lists, nand |-> g.nand,
      log |-> [nextPage |-> g.page, last |-> block, first |-> block, prev |-> -1,
               logId |-> logID, fileId |-> fileID]]

(* What xmp_create does up to the creation of the stub: two slots of the   *)
(* map, a block, the map entries of both slots.                            *)
Allocation(junk) ==
  LET fileID == vaddrMap.freePtr
      vm1    == PopFreePtr(vaddrMap)
      logID  == vm1.freePtr
      vm2    == PopFreePtr(vm1)
      g      == GetFreeBlock(nand, lists, TRUE, junk)
      block  == BlockOf(g.page)
  IN [fileID |-> fileID, logID |-> logID,
      vaddrMap |-> [vm2 EXCEPT !.map = [@ EXCEPT ![logID] = g.page, ![fileID] = g.page]],
      lists |-> g.lists, nand |-> g.nand,
      log |-> [nextPage |-> g.page, last |-> block, first |-> block, prev |-> -1,
               logId |-> logID, fileId |-> fileID]]

(* Bound: two slots of the map are free.  What getFreePtr does beyond is   *)
(* the subject of module Creates.                                          *)
SlotsLeft == /\ vaddrMap.freePtr # 0
             /\ PopFreePtr(vaddrMap).freePtr \in 1 .. world.slots

(* Bound: the name may be used for a new entry. *)
Unused(e) == stub[e] = NoStub /\ Cardinality({f \in Entries : stub[f] # NoStub}) < world.files

(* Handles on an openFile that another one replaces in slot id. *)
Detach(id) == {<<h[1], h[2], IF h[3] = id THEN 0 ELSE h[3]>> : h \in handles}

PutOpenFile(a, oFile) ==
  table' = [table EXCEPT ![a.logID] = LogEntry, ![a.fileID] = oFile]

(* xmp_create.  The header goes to the first page of the log; a refusal of *)
(* that write is not noticed.                                              *)
Create(e) ==
  /\ Serving
  /\ Unused(e)
  /\ SlotsLeft
  /\ \E junk \in world.links, mod \in world.flags :
       LET a == Allocation(junk)
           p == GetFreePage(a.nand, a.lists, a.log, junk)
           header == NewPage(HeaderPayload(p.log), 0, p.link, PTYPE_INODE)
       IN /\ nand' = WriteNAND(p.nand, p.address, header, FALSE)
          /\ lists' = p.lists
          /\ vaddrMap' = a.vaddrMap
          /\ PutOpenFile(a, OpenFile(1, mod, p.log))
          /\ stub' = [stub EXCEPT ![e] = [ino |-> FreeInode, fileId |-> a.fileID]]
          /\ handles' = Detach(a.fileID) \cup {<<e, 1, a.fileID>>}
  /\ UNCHANGED <<mounted, hidden, world>>

(* xmp_create when the stub cannot be created: what was taken stays taken. *)
CreateFails(e) ==
  /\ Serving
  /\ Unused(e)
  /\ SlotsLeft
  /\ \E junk \in world.links, mod \in world.flags :
       LET a == Allocation(junk) IN
         /\ nand' = a.nand
         /\ lists' = a.lists
         /\ vaddrMap' = a.vaddrMap
         /\ PutOpenFile(a, OpenFile(1, mod, a.log))
         /\ handles' = Detach(a.fileID)
  /\ UNCHANGED <<stub, mounted, hidden, world>>

(* xmp_create when the daemon dies after it wrote the stub and before it   *)
(* wrote the header.                                                       *)
CreateCrashes(e) ==
  /\ world.crashes
  /\ Serving
  /\ Unused(e)
  /\ SlotsLeft
  /\ \E junk \in world.links :
       LET a == Allocation(junk) IN
         /\ nand' = a.nand
         /\ stub' = [stub EXCEPT ![e] = [ino |-> FreeInode, fileId |-> a.fileID]]
  /\ Stopped

-----------------------------------------------------------------------------
(* xmp_open hands out one more handle, on the openFile in slot id. *)
NewHandle(e, id) ==
  \E n \in 1 .. MaxOpens :
    /\ \A h \in Opens(e) : h[2] # n
    /\ \A i \in 1 .. n - 1 : \E h \in Opens(e) : h[2] = i
    /\ handles' = handles \cup {<<e, n, id>>}

(* Mutant: the handle is not counted. *)
MutOpenCached(e) ==
  /\ Serving
  /\ stub[e] # NoStub /\ e \notin hidden
  /\ table[FileId(e)].kind = "file"
  /\ NewHandle(e, FileId(e))
  /\ UNCHANGED <<nand, stub, mounted, lists, vaddrMap, table, hidden, world>>

(* xmp_open of a file that has an openFile. *)
OpenCached(e) ==
  /\ Serving
  /\ stub[e] # NoStub /\ e \notin hidden
  /\ table[FileId(e)].kind = "file"
  /\ table' = [table EXCEPT ![FileId(e)].currentOpens = @ + 1]
  /\ NewHandle(e, FileId(e))
  /\ UNCHANGED <<nand, stub, mounted, lists, vaddrMap, hidden, world>>

(* xmp_open of a file that has none: the header's log number tells which   *)
(* slot gets a fresh activeLog.  The inner declaration of log leaves the   *)
(* new openFile without one, and its count is 1 from initOpenFile plus 1.  *)
OpenUncached(e) ==
  /\ Serving
  /\ stub[e] # NoStub /\ e \notin hidden
  /\ table[FileId(e)] = NULL
  /\ \E page \in PagesRead(nand, vaddrMap.map[FileId(e)]), mod \in world.flags :
       table' = [table EXCEPT ![ILogNo(page)] = IF @ = NULL THEN LogEntry ELSE @,
                              ![FileId(e)] = OpenFile(2, mod, NoLog)]
  /\ NewHandle(e, FileId(e))
  /\ UNCHANGED <<nand, stub, mounted, lists, vaddrMap, hidden, world>>

(* xmp_release.  When the count reaches 0 and the flag is set, the header  *)
(* is written again to the next page of the log (writeCurrLogHeader); the  *)
(* map keeps the old address and the openFile stays in the table, only the *)
(* local pointer is cleared.  The count of an openFile that xmp_open made  *)
(* or that was replaced never reaches 0.                                   *)
Release(h) ==
  /\ Serving
  /\ handles' = handles \ {h}
  /\ IF h[3] = 0
       THEN UNCHANGED <<nand, lists, table>>
       ELSE LET id == h[3]
                o  == table[id]
                n  == o.currentOpens - 1
            IN IF n = 0 /\ o.modified = 1
                 THEN \E junk \in world.links :
                        LET p == GetFreePage(nand, lists, o.mainExtentLog, junk)
                            header == NewPage(HeaderPayload(p.log), 0, p.link, PTYPE_ERASED)
                        IN /\ nand' = WriteNAND(p.nand, p.address, header, FALSE)
                           /\ lists' = p.lists
                           /\ table' = [table EXCEPT ![id] = OpenFile(n, 1, p.log)]
                 ELSE /\ table' = [table EXCEPT ![id].currentOpens = n]
                      /\ UNCHANGED <<nand, lists>>
  /\ UNCHANGED <<stub, mounted, vaddrMap, hidden, world>>

-----------------------------------------------------------------------------
(* fuse_lib_unlink on an open entry: hide_node, no handler is called. *)
Hide(e) ==
  /\ Serving
  /\ Opens(e) # {} /\ e \notin hidden
  /\ hidden' = hidden \cup {e}
  /\ UNCHANGED <<nand, stub, mounted, lists, vaddrMap, table, handles, world>>

(* The entry is not open any more and its unlink reaches xmp_unlink. *)
Unlinking(e) == Serving /\ stub[e] # NoStub /\ Opens(e) = {}

RemoveStub(e) ==
  /\ stub' = [stub EXCEPT ![e] = NoStub]
  /\ hidden' = hidden \ {e}

(* xmp_unlink of one of several hard links. *)
UnlinkLink(e) ==
  /\ Unlinking(e)
  /\ NLink(e) > 1
  /\ RemoveStub(e)
  /\ UNCHANGED <<nand, mounted, lists, vaddrMap, table, handles, world>>

(* xmp_unlink of the last link of a file that has no openFile: its log is  *)
(* recycled, from the page of its header on, and the stub goes.  The slots *)
(* of the map stay as they are.  Bound: a log number beyond the end of the *)
(* map is not followed.                                                    *)
UnlinkLast(e) ==
  /\ Unlinking(e)
  /\ NLink(e) = 1
  /\ table[FileId(e)] = NULL
  /\ \E page \in PagesRead(nand, vaddrMap.map[FileId(e)]) :
       LET logID == AsHeader(page).logId IN
       /\ logID \in Ids
       /\ \E page2 \in PagesRead(nand, vaddrMap.map[logID]) :
            LET h == AsHeader(page2)
                r == LogsRecycle(nand, lists, h.first, h.prev, vaddrMap.map[logID])
            IN IF h.fileCount - 1 = 0
                 THEN nand' = r.nand /\ lists' = r.lists
                 ELSE UNCHANGED <<nand, lists>>
  /\ RemoveStub(e)
  /\ UNCHANGED <<mounted, vaddrMap, table, handles, world>>

(* xmp_unlink of the last link of a file that has an openFile: nothing is  *)
(* done and nothing is noted.                                              *)
UnlinkOpen(e) ==
  /\ Unlinking(e)
  /\ NLink(e) = 1
  /\ table[FileId(e)] # NULL
  /\ UNCHANGED vars

(* xmp_link and xmp_rename act on the stub tree alone.  A renamed entry    *)
(* keeps its handles; the target, if it exists, loses its stub.            *)
Link(e, f) ==
  /\ Serving
  /\ stub[e] # NoStub /\ e \notin hidden /\ Unused(f)
  /\ stub' = [stub EXCEPT ![f] = stub[e]]
  /\ UNCHANGED <<nand, volatile, world>>

Rename(e, f) ==
  /\ Serving
  /\ stub[e] # NoStub /\ e \notin hidden
  /\ stub[f].ino # stub[e].ino /\ Opens(f) = {}
  /\ stub' = [stub EXCEPT ![f] = stub[e], ![e] = NoStub]
  /\ handles' = {<<IF h[1] = e THEN f ELSE h[1], h[2], h[3]>> : h \in handles}
  /\ hidden' = hidden \ {f}
  /\ UNCHANGED <<nand, mounted, lists, vaddrMap, table, world>>

-----------------------------------------------------------------------------
(* The daemon may die between two calls or in the middle of one. *)
Next ==
  \/ Mount
  \/ Destroy
  \/ Crash
  \/ \E e \in Entries : Create(e) \/ CreateFails(e) \/ CreateCrashes(e)
  \/ \E e \in Entries : OpenCached(e) \/ OpenUncached(e)
  \/ \E h \in handles : Release(h)
  \/ \E e \in Entries : Hide(e) \/ UnlinkLink(e) \/ UnlinkLast(e) \/ UnlinkOpen(e)
  \/ \E e, f \in Entries : Link(e, f) \/ Rename(e, f)

Spec == Init /\ [][Next]_vars

(* The users close what they opened and libfuse then unlinks what it hid.  *)
(* Nothing forces anyone to open, create or unmount.                       *)
FairSpec ==
  /\ Spec
  /\ \A e \in Entries :
       /\ WF_vars(\E h \in Opens(e) : Release(h))
       /\ WF_vars(/\ e \in hidden
                  /\ UnlinkLink(e) \/ UnlinkLast(e) \/ UnlinkOpen(e))
-----------------------------------------------------------------------------
(* Properties. *)

Named == {e \in Entries : stub[e] # NoStub}
SameFile(e, f) == stub[e].ino = stub[f].ino
HeaderPage(e) == vaddrMap.map[FileId(e)]
HandlesOn(id) == {h \in handles : h[3] = id}

ListsType == [partialHead : Int, partialTail : Int, completeHead : Int, completeTail : Int]
MapType   == [freePtr : Int, map : [Ids -> Int]]
LogType   == [nextPage : Int, last : Int, first : Int, prev : Int, logId : Ids, fileId : Ids]
PayloadType ==
  {Blank}
  \cup [kind : {"super"}, freeLists : ListsType, latest_vaddr_map : Int]
  \cup [kind : {"map"}, vaddrMap : MapType]
  \cup [kind : {"header"}, logId : Ids, fileId : Ids, first : Int, prev : Int, fileCount : Int]
PageType == [contents : PayloadType, eraseCount : Int, nextLogBlock : Int,
             nextBlockErases : Int, pageType : Int]

(* The shape of the state; in particular the frontier of every block stays *)
(* within the block and every number in a header or a stub is a slot of    *)
(* the map, also after a crash.                                            *)
TypeOK ==
  /\ nand \in [Blocks -> [contents : [PageIdx -> PageType],
                          nextPage : 0 .. BLOCKSIZE, eraseCount : Int]]
  /\ stub \in [Entries -> [ino : {0} \cup Inodes, fileId : Ids]]
  /\ mounted \in BOOLEAN
  /\ lists \in ListsType
  /\ vaddrMap \in MapType
  /\ table \in [Ids -> {NULL, LogEntry} \cup
                 [kind : {"file"}, currentOpens : Nat, modified : Nat,
                  mainExtentLog : {NoLog} \cup LogType]]
  /\ handles \subseteq Entries \X (1 .. MaxOpens) \X Ids
  /\ hidden \subseteq Entries
  /\ world \in Worlds

(* Mounts end in an orderly unmount and fresh memory holds zeros. *)
Calm == ~ world.crashes /\ world.links = {0} /\ world.flags = {0}

(* While the super page is there and nothing else goes wrong, two files    *)
(* never have their log in the same block, whatever was created, removed,  *)
(* renamed and remounted before (getFreeBlock and logs_recycle hand a      *)
(* block to one owner at a time).                                          *)
NoSharedBlock ==
  Calm /\ Serving =>
    \A e, f \in Named :
      ~ SameFile(e, f) => BlockOf(HeaderPage(e)) # BlockOf(HeaderPage(f))

(* The page the map gives for a file is that file's own header, which      *)
(* leads back to the same page through its log number, or a page that was  *)
(* never written: xmp_open and xmp_unlink never work on another file's     *)
(* log.                                                                    *)
HeaderIsOwn ==
  Calm /\ Serving =>
    \A e \in Named :
      LET a == HeaderPage(e)
          h == ReadNAND(nand, a).contents
      IN /\ a \in Pages
         /\ h = Blank \/ /\ h.kind = "header"
                         /\ h.fileId = FileId(e)
                         /\ h.first = BlockOf(a)
                         /\ vaddrMap.map[h.logId] = a

(* A file number in use is on no other file and not on the list of free    *)
(* slots (getFreePtr), through any number of mounts.                       *)
FileNumbersInUse ==
  Calm /\ Serving =>
    \A e \in Named :
      /\ vaddrMap.map[FileId(e)] > 0 /\ FileId(e) # vaddrMap.freePtr
      /\ \A f \in Named : FileId(e) = FileId(f) => SameFile(e, f)

(* The count of an openFile covers every handle on it, so that xmp_release *)
(* cannot reach the work of the last close while the file is still open.   *)
CountCoversHandles ==
  \A id \in Ids : table[id].kind = "file" =>
    table[id].currentOpens >= Cardinality(HandlesOn(id))

(* Until the super page is lost, no step changes a page that has been      *)
(* written in sequence, other than the two pages xmp_destroy rewrites:     *)
(* headers and links stay readable through unlinks, crashes and restarts.  *)
WrittenPagesStay ==
  [][SuperIntact' =>
       \A b \in Blocks : \A i \in PageIdx :
         i < nand[b].nextPage /\ <<b, i>> \notin {<<0, 0>>, <<1, 0>>} =>
           nand'[b].contents[i] = nand[b].contents[i]]_vars

-----------------------------------------------------------------------------
(* What comments and checks of the program say, and the code does not do. *)

(* loggingDiskFormats.h on the super page: "it will simply be written on   *)
(* page 0"; the system restarts from it.                                   *)
SuperPageSurvives == SuperIntact

(* xmp_unlink of an open file: "we need to flag it for removal when all    *)
(* opens are closed", so an entry unlinked while open goes away in the end *)
(* if everybody closes it.                                                 *)
HiddenGoesAway == \A e \in Entries : e \in hidden ~> e \notin hidden
=============================================================================
