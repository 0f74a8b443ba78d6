# A TLA+ verification of CYCOLOGY

CYCOLOGY is a log-structured file system for NAND memory, built as a FUSE
daemon on a *virtual NAND* kept in one big file.  The repository is a copy of
libfuse 3.0.2 whose `example/` directory holds the file system; beside it there
are build output and earlier drafts.  This directory holds TLA+ modules that model
the file system and the parts of the library it runs on, the TLC configurations
that check them, and proofs that TLAPS checks.  Paths below are relative to
`src/fuse-3.0.2/example/` unless they start with `src/`, and to `src/fuse-3.0.2/`
when they start with `lib/` or `util/`.

`helper.c` is stored with carriage returns as line ends, so a tool that counts
newlines sees one line: the map in `PROJECT.json` gives it as line 1 with the
function in `symbol`.  Counting carriage returns its functions are at
`initCYCstate` 33-60, `initInode` 63-72, `initLogHeader` 74-83, `initActiveLog`
88-108, `initOpenFile` 110-117, `getFreePtr` 171-176, `getFreeBlock` 184-226,
`getFreePage` 257-300, `getLogForFile` 303-332, `readStubFile` 335-352,
`writeCurrLogHeader` 355-368.

## 1. Inventory

### The parts, their state, their operations

| part | source | state | operations |
|---|---|---|---|
| virtual NAND | `vNANDlib.c`, `vNANDlib.h` | the big file: blocks of 16 pages, each block with `nextPage` and `eraseCount` | `readNAND`, `writeNAND` (sequential or random), `eraseNAND` |
| creation | `makeVirtualNAND.c`, `makefs.c` | none of their own | zero file; super page, virtual address map, links of the partial list |
| virtual address map | `fuseLogging.h`, `helper.c` | `size`, `freePtr`, `map[]`: a slot is a page address, or minus the next free slot | `getFreePtr`, direct stores |
| free lists | `loggingDiskFormats.h`, `helper.c`, `logs.c` | heads and tails of the partially used and of the completely used free blocks; the links are in pages of the NAND | `getFreeBlock`, `logs_recycle` |
| logs | `helper.c` | `activeLog`: next page, last block, header | `getLogForFile`, `getFreePage`, `writeCurrLogHeader` |
| open files | `passthroughBlocked_fh.c`, `helper.c` | `openFileTable` of `openFile`s (count of opens, flag `modified`, log), also used for `activeLog`s | `xmp_create`, `xmp_open`, `xmp_release` |
| names | `passthroughBlocked_fh.c` | a directory tree of stub files under `rootdir/root`; a stub holds a file number | `xmp_create`, `xmp_unlink`, `xmp_link`, `xmp_rename`, directory handlers |
| mounting | `passthroughBlocked_fh.c`, `helper.c` | `CYCstate` in memory, read from the super page and the map page | `xmp_init`, `xmp_destroy` |
| directory handlers | `passthroughBlocked_fh.c` | the stub tree below `ROOT_PATH`; per open directory a position, an entry that did not fit and an offset | the handlers that pass one call on, `xmp_opendir`, `xmp_readdir`, `xmp_releasedir` |
| page cache | `cache_code/` | hash table of page keys, lists of a file's pages, lists of pages and files by last use | set, get, remove, read and write of pages, flush, evict (not linked into the daemon) |
| showNAND | `showNAND.c` | none | dump, with checks of the free lists |

The parts of libfuse:

| part | source | state | operations |
|---|---|---|---|
| node tree and path locks | `lib/fuse.c` | tree of nodes with lookup, reference, open and lock counts; queue of requests that wait for a path | the handlers `fuse_lib_*`, `forget_node`, `hide_node` |
| node table | `lib/fuse.c` | hash table by id that grows and shrinks, id counter and generation, slabs | `hash_id`, `unhash_id`, `next_id`, `alloc_node`, `free_node_mem` |
| option remember | `lib/fuse.c` | a lookup of the library's own per node, list of nodes by time | `set_forget_time`, `unlink_node`, `fuse_clean_cache` |
| layers and modules | `lib/fuse.c`, `lib/modules/` | stack of layers per instance, registry of modules with counts | `fuse_fs_*`, the handlers of subdir and iconv, `fuse_get_module`, `fuse_put_module` |
| record locks | `lib/fuse.c` | list of locks per node | `fuse_lib_setlk`, `fuse_lib_getlk`, flush |
| directory reading | `lib/fuse.c` | buffer and list of an open directory | `fuse_lib_readdir`, `fill_dir`, `fill_dir_plus` |
| requests and sessions | `lib/fuse_lowlevel.c`, `lib/fuse_loop_mt.c`, `lib/fuse_loop.c` | list of requests, of early interrupts, of workers and channels; flags of the session | the loops, `fuse_session_process_buf_int`, `do_*`, `find_interrupted`, `fuse_free_req` |
| buffers | `lib/buffer.c`, `lib/fuse_lowlevel.c` | position in two vectors; a pipe per thread | `fuse_buf_copy`, `fuse_reply_data` |
| mounting | `lib/mount.c`, `util/fusermount.c` | mounts, mtab and its lock, the socket to the helper | `fuse_kern_mount`, `fuse_kern_unmount`, `fusermount3` |
| command line | `lib/helper.c`, `lib/fuse_opt.c`, `util/mount.fuse.c` | the line as each parser leaves it | `fuse_opt_parse` with the tables of its callers |

How they interact: libfuse calls the handlers, by default from several threads
(`lib/helper.c:320-323`), and no handler takes a lock.  The handlers share one
`CYCstate`.  A name leads to a file number through its stub, the number to a
page through the map, the page to the header of the file's log.  The free lists
run through pages of the NAND that belong to removed logs.  Lists and map are
written to the NAND in `xmp_destroy` only; stubs and headers are written at
once.  libfuse does not pass on the unlink of an open entry: it renames the entry
(`hide_node`, `lib/fuse.c:2867`) and calls `xmp_unlink` after the last release
(`lib/fuse.c:3004`).

A request of the kernel is read from the device by a worker of the session, goes
through the table of low-level operations to a `fuse_lib_*` handler, which locks
the path of its node, calls the top layer of the stack, and replies.  Kernel and
library count lookups of a node independently; an interrupt or a failed reply is
where the counts could part.  Mounting is done by `fusermount3` for ordinary users,
which sends the device back over a socket.

### What is hard

- *Threads*: `getFreePtr` and `getFreeBlock` are read-modify-write sequences on
  shared memory, and every call of the virtual NAND is an `lseek` and a transfer on one
  descriptor.
- *Crashes*: the persistent state (stubs, NAND) is updated in several places at
  different times, the map only at unmount.  Eight handlers end the daemon in
  `unimplemented()`.
- *Refused writes*: `writeNAND` refuses a page that is not its block's next; no
  caller looks at the result.
- *Limits*: no free slot, no free block, the last pages of a block.
- *Unset memory*: page buffers and `openFile`s come from `malloc` and are not
  cleared; a link field or the flag `modified` is used as found.
- *Long sequences*: a free list that is popped at one end and linked at the other
  through pages that can be written once only.
- *Locks of paths*: a path is locked node by node, two paths one after the other,
  and a waiter is served by whoever unlocks.
- *Answers that do not arrive*: interrupts that come before their request, replies
  the kernel refuses, a request that is answered by another thread later.
- *Calls that do less than asked*: short reads, writes and splices, full buffers.
- *Processes that die*: the daemon, at any point of its talk with `fusermount3`.

The full list, each item at its line and with the properties that would catch
it, is under `hazards` in `PROJECT.json`.

### What makes each part correct

- NAND: between two erasures each page is programmed at most once and in order.
- Map: a number in use is on one file and not on the free list; numbers come back
  when a file is removed.
- Free lists: a block has one owner; the tail is reachable from the head; the
  super page and the map are never handed out.
- Logs: the page the map gives for a file is the file's own header; pages written
  stay until their block is recycled.
- Open files: the count is the number of handles; the table has an `openFile`
  exactly while a file is open; an unlinked file goes away when it is closed.
- All together: this survives unmounts, and after a crash what is left is usable.
- Directory handlers: a mount behaves as the directory below it.
- Page cache: table and lists hold the same pages; what is evicted is the oldest.
- Node tree: a path leads to its node while it is locked; a node lives exactly as
  long as the kernel, a child or an open file needs it; every request is answered.
- Sessions: nothing freed is used, one answer per request, somebody reads, an
  unmount ends the loop.
- The other parts of the library: what goes in comes out, at every limit and
  through every failure of the calls below.
- Mounting: mounts and mtab agree, and nothing is left of a daemon that is gone.

## 2. Modules

```
VNand ── VNandDevice ──┬── VNandDevice_proofs
  │                    └── MCParts
FreeLists   AddrMap
  └────┬───────┘
     MakeFS ──┬── Cycology ─┬─ MCCycology
              │             └─ Cycology_proofs
              └── Creates ──┬─ CreateRace ──┬─ MCCreates
                            │               └─ Creates_proofs
                            └··> LogAllocation
PageCache ────── MCCreates
Passthrough ──┬─ MCCreates
              ├─ Passthrough_proofs      Induction_proofs: used by
              └··> PlainDir                Passthrough_proofs and
                                           Library_proofs
Nodes ── NodeTree ── MCNodeTree         Dispatch ── Session ──┬─ MCSession
                                                              └─ Session_proofs
FsOps ── FsStack ──┐
RecordLocks        │
ReadDir            │
NodeTable          ├── MCParts          Options ──┬── MCStartup
RelLinks           │                    Mount ────┘
BufCopy            │                    Mount ── Mount_proofs
SendData           │                    RecordLocks, SendData, NodeTable, ReadDir, Remember
Remember ──────────┘                                            └─ Library_proofs
                                        ··> INSTANCE of an abstract specification
```

The file system:

- **VNand**: the memory as a value and the three library calls as operators.  A
  memory maps block numbers to `[contents, nextPage, eraseCount]`; a page is the
  record of `struct fullPage` with an abstract payload.  `BlockOf` and `PageOf`
  round as C does.  `EraseCountWord` is the word `eraseNAND` really reads.
- **VNandDevice**: the device under an arbitrary client, with two history
  variables: how often each page was accepted since the erasure, how often each
  block was erased.
- **AddrMap**, **FreeLists**: `getFreePtr`; `getFreeBlock`, `getFreePage` and
  `logs_recycle` as operators that return the new memory, lists and log.  **MakeFS**
  is the memory `makefs` writes.
- **Cycology**: the daemon.  State: `nand` and `stub` (they survive a crash);
  `mounted`, `lists`, `vaddrMap`, `table` (`openFileTable`), `handles` (the
  `fi->fh` values given out) and `hidden` (entries libfuse has renamed away).  One
  action per handler outcome: `Mount`, `Destroy`, `Create`, `CreateFails` (the stub
  cannot be made), `CreateCrashes` (between stub and header), `OpenCached`,
  `OpenUncached`, `Release`, `Hide`, `UnlinkLink`, `UnlinkLast`, `UnlinkOpen`,
  `Link`, `Rename`, `Crash`.  Every handler is one step.
- **Creates**: `xmp_create` when `-s` runs one call at a time (`SerialSpec`): read and
  store of `freePtr`, twice; read and store of the head of a free list; the two stores to
  the map; then stub and header.  A call of the virtual NAND is one step, which is all
  there is to see of it while nothing else runs.
- **CreateRace**: `xmp_create` by several threads, as without `-s` (`RaceSpec`), at the
  grain of the single access: each read and store of `freePtr`, of a slot of the map and
  of the heads of the lists (`getFreeBlock` reads `partialHead` three times), and each
  `lseek`, `read` and `write` of `readNAND`, `writeNAND` and `eraseNAND` on the one
  descriptor that all threads share (`offset`; its places are the pages of a block and
  the two counters behind them).  `writeNAND` reads a block and writes all of it back, so
  that a write in between is lost.  Two things are named and not followed, because what
  comes then is any place of the big file or any address: a transfer at a place where
  another thread's `lseek` put the offset (`mishap = "displaced"`), and a list that goes on
  with the link of a header page, which nobody set (`"unset"`).
- **LogAllocation**: the abstract specification: a new file gets two numbers and a
  block nobody else has.  `Creates` states the refinement as `Implements`.
- **PlainDir**: a directory and the system calls on it, each as the set of its
  outcomes.  It stands for the file system under `ROOT_PATH`, and is the abstract
  specification of the mount.  **Passthrough** has one action per handler on the
  directory tree over it; `MountIsPlain` is the refinement, and the handlers that
  end in `unimplemented()` are steps in which the daemon dies and is mounted again.
- **PageCache**: the linked structures of `cache_code/` in one memory of entries and
  files, pointers as numbers.  The actions are writing a page (`fs_writeData`), reading
  one (`ReadPage`) and evicting the file used longest ago (`fs_evictLruFile`), each
  with the pages of the parents, the flushing and the list work it does.  The code is
  a prototype: the variable `defect` names the first call that leaves what C defines
  or what a comment assumes, and the behaviour ends there.

libfuse:

- **Nodes**: the node cache as a value and the functions that run under `f->lock` as
  operators on it.  **NodeTree**: one request per thread, cut where `f->lock` is
  released: obtain or wait for the path, call the file system, update the cache,
  unlock and wake, reply.  Kernel and file system are external: the kernel keeps what
  it was told and forgets what it does not use.
- **Dispatch**: the checks before a request and the table of operations with the
  answer to a missing one.  **Session**: the workers and the main thread, cut at the
  locks `mt->lock`, `se->lock`, `req->lock`, `f->lock` and at system calls.
- **FsOps**: every `fuse_fs_*` function and every handler of subdir and iconv as an
  operator that says which arguments it translates and what it calls; what comes back (names
  of a directory, the text of a link) is translated on its way up in FsStack.  **FsStack**:
  instances that stack modules, call operations through them and end.
- **RecordLocks**, **ReadDir**, **NodeTable**, **Remember**, **RelLinks**, **BufCopy**,
  **SendData**: one part of the library each, with its surroundings (file system,
  kernel, system calls) as nondeterministic steps.  `Remember` sets `halted` where an
  assertion of the code fails or `get_node` aborts.  In `RecordLocks` the list may find no
  memory (`locks_insert` returns `-ENOLCK` and neither caller looks), and a flush empties the
  list although the file system kept the locks: `astray` remembers the bytes of an owner where
  that left list and file system apart.
- **Options**: a command line is written word by word and handed through the parsers
  in the order of `fuse_main`; the second part escapes texts character by character.
  **Mount**: daemons, their helpers and unmount commands as processes.  A helper may fail to
  mount, to list its mount (`unlisted`) or to take a line away (`kept`), and an unmount that
  does not get the lock of mtab goes on without it (`unlocked`).  Taken to succeed: the lazy
  `umount2` of a helper that unmounts for its daemon, if there is a mount; and a `/bin/mount` or
  `/bin/umount` that reports a failure is taken to have left mtab alone.
- **VNandDevice_proofs**, **Creates_proofs**, **Cycology_proofs**, **Passthrough_proofs**,
  **Session_proofs**, **Mount_proofs**, **Library_proofs**: theorems and proofs.
  **Induction_proofs**: induction over the natural numbers, and functions defined by it.
- **MC...**: instances for TLC.  `MCCreates`, `MCParts` and `MCStartup` each hold
  several parts that do not interact: a behaviour chooses one at the start (`part`)
  and the others rest.

Left out on purpose: the bytes of payloads; the erase counts carried in lists and
headers (nothing reads them); the meta union of a page (nothing reads it); access
rights, inode times and sizes; the marshalling of requests and replies; logging.

Operators named `Mut...` or `<definition>_<word>`, before the definition of which
they are a faulty variant, are used nowhere in the specifications: replacing the
definition by its variant must break the property named in `PROJECT.json`, which
shows that the property can fail.

## 3. Runs

Passing runs:

| run | configuration | what it shows |
|---|---|---|
| `fs` | `MCCycology.cfg` | three worlds (`Worlds`): `Quiet`, three entries with orderly unmounts and zeroed buffers; `Dying`, in which the daemon may die; `Untidy`, in which unset link fields and flags hold anything of a small set.  `NoSharedBlock`, `HeaderIsOwn`, `FileNumbersInUse` in the first, `CountCoversHandles` and `WrittenPagesStay` in all |
| `creates` | `MCCreates.cfg` | the example programs: creations one at a time, `HeaderFound` and `Implements` (the refinement of LogAllocation); three creations by two threads when slots and blocks are left for two, `MapBlockKept`; `CacheExact` of the page cache; `ScanExact` (a directory read in pieces while it changes) and `MountIsPlain` of the directory handlers |
| `node_tree` | `MCNodeTree.cfg` | two threads, eight mixtures of requests: `NoPanic`, `PathsHeld`, `CountsExact`, `HiddenRemoved`, `Answered` |
| `session` | `MCSession.cfg` | up to three workers, ten scripts of requests and troubles: `Lifetimes`, `InterruptsHit`, `ServedOnce`, `AllAnswered`, `UnmountEndsLoop` |
| `startup` | `MCStartup.cfg` | every command line of up to four words, every text of up to six characters, two daemons with helpers and one unmount command: `OptionsArrive`, `EscapesSurvive`, `MountsListed`, `MountReturns`, `AutoUnmounted` |
| `parts` | `MCParts.cfg` | eight parts of libfuse, each by itself: `LayersExact`, `LocksAgree`, `ReadingExact`, `TableFinds`, `IdentityUnique`, `LinkRewritten`, `CopyExact`, `MessagesExact`, `RememberExact`, `RememberedLong`; and `ProgrammedOnceInOrder` of the virtual NAND under every client |

`NoSharedBlock`, `HeaderIsOwn` and `FileNumbersInUse` say what holds in the quiet
world: with a crash or with junk in unset words the code breaks them (see below).
`MapBlockKept` is about interleaved creations up to the first displaced transfer, and run
`shared_offset` shows that there is one; behind it anything may be overwritten.
`LocksAgree` leaves out the bytes in `astray`, `MtabAgrees` the places in `unlocked`, and
counts what `unlisted` and `kept` remember: that is how far the failures of the code reach,
and no further.  `RememberExact` says of the list only which *named* nodes are on it, and
run `remember_lost` shows what becomes of the others.

Most invariants of the library are conjunctions whose parts are defined, and
commented, one by one:

| invariant | parts |
|---|---|
| `PathsHeld` | `LockCount` (locks counted on a node are those of the threads), `PathStable` (a locked path leads to the object its node was made for) |
| `CountsExact` | `TypeOK`, `RefExact` (references of a node), `KernelAgrees` (lookups of a node, as the kernel counts them) |
| `Lifetimes` | `NoUseAfterFree`, `ChannelRefs`, `JoinsOnlyRunning` |
| `InterruptsHit` | `InterruptInScope` (a signal reaches the thread inside the right call), `NoInterruptMissed` |
| `ServedOnce` | `TypeOK`, `AnsweredOnce`, `DestroyOnce`, `SomeoneReads` |
| `OptionsArrive` | `LineMeans` (library), `FlagsCarried` (fusermount3), `MountFuseFlags` (mount.fuse) |
| `MountsListed` | `MtabAgrees`, `NothingLeft` |
| `LayersExact` | `Confined` (subdir), `NamesLeadBack` (iconv: paths, names of a directory, the text of a link), `OnlyMissingRefused`, `WantSupported`, `ModuleKept` |
| `LocksAgree` | `ListAgrees`, `ListCanonical`, `GetlkExact` |
| `ReadingExact` | `PageExact`, `PageFits`, `MixedRefused`, `LookupsCovered` |
| `TableFinds` | `NodeFound`, `UpperEmpty`, `SlabsExact` |
| `LinkRewritten` | `RewrittenLeadsThere`, `RewrittenFits` |
| `CopyExact` | `InOrder`, `CountRight`, `RetryCompletes` |
| `MessagesExact` | `MessagesWhole`, `NothingDropped`, `PipeEmpty` |
| `RememberExact` | `LookupsExact`, `ListExact` |
| `CacheExact` | `FileLists`, `TableExact`, `EvictsOldest` |

Runs that end in a counterexample.  Each states what a comment, a declaration or a
check of the repository says, and TLC shows a behaviour of the code that does
otherwise; the quotation and the behaviour are under `findings`.

| run | property | what happens |
|---|---|---|
| `super_page` | `SuperPageSurvives` | out of blocks, `getFreeBlock` takes page 0 of the empty complete list and erases block 0 |
| `hidden` | `HiddenGoesAway` | a file unlinked while open never goes away, although everybody closes it |
| `create_race` | `NumbersNotShared` | two threads in `getFreePtr` get one number |
| `shared_offset` | `TransfersLand` | between a thread's `lseek` and its read or write another one moves the offset of the shared descriptor |
| `remember_lost` | `KnownKept` | an unlinked node is put on the list with the kernel's last lookup and freed while the kernel knows it |
| `lock_deadlock` | `NoDeadlock` | a rename keeps one of its two paths first in the queue of waiters while another waits for that path and blocks the second; nobody goes on |

Other differences between comments and code that the models contain and that have
no run of their own:

- `eraseNAND` reads the word `k` words before the counter of block `k`
  (`EraseCountWord`), so only block 0 has a right erase count.
- The last block has no link page (`makefs.c:57`) and `getFreeBlock` still gives page
  1 of it, so the header of the file that gets it is refused; `HeaderIsOwn` allows a
  blank page for this reason.
- `xmp_release` clears a local pointer and not the table entry: a closed file keeps
  its `openFile` until the unmount (the cause of `hidden`).
- The first `xmp_open` of a file counts twice; `CountCoversHandles` is therefore an
  inequality.
- Nothing releases the slots of a removed file.
- `modified` is never set or cleared; if memory holds 1, the last release writes a
  header that the map does not lead to.
- Out of slots, `getFreePtr` hands out slot 0.
- The second removal after a remount links the partial list at a page that
  `writeNAND` refuses, so that the list ends before its tail, which `showNAND`
  reports as invalid.
- After a crash a number that is in a stub is given to a second file, although
  `loggingDiskFormats.h:64` calls it unique.
- A header page goes to the free list with whatever its buffer had in the link field,
  and `getFreeBlock` follows it, possibly into a block in use.
- `xmp_unlink` uses `stat`, which follows a symbolic link
  (`passthroughBlocked_fh.c:400`).
- In the page cache: a file moved to the head of the list from the middle gives its
  successor the wrong predecessor (`cache_code/filesystem.c:34`); a full cache
  makes `cache_set` dereference NULL (`cache.c:84`); writing a cached page again
  puts an entry that is in the lists into them once more; `^` in `getParentKey` is exclusive or, so
  that two pages can get one key; `keyCmp` has one byte too few for powers of ten.
  Each of the first four ends a behaviour with a `defect`; the instance keeps
  numbers between 2 and 9 because of the fifth.

What was met in libfuse while modelling it, contained in the modules except where it
says otherwise:

- With `remember`, `forget_node` takes a last lookup for the library's own, also that of an
  unlinked node (`lib/fuse.c:1335`): run `remember_lost`.  A request for the freed node then
  aborts in `get_node`.
- The result of `locks_insert` is used nowhere (`lib/fuse.c:3940`, 4045): without memory a
  granted lock is not listed and an unlock leaves its entry.  A flush that the file system
  answers with `-EINTR` or `-EIO` empties the list all the same (3936).
- `unmount_fuse` goes on when it cannot lock mtab (`util/fusermount.c:463`), and one that fails
  behind `umount2` leaves the line (450).
- With `remember`, a directory that was unlinked, is on the list and is forgotten while
  children keep it stays there with no lookup, and the assertion in
  `fuse_clean_cache` (4221) fails; a rename onto a name whose node the kernel has
  forgotten and whose file is gone below fails the assertion in `unlink_node` (1344).
- The single-threaded loop of `remember` compares `errno` with `-EINTR` (4316), so that
  a handled signal ends it, and cleans only when poll times out (4330).
- A rename that hides its open target and then fails does not bring the target's name
  back (2944).  An interrupted create leaves the file it made.
- A lock granted below is entered in the list in a second step (4039): a flush of the
  same owner in between leaves an entry for a lock nobody has.  (RecordLocks lets an
  owner do one request at a time.)
- An open directory that was once filled without offsets stays `filled` (3574), also
  when the next fill gives nothing: a file system that does pass offsets leaves an empty
  list at its end, and a request for an earlier offset is then answered with an empty page.
  (The kernel of ReadDir rewinds or goes on; it does not seek back.)
- After a short vmsplice or a failing splice to the device `fuse_reply_data` frees the
  request without an answer (`lib/fuse_lowlevel.c:833`).
- A short write after a read from a stream loses what was read and not written
  (`lib/buffer.c:138`); the count returned is right.
- `fuse_session_exit` sets a flag and wakes nobody (`lib/fuse_loop_mt.c:325`): a pool of
  waiting workers ends with the next request.
- `iconv_new` tests `tofs` where it means `fromfs` (`lib/modules/iconv.c:688`); a
  `fuse_new` that fails after two modules gives back one of them (`lib/fuse.c:4745`).
- A last `--` is removed by the first parser only if nothing was put in front
  (`lib/fuse_opt.c:388`).
- A mount with a subtype that fails only in mtab is tried again on top of itself
  (`lib/mount.c:592`); a helper that cannot send the descriptor leaves the mount
  (`util/fusermount.c:1232`); `mount_max` is compared without a lock.

### Bounds, and why they are enough

- `BLOCKSIZE = 5` (16 in the code): the least number of pages in which the first
  page, the third, second and last page from the end and the page where logs
  begin are all different (`LogBlockAssumption`).  The device run uses 2.
- `NumBlocks` 3 to 7 (8 in `startCyc`): super page, map, and one to five log blocks,
  so that lists become empty and blocks come back within a run.
- `MaxId` 2 to 10 (253): two slots per file.  In Cycology `SlotsLeft` stops
  creations when fewer than two slots are free; what happens then is checked in
  Creates, which goes on.
- `MaxOpens = 1` handle per entry, with two or three entries and hard links: several
  handles on one file come through its links.
- `Serving`: a behaviour of Cycology is followed until the super page is lost; run
  `super_page` shows that this happens.  `Mount` needs a super page, and a page
  with a map where the super page says, for the same reason: any other page gives
  arbitrary lists or an arbitrary map.
- The sets of a world and `Junk`: the values an unset word may have.  `{0}` is a
  fresh heap; 11 and 7 are page addresses that lie in a log block or in the map's
  block.
- A log number beyond the end of the map is not followed, and a failed `lseek` in
  `readNAND` leaves the buffer with any page but the map's.
- `MaxCreates`, `MaxRaced`, `MaxErases`: creations in a behaviour, one at a time and by
  several threads; erasures of a block.  Serial creations start on a new file system;
  those of run `creates` by two threads start after two files (`FilesThere`), with slots and
  blocks for two more, so that the third gets slot 0 and block 0.  The two violations
  start on a new file system.
- NodeTree: two threads, four nodes, one open file per handle and one hidden name, a
  directory with a file in it; eight configurations, each with three to six kinds of
  requests against each other.  Deadlock of path locks needs three threads, which is
  what run `lock_deadlock` has.
- Session: up to three workers, scripts of two to four requests, `IdleLimit` 1 in place of the
  10 of `fuse_loop_mt.c:163`, so that workers end by themselves.
- Parts: two instances with up to two modules; record locks over bytes 0 to 2, with
  failures of the first owner only and, while one of them lasts, at most two locks in the list
  (`FirstAstray`; the proof has no such bound); three
  directory entries of different lengths and buffers of three sizes, in four ways
  of giving offsets; node numbers modulo 8, a table that starts with 2 buckets, 2
  nodes per slab, 2 merges per removal in place of 8; `remember` 90 with a clock of
  60 seconds, so that a node is too old after two ticks; link texts of up to four
  characters after the slash; copies of up to six bytes; two replies with data in all,
  of one thread or of two.
- Startup: words from a list that has every kind of option; `MountMax` 2; three settings:
  all mounts of one user at one place with an mtab file, one of them with auto_unmount; and,
  without the file, root and a user at two places where another user tries to unmount, with
  auto_unmount on the one or the other.
- PageCache: three files of two heights, six entries, sizes 2 and 6.  Passthrough: two
  names for all handlers, three for the reading of a directory.
- Deadlock is not checked: a mounted file system whose slots are used up, a session
  that has ended or a part that has done all the bounds allow may stop.  Where waiting
  for ever would be an error a liveness property says so.

Symmetry is used over entries and threads in runs without liveness.

### Fairness

- `FairSpec` of Cycology (run `hidden`): every open handle is closed in the end (users
  close their files, and the kernel does it for a process that ends), and libfuse
  calls unlink for a hidden entry once it is closed, which `fuse_do_release` does
  unconditionally.  Nothing is assumed of opens, creations or unmounts.  The
  violation does not come from a lack of fairness: `xmp_unlink` is called and returns
  without effect.
- NodeTree and Session: a thread that stays ready moves in the end, which is what a
  preemptive scheduler gives.  A thread that becomes ready and is then blocked again
  by another, over and over, is promised nothing; nor must the kernel send requests or
  interrupts, and nobody must unmount.
- Mount: some process that can run does.  Nothing forces a daemon to stop, to die or
  to unmount.

## 4. Proofs

`tlapm` checks every leaf, with SMT, Zenon and LS4.  The theorems hold for every value
of the constants that the named `ASSUME`s of the modules allow; TLC evaluates those
in the runs.  What a theorem assumes beyond them is said here.

| theorem | about | states |
|---|---|---|
| `DeviceInvariant`, `DeviceTypeOK`, `DeviceProgramsOnce` | VNandDevice, any client | `TypeOK`, `ProgrammedOnceInOrder` (run `parts`) |
| `SerialInvariant`, `SerialTypeOK`, `SerialUnique`, `SerialImplements`, `SerialHeaderFound` | Creates, one call at a time | `TypeOK`, `Implements`, `HeaderFound` (run `creates`) |
| `RaceInvariant`, `RaceKeepsMap` | CreateRace, every interleaving of single accesses up to the first mishap | `MapBlockKept` (run `creates`) |
| `FsInvariant`, `FsTypeOK`, `FsCountCovers` | Cycology, every world | `TypeOK`, `CountCoversHandles` (run `fs`) |
| `CalmInvariant`, `FilesApart`, `HeadersOwn`, `NumbersApart`, `PagesKept` | Cycology, calm worlds | `NoSharedBlock`, `HeaderIsOwn`, `FileNumbersInUse`, `WrittenPagesStay` (run `fs`) |
| `SessionInvariant`, `InterruptsFind`, `LifetimesKept` | Session | `InterruptsHit`, `Lifetimes` (run `session`) |
| `TreeIsPlain`, `ReadersServed` | Passthrough | `MountIsPlain`, `ScanExact` (run `creates`) |
| `MountInvariant`, `MountsAgree` | Mount | `MountsListed` (run `startup`) |
| `SendInvariant`, `MessagesAlwaysExact` | SendData | `MessagesExact` (run `parts`) |
| `LocksTrue` | RecordLocks | `LocksAgree` (run `parts`) |
| `DirectoryRead` | ReadDir | `ReadingExact` (run `parts`) |
| `NodesFound`, `IdentitiesUnique` | NodeTable | `TableFinds`, `IdentityUnique` (run `parts`) |
| `NodesRemembered`, `RememberedHeld` | Remember | `RememberExact`, `RememberedLong` (run `parts`) |

**VNandDevice_proofs.**  `TypeOK /\ ProgrammedOnceInOrder` is inductive and neither
half is alone: that a page accepted in sequence was not accepted before needs that
the pages from `nextPage` on have count 0, and the bound of `nextPage` needs that an
accepted page is an index of the block.

**Creates_proofs** is about `SerialSpec`, under
`Enough == 2 * MaxCreates <= MaxId /\ MaxCreates <= NumBlocks - 2` (slots and blocks
last).  The inductive invariant `SerialInv`: at most one thread is in `xmp_create`; the
`n`-th file has the numbers `2n-1` and `2n` and page 1 of block `n+1` (`InOrder`); the
links of the blocks not yet taken are those of `makefs` (`LinksKept`); and, for each
place the running thread can be at, `freePtr`, `partialHead` and its local variables
are what the number of finished files says (`Shared`, `Private`).  Uniqueness alone is
not inductive: to know that the next slot is not in use one must know the whole rest of
the free list.  `SerialUnique` is `NumbersUnique`, which in the multithreaded loop does not
hold (`NumbersNotShared`, run `create_race`), and `BlocksUnique`; `SerialImplements` is the refinement of
LogAllocation.  `SerialHeaderFound` assumes `Linked`, which is `Enough` with one block
less: the last block has no link page, so that the header of the file that gets it is
refused.  `HeaderInv` adds what the map holds for the finished files, that their
headers are written and that the blocks to come are at page 1.

Its second part is about `RaceSpec`, in which the single accesses of threads interleave, blocks
written back undo what others wrote, and slots and blocks are handed out twice and run
out, without any further assumption; a behaviour ends with its first mishap.  `RaceInv`:
whatever a thread has read and stores or writes late is 0, an address in a block for logs, or
a block that may stand where it goes (`ListsOk`, `MineAllOk`, `MadeOk`), and the map's
block, the links of `makefs` and the last page of block 0 are untouched (`NandOk`).  The
last is the point: an empty partial list sends `getFreeBlock` to the complete list, whose
head is 0, so that block 0 is the block that is erased, and the link read from its last page
is again 0.

**Cycology_proofs** is about every world: the daemon may die at any step and unset words
may hold anything.  `FsInv` keeps the types, with one payload per kind of page
(`GoodMemory`), and says that slots are taken from the map in pairs, the odd one for the
file and the even one for its log (`GoodMaps`, `StubsNumbered`): the entry of a log then
never takes the place of an `openFile` in the table the two share.  A map on the memory
is one that `xmp_destroy` saved, so that a restart, also after a crash, goes on with such
pairs.  `Counted` and `HandlesFound` tie table and handles; an `openFile` without a log
counts one more than its handles, which is why `xmp_release` never writes a header for
it.  `CountCoversHandles` alone is not inductive: a creation that took an even slot for
its file could put a count of 1 where handles are.

Its second part is about worlds with orderly unmounts and zeros in unset words
(`Calm`), up to the loss of the super page, which run `super_page` shows to happen.
`CalmInv` describes where blocks come from.  The list of `makefs` leads from block to
block (`Chained`).  `logs_recycle` can store a link at the tail in one case only, in
the last block while it is empty, because every later tail is a page that was written
and `writeNAND` refuses it (`Tail`).  So the list leads to the blocks from some block
on and at most one recycled block behind them, whose log begins one page further
(`LeadsTo`, `Spare`); then `getFreeBlock` takes block 0 and the super page is gone.
Every file has its log in a block to which the list does not lead (`LogsTaken`), and
inode, number and block each tell files apart (`Apart`).  While nothing is mounted the
same is said of the lists and the map on the NAND.  `FilesApart`, `HeadersOwn` and
`NumbersApart` are read off; `PagesKept` is the action property, whose assumption `Calm`
is constant in a behaviour.  In the other worlds `WrittenPagesStay` is checked by TLC.

**Passthrough_proofs.**  For every set of names, inodes, targets, open directories and
sizes of replies, for `PtSpec`.  `TreeIsPlain` is the refinement: each system call on the
whole file system below gives, seen through `View`, an outcome of the same call on the
directory alone (`Shows`).  It needs that no object is shared between the two sides of the
prefix (`Apart`), which `xmp_link` without its first prefix breaks.  `ReadersServed` needs to
know what a handle keeps between two calls of `xmp_readdir` (`PositionOk`): unless an entry
is kept, `dp` is at `d->offset`, and otherwise no entry that has stayed lies between the
offset and the one kept; that entries have places of their own (`Placed`); and what the
reader was given up to its offset (`GivenOk`).  A reply is a loop of as many turns as the
filler takes entries; its invariant is `LoopStates`, by induction (`TurnsOk`).

**Induction_proofs.**  The induction theorems of the library take an operator as a
parameter, which the provers cannot instantiate.  Here induction is over sets: what
contains 0 and with each number the next contains all (`InductionOn`), from the
well-foundedness of `<`; and `RecursionExists` gives the function that a recursive
definition `f[n \in Nat]` names.

**Session_proofs.**  For every number of workers, every script of requests and all
settings that `ConfigsAssumption` allows: the script holds no interrupts, which the
kernel makes up by itself, and the option `intr` of `fuse.c` does not go with a file
system that answers late, since `fuse.c` answers in the call.  `SessInv` says who has a
reference to a request (`Counts`): the session, once, while the request is in `se->list`,
in `se->interrupts` or in the hands of a thread, and every thread that is interrupting
it.  That needs to know what threads have in hand (`Hands`): a message read and not yet a
request, a request, or an interrupt and the request it is about; no two have the same.
A function stored in a request is that of the thread in whose call the request is, and it
stays while another thread has the request's lock (`Functs`), which is `InterruptInScope`.
`Lists` says that kept interrupts are for different requests, none of them in `se->list`:
`check_interrupt` runs under the same lock as `list_add_req`, and since a second
interrupt for the same request is dropped, the one it takes out is the only one.
`Pool` and `Channels` tie the list of workers to where threads are, and the count of a
channel to its worker and the requests read from it.  The property `NoInterruptMissed`
came out stronger than it was first checked: it holds for the replies to a retrieve too.

**Mount_proofs.**  For every number of daemons and commands and all settings, for
`MountSpec`.  `MtabAgrees` counts lines and mounts, so `MountInv` must know that nobody
removes a line without having removed a mount: who is past `lock_umount` holds the
lock (`Locked`), and has seen a line that is still there (`LineSeen`), at every place where
nobody went on without the lock; a removal that fails is counted in `kept`.  `NothingLeft`
needs, for every mount, somebody who is still responsible for it (`Accounted`): the
helper that made it, the message in the socket, or the daemon that received it; `Phase`
says how far the three can be at a time.  The proof showed two places where the
properties were too strong beyond the instance of the run: a root process may unmount
what another one at the same place has mounted, so `MtabAgrees` leaves out the places
where any process of root is at work (`RootAt`), and `out_umount` of a failing root
daemon takes the topmost mount, so `NothingLeft` speaks of root only where it is alone
(`Alone`).

**Library_proofs.**  For every number of threads and replies, all sources and lengths of
the header, for `SendSpec`.  What the device takes from a pipe is decided several steps
before; `SendInv` says for each place in `fuse_send_data_iov` what the thread's pipe and
the memory beside it hold (`Holds`) and that a reply under way is not among the messages
of the device (`Past`).  The lemmas are about the pieces of a message: joining, reading
back, splicing.

Its second part is about `LocksSpec`, for every number of owners and every last offset.
`LocksInv` says who holds which type at which byte: while a request of an owner is between
its two steps, the file system has the type of the request in its range, if it was granted,
and list and file system agree everywhere else but for the bytes astray.  The work is in `locks_insert`, followed turn by turn: in front
of the position the list is finished and ends before the new lock begins, behind it is as it
was, and what the owner has at each byte outside the range is what it had at the start
(`TurnOk`, `LoopOk`).  The loop ends within one turn more than there are locks, since a turn
that makes the list longer is followed by the last.  `GetlkExact` then needs that a lock
survives the way there and back through a length, in which 0 means up to the end.

Its third part is about `TableSpec`, for every hash of ids to numbers, every smallest size
that is even, and every bound.  Linear hashing comes to this: a table is determined by its
size, its split point and the ids in use (`TableAs`), since each bucket holds exactly the ids
that hash to it.  `rehash_id`, `remerge_id`, `node_table_resize` and `node_table_reduce`
then lead from one such table to another with the same ids, and `hash_id` and `unhash_id` to
one with an id more or less; that is arithmetic of remainders (`ModHalf`, `BucketDoubled`,
`SplitContents`, `MergedContents`).  Sizes are those that come from the smallest by doubling
(`Sizes`), because halving an odd size would lose a bucket.  `SlabsOk` and `Lists` describe
slots, counts and lists of slabs.  `GivenOk` orders the pairs handed out by generation and
number; the root, which has number 1 before the counter starts, is the exception, and is not
given again because `get_node_nocheck` finds it: uniqueness of identities rests on the
lookup being right.

Its fourth part is about `DirSpec`, for every directory, all sizes of requests and every
file system that passes for each entry the offset behind it or none (`ReadDirAssumption`;
the kernel's buffers hold the longest entry, as a page does for any name).  Both loops are
followed entry by entry: `Offered` says what `readdir_fill` holds after the file system has
offered the entries up to one, untouched, in the buffer up to the one that did not fit, in
the list, or refused because there were both; `Paged` does so for the entries taken from the
list.  `Served` is what one request leaves in the handle.  Between requests `DirInv` keeps
two things that the properties do not say: a handle that is still `filled` has the whole
list, or has reached the end of a directory all of whose entries have offsets, and up to the
entry behind the kernel's offset all have offsets, so that a directory refused later is one
that mixes them.

Its fifth part is about `RememberSpec`, for every number of nodes and files, every `remember`
and every step of the clock.  A function of `fuse.c` often gives up a reference that another
one took, so what a list of nodes is (`RemStruct`) is said also between the two: of which
nodes one reference is still owed.  With that each function has its lemma (`UnrefOk`,
`UnhashOk`, `HashOk`, `ForgetOk`, `UnlinkOk`, `CleanOneOk`), and what it leaves alone is
`Kept` or, over a whole handler, `Lasting`.  `unref_node` frees at most the node it is called
for: a node with a name is held by somebody, so the one freed has none and no directory to
give up (`NamedHeld`, `UnrefIs`).
`NodeRight` ties a node's lookups to the kernel and to the replies under way, and to the
list.  The walk of `fuse_clean_cache` is followed node by node (`WalkedTo`): freeing one
takes none of the nodes behind it off the list, so a walk over the list as it was at the
start sees what the code's `next` sees.  That the clock leaves the list in order needs that
ages are multiples of its step (`Ages`, `StepBehind`): an age over `remember` is kept as it
is, and a younger one, which is at least a step behind, does not overtake it.

Only model-checked: liveness, and everything under fairness, which the prover does not
do; the invariants of NodeTree and Options;
`ServedOnce` of Session; `WrittenPagesStay` in worlds that are not calm.  The modules `BufCopy`, `FsStack`,
`Options`, `PageCache` and `RelLinks` walk lists by recursive operators, which the prover
does not take.

## 5. Not modelled

- `xmp_read` copies from a file descriptor that is no longer kept and never reads
  the NAND; `xmp_write`, `xmp_chmod`, `xmp_chown`, `xmp_truncate`, `xmp_utimens`,
  `xmp_fsync`, `xmp_fallocate` and `xmp_flock` begin with `unimplemented()`, that
  is with a crash, which is an action.
- `xmp_getattr` with a handle (`xmp_fstat`), `xmp_statfs` and `xmp_flush`, which change
  nothing.
- open, release and unlink of one file by two threads at the grain of their shared
  accesses: in Cycology they are single steps.
- Wild pointers: `xmp_open` passes the address of a local pointer as the inode
  (`passthroughBlocked_fh.c:760`), so that `xmp_release` indexes the table with a
  word of the stack; `initCYCstate` clears 254 bytes of the table and not 254
  pointers; an empty stub gives an unset file number.  The model takes the outcome
  where these do no harm; beyond it there is no behaviour to describe.
- Failing system calls on the big file, a torn write of a block, and what a transfer
  does at a place that another thread's `lseek` chose: it may overwrite anything, the map's
  block and the super page among it.
- `src/JuliaRehaanExample`, `src/vNAND` and the drafts in `example/` (`cache.c`,
  `lru.c`, `openFile.c`, `log.c`, `metadata_tree*.c`): earlier versions that the
  daemon does not link.
- `showNAND`, which changes nothing.
- libfuse: character devices (`lib/cuse_lowlevel.c`), the BSD mount code, which this
  build does not compile, the test programs and the examples of the library;
  notifications that expect no answer; timeouts of attributes and names; the text of a
  link that is longer than the reader's buffer (`iconv_readlink` cuts it); the
  marshalling of requests and replies; ioctl, poll and bmap beyond the path they ask
  for; whether a user may use a mount point; kills of the helper.
- The values of options; names and messages.

## 6. Plan

Done, in this order: VNand and VNandDevice with proofs; AddrMap, FreeLists and
MakeFS; Cycology with its runs; LogAllocation, Creates and CreateRace with proofs; Nodes and
NodeTree; Dispatch and Session; the parts of the library with state of their own;
Mount and Options; PageCache; PlainDir and Passthrough.

Next:

1. Proofs: `PathsHeld` of NodeTree; `ServedOnce` of
   Session, from `SessInv` and the number of workers at work.
2. **Handlers**: open, release and unlink at the grain of their shared accesses,
   composed with Creates and with the path locks of NodeTree.
3. **LogGrowth**: `getFreePage` and `logs_recycle` over logs of several blocks: the
   order of pages, the chain of the blocks of a log, the complete list.
4. NodeTree over NodeTable in place of lookups by what the table promises, and
   Remember joined with the handlers of NodeTree.
