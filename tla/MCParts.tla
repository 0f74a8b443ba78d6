------------------------------ MODULE MCParts ------------------------------
(***************************************************************************)
(* Parts that keep state of their own, each by itself.  Of libfuse: the    *)
(* layers of modules, record locks, the reading of directories, the table  *)
(* of nodes, the option remember, rewritten links, copies between buffers  *)
(* and replies with data.  And the virtual NAND under an arbitrary client  *)
(* (two blocks of two pages; block 0 reads its own counter when it is      *)
(* erased, block 1 another word).  A behaviour is one of the part that     *)
(* part names; the others rest in an initial state.                        *)
(***************************************************************************)
EXTENDS FsStack, RecordLocks, ReadDir, NodeTable, RelLinks, BufCopy, SendData, Remember,
        VNandDevice

VARIABLE part

MCInstances   == {1, 2}
MCSoModules   == {"other"}
AbsPath(c)    == [mark |-> "abs", c |-> c]
RelPath(c)    == [mark |-> "rel", c |-> c]
MCModuleLists == <<{<< >>, <<"iconv", "subdir">>, <<"subdir", "iconv">>, <<"other", "subdir">>, <<"subdir", "subdir">>},
                   {<<"other", "other">>}>>
MCUserOps     == <<{AllOps, AllOps \ {"read_buf", "write_buf", "lock", "symlink"}}, {AllOps}>>
MCPathArgs    == {<<p>> : p \in {Null, AbsPath(<< >>), AbsPath(<<1>>), AbsPath(<<2, 3>>)}}
                 \union {<<AbsPath(<<1>>), AbsPath(<<2>>)>>}
MCBases       == {RelPath(<< >>), AbsPath(<<1>>)}
MCDirNames    == {1, 101, 102, 201}

MCNameLen     == <<1, 9, 40>>
\* no offsets, all offsets, and a file system that mixes them
MCEntryOffset == << <<0, 0, 0>>, <<1, 2, 3>>, <<1, 2, 0>>, <<0, 2, 3>> >>

MCHashOf      == [i \in 0..7 |-> (i * 13) % 64]

Strings(S, n) == UNION {[1..k -> S] : k \in 0..n}
MCLinkBases   == {<<"/", "a", "/">>, <<"/">>}
MCLinkPlaces  == {s \in Strings({"/", "a", "b"}, 4) : s # << >> => s[1] # "/"}
MCLinkTexts   == {<<"/">> \o s : s \in Strings({"/", "a", "b"}, 4)} \union {<<"a">>}

MemBuf(n)       == [size |-> n, fd |-> FALSE, seek |-> FALSE, retry |-> FALSE]
FdBuf(n, s, r)  == [size |-> n, fd |-> TRUE, seek |-> s, retry |-> r]
FdBufs(n)       == {FdBuf(n, s, r) : s, r \in BOOLEAN}
MCSrcVecs == {<<MemBuf(2), MemBuf(0), MemBuf(3)>>} \union {<<b>> : b \in FdBufs(5)}
             \union {<<MemBuf(2), b>> : b \in FdBufs(4)} \union {<<b, MemBuf(2)>> : b \in FdBufs(3)}
MCDstVecs == {<<MemBuf(1), MemBuf(5)>>} \union {<<b>> : b \in FdBufs(5)}
             \union {<<MemBuf(1), b>> : b \in FdBufs(4)} \union {<<b, MemBuf(3)>> : b \in FdBufs(2)}

DataSource(n, has, mem, big) == [n |-> n, has |-> has, mem |-> mem, big |-> big]
MCSources == {DataSource(2, 2, TRUE, FALSE), DataSource(2, 2, FALSE, TRUE), DataSource(2, 1, FALSE, TRUE),
              DataSource(1, 1, FALSE, FALSE)}

MCPayloads  == {[kind |-> "data"]}
MCWords     == {0}

Parts == {"stack", "locks", "dir", "table", "link", "copy", "send", "remember", "vnand"}
\* A part that does not run starts in one state only.
OneDir   == dirMode = 1
OneCopy  == vec = CHOOSE v \in [src : SrcVecs, dst : DstVecs, nosplice : BOOLEAN, force : BOOLEAN] : TRUE

\* Failures between list and file system befall the first owner, and while one lasts the
\* other owner does nothing and the list has two locks at most.
FirstAstray ==
  /\ \A o \in LockOwners \ {1} : astray'[o] = {} /\ (setting'[o] # Idle => setting'[o][2])
  /\ astray'[1] # {} => Len(locks') <= 2 /\ \A o \in LockOwners \ {1} : setting'[o] = Idle

MCInit ==
  /\ part \in Parts
  /\ StackInit /\ LocksInit /\ TableInit /\ RelLinksInit /\ SendInit /\ RememberInit /\ Init
  /\ DirInit /\ (part # "dir" => OneDir)
  /\ CopyInit /\ (part # "copy" => OneCopy)

libVars == <<stackVars, lockVars, dirVars, tableVars, link, copyVars, sendVars, remVars>>

MCNext ==
  \/ part = "stack" /\ StackNext
     /\ UNCHANGED <<part, lockVars, dirVars, tableVars, link, copyVars, sendVars, remVars, vars>>
  \/ part = "locks" /\ LocksNext /\ FirstAstray
     /\ UNCHANGED <<part, stackVars, dirVars, tableVars, link, copyVars, sendVars, remVars, vars>>
  \/ part = "dir" /\ DirNext
     /\ UNCHANGED <<part, stackVars, lockVars, tableVars, link, copyVars, sendVars, remVars, vars>>
  \/ part = "table" /\ TableNext
     /\ UNCHANGED <<part, stackVars, lockVars, dirVars, link, copyVars, sendVars, remVars, vars>>
  \/ part = "link" /\ RelLinksNext
     /\ UNCHANGED <<part, stackVars, lockVars, dirVars, tableVars, copyVars, sendVars, remVars, vars>>
  \/ part = "copy" /\ CopyNext
     /\ UNCHANGED <<part, stackVars, lockVars, dirVars, tableVars, link, sendVars, remVars, vars>>
  \/ part = "send" /\ SendNext
     /\ UNCHANGED <<part, stackVars, lockVars, dirVars, tableVars, link, copyVars, remVars, vars>>
  \/ part = "remember" /\ RememberNext
     /\ UNCHANGED <<part, stackVars, lockVars, dirVars, tableVars, link, copyVars, sendVars, vars>>
  \/ part = "vnand" /\ Next /\ UNCHANGED <<part, libVars>>

MCSpec == MCInit /\ [][MCNext]_<<part, libVars, vars>>
=============================================================================
