----------------------------- MODULE PageCache -----------------------------
(***************************************************************************)
(* The page cache of example/cache_code: a hash table of pages, the lists  *)
(* of a file's data and metadata pages, the list of data pages and the     *)
(* list of files by last use, as linked structures in one memory.          *)
(*                                                                         *)
(* Pointers are numbers of entries and of files, 0 is NULL.  The cache is  *)
(* a prototype in which several call sequences leave what C defines or     *)
(* what its comments assume; `defect' names the first one met and the      *)
(* model stops there.  What is checked is that there are no others.        *)
(***************************************************************************)
EXTENDS Integers, FiniteSets, SequencesExt

CONSTANTS CacheFiles,     \* open files
          AddressOf,      \* file -> file->address
          Heights,        \* file -> inode.treeHeight
          Offsets,        \* data offsets in use
          Sizes,          \* values of MAX_SIZE
          MaxCacheEntries \* bound on the entries ever allocated

PAGESIZE == 1024
INDIRECT_PAGES == 128
POINTER_SIZE == 8

VARIABLES ent,      \* cacheEntry by number
          fil,      \* openFile by number: heads and tails of its lists, LRU links
          cache,    \* addressCache and the globals lruFileHead, lruFileTail
          defect,   \* the defect met, "none" so far
          recent    \* history: the files by last use

cacheVars == <<ent, fil, cache, defect, recent>>
Mem == [ent |-> ent, fil |-> fil, c |-> cache, d |-> defect]
Key(f, off, lev) == [file |-> f, dataOffset |-> off, levelsAbove |-> lev]
Fail(m, d) == IF m.d = "none" THEN [m EXCEPT !.d = d] ELSE m

\* Keys are compared and hashed by one number (below ten here, so that its decimal
\* text has one character).
KeyNumber(k) == AddressOf[k.file] + k.dataOffset + k.levelsAbove
cache_hash(size, k) == ((5381 * 33) + 48 + KeyNumber(k)) % size

cache_newEntry(m, k) ==
  IF m.c.size >= m.c.max THEN [m |-> Fail(m, "full"), e |-> 0]
  ELSE [m |-> [m EXCEPT !.ent = Append(@, [key |-> k, live |-> TRUE, next |-> 0, dirty |-> 0,
                                           dn |-> 0, dp |-> 0, ln |-> 0, lp |-> 0, mn |-> 0, mp |-> 0]),
                        !.c.size = @ + 1],
        e |-> Len(m.ent) + 1]

\* The walk along a bin: the first entry whose number is not smaller, and its
\* predecessor.
RECURSIVE BinWalk(_, _, _, _)
BinWalk(m, k, last, e) ==
  IF e # 0 /\ KeyNumber(k) > KeyNumber(m.ent[e].key) THEN BinWalk(m, k, e, m.ent[e].next)
  ELSE [last |-> last, e |-> e]
Probe(m, k) == BinWalk(m, k, 0, m.c.table[cache_hash(m.c.max, k)])
Hit(m, k, e) == e # 0 /\ KeyNumber(m.ent[e].key) = KeyNumber(k)

cache_set(m, k) ==
  LET bin == cache_hash(m.c.max, k)
      p == Probe(m, k)
      n == cache_newEntry(m, k)
  IN IF Hit(m, k, p.e)
     THEN [m |-> Fail(m, IF m.ent[p.e].key = k THEN "rewritten" ELSE "alias"), e |-> p.e]
     ELSE IF n.e = 0 THEN n
     ELSE [e |-> n.e, m |-> IF p.e = m.c.table[bin]
                            THEN [n.m EXCEPT !.ent[n.e].next = p.e, !.c.table[bin] = n.e]
                            ELSE [n.m EXCEPT !.ent[n.e].next = p.e, !.ent[p.last].next = n.e]]

\* NULL (0) on a miss
cache_get(m, k) == LET p == Probe(m, k) IN IF Hit(m, k, p.e) THEN p.e ELSE 0

\* An entry that is not the first of its bin is freed but stays in the bin: the
\* loop that should look for it tests a pointer that is NULL.
cache_remove(m, e) ==
  LET bin == cache_hash(m.c.max, m.ent[e].key)
      n == [m EXCEPT !.ent[e].live = FALSE, !.c.size = @ - 1]
  IN IF Hit(m, m.ent[e].key, m.c.table[bin])
     THEN [n EXCEPT !.c.table[bin] = m.ent[e].next]
     ELSE Fail(n, "unlinked")

cache_addDataPageToLru(m, e) ==
  LET h == m.c.lruHead
      n == [m EXCEPT !.ent[e].ln = h, !.ent[e].lp = 0, !.c.lruHead = e]
  IN IF h = 0 THEN [n EXCEPT !.c.lruTail = e]
     ELSE IF ~m.ent[h].live THEN Fail(n, "dangling") ELSE [n EXCEPT !.ent[h].lp = e]

openFile_addDataPage(m, f, e) ==
  LET t == m.fil[f].dt
  IN IF m.ent[e].dn # 0 \/ m.ent[e].dp # 0 THEN m
     ELSE LET n == [m EXCEPT !.ent[e].dp = t, !.fil[f].dt = e]
          IN IF t = 0 THEN [n EXCEPT !.fil[f].dh = e] ELSE [n EXCEPT !.ent[t].dn = e]

openFile_removeDataPage(m, f, e) ==
  LET n == IF e = m.fil[f].dh THEN [m EXCEPT !.fil[f].dh = m.ent[e].dn]
           ELSE [m EXCEPT !.ent[m.ent[e].dp].dn = m.ent[e].dn]
  IN IF e = m.fil[f].dt THEN [n EXCEPT !.fil[f].dt = m.ent[e].dp]
     ELSE [n EXCEPT !.ent[m.ent[e].dn].dp = m.ent[e].dp]

openFile_addMetadataPage(m, f, e) ==
  LET t == m.fil[f].mt
  IN IF m.ent[e].mn # 0 \/ m.ent[e].mp # 0 THEN m
     ELSE IF t = 0 THEN [m EXCEPT !.fil[f].mt = e, !.fil[f].mh = e]
     ELSE [m EXCEPT !.ent[t].mn = e, !.ent[e].mp = t, !.fil[f].mt = e]

openFile_removeMetadataPage(m, f, e) ==
  LET n == IF e = m.fil[f].mh THEN [m EXCEPT !.fil[f].mh = m.ent[e].mn]
           ELSE [m EXCEPT !.ent[m.ent[e].mp].mn = m.ent[e].mn]
  IN IF e = m.fil[f].mt THEN [n EXCEPT !.fil[f].mt = m.ent[e].mp]
     ELSE [n EXCEPT !.ent[m.ent[e].mn].mp = m.ent[e].mp]

-----------------------------------------------------------------------------
(* The list of files by last use                                           *)

\* The predecessor's own predecessor becomes the file, which is right only when
\* the predecessor is the head.
updateLruFileHead(m, f) ==
  LET prev == m.fil[f].lp
      next == m.fil[f].ln
      n == [m EXCEPT !.fil[prev].ln = next, !.fil[prev].lp = f]
      o == IF next # 0 THEN [n EXCEPT !.fil[next].lp = prev] ELSE [n EXCEPT !.c.fileTail = prev]
      p == [o EXCEPT !.fil[f].ln = m.c.fileHead, !.fil[f].lp = 0, !.c.fileHead = f]
  IN IF prev = 0 THEN m ELSE IF prev # m.c.fileHead THEN Fail(p, "third") ELSE p

addFileToLru(m, f) ==
  LET h == m.c.fileHead
      n == [m EXCEPT !.fil[f].ln = h, !.fil[f].lp = 0, !.c.fileHead = f]
  IN IF h # 0 THEN [n EXCEPT !.fil[h].lp = f] ELSE [n EXCEPT !.c.fileTail = f]

RECURSIVE FilesFrom(_, _)
FilesFrom(m, f) == IF f = 0 THEN << >> ELSE <<f>> \o FilesFrom(m, m.fil[f].ln)
lruContains(m, f) == f \in ToSet(FilesFrom(m, m.c.fileHead))

fs_updateFileInLru(m, f) == IF lruContains(m, f) THEN updateLruFileHead(m, f) ELSE addFileToLru(m, f)

\* Frees the tail, which is the file itself when it is called to evict.
fs_removeFileFromLru(m, f) ==
  LET n == IF f = m.c.fileHead THEN [m EXCEPT !.c.fileHead = m.fil[f].ln]
           ELSE [m EXCEPT !.fil[m.fil[f].lp].ln = m.fil[f].ln]
      o == IF f = m.c.fileTail THEN [n EXCEPT !.c.fileTail = m.fil[f].lp]
           ELSE [n EXCEPT !.fil[m.fil[f].ln].lp = m.fil[f].lp]
  IN [o EXCEPT !.fil[m.c.fileTail].live = FALSE]

-----------------------------------------------------------------------------
(* Pages                                                                   *)

\* ^ is exclusive or; the level is below INDIRECT_PAGES, a power of two.
getParentKey(k) ==
  LET range == PAGESIZE * (INDIRECT_PAGES + k.levelsAbove + 1)
  IN Key(k.file, (k.dataOffset \div range) * POINTER_SIZE, k.levelsAbove + 1)

putPageIntoCache_nolist(m, k) == [cache_set(m, k) EXCEPT !.m = fs_updateFileInLru(@, k.file)]
putPageIntoCache(m, k) ==
  LET s == cache_set(m, k)
      n == IF k.levelsAbove = 0
           THEN cache_addDataPageToLru(openFile_addDataPage(s.m, k.file, s.e), s.e)
           ELSE openFile_addMetadataPage(s.m, k.file, s.e)
  IN IF s.e = 0 \/ s.m.d # "none" THEN s ELSE [e |-> s.e, m |-> fs_updateFileInLru(n, k.file)]

\* A page that is not cached is read through its parent, which is fetched first.
RECURSIVE fs_getPage(_, _)
fs_getPage(m, k) ==
  LET hit == cache_get(m, k)
      p == IF k.levelsAbove = Heights[k.file] - 1 THEN [m |-> m, e |-> 0]
           ELSE fs_getPage(m, getParentKey(k))
  IN IF k.levelsAbove >= Heights[k.file] \/ m.d # "none" THEN [m |-> m, e |-> 0]
     ELSE IF hit # 0 THEN [m |-> IF m.ent[hit].key = k THEN m ELSE Fail(m, "alias"), e |-> hit]
     ELSE IF p.m.d # "none" THEN p ELSE putPageIntoCache(p.m, k)

fs_updateParentPage(m, k) ==
  LET p == fs_getPage(m, getParentKey(k))
  IN IF p.e = 0 THEN p.m ELSE [p.m EXCEPT !.ent[p.e].dirty = 1]

RECURSIVE FlushData(_, _, _)
FlushData(m, f, e) ==
  IF e = 0 \/ m.d # "none" THEN m
  ELSE FlushData(cache_remove(openFile_removeDataPage(m, f, e), e), f, m.ent[e].dn)
fs_flushDataPages(m, f) == FlushData(m, f, m.fil[f].dh)

\* The metadata pages leave level by level, the lowest first.
RECURSIVE FlushLevel(_, _, _, _)
FlushLevel(m, f, lev, e) ==
  IF e = 0 \/ m.d # "none" THEN m
  ELSE FlushLevel(IF m.ent[e].key.levelsAbove = lev
                  THEN cache_remove(openFile_removeMetadataPage(m, f, e), e) ELSE m,
                  f, lev, m.ent[e].mn)
RECURSIVE FlushMetadata(_, _, _)
FlushMetadata(m, f, lev) ==
  IF lev >= Heights[f] THEN m ELSE FlushMetadata(FlushLevel(m, f, lev, m.fil[f].mh), f, lev + 1)
fs_flushMetadataPages(m, f) == FlushMetadata(m, f, 1)

Becomes(m) == ent' = m.ent /\ fil' = m.fil /\ cache' = m.c /\ defect' = m.d
Touch(f) == recent' = <<f>> \o SelectSeq(recent, LAMBDA g : g # f)
Usable(f) == defect = "none" /\ fil[f].live /\ Len(ent) < MaxCacheEntries

fs_writeData(f, off) ==
  /\ Usable(f)
  /\ LET s == putPageIntoCache(Mem, Key(f, off, 0))
     IN Becomes(IF s.m.d = "none" THEN fs_updateParentPage(s.m, Key(f, off, 0)) ELSE s.m)
  /\ Touch(f)

ReadPage(f, off) ==
  /\ Usable(f)
  /\ Becomes(fs_getPage(Mem, Key(f, off, 0)).m)
  /\ IF cache_get(Mem, Key(f, off, 0)) = 0 THEN Touch(f) ELSE UNCHANGED recent

fs_evictLruFile ==
  /\ defect = "none" /\ cache.fileTail # 0
  /\ LET f == cache.fileTail
         n == fs_flushMetadataPages(fs_flushDataPages(Mem, f), f)
     IN /\ Becomes(IF n.d = "none" THEN fs_removeFileFromLru(n, f) ELSE n)
        /\ recent' = SelectSeq(recent, LAMBDA g : g # f)

CacheInit ==
  /\ ent = << >> /\ defect = "none" /\ recent = << >>
  /\ fil = [f \in CacheFiles |-> [live |-> TRUE, dh |-> 0, dt |-> 0, mh |-> 0, mt |-> 0, ln |-> 0, lp |-> 0]]
  /\ \E s \in Sizes : cache = [max |-> s, size |-> 0, table |-> [b \in 0..(s - 1) |-> 0],
                               lruHead |-> 0, lruTail |-> 0, fileHead |-> 0, fileTail |-> 0]

CacheNext ==
  \/ \E f \in CacheFiles, off \in Offsets : fs_writeData(f, off) \/ ReadPage(f, off)
  \/ fs_evictLruFile

-----------------------------------------------------------------------------
(* Properties                                                              *)

Live == {e \in DOMAIN ent : ent[e].live}
RECURSIVE Forward(_, _)
Forward(e, next) == IF e = 0 THEN << >> ELSE <<e>> \o Forward(next[e], next)
Field(n) == [e \in DOMAIN ent |-> ent[e][n]]
ListOK(h, t, next, prev, s) ==
  ToSet(Forward(h, next)) = s /\ Len(Forward(h, next)) = Cardinality(s)
  /\ Forward(t, prev) = Reverse(Forward(h, next))

\* Unless one of the six defects was met, a file's lists link its cached data pages
\* and its cached metadata pages, in both directions, and nothing else.
FileLists ==
  defect = "none" => \A f \in {g \in CacheFiles : fil[g].live} :
    /\ ListOK(fil[f].dh, fil[f].dt, Field("dn"), Field("dp"),
              {e \in Live : ent[e].key.file = f /\ ent[e].key.levelsAbove = 0})
    /\ ListOK(fil[f].mh, fil[f].mt, Field("mn"), Field("mp"),
              {e \in Live : ent[e].key.file = f /\ ent[e].key.levelsAbove > 0})

\* Unless a defect was met, a cached page is found under its key, the size counts
\* the entries, and an evicted file leaves no page behind.
TableExact ==
  defect = "none" =>
    /\ \A e \in Live : cache_get(Mem, ent[e].key) = e /\ fil[ent[e].key.file].live
    /\ cache.size = Cardinality(Live)

\* Unless a defect was met, the files are linked by last use, so that the file
\* evicted is the one used longest ago.
EvictsOldest ==
  defect = "none" =>
    /\ FilesFrom(Mem, cache.fileHead) = recent
    /\ cache.fileTail = (IF recent = << >> THEN 0 ELSE Last(recent))

\* Unless a defect was met, every cached page is found in the table and in its file's list
\* and counted, and the file evicted is the one used longest ago.
CacheExact == FileLists /\ TableExact /\ EvictsOldest
=============================================================================
