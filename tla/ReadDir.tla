------------------------------ MODULE ReadDir ------------------------------
(***************************************************************************)
(* Reading a directory through the high-level library.  The file system's  *)
(* readdir gives its entries to a filler, either all of them without       *)
(* offsets, which the library keeps in a list of the handle and pages      *)
(* through itself, or with offsets, from where it is told to start and     *)
(* until the filler says that the buffer is full.                          *)
(*                                                                         *)
(* The directory does not change while it is read.  Entry i of it has a    *)
(* name of NameLen[i] characters and is given to the filler with offset    *)
(* EntryOffset[mode][i].                                                   *)
(***************************************************************************)
EXTENDS Integers, SequencesExt

CONSTANTS NameLen,      \* lengths of the names in the directory
          EntryOffset,  \* mode of the file system -> the offsets it passes
          BufferSizes,  \* sizes the kernel asks for
          MaxLookups    \* bound on the lookups counted

\* An entry has the offset that continues behind it, or none, and the kernel's buffers
\* hold the longest entry.
ReadDirAssumption ==
  /\ NameLen \in Seq(Nat) /\ BufferSizes \subseteq Nat /\ MaxLookups \in Nat
  /\ \A m \in DOMAIN EntryOffset : \A i \in 1..Len(NameLen) : EntryOffset[m][i] \in {0, i}
  /\ \A i \in 1..Len(NameLen), size \in BufferSizes : ((152 + NameLen[i] + 7) \div 8) * 8 <= size
ASSUME ReadDirAssumption

VARIABLES dirMode,  \* which offsets the file system passes
          dh,       \* struct fuse_dh
          looked,   \* lookups the library counted for each entry
          told,     \* lookups the kernel was told of
          lastOff,  \* the offset behind the last entry the kernel got from this handle
          page      \* the last request and its reply

dirVars == <<dirMode, dh, looked, told, lastOff, page>>
EntryCount == Len(NameLen)
FUSE_NAME_OFFSET == 24
FUSE_NAME_OFFSET_DIRENTPLUS == 152
FUSE_DIRENT_ALIGN(n) == ((n + 7) \div 8) * 8

fuse_add_direntry(i) == FUSE_DIRENT_ALIGN(FUSE_NAME_OFFSET + NameLen[i])
fuse_add_direntry_plus(i) == FUSE_DIRENT_ALIGN(FUSE_NAME_OFFSET_DIRENTPLUS + NameLen[i])
EntrySize(i, plus) == IF plus THEN fuse_add_direntry_plus(i) ELSE fuse_add_direntry(i)

\* Doubled as often as it takes to reach min.
DoubledSize(n, min) ==
  LET Doubled[k \in Nat] == IF k = 0 THEN n ELSE 2 * Doubled[k - 1]
  IN Doubled[CHOOSE k \in 0..min : Doubled[k] >= min /\ \A j \in 0..(k - 1) : Doubled[j] < min]
extend_contents(h, min) ==
  IF min > h.size THEN [h EXCEPT !.size = DoubledSize(IF @ = 0 THEN 1024 ELSE @, min)] ELSE h

\* An entry with an offset goes into the buffer if it fits ...
FillBuffer(h, i, off, plus) ==
  LET n == [extend_contents(h, h.needlen) EXCEPT !.filled = FALSE]
      newlen == h.len + EntrySize(i, plus)
  IN IF h.first # << >> THEN [h EXCEPT !.error = "EIO", !.stop = TRUE]
     ELSE IF newlen > h.needlen THEN [n EXCEPT !.stop = TRUE]
     ELSE [n EXCEPT !.len = newlen, !.out = Append(@, [entry |-> i, off |-> off])]

\* ... and one without into the list, unless the buffer has been used.
fuse_add_direntry_to_dh(h, i) == [h EXCEPT !.first = Append(@, i)]
FillList(h, i) ==
  IF ~h.filled THEN [h EXCEPT !.error = "EIO", !.stop = TRUE] ELSE fuse_add_direntry_to_dh(h, i)

fill_dir(h, i, off) == IF off # 0 THEN FillBuffer(h, i, off, FALSE) ELSE FillList(h, i)

\* readdirplus looks the entry up, which counts, before it knows whether it fits.
fill_dir_plus(h, i, off) ==
  IF off # 0 THEN FillBuffer([h EXCEPT !.lookups = @ \union {i}], i, off, TRUE) ELSE FillList(h, i)

\* The file system's readdir (external): with offsets it starts behind the entry
\* that has the given one.
GiveEntry(h, i, plus) ==
  IF h.stop THEN h
  ELSE IF plus THEN fill_dir_plus(h, i, EntryOffset[dirMode][i]) ELSE fill_dir(h, i, EntryOffset[dirMode][i])
FsReaddir(h, first, plus) ==
  LET Given[i \in 0..EntryCount] == IF i < first THEN h ELSE GiveEntry(Given[i - 1], i, plus)
  IN Given[EntryCount]
StartAt(off) == IF \E i \in 1..EntryCount : EntryOffset[dirMode][i] # 0 THEN off + 1 ELSE 1

readdir_fill(h, size, off, plus, fsErr) ==
  LET fresh == [h EXCEPT !.first = << >>, !.len = 0, !.out = << >>, !.error = "ok", !.needlen = size,
                         !.filled = TRUE, !.stop = FALSE, !.lookups = {}]
      Filled(r) == [r EXCEPT !.error = IF fsErr THEN "fs" ELSE @,
                             !.filled = @ /\ ~fsErr /\ r.error = "ok"]
  IN Filled(FsReaddir(fresh, StartAt(off), plus))

\* The entry at pos of the list, unless one before it did not fit.
ListEntry(h, pos, off, plus) ==
  LET newlen == h.len + EntrySize(h.first[pos], plus)
  IN IF Len(h.out) + off + 1 < pos \/ newlen > h.needlen THEN h
     ELSE [h EXCEPT !.len = newlen, !.out = Append(@, [entry |-> h.first[pos], off |-> pos])]
FromList(h, off, plus) ==
  LET Paged[pos \in 0..Len(h.first)] == IF pos <= off THEN h ELSE ListEntry(Paged[pos - 1], pos, off, plus)
  IN Paged[Len(h.first)]
Emptied(h, size) == [extend_contents([h EXCEPT !.needlen = size], size) EXCEPT !.len = 0, !.out = << >>]
readdir_fill_from_list_behind(h, size, off, plus) == FromList(Emptied(h, size), off + 1, plus)
readdir_fill_from_list(h, size, off, plus) == FromList(Emptied(h, size), off, plus)

fuse_readdir_common(size, off, plus, fsErr) ==
  LET Fill(h) == IF ~h.filled THEN readdir_fill(h, size, off, plus, fsErr) ELSE [h EXCEPT !.error = "ok", !.lookups = {}]
      List(a) == IF a.error = "ok" /\ a.filled THEN readdir_fill_from_list(a, size, off, plus) ELSE a
      Reply == IF dh'.error = "ok" THEN dh'.out ELSE << >>
      One(counted) == IF counted THEN 1 ELSE 0
  IN /\ dh' = List(Fill(IF off = 0 THEN [dh EXCEPT !.filled = FALSE] ELSE dh))
     /\ looked' = [i \in 1..EntryCount |-> looked[i] + One(i \in dh'.lookups)]
     /\ told' = [i \in 1..EntryCount |->
                    told[i] + One(plus /\ ~dh'.filled /\ \E k \in DOMAIN Reply : Reply[k].entry = i)]
     /\ page' = [off |-> off, size |-> size, err |-> dh'.error, out |-> Reply]
     /\ lastOff' = IF Reply = << >> THEN lastOff ELSE Reply[Len(Reply)].off
     /\ UNCHANGED dirMode

\* The kernel rewinds or goes on behind the last entry it got.  Bound: it seeks
\* nowhere else.
NextOffsets == {0, lastOff}
Readdir ==
  /\ \A i \in 1..EntryCount : looked[i] < MaxLookups
  /\ \E size \in BufferSizes, off \in NextOffsets, plus \in BOOLEAN, fsErr \in BOOLEAN :
       fuse_readdir_common(size, off, plus, fsErr)

NewHandle == [filled |-> FALSE, first |-> << >>, len |-> 0, size |-> 0, needlen |-> 0, out |-> << >>,
              error |-> "ok", stop |-> FALSE, lookups |-> {}]
NoPage == [off |-> 0, size |-> 0, err |-> "none", out |-> << >>]

\* fuse_lib_releasedir frees the handle; fuse_lib_opendir makes the next one.
fuse_lib_releasedir ==
  /\ page # NoPage
  /\ dh' = NewHandle /\ lastOff' = 0 /\ page' = NoPage
  /\ UNCHANGED <<dirMode, looked, told>>

DirInit ==
  /\ dirMode \in DOMAIN EntryOffset
  /\ dh = NewHandle /\ lastOff = 0 /\ page = NoPage
  /\ looked = [i \in 1..EntryCount |-> 0] /\ told = [i \in 1..EntryCount |-> 0]
DirNext == Readdir \/ fuse_lib_releasedir
DirSpec == DirInit /\ [][DirNext]_dirVars

-----------------------------------------------------------------------------
(* Properties                                                              *)

AllOffsets == \A i \in 1..EntryCount : EntryOffset[dirMode][i] = i
NoOffsets == \A i \in 1..EntryCount : EntryOffset[dirMode][i] = 0

\* A page holds the entries that follow its offset, none left out and none twice,
\* each with the offset that continues behind it, for all ways to cut the directory
\* into pages, to change the buffer size or the kind of request in between, and to
\* rewind; "Send an empty buffer on end of stream".
PageExact ==
  page.err = "ok" =>
    /\ \A k \in DOMAIN page.out : page.out[k] = [entry |-> page.off + k, off |-> page.off + k]
    /\ page.out = << >> => page.off = EntryCount

\* The bytes written fit the handle's buffer and what the kernel asked for.
PageFits == dh.error = "ok" => dh.len <= dh.size /\ dh.len <= dh.needlen

\* A file system that passes an offset for some entries and none for others never
\* reads to the end of its directory, it gets EIO; one that does either for all of
\* them never gets it.
MixedRefused ==
  /\ page.err = "EIO" => ~(AllOffsets \/ NoOffsets)
  /\ page.err = "ok" /\ page.out = << >> => AllOffsets \/ NoOffsets

\* The library never counts fewer lookups of an entry than the kernel will forget.
LookupsCovered == \A i \in 1..EntryCount : looked[i] >= told[i]

\* However small the buffers, the kernel gets every entry once and in order, no reply is
\* longer than asked for, and each entry it will forget was looked up (fill_dir,
\* fill_dir_plus, readdir_fill_from_list).
ReadingExact == PageExact /\ PageFits /\ MixedRefused /\ LookupsCovered
=============================================================================
