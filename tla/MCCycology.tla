---------------------------- MODULE MCCycology ----------------------------
(***************************************************************************)
(* Instances of Cycology for TLC.  Blocks have five pages, the least that  *)
(* keeps the special pages of a log apart.  Entries are interchangeable.   *)
(***************************************************************************)
EXTENDS Cycology, TLC

EntrySymmetry == Permutations(Entries)

World(links, flags, crashes, files, slots) ==
  [links |-> links, flags |-> flags, crashes |-> crashes, files |-> files, slots |-> slots]

\* nothing goes wrong; the daemon may die; unset words hold 0 or something else:
\* 11 is a page of block 2
Quiet   == World({0}, {0}, FALSE, 3, 8)
Dying   == World({0}, {0}, TRUE, 2, 4)
Untidy  == World({0, 11}, {0, 1}, FALSE, 2, 4)

MCWorlds    == {Quiet, Dying, Untidy}
QuietWorlds == {Quiet}
=============================================================================
