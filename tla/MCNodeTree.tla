----------------------------- MODULE MCNodeTree -----------------------------
EXTENDS NodeTree

D == <<"d">>
A == <<"a">>
MCNames == {D, A}
\* The file system below before it is mounted: a directory with one file
MCFs == (<<>> :> <<1, "dir">>) @@ (<<D>> :> <<2, "dir">>) @@ (<<D, A>> :> <<3, "file">>)

Path == [nullpath_ok |-> FALSE, hard_remove |-> FALSE, asked |-> {}]
NullPath == [Path EXCEPT !.nullpath_ok = TRUE]
Hard == [Path EXCEPT !.hard_remove = TRUE]

\* Each start explores some kinds of request against each other
MCConfigs ==
    {[Path EXCEPT !.asked = {"lookup", "path", "unlink", "open", "forget"}],
     [Path EXCEPT !.asked = {"lookup", "make", "unlink", "open"}],
     [Path EXCEPT !.asked = {"lookup", "create", "path", "forget"}],
     [Path EXCEPT !.asked = {"lookup", "link", "rename", "forget"}],
     [Path EXCEPT !.asked = {"lookup", "rmdir", "rename", "exchange", "path", "forget"}],
     [Path EXCEPT !.asked = {"lookup", "open", "rename", "forget"}],
     [Hard EXCEPT !.asked = {"lookup", "open", "path", "unlink", "forget"}],
     [NullPath EXCEPT !.asked = {"lookup", "open", "path", "unlink", "forget"}]}

\* Three requests that lock paths through one directory
MCDeadlock == {[Path EXCEPT !.asked = {"lookup", "rename", "path"}]}
=============================================================================
