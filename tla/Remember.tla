----------------------------- MODULE Remember -----------------------------
(***************************************************************************)
(* The option remember: a node keeps one lookup of the library's own while *)
(* it has a name, so that its number outlives what the kernel knows.  A    *)
(* node that only this lookup holds is put at the end of a list with the   *)
(* time; a thread of its own, or the single-threaded loop when nothing     *)
(* comes, drops those that have been there for longer than remember.       *)
(*                                                                         *)
(* The tree is one directory d with files in it; entries may come and go   *)
(* below the mount.  A time is kept as an age, counted in steps of Clock   *)
(* seconds up to the first one over remember.  Every step is under f->lock *)
(* but for the reply of a lookup, which comes after it.                    *)
(***************************************************************************)
EXTENDS Integers, SequencesExt

CONSTANTS RemNodes,   \* bound on node ids, 1..RemNodes; the root is 0
          RemFiles,   \* names of files in d
          MaxKnown,   \* bound on the kernel's lookups of one node
          remember, Clock

ASSUME RememberAssumption ==
  /\ RemNodes \in Nat /\ MaxKnown \in Nat /\ remember \in Nat /\ Clock \in Nat \ {0}
  /\ RemFiles \intersect {"d", "none"} = {}

VARIABLES rem,     \* nodes by id, lru_table (oldest first), the time there, and the last id
          known,   \* the lookups of each node that the kernel has been told of
          flight,  \* nodes whose lookup has not been replied to yet
          below,   \* the names that exist in the file system
          loop,    \* "runs" or "ended"
          due,     \* seconds until the next clean run
          halted   \* "no", or the assertion that failed

remVars == <<rem, known, flight, below, loop, due, halted>>

NoName == "none"
Freed == [name |-> NoName, parent |-> 0, nlookup |-> 0, refctr |-> 0]
RemIds == 1..RemNodes
RemNames == RemFiles \union {"d"}
Unlisted(list, n) ==
  IF n \in ToSet(list) THEN RemoveAt(list, CHOOSE k \in DOMAIN list : list[k] = n) ELSE list
remove_node_lru(s, n) == [s EXCEPT !.lru = Unlisted(@, n), !.age[n] = 0]
set_forget_time(s, n) == [s EXCEPT !.lru = Append(Unlisted(@, n), n), !.age[n] = 0]

\* A reference to w.n is given up: a node without any goes, and gives up its directory.
Nobody == -1
unref_one(w) ==
  LET t == [w.s EXCEPT !.node[w.n].refctr = @ - 1]
      u == remove_node_lru([w.s EXCEPT !.node[w.n] = Freed], w.n)
  IN IF w.n = Nobody THEN w
     ELSE IF w.s.node[w.n].refctr > 1 THEN [s |-> t, n |-> Nobody]
     ELSE [s |-> u, n |-> IF w.s.node[w.n].name = NoName THEN Nobody ELSE w.s.node[w.n].parent]
\* No node is more than two names below the root.
unref_node(s, n) == unref_one(unref_one(unref_one([s |-> s, n |-> n]))).s
unhash_name(s, n) ==
  IF s.node[n].name = NoName THEN s
  ELSE unref_node([s EXCEPT !.node[n].name = NoName, !.node[n].parent = 0], s.node[n].parent)
hash_name(s, n, dir, name) ==
  [s EXCEPT !.node[n].name = name, !.node[n].parent = dir, !.node[dir].refctr = @ + 1]
lookup_node(s, dir, name) == {n \in RemIds : s.node[n].name = name /\ s.node[n].parent = dir}
inc_nlookup(s, n) ==
  [s EXCEPT !.node[n].refctr = IF s.node[n].nlookup = 0 THEN @ + 1 ELSE @, !.node[n].nlookup = @ + 1]

\* [s, n]: the state after find_node and the node found.
find_node(s, dir, name) ==
  LET old == lookup_node(s, dir, name)
      n == IF old = {} THEN s.ctr + 1 ELSE CHOOSE x \in old : TRUE
      t == IF old = {} THEN hash_name(inc_nlookup([s EXCEPT !.ctr = n], n), n, dir, name)
           ELSE IF s.node[n].nlookup = 1 THEN remove_node_lru(s, n) ELSE s
  IN [s |-> inc_nlookup(t, n), n |-> n]

forget_node(s, n, nlookup) ==
  LET t == [s EXCEPT !.node[n].nlookup = @ - nlookup]
  IN IF t.node[n].nlookup = 0 THEN unref_node(t, n)
     ELSE IF t.node[n].nlookup = 1 THEN set_forget_time(t, n) ELSE t

\* unlink_node asserts that the node has a lookup besides the library's own.
unlink_node_uncounted(s, n) == unhash_name(s, n)
unlink_node(s, n) == unhash_name([s EXCEPT !.node[n].nlookup = @ - 1], n)
UnlinkAsserts(n) == rem.node[n].nlookup > 1

-----------------------------------------------------------------------------
(* Requests                                                                *)

\* The kernel knows the directory and it has a path.
InDir(dir, name) == IF name = "d" THEN dir = 0 ELSE dir # 0 /\ known[dir] > 0 /\ rem.node[dir].name = "d"
Serving == halted = "no" /\ loop = "runs"

RememberLookup(dir, name) ==
  /\ Serving /\ InDir(dir, name) /\ name \in below
  /\ lookup_node(rem, dir, name) = {} => rem.ctr < RemNodes
  /\ LET r == find_node(rem, dir, name)
     IN /\ known[r.n] + flight[r.n] < MaxKnown
        /\ rem' = r.s /\ flight' = [flight EXCEPT ![r.n] = @ + 1]
  /\ UNCHANGED <<known, below, loop, due, halted>>

\* reply_entry: the kernel takes the reply, or the request was interrupted.
reply_entry(n) ==
  /\ Serving /\ flight[n] > 0
  /\ flight' = [flight EXCEPT ![n] = @ - 1]
  /\ \/ known' = [known EXCEPT ![n] = @ + 1] /\ UNCHANGED rem
     \/ rem.node[n] # Freed /\ rem' = forget_node(rem, n, 1) /\ UNCHANGED known
  /\ UNCHANGED <<below, loop, due, halted>>

RememberForget(n, k) ==
  /\ Serving /\ k <= known[n] /\ rem.node[n] # Freed
  /\ rem' = forget_node(rem, n, k) /\ known' = [known EXCEPT ![n] = @ - k]
  /\ UNCHANGED <<flight, below, loop, due, halted>>

\* fuse_lib_unlink and fuse_lib_rmdir, down to remove_node.
remove_node(n) ==
  /\ Serving /\ known[n] > 0 /\ rem.node[n].name \in below
  /\ rem.node[n].name = "d" => below = {"d"}
  /\ below' = below \ {rem.node[n].name}
  /\ IF UnlinkAsserts(n) THEN rem' = unlink_node(rem, n) /\ UNCHANGED halted
     ELSE halted' = "unlink_node" /\ UNCHANGED rem
  /\ UNCHANGED <<known, flight, loop, due>>

\* fuse_lib_rename within d; the kernel has looked the new name up just before.
rename_node(n, new) ==
  LET dir == rem.node[n].parent
      newnode == lookup_node(rem, dir, new)
      unlinked == IF newnode = {} THEN rem ELSE unlink_node(rem, CHOOSE x \in newnode : TRUE)
  IN /\ Serving /\ known[n] > 0 /\ rem.node[n].name \in (RemFiles \intersect below) \ {new}
     /\ new \in below => \E x \in newnode : known[x] > 0
     /\ below' = (below \ {rem.node[n].name}) \union {new}
     /\ IF \A x \in newnode : UnlinkAsserts(x)
        THEN rem' = hash_name(unhash_name(unlinked, n), n, dir, new) /\ UNCHANGED halted
        ELSE halted' = "unlink_node" /\ UNCHANGED rem
     /\ UNCHANGED <<known, flight, loop, due>>

\* A request, or the forget of an interrupted reply, on a node that is gone (get_node).
NoSuchNode(n) ==
  /\ Serving /\ known[n] + flight[n] > 0 /\ rem.node[n] = Freed
  /\ halted' = "get_node" /\ UNCHANGED <<rem, known, flight, below, loop, due>>

\* Names made and removed in the file system without the mount.
Underneath(name) ==
  /\ Serving /\ "d" \in below
  /\ below' = IF name \in below THEN below \ {name} ELSE below \union {name}
  /\ UNCHANGED <<rem, known, flight, loop, due, halted>>

-----------------------------------------------------------------------------
(* Cleaning                                                                *)

clean_delay == IF remember \div 10 > 3600 THEN 3600 ELSE IF remember \div 10 < 60 THEN 60 ELSE remember \div 10

\* One node of the walk; an old directory with children is passed over.
CleanOne(s, n) ==
  IF s.node[n].refctr > 1 THEN s
  ELSE unref_node(unhash_name([s EXCEPT !.node[n].nlookup = 0], n), n)
Old(s, i) == s.age[s.lru[i]] > remember
\* The walk stops at the first node that is young.
CleanWalk_all(s) == Len(s.lru)
CleanWalk(s) == CHOOSE k \in 0..Len(s.lru) : (\A i \in 1..k : Old(s, i)) /\ (k < Len(s.lru) => ~Old(s, k + 1))
Cleaned(s) ==
  LET walk[k \in 0..CleanWalk(s)] == IF k = 0 THEN s ELSE CleanOne(walk[k - 1], s.lru[k])
  IN walk[CleanWalk(s)]
\* By the thread of fuse_prune_nodes, or when poll times out.
fuse_clean_cache ==
  /\ Serving /\ due = 0
  /\ IF \A i \in 1..CleanWalk(rem) : rem.node[rem.lru[i]].nlookup = 1
     THEN rem' = Cleaned(rem) /\ UNCHANGED halted
     ELSE halted' = "fuse_clean_cache" /\ UNCHANGED rem
  /\ due' = clean_delay /\ UNCHANGED <<known, flight, below, loop>>

\* In the single-threaded loop an interrupted poll (errno is compared with -EINTR) or a
\* failed read ends the loop.
fuse_session_loop_remember ==
  /\ Serving /\ loop' = "ended"
  /\ UNCHANGED <<rem, known, flight, below, due, halted>>

curr_time ==
  /\ Serving
  /\ due > 0 \/ \E i \in DOMAIN rem.lru : ~Old(rem, i)
  /\ due' = IF due > Clock THEN due - Clock ELSE 0
  /\ rem' = [rem EXCEPT !.age = [n \in RemIds |-> IF n \in ToSet(rem.lru) /\ @[n] <= remember THEN @[n] + Clock ELSE @[n]]]
  /\ UNCHANGED <<known, flight, below, loop, halted>>

RememberInit ==
  /\ rem = [node |-> [n \in 0..RemNodes |-> IF n = 0 THEN [Freed EXCEPT !.nlookup = 1, !.refctr = 1] ELSE Freed],
            lru |-> << >>, age |-> [n \in RemIds |-> 0], ctr |-> 0]
  /\ known = [n \in RemIds |-> 0] /\ flight = [n \in RemIds |-> 0]
  /\ below = RemNames /\ loop = "runs" /\ due = 0 /\ halted = "no"
RememberNext ==
  \/ \E dir \in 0..RemNodes, name \in RemNames : RememberLookup(dir, name)
  \/ \E n \in RemIds : reply_entry(n) \/ remove_node(n) \/ NoSuchNode(n) \/ \E k \in 1..MaxKnown : RememberForget(n, k)
  \/ \E n \in RemIds, new \in RemFiles : rename_node(n, new)
  \/ \E name \in RemFiles : Underneath(name)
  \/ fuse_clean_cache \/ fuse_session_loop_remember \/ curr_time
RememberSpec == RememberInit /\ [][RememberNext]_remVars

-----------------------------------------------------------------------------
(* Properties                                                              *)

\* The lookups of a node in the table are those the kernel was told of, those on their
\* way to it and the library's own while the node has a name; its references are one for
\* the lookups and one for each child, and a child's directory is there.
LookupsExact ==
  \A n \in RemIds : rem.node[n] # Freed =>
    /\ rem.node[n].nlookup = known[n] + flight[n] + (IF rem.node[n].name # NoName THEN 1 ELSE 0)
    /\ rem.node[n].refctr = (IF rem.node[n].nlookup > 0 THEN 1 ELSE 0)
                            + Cardinality({c \in RemIds : rem.node[c].name # NoName /\ rem.node[c].parent = n})
    /\ rem.node[n].name \in RemFiles => rem.node[rem.node[n].parent] # Freed

\* The list holds each of its nodes once, the longest forgotten first, so that the walk
\* of fuse_clean_cache may stop at the first young node; and of the nodes that have a name
\* exactly those that neither the kernel nor a reply holds (forget_node, find_node).  Of
\* an unlinked node it says nothing: forget_node lists one that is down to a lookup of
\* the kernel's as if that were the library's own, see KnownKept.
ListExact ==
  /\ \A i, j \in DOMAIN rem.lru : i < j => rem.lru[i] # rem.lru[j] /\ rem.age[rem.lru[i]] >= rem.age[rem.lru[j]]
  /\ \A n \in RemIds : rem.node[n].name # NoName => (n \in ToSet(rem.lru) <=> known[n] + flight[n] = 0)

\* "With this option inodes are instead remembered for at least this many seconds": a node
\* with a name goes only when it has been held by nobody for longer than remember.
RememberedLong ==
  [][\A n \in RemIds : rem.node[n].name # NoName /\ rem'.node[n] = Freed =>
       known[n] + flight[n] = 0 /\ n \in ToSet(rem.lru) /\ rem.age[n] > remember]_remVars

\* With the option remember the lookups of a node that is in the table are the kernel's and
\* the library's own, and of the nodes with a name lru_table lists, oldest first, exactly
\* those that nobody holds.
RememberExact == LookupsExact /\ ListExact

\* "Inodes with a non-zero lookup count may receive request from the kernel even after
\* calls to unlink, rmdir" (fuse_lowlevel.h): a node that the kernel still knows is there,
\* named or not.  Unlinked nodes that were forgotten once are cleaned away all the same.
KnownKept == \A n \in RemIds : known[n] > 0 => rem.node[n] # Freed
=============================================================================
