----------------------------- MODULE NodeTable -----------------------------
(***************************************************************************)
(* The table of nodes by id in the high-level library: linear hashing that *)
(* grows and shrinks by one bucket at a time, the choice of node ids, and  *)
(* the slabs the nodes are allocated from.  (The table by name is the same *)
(* code with another hash function; the steps here are atomic because the  *)
(* library holds its mutex.)  A bucket is the set of ids on its list: the   *)
(* order on it is never seen.                                              *)
(***************************************************************************)
EXTENDS Integers, SequencesExt, FiniteSets

CONSTANTS IdSpace,              \* the number of values of ctr (2^32)
          HashOf,               \* id -> (uint32_t) ino * 2654435761U
          NODE_TABLE_MIN_SIZE,
          MergeSteps,           \* buckets that one removal merges at most (8)
          PerSlab,              \* nodes in a page
          MaxGeneration         \* bound on wraps of ctr

ASSUME TableAssumption ==
  /\ IdSpace \in Nat \ {0, 1, 2} /\ HashOf \in [0..(IdSpace - 1) -> Nat]
  /\ NODE_TABLE_MIN_SIZE \in {2 * k : k \in 1..NODE_TABLE_MIN_SIZE}
  /\ MergeSteps \in Nat \ {0} /\ PerSlab \in Nat \ {0} /\ MaxGeneration \in Nat

FUSE_ROOT_ID == 1
FUSE_UNKNOWN_INO == IdSpace - 1

VARIABLES table,    \* size, split, use, array of buckets
          idCtr,    \* f->ctr and f->generation
          slabs,    \* slab -> used, freelist
          partial,  \* f->partial_slabs
          full,     \* f->full_slabs
          node,     \* the nodes: id -> generation, slab, slot
          given     \* history: the pairs of id and generation handed out

tableVars == <<table, idCtr, slabs, partial, full, node, given>>

id_hash(t, ino) ==
  LET hash == HashOf[ino] % t.size
      oldhash == hash % (t.size \div 2)
  IN IF oldhash >= t.split THEN oldhash ELSE hash

get_node_nocheck(t, ino) == ino \in t.array[id_hash(t, ino)]

\* The upper half of the array is empty then.
node_table_reduce(t) ==
  LET n == t.size \div 2
  IN IF n < NODE_TABLE_MIN_SIZE THEN t
     ELSE [t EXCEPT !.size = n, !.split = n \div 2, !.array = [b \in 0..(n - 1) |-> t.array[b]]]

\* Buckets come back down from the split point, until one that was not empty.
Merge_drops(t) == [t EXCEPT !.split = @ - 1]
Merge(t) ==
  LET Upper(s) == t.array[s + t.size \div 2]
      low == IF t.split > MergeSteps THEN t.split - MergeSteps ELSE 0
      last == CHOOSE s \in low..(t.split - 1) :
                /\ s = low \/ Upper(s) # {}
                /\ \A x \in (s + 1)..(t.split - 1) : Upper(x) = {}
  IN [t EXCEPT !.split = last, !.array[last] = @ \union Upper(last), !.array[last + t.size \div 2] = {}]
remerge_id(t) == LET r == IF t.split = 0 THEN node_table_reduce(t) ELSE t
                 IN IF r.split = 0 THEN r ELSE Merge(r)

unhash_id(t, ino) ==
  LET n == [t EXCEPT !.array[id_hash(t, ino)] = @ \ {ino}, !.use = @ - 1]
  IN IF ~get_node_nocheck(t, ino) THEN t
     ELSE IF n.use < n.size \div 4 THEN remerge_id(n) ELSE n

\* Without memory the table stays as it is, fully split.
node_table_resize(t, ok) ==
  IF ~ok THEN t
  ELSE [t EXCEPT !.size = 2 * @, !.split = 0,
                 !.array = [b \in 0..(2 * t.size - 1) |-> IF b < t.size THEN t.array[b] ELSE {}]]

\* The bucket at the split point is divided.
rehash_id(t, ok) ==
  LET h == t.split
      n == [t EXCEPT !.split = @ + 1]
      moved == {x \in t.array[h] : id_hash(n, x) # h}
      m == [n EXCEPT !.array = [b \in DOMAIN @ |-> (IF b = h THEN @[b] \ moved ELSE @[b])
                                                  \union {x \in moved : id_hash(n, x) = b}]]
  IN IF t.split = t.size \div 2 THEN t
     ELSE IF m.split = m.size \div 2 THEN node_table_resize(m, ok) ELSE m

hash_id(t, ino, ok) ==
  LET n == [t EXCEPT !.array[id_hash(t, ino)] = @ \union {ino}, !.use = @ + 1]
  IN IF n.use >= n.size \div 2 THEN rehash_id(n, ok) ELSE n

\* The loop steps over 0, the unknown number and the numbers in use.
Skips(t, ctr) ==
  LET Free(k) == LET n == (ctr + k) % IdSpace IN n \notin {0, FUSE_UNKNOWN_INO} /\ ~get_node_nocheck(t, n)
  IN CHOOSE k \in 1..IdSpace : Free(k) /\ \A j \in 1..(k - 1) : ~Free(j)
next_id_samegen(t, c) == [ctr |-> (c.ctr + Skips(t, c.ctr)) % IdSpace, gen |-> c.gen]

\* ctr runs on through its whole range; a wrap starts a new generation.
next_id(t, c) ==
  LET k == Skips(t, c.ctr)
  IN [ctr |-> (c.ctr + k) % IdSpace, gen |-> IF c.ctr + k < IdSpace THEN c.gen ELSE c.gen + 1]

-----------------------------------------------------------------------------
(* Slabs                                                                   *)

\* A slab is taken out of the list it is in.
list_del(l, s) == IF s \in ToSet(l) THEN RemoveAt(l, CHOOSE k \in DOMAIN l : l[k] = s) ELSE l

NodeMem == [slabs |-> slabs, partial |-> partial, full |-> full]
FreshSlab == [used |-> 0, free |-> [k \in 1..PerSlab |-> k]]

\* A page of free nodes under an unused number.
alloc_slab(m) ==
  LET s == CHOOSE x \in 1..(Cardinality(DOMAIN m.slabs) + 1) : x \notin DOMAIN m.slabs
  IN [m EXCEPT !.slabs = [x \in DOMAIN m.slabs \union {s} |-> IF x = s THEN FreshSlab ELSE m.slabs[x]],
               !.partial = Append(@, s)]

alloc_node(m0) ==
  LET m == IF m0.partial = << >> THEN alloc_slab(m0) ELSE m0
      s == Head(m.partial)
      slot == Head(m.slabs[s].free)
      n == [m EXCEPT !.slabs[s] = [used |-> @.used + 1, free |-> Tail(@.free)]]
  IN [slab |-> s, slot |-> slot,
      m |-> IF n.slabs[s].free = << >> THEN [n EXCEPT !.partial = Tail(@), !.full = Append(@, s)] ELSE n]

free_slab(m, s) ==
  [slabs |-> [x \in DOMAIN m.slabs \ {s} |-> m.slabs[x]],
   partial |-> list_del(m.partial, s), full |-> list_del(m.full, s)]

free_node_mem(m, s, slot) ==
  IF m.slabs[s].used = 1 THEN free_slab(m, s)
  ELSE LET n == IF m.slabs[s].free = << >>
                THEN [m EXCEPT !.full = list_del(@, s), !.partial = Append(@, s)] ELSE m
       IN [n EXCEPT !.slabs[s] = [used |-> @.used - 1, free |-> <<slot>> \o @.free]]

-----------------------------------------------------------------------------
SetMem(m) == slabs' = m.slabs /\ partial' = m.partial /\ full' = m.full
Ids == DOMAIN node

\* The part of find_node that makes a node.
MakeNode ==
  LET a == alloc_node(NodeMem)
      c == next_id(table, idCtr)
  IN /\ Cardinality(Ids) < IdSpace - 3 /\ c.gen <= MaxGeneration
     /\ SetMem(a.m)
     /\ idCtr' = c
     /\ node' = [i \in Ids \union {c.ctr} |-> IF i = c.ctr THEN [gen |-> c.gen, slab |-> a.slab, slot |-> a.slot] ELSE node[i]]
     /\ given' = given \union {<<c.ctr, c.gen>>}
     /\ \E ok \in BOOLEAN : table' = hash_id(table, c.ctr, ok)

delete_node(i) ==
  /\ i # FUSE_ROOT_ID
  /\ table' = unhash_id(table, i)
  /\ SetMem(free_node_mem(NodeMem, node[i].slab, node[i].slot))
  /\ node' = [j \in Ids \ {i} |-> node[j]]
  /\ UNCHANGED <<idCtr, given>>

NewTable == [size |-> NODE_TABLE_MIN_SIZE, split |-> 0, use |-> 0, array |-> [b \in 0..(NODE_TABLE_MIN_SIZE - 1) |-> {}]]
\* node_table_init and the root that fuse_new hashes.
TableInit ==
  LET a == alloc_node([slabs |-> << >>, partial |-> << >>, full |-> << >>])
  IN /\ table = hash_id(NewTable, FUSE_ROOT_ID, TRUE)
     /\ idCtr = [ctr |-> 0, gen |-> 0]
     /\ slabs = a.m.slabs /\ partial = a.m.partial /\ full = a.m.full
     /\ node = [i \in {FUSE_ROOT_ID} |-> [gen |-> 0, slab |-> a.slab, slot |-> a.slot]]
     /\ given = {<<FUSE_ROOT_ID, 0>>}
TableNext == MakeNode \/ \E i \in Ids : delete_node(i)
TableSpec == TableInit /\ [][TableNext]_tableVars

-----------------------------------------------------------------------------
(* Properties                                                              *)

\* However the table has grown, shrunk, or failed to grow, get_node finds every node
\* and no other, so that "fuse internal error: node not found" cannot happen.
NodeFound ==
  /\ \A i \in 1..(IdSpace - 2) : get_node_nocheck(table, i) <=> i \in Ids
  /\ table.use = Cardinality(Ids)
  /\ \A b \in DOMAIN table.array : table.array[b] \subseteq Ids

\* Buckets beyond the split point are empty, so that halving the array loses none.
UpperEmpty ==
  /\ DOMAIN table.array = 0..(table.size - 1) /\ table.split <= table.size \div 2
  /\ \A b \in DOMAIN table.array : b >= table.split + table.size \div 2 => table.array[b] = {}

\* A new node never gets an id and generation that another node, dead or alive, had.
IdentityUnique == [][Ids # DOMAIN node' /\ Ids \subseteq DOMAIN node' => given' # given]_tableVars

\* Two nodes never share memory, no freed memory is in use, and the two lists of
\* slabs hold exactly the slabs with and without free nodes.
SlabsExact ==
  /\ \A i, j \in Ids : i # j => <<node[i].slab, node[i].slot>> # <<node[j].slab, node[j].slot>>
  /\ \A i \in Ids : node[i].slab \in DOMAIN slabs /\ node[i].slot \notin ToSet(slabs[node[i].slab].free)
  /\ \A s \in DOMAIN slabs : slabs[s].used = Cardinality({i \in Ids : node[i].slab = s}) /\ slabs[s].used + Len(slabs[s].free) = PerSlab
  /\ ToSet(partial) = {s \in DOMAIN slabs : slabs[s].free # << >>}
  /\ ToSet(full) = DOMAIN slabs \ ToSet(partial)

\* Through splits and merges of the table (rehash_id, remerge_id) and through slabs given
\* back, every node is found by its id and has memory of its own.
TableFinds == NodeFound /\ UpperEmpty /\ SlabsExact
=============================================================================
