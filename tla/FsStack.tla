------------------------------ MODULE FsStack ------------------------------
(***************************************************************************)
(* The layers of the high-level library: fuse_new stacks the modules that  *)
(* -o modules= names on the user's file system, every operation goes down  *)
(* through them and its answer comes up again, and the modules are counted *)
(* in a registry that all instances of struct fuse in the process share.   *)
(*                                                                         *)
(* A path is a sequence of names with a mark for absolute ones.  Names are *)
(* numbers: n and 100 + n are one name in the encoding above and below an  *)
(* iconv layer, 0 is the name ".".  NULL is a path with the mark "null"    *)
(* (nullpath_ok).                                                          *)
(***************************************************************************)
EXTENDS FsOps, Integers, SequencesExt

CONSTANTS Instances,    \* struct fuse objects
          SoModules,    \* modules that come in a shared object
          ModuleLists,  \* instance -> values of -o modules=
          UserOps,      \* instance -> sets of operations a user's file system supplies
          Calls,        \* operations called
          PathArgs,     \* paths the library passes
          Bases,        \* values of -o subdir=
          DirNames      \* names in a directory of the user's file system

VARIABLES mods,  \* fuse_modules: module -> loaded, ctr
          inst,  \* struct fuse: state, layers top first, modules to push, conn->want
          ctx,   \* fuse_get_context()->private_data: the layer it belongs to
          last   \* the last operation and what came of it

stackVars == <<mods, inst, ctx, last>>

Null == [mark |-> "null", c |-> << >>]

-----------------------------------------------------------------------------
(* The registry                                                            *)

Modules == SoModules \union {"subdir", "iconv"}

\* fuse_find_module, and fuse_load_so_module when it finds none: the module gets
\* the first reference.
fuse_get_module(m) == [mods EXCEPT ![m] = [loaded |-> TRUE, ctr |-> @.ctr + 1]]

\* The last reference to a module from a shared object unloads it.
fuse_put_module(mm, m) ==
  IF m = "" THEN mm
  ELSE [mm EXCEPT ![m] = [loaded |-> @.ctr > 1 \/ m \notin SoModules, ctr |-> @.ctr - 1]]

-----------------------------------------------------------------------------
(* Layers                                                                  *)

User(ops) == [kind |-> "user", mod |-> "", ops |-> ops, base |-> Null, fromfs |-> TRUE]
AllOps == DOMAIN fuse_operations

\* A base is made to end in "/"; without one the factory fails.
subdir_new(b) == [kind |-> "subdir", mod |-> "subdir", ops |-> DOMAIN subdir_oper, base |-> b, fromfs |-> TRUE]
\* Only the conversion towards the file system is tested: the other one may be
\* missing.
iconv_new(ok) == [kind |-> "iconv", mod |-> "iconv", ops |-> DOMAIN iconv_oper, base |-> Null, fromfs |-> ok]
\* any other module: passes on everything
OtherModule(m) == [kind |-> "so", mod |-> m, ops |-> AllOps, base |-> Null, fromfs |-> TRUE]

Factory(m) ==
  CASE m = "subdir" -> {subdir_new(b) : b \in Bases}
    [] m = "iconv" -> {iconv_new(ok) : ok \in BOOLEAN}
    [] OTHER -> {OtherModule(m)}

subdir_addpath(d, path) ==
  IF path = Null THEN Null
  ELSE IF d.base.c \o path.c = << >> /\ d.base.mark = "rel" THEN [mark |-> "rel", c |-> <<0>>]
  ELSE [mark |-> d.base.mark, c |-> d.base.c \o path.c]

\* 3 is a name the encoding below does not have; below 100 there is nothing that
\* the encoding above has.
Converted(n, fromfs) == IF n = 0 THEN 0 ELSE IF fromfs THEN n - 100 ELSE n + 100
Convertible(ic, n, fromfs) == n = 0 \/ (IF fromfs THEN n > 100 /\ ic.fromfs ELSE n % 100 # 3)
iconv_convpath(ic, path, fromfs) ==
  IF path = Null THEN Null
  ELSE IF \A j \in DOMAIN path.c : Convertible(ic, path.c[j], fromfs)
  THEN [path EXCEPT !.c = [j \in DOMAIN @ |-> Converted(@[j], fromfs)]]
  ELSE [mark |-> "EILSEQ", c |-> << >>]

\* What a layer's handler passes on for the arguments marked in its table.
HandlerArgs(layer, op, args) ==
  LET marked == CASE layer.kind = "subdir" -> subdir_oper[op]
                  [] layer.kind = "iconv" -> iconv_oper[op]
                  [] OTHER -> << >>
      New(j) == IF j \in DOMAIN marked /\ marked[j]
                THEN IF layer.kind = "subdir" THEN subdir_addpath(layer, args[j])
                     ELSE iconv_convpath(layer, args[j], FALSE)
                ELSE args[j]
  IN [j \in DOMAIN args |-> New(j)]

\* A name that cannot be converted is left out of the directory.
iconv_dir_fill(ic, names) == {Converted(n, TRUE) : n \in {x \in names : Convertible(ic, x, TRUE)}}

\* The text of a symbolic link on its way up, for each name it may hold in the user's file
\* system; iconv_readlink fails if it cannot convert it.  (subdir changes it only with
\* rellinks, see RelLinks.)
EILSEQ == -1
LinkUp(ic, text) ==
  [t \in DOMAIN text |-> IF text[t] # EILSEQ /\ Convertible(ic, text[t], TRUE) THEN Converted(text[t], TRUE) ELSE EILSEQ]

\* Every fuse_fs_* first makes the layer's data the private data of the context,
\* which the handler then asks for.
SetContext(c, i) == i

Found(ops, alts) == SelectSeq(alts, LAMBDA o : o \in ops)

\* An operation on layer i: the answer, what reached the user's file system
\* (the operation and its arguments, if anything did), and the context it leaves.
\* oom is the layer whose handler finds no memory for its paths.
RECURSIVE fuse_fs(_, _, _, _, _, _)
fuse_fs(L, c, i, op, args, oom) ==
  LET now == SetContext(c, i)
      layer == L[now]
      has == Found(L[i].ops, fuse_operations[op].alts)
      new == HandlerArgs(layer, has[1], args)
      below == fuse_fs(L, now, i + 1, has[1], new, oom)
      Answer(r, x) == [ret |-> r, op |-> x, args |-> args, ctx |-> now, names |-> {}, text |-> << >>]
  IN IF has = << >> THEN Answer(fuse_operations[op].missing, "")
     ELSE IF L[i].kind = "user" THEN [Answer("done", has[1]) EXCEPT !.names = DirNames, !.text = [t \in DirNames |-> t]]
     ELSE IF oom = i THEN Answer("ENOMEM", "")
     ELSE IF \E j \in DOMAIN new : new[j].mark = "EILSEQ" THEN Answer("EILSEQ", "")
     ELSE IF L[i].kind = "iconv" THEN [below EXCEPT !.names = iconv_dir_fill(layer, @), !.text = LinkUp(layer, @)]
     ELSE below

-----------------------------------------------------------------------------
(* The life of an instance                                                 *)

None == [st |-> "none", layers |-> << >>, todo |-> << >>, want |-> {}]
NoCall == [ret |-> "none", op |-> "", args |-> << >>, ctx |-> 0, names |-> {}, text |-> << >>, inst |-> 0, asked |-> "", given |-> << >>]

fuse_new(f, ops, ms) ==
  /\ inst[f].st = "none"
  /\ inst' = [inst EXCEPT ![f] = [None EXCEPT !.st = "building", !.layers = <<User(ops)>>, !.todo = ms]]
  /\ UNCHANGED <<mods, ctx, last>>

\* out_free_fs: the reference of the topmost layer's module is given back; layers
\* below it are forgotten.
NewFails(f, mm) ==
  /\ mods' = fuse_put_module(mm, inst[f].layers[1].mod)
  /\ inst' = [inst EXCEPT ![f] = [None EXCEPT !.st = "failed"]]

fuse_push_module(f) ==
  /\ inst[f].st = "building" /\ inst[f].todo # << >>
  /\ LET m == Head(inst[f].todo)
     IN \/ /\ ~mods[m].loaded                              \* dlopen or dlsym fails
           /\ NewFails(f, mods)
        \/ NewFails(f, fuse_put_module(fuse_get_module(m), m))   \* the factory fails
        \/ \E layer \in Factory(m) :
             /\ inst' = [inst EXCEPT ![f].layers = <<layer>> \o @, ![f].todo = Tail(@)]
             /\ mods' = fuse_get_module(m)
  /\ UNCHANGED <<ctx, last>>

\* The rest of fuse_new: the session, the tables, the root.
NewRest(f) ==
  /\ inst[f].st = "building" /\ inst[f].todo = << >>
  /\ \/ NewFails(f, mods)
     \/ inst' = [inst EXCEPT ![f].st = "made"] /\ UNCHANGED mods
  /\ UNCHANGED <<ctx, last>>

Capability == [write_buf |-> "SPLICE_READ", lock |-> "POSIX_LOCKS", flock |-> "FLOCK_LOCKS"]
\* A layer takes from conn->want what it has no operation for, and the init of a
\* module does the same for the layer below.
fuse_fs_init(L, i, want) == want \ {Capability[o] : o \in DOMAIN Capability \ L[i].ops}
fuse_lib_init(f) ==
  /\ inst[f].st = "made"
  /\ LET L == inst[f].layers
         want == FoldLeft(LAMBDA w, i : fuse_fs_init(L, i, w), {Capability[o] : o \in DOMAIN Capability},
                          [i \in DOMAIN L |-> i])
     IN inst' = [inst EXCEPT ![f].st = "live", ![f].want = want]
  /\ ctx' = Len(inst[f].layers)
  /\ UNCHANGED <<mods, last>>

\* A request: fuse_lib_* calls the topmost layer.  (One at a time, and while no
\* other instance exists: the layers keep nothing between requests but the context.)
Request(f, op, args, oom) ==
  /\ inst[f].st = "live" /\ last = NoCall /\ \A g \in Instances \ {f} : inst[g] = None
  /\ Len(args) = (IF op \in {"rename", "link", "symlink"} THEN 2 ELSE 1)
  /\ LET r == fuse_fs(inst[f].layers, ctx, 1, op, args, oom)
     IN last' = [inst |-> f, asked |-> op, given |-> args] @@ r /\ ctx' = r.ctx
  /\ UNCHANGED <<mods, inst>>

Replied == last # NoCall /\ last' = NoCall /\ UNCHANGED <<mods, inst, ctx>>

\* fuse_fs_destroy: the layers go from the lowest up, each followed by its
\* reference to the module.
fuse_fs_destroy(f) ==
  /\ inst[f].st \in {"live", "ending"} /\ last = NoCall
  /\ LET L == inst[f].layers
     IN /\ mods' = fuse_put_module(mods, L[Len(L)].mod)
        /\ inst' = [inst EXCEPT ![f] = IF Len(L) = 1 THEN None
                                       ELSE [@ EXCEPT !.st = "ending", !.layers = Front(L), !.want = {}]]
  /\ UNCHANGED <<ctx, last>>

\* fuse_destroy of an instance that never got an INIT does not destroy its layers.
fuse_destroy_unused(f) ==
  /\ inst[f].st = "made"
  /\ inst' = [inst EXCEPT ![f] = [None EXCEPT !.st = "failed"]]
  /\ UNCHANGED <<mods, ctx, last>>

StackInit ==
  /\ mods = [m \in Modules |-> [loaded |-> m \notin SoModules, ctr |-> 0]]
  /\ inst = [f \in Instances |-> None]
  /\ ctx = 0 /\ last = NoCall

StackNext ==
  \/ Replied
  \/ \E f \in Instances :
       \/ \E ops \in UserOps[f], ms \in ModuleLists[f] : fuse_new(f, ops, ms)
       \/ fuse_push_module(f) \/ NewRest(f) \/ fuse_lib_init(f)
       \/ \E op \in Calls, args \in PathArgs, oom \in 0..1 : Request(f, op, args, oom)
       \/ fuse_fs_destroy(f) \/ fuse_destroy_unused(f)

-----------------------------------------------------------------------------
(* Properties                                                              *)

Layers(f) == inst[f].layers
Kinds(f) == [i \in DOMAIN Layers(f) |-> Layers(f)[i].kind]
Lowest(f, k) == LET S == {i \in DOMAIN Layers(f) : Kinds(f)[i] = k}
                IN IF S = {} THEN 0 ELSE CHOOSE i \in S : \A j \in S : j <= i
Below(f, i) == Cardinality({j \in DOMAIN Layers(f) : j > i /\ Kinds(f)[j] = "iconv"})
Raise(c, n) == [j \in DOMAIN c |-> IF c[j] = 0 THEN 0 ELSE c[j] + 100 * n]

\* Whatever the order of the modules, every path that reaches the user's file
\* system is the path asked for, in the encoding the file system uses, below the
\* directory of the lowest subdir layer: "prepend this directory to all paths".
\* (The contents of a symbolic link are no path.)
Confined ==
  (last.op # "" /\ inst[last.inst].st = "live") =>
    LET f == last.inst
        s == Lowest(f, "subdir")
        b == IF s = 0 THEN << >> ELSE Raise(Layers(f)[s].base.c, Below(f, s))
    IN \A j \in (IF last.asked = "symlink" THEN {2} ELSE DOMAIN last.args) :
         last.args[j] # Null =>
           LET p == last.args[j].c
               g == Raise(last.given[j].c, Below(f, 0))
           IN (p = <<0>> /\ b = << >>) \/ (IsPrefix(b, p) /\ IsSuffix(g, p) /\ Len(p) >= Len(b) + Len(g))

\* ENOSYS comes only from the user's file system, except that the built-in modules
\* hide ioctl, poll and fallocate; read and write reach a file system that has the
\* plain or the buffer form of them.
OnlyMissingRefused ==
  (last.ret = ENOSYS /\ inst[last.inst].st = "live") =>
    LET f == last.inst
    IN \/ Found(Layers(f)[Len(Layers(f))].ops, fuse_operations[last.asked].alts) = << >>
       \/ last.asked \in {"ioctl", "poll", "fallocate"} /\ Lowest(f, "subdir") + Lowest(f, "iconv") > 0

\* A name that readdir reports through the layers leads back through them to the
\* entry of the user's file system it stands for, and no two do to the same; the text
\* that readlink reports leads back to the name that the link holds there.
NamesLeadBack ==
  (last.asked \in {"readdir", "readlink"} /\ last.ret = "done" /\ inst[last.inst].st = "live") =>
    LET L == Layers(last.inst)
        Back(n) == fuse_fs(L, 0, 1, "getattr", <<[mark |-> "abs", c |-> <<n>>]>>, 0)
        Entry(r) == r.ret = "done" /\ r.args[1].c # << >> /\ Last(r.args[1].c) \in DirNames
    IN ("getattr" \in L[Len(L)].ops) =>
         /\ \A n \in last.names : Entry(Back(n))
         /\ \A n, o \in last.names : n # o => Back(n).args # Back(o).args
         /\ \A t \in DOMAIN last.text : last.text[t] # EILSEQ =>
              LET r == Back(last.text[t]) IN r.ret = "done" /\ Last(r.args[1].c) = t

\* The connection wants locks, flocks or spliced reads only when every layer can
\* serve them.
WantSupported ==
  \A f \in Instances : inst[f].st = "live" =>
    \A o \in DOMAIN Capability : Capability[o] \in inst[f].want =>
      \A i \in DOMAIN Layers(f) : o \in Layers(f)[i].ops

\* The code of a layer stays loaded while the layer is in use, whichever instances
\* share its module, however their construction fails and in whichever order they
\* end.
ModuleKept ==
  \A m \in Modules :
    LET uses == {<<f, i>> \in Instances \X (1..4) : i \in DOMAIN Layers(f) /\ Layers(f)[i].mod = m}
    IN (uses # {} => mods[m].loaded) /\ mods[m].ctr >= Cardinality(uses)

\* Through a stack of modules subdir keeps every path below its base and iconv gives names
\* that lead back to their entries; only operations no layer has are refused, only
\* capabilities all of them have are asked for, and a module in use stays loaded.
LayersExact == Confined /\ NamesLeadBack /\ OnlyMissingRefused /\ WantSupported /\ ModuleKept
=============================================================================
