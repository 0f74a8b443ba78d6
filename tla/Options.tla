------------------------------ MODULE Options ------------------------------
(***************************************************************************)
(* The command line of a file system: fuse_main hands it from one parser   *)
(* to the next (fuse_parse_cmdline, fuse_new, fuse_session_new and its     *)
(* mount options), each of which takes what it knows and puts the rest     *)
(* together again; what fusermount3 is to do goes on in an option string.  *)
(*                                                                         *)
(* An option is named by its text up to "=", values are left out, but for  *)
(* the escaping of commas and backslashes, which is modelled character by  *)
(* character in the second part.                                           *)
(***************************************************************************)
EXTENDS Integers, SequencesExt, FiniteSets

CONSTANTS ArgWords,   \* arguments that may be on the line
          MaxWords,   \* bound on their number
          TextChars, MaxText  \* characters of an option's text, bound on its length

VARIABLES words,  \* the arguments behind argv[0]
          text    \* the text of an option

optionVars == <<words, text>>

\* An argument: "non" no option, "opt" an option, "o" a group behind -o, in one or two
\* words, "oend" -o as last word, "sep" the word "--".
Word(t, o, os, n) == [t |-> t, o |-> o, os |-> os, n |-> n]
Non(o) == Word("non", o, << >>, 1)
Opt(o) == Word("opt", o, << >>, 1)
Group(os, n) == Word("o", "-o", os, n)

-----------------------------------------------------------------------------
(* Tables: what to do with an option                                       *)

Var(templ, var) == [templ |-> templ, var |-> var, key |-> ""]
OptKey(templ, key) == [templ |-> templ, var |-> "", key |-> key]
Each(templs, var) == [i \in DOMAIN templs |-> Var(templs[i], var)]
EachOptKey(templs, key) == [i \in DOMAIN templs |-> OptKey(templs[i], key)]

fuse_helper_opts_taken ==
  Each(<<"-h", "--help">>, "show_help") \o Each(<<"-V", "--version">>, "show_version")
  \o Each(<<"-d", "debug">>, "debug") \o Each(<<"-d", "debug", "-f">>, "foreground")
  \o <<Var("-s", "singlethread")>> \o Each(<<"fsname", "subtype">>, "nodefault_subtype")
  \o EachOptKey(<<"fsname", "subtype">>, "KEEP") \o <<Var("clone_fd", "clone_fd")>>
fuse_helper_opts ==
  Each(<<"-h", "--help">>, "show_help") \o Each(<<"-V", "--version">>, "show_version")
  \o Each(<<"-d", "debug">>, "debug") \o Each(<<"-d", "debug">>, "foreground")
  \o EachOptKey(<<"-d", "debug">>, "KEEP") \o <<Var("-f", "foreground"), Var("-s", "singlethread")>>
  \o Each(<<"fsname", "subtype">>, "nodefault_subtype") \o EachOptKey(<<"fsname", "subtype">>, "KEEP")
  \o <<Var("clone_fd", "clone_fd")>>

fuse_lib_opts ==
  Each(<<"-h", "--help">>, "lib_help") \o EachOptKey(<<"debug", "-d">>, "KEEP")
  \o Each(<<"debug", "-d">>, "lib_debug")
  \o Each(<<"kernel_cache", "auto_cache", "noauto_cache", "umask", "uid", "gid", "entry_timeout",
            "attr_timeout", "ac_attr_timeout", "negative_timeout", "noforget", "remember", "modules">>, "conf")

fuse_ll_opts == Each(<<"debug", "-d", "--debug">>, "ll_debug") \o <<Var("allow_root", "deny_others")>>

FlagNames == <<"ro", "rw", "suid", "nosuid", "dev", "nodev", "exec", "noexec", "async", "sync", "dirsync",
               "atime", "noatime">>
fuse_mount_opts ==
  Each(<<"allow_other", "blkdev", "auto_unmount", "fsname", "max_read", "subtype">>, "mount")
  \o <<OptKey("allow_other", "KERN_OPT")>> \o EachOptKey(<<"auto_unmount", "blkdev", "fsname">>, "FUSERMOUNT_OPT")
  \o <<OptKey("subtype", "SUBTYPE_OPT")>>
  \o EachOptKey(<<"blksize", "default_permissions", "context", "fscontext", "defcontext", "rootcontext",
               "max_read">>, "KERN_OPT")
  \o <<OptKey("user", "MTAB_OPT"), OptKey("-r", "RO")>> \o EachOptKey(FlagNames, "KERN_FLAG")

\* option, flag, on, and for fusermount3: may a user set it?
mount_flags ==
  <<[opt |-> "rw", flag |-> "RDONLY", on |-> FALSE, safe |-> TRUE], [opt |-> "ro", flag |-> "RDONLY", on |-> TRUE, safe |-> TRUE],
    [opt |-> "suid", flag |-> "NOSUID", on |-> FALSE, safe |-> FALSE], [opt |-> "nosuid", flag |-> "NOSUID", on |-> TRUE, safe |-> TRUE],
    [opt |-> "dev", flag |-> "NODEV", on |-> FALSE, safe |-> FALSE], [opt |-> "nodev", flag |-> "NODEV", on |-> TRUE, safe |-> TRUE],
    [opt |-> "exec", flag |-> "NOEXEC", on |-> FALSE, safe |-> TRUE], [opt |-> "noexec", flag |-> "NOEXEC", on |-> TRUE, safe |-> TRUE],
    [opt |-> "async", flag |-> "SYNC", on |-> FALSE, safe |-> TRUE], [opt |-> "sync", flag |-> "SYNC", on |-> TRUE, safe |-> TRUE],
    [opt |-> "atime", flag |-> "NOATIME", on |-> FALSE, safe |-> TRUE], [opt |-> "noatime", flag |-> "NOATIME", on |-> TRUE, safe |-> TRUE],
    [opt |-> "dirsync", flag |-> "DIRSYNC", on |-> TRUE, safe |-> TRUE]>>
set_mount_flag(opt, flags) ==
  LET Set(f) == IF f.on THEN flags \union {f.flag} ELSE flags \ {f.flag}
  IN Set(SelectSeq(mount_flags, LAMBDA e : e.opt = opt)[1])

-----------------------------------------------------------------------------
(* fuse_opt_parse                                                          *)

\* The callbacks: 1 keep the argument, 0 taken, -1 error.
fuse_helper_opt_proc(data, o, key) ==
  IF key # "NONOPT" THEN [res |-> 1, data |-> data]
  ELSE IF data.mountpoint = "" THEN [res |-> 0, data |-> [data EXCEPT !.mountpoint = o]]
  ELSE [res |-> -1, data |-> data]
fuse_lib_opt_proc(data, o, key) == [res |-> 1, data |-> data]
fuse_mount_opt_proc(data, o, key) ==
  CASE key = "RO" -> [res |-> 0, data |-> [data EXCEPT !.flags = set_mount_flag("ro", @)]]
    [] key = "KERN_FLAG" -> [res |-> 0, data |-> [data EXCEPT !.flags = set_mount_flag(o, @)]]
    [] key = "KERN_OPT" -> [res |-> 0, data |-> [data EXCEPT !.kernel_opts = Append(@, o)]]
    [] key = "FUSERMOUNT_OPT" -> [res |-> 0, data |-> [data EXCEPT !.fusermount_opts = Append(@, o)]]
    [] key = "SUBTYPE_OPT" -> [res |-> 0, data |-> [data EXCEPT !.subtype_opt = Append(@, o)]]
    [] key = "MTAB_OPT" -> [res |-> 0, data |-> [data EXCEPT !.mtab_opts = Append(@, o)]]
    [] OTHER -> [res |-> 1, data |-> data]
Proc(pass, data, o, key) ==
  CASE pass = "helper" -> fuse_helper_opt_proc(data, o, key)
    [] pass = "mount" -> fuse_mount_opt_proc(data, o, key)
    [] OTHER -> fuse_lib_opt_proc(data, o, key)

call_proc(c, a, o, key, iso) ==
  LET Called(p) == [c EXCEPT !.data = p.data, !.err = @ \/ p.res = -1,
                             !.opts = IF p.res = 1 /\ iso THEN Append(@, o) ELSE @,
                             !.out = IF p.res = 1 /\ ~iso THEN Append(@, a) ELSE @]
  IN Called(IF key = "KEEP" THEN [res |-> 1, data |-> c.data] ELSE Proc(c.pass, c.data, o, key))
process_opt(c, e, a, o, iso) ==
  IF c.err THEN c
  ELSE IF e.var = "" THEN call_proc(c, a, o, e.key, iso)
  ELSE [c EXCEPT !.data.vars = @ \union {e.var}]
\* Every entry that matches is applied.
process_gopt(c, a, o, iso) ==
  LET found == SelectSeq(c.table, LAMBDA e : e.templ = o)
  IN IF found = << >> THEN call_proc(c, a, o, "OPT", iso)
     ELSE FoldLeft(LAMBDA x, e : process_opt(x, e, a, o, iso), c, found)
process_option_group(c, a) == FoldLeft(LAMBDA x, o : IF x.err THEN x ELSE process_gopt(x, a, o, TRUE), c, a.os)

Argc(out) == FoldLeft(LAMBDA n, a : n + a.n, 1, out)
process_one(c, a) ==
  CASE c.err -> c
    [] ~c.err /\ (c.nonopt # 0 \/ a.t = "non") ->
         LET Then(d) == IF a.n = 1 \/ d.err THEN d ELSE call_proc(d, a, "group", "NONOPT", FALSE)
         IN Then(call_proc(c, a, a.o, "NONOPT", FALSE))
    [] ~c.err /\ c.nonopt = 0 /\ a.t = "o" -> process_option_group(c, a)
    [] ~c.err /\ c.nonopt = 0 /\ a.t = "oend" -> [c EXCEPT !.err = TRUE]
    [] ~c.err /\ c.nonopt = 0 /\ a.t = "sep" -> [c EXCEPT !.out = Append(@, a), !.nonopt = Argc(c.out) + 1]
    [] OTHER -> process_gopt(c, a, a.o, FALSE)

\* The options left go to the front as one group; a "--" at the end is dropped.
opt_parse(c0, args) ==
  LET Drop(c, out) == IF c.nonopt # 0 /\ c.nonopt = Argc(out) /\ Last(out).t = "sep" THEN Front(out) ELSE out
      Finish(c) == [c EXCEPT !.out = Drop(c, IF c.opts = << >> THEN @ ELSE <<Group(c.opts, 2)>> \o @)]
  IN Finish(FoldLeft(process_one, c0, args))
fuse_opt_parse(args, data, table, pass) ==
  opt_parse([pass |-> pass, table |-> table, data |-> data, out |-> << >>, opts |-> << >>, nonopt |-> 0, err |-> FALSE], args)

-----------------------------------------------------------------------------
(* fuse_main and the passes                                                *)

NoData == [vars |-> {}, mountpoint |-> "", flags |-> {"NOSUID", "NODEV"}, kernel_opts |-> << >>,
           fusermount_opts |-> << >>, subtype_opt |-> << >>, mtab_opts |-> << >>]
add_default_subtype(out) == Append(out, Group(<<"subtype">>, 1))
fuse_parse_cmdline(args) ==
  LET Subtype(c) == IF c.err \/ "nodefault_subtype" \in c.data.vars THEN c ELSE [c EXCEPT !.out = add_default_subtype(@)]
  IN Subtype(fuse_opt_parse(args, NoData, fuse_helper_opts, "helper"))

\* fuse_session_new: its own options, then parse_mount_opts; nothing may be left.
fuse_session_new(args, data) ==
  LET Result(c, m) == [res |-> IF c.err \/ m.err \/ Argc(m.out) # 1 THEN "fail" ELSE "run", data |-> m.data]
      Others(c) == IF "deny_others" \in c.data.vars THEN Append(c.out, Group(<<"allow_other">>, 1)) ELSE c.out
      parse_mount_opts(c) == Result(c, fuse_opt_parse(Others(c), c.data, fuse_mount_opts, "mount"))
  IN parse_mount_opts(fuse_opt_parse(args, data, fuse_ll_opts, "none"))

fuse_main_real(args) ==
  LET fuse_new(h, l) == IF "lib_help" \in l.data.vars THEN [res |-> "help", data |-> h.data]
                        ELSE fuse_session_new(l.out, l.data)
      Line(h) == IF "show_help" \in h.data.vars THEN Append(h.out, Opt("--help")) ELSE h.out
      Main(h) ==
        CASE h.err -> [res |-> "fail", data |-> h.data]
          [] ~h.err /\ "show_version" \in h.data.vars -> [res |-> "version", data |-> h.data]
          [] ~h.err /\ {"show_version", "show_help"} \cap h.data.vars = {} /\ h.data.mountpoint = "" ->
               [res |-> "fail", data |-> h.data]
          [] OTHER -> fuse_new(h, fuse_opt_parse(Line(h), h.data, fuse_lib_opts, "lib"))
  IN Main(fuse_parse_cmdline(args))

-----------------------------------------------------------------------------
(* What goes on to fusermount3                                             *)

get_mnt_flag_opts(flags) ==
  (IF "RDONLY" \in flags THEN << >> ELSE <<"rw">>)
  \o [i \in DOMAIN SelectSeq(mount_flags, LAMBDA e : e.on /\ e.flag \in flags) |->
        SelectSeq(mount_flags, LAMBDA e : e.on /\ e.flag \in flags)[i].opt]
fuse_kern_mount_opts(data) ==
  get_mnt_flag_opts(data.flags) \o data.kernel_opts \o data.mtab_opts \o data.fusermount_opts \o data.subtype_opt

\* do_mount of fusermount3: an unsafe flag is ignored for a user.
find_mount_flag(opt, uid, flags) ==
  IF uid # 0 /\ \E i \in DOMAIN mount_flags : mount_flags[i].opt = opt /\ ~mount_flags[i].safe
  THEN flags ELSE set_mount_flag(opt, flags)
DoMountOption(d, opt, uid, allow) ==
  CASE opt \in {"fsname", "subtype"} -> d
    [] opt = "blkdev" -> [d EXCEPT !.err = @ \/ uid # 0]
    [] opt = "auto_unmount" -> [d EXCEPT !.auto = TRUE]
    [] opt \in {"fd", "rootmode", "user_id", "group_id", "large_read"} -> d
    [] opt \in {"allow_other", "allow_root"} /\ uid # 0 /\ ~allow -> [d EXCEPT !.err = TRUE]
    [] opt \in ToSet(FlagNames) -> [d EXCEPT !.flags = find_mount_flag(opt, uid, @)]
    [] OTHER -> [d EXCEPT !.kept = Append(@, opt)]
DoMountOptions(opts, uid, allow) ==
  FoldLeft(LAMBDA d, o : IF d.err THEN d ELSE DoMountOption(d, o, uid, allow),
           [flags |-> {"NOSUID", "NODEV"}, kept |-> << >>, auto |-> FALSE, err |-> FALSE], opts)

\* mount.fuse: the line it makes of the options of mount(8).
mount_fuse_main(opts) ==
  LET kept == SelectSeq(opts, LAMBDA o : o \notin {"user", "nouser", "users", "auto", "noauto", "_netdev", "setuid"})
      dev == IF "nodev" \in ToSet(kept) THEN << >> ELSE <<"dev">>
      suid == IF "nosuid" \in ToSet(kept) THEN << >> ELSE <<"suid">>
  IN <<Non("mnt"), Group(kept \o dev \o suid, 2)>>

-----------------------------------------------------------------------------
(* Characters: add_opt_common and process_real_option_group                *)

Escape_commas(t) == FlattenSeq([i \in DOMAIN t |-> IF t[i] = "," THEN <<"\\", t[i]>> ELSE <<t[i]>>])
Escape(t) == FlattenSeq([i \in DOMAIN t |-> IF t[i] \in {",", "\\"} THEN <<"\\", t[i]>> ELSE <<t[i]>>])
add_opt_common(opts, opt) == (IF opts = << >> THEN << >> ELSE Append(opts, ",")) \o Escape(opt)
Octal == {"0", "1", "2", "3", "4", "5", "6", "7"}
\* "octal" stands for the character \abc names, which is none of the text's
RECURSIVE process_real_option_group(_, _, _)
process_real_option_group(s, cur, done) ==
  IF s = << >> THEN Append(done, cur)
  ELSE IF s[1] = "," THEN process_real_option_group(Tail(s), << >>, Append(done, cur))
  ELSE IF s[1] = "\\" /\ Len(s) > 1
  THEN IF Len(s) > 3 /\ s[2] \in {"0", "1", "2", "3"} /\ {s[3], s[4]} \subseteq Octal
       THEN process_real_option_group(SubSeq(s, 5, Len(s)), Append(cur, "octal"), done)
       ELSE process_real_option_group(SubSeq(s, 3, Len(s)), Append(cur, s[2]), done)
  ELSE process_real_option_group(Tail(s), Append(cur, s[1]), done)
\* fusermount3 cuts its options at commas without a backslash and takes the
\* backslashes out of a value.
RECURSIVE get_string_opt(_, _, _)
get_string_opt(s, cur, done) ==
  IF s = << >> THEN Append(done, cur)
  ELSE IF s[1] = "," THEN get_string_opt(Tail(s), << >>, Append(done, cur))
  ELSE IF s[1] = "\\" /\ Len(s) > 1 THEN get_string_opt(SubSeq(s, 3, Len(s)), Append(cur, s[2]), done)
  ELSE get_string_opt(Tail(s), Append(cur, s[1]), done)

OptionsInit == words = << >> /\ text = << >>
\* somebody writes a command line, or an option's text
WriteWord == /\ Len(words) < MaxWords /\ text = << >>
             /\ \A i \in DOMAIN words : words[i].t # "oend"
             /\ \E a \in ArgWords : words' = Append(words, a)
             /\ UNCHANGED text
WriteChar == /\ Len(text) < MaxText /\ words = << >>
             /\ \E c \in TextChars : text' = Append(text, c)
             /\ UNCHANGED words
OptionsNext == WriteWord \/ WriteChar

-----------------------------------------------------------------------------
(* Properties                                                              *)

\* words in front of "--"
Read == {i \in DOMAIN words : \A j \in 1..i : words[j].t # "sep"}
Given == FlattenSeq([i \in 1..Cardinality(Read) |-> IF words[i].t = "o" THEN words[i].os
                                            ELSE IF words[i].t = "opt" THEN <<words[i].o>> ELSE << >>])
GivenOnly(S) == ToSet(Given) \cap S # {}
Grouped == FlattenSeq([i \in DOMAIN words |-> words[i].os])
LastOf(os, on, off, default) ==
  LET s == SelectSeq(os, LAMBDA o : o \in {on, off}) IN IF s = << >> THEN default ELSE Last(s) = on
KnownOptions == UNION {{t[i].templ : i \in DOMAIN t} : t \in {fuse_helper_opts, fuse_lib_opts, fuse_ll_opts, fuse_mount_opts}}
MountPoints == {i \in DOMAIN words : words[i].t = "non"}
Meaning ==
  CASE Cardinality(MountPoints) > 1 \/ \E i \in DOMAIN words : words[i].t = "oend" -> "fail"
    [] GivenOnly({"-V", "--version"}) -> "version"
    [] GivenOnly({"-h", "--help"}) -> "help"
    [] MountPoints = {} \/ ~(ToSet(Given) \subseteq KnownOptions) -> "fail"
    [] OTHER -> "run"

\* A command line without "--" is refused exactly when it has an option no parser
\* knows, no mount point or two, and what it says reaches the part it is for
\* although four parsers in turn take it apart and put the rest together: debugging
\* in library, session and loop, access by others when root is allowed, the default
\* subtype when no name is given, the last of two opposite flags (-r being the last).
LineMeans(r) ==
  (\A i \in DOMAIN words : words[i].t # "sep") =>
       /\ r.res = Meaning
       /\ r.res = "run" =>
            /\ "foreground" \in r.data.vars <=> GivenOnly({"-f", "-d", "debug"})
            /\ "ll_debug" \in r.data.vars <=> GivenOnly({"-d", "debug", "--debug"})
            /\ "lib_debug" \in r.data.vars <=> GivenOnly({"-d", "debug"})
            /\ "allow_other" \in ToSet(r.data.kernel_opts) <=> GivenOnly({"allow_other", "allow_root"})
            /\ r.data.subtype_opt # << >> <=> (GivenOnly({"subtype"}) \/ ~GivenOnly({"fsname"}))
            /\ "RDONLY" \in r.data.flags <=> (GivenOnly({"-r"}) \/ LastOf(Grouped, "ro", "rw", FALSE))

\* The flags fusermount3 mounts with are those the library read from the command line,
\* with nosuid and nodev, and every kernel option arrives.
FlagsCarried(r) ==
  LET Same(d, m) == ~m.err => /\ m.flags = d.flags \union {"NOSUID", "NODEV"}
                              /\ IsPrefix(d.kernel_opts, m.kept)
                              /\ m.auto <=> GivenOnly({"auto_unmount"})
  IN r.res = "run" =>
       \A uid \in 0..1 : Same(r.data, DoMountOptions(fuse_kern_mount_opts(r.data), uid, TRUE))

\* A file system started by mount(8) has devices and set-user-id unless the options
\* say otherwise, of two opposite ones the last.
MountFuseFlags ==
  (\A i \in DOMAIN words : words[i].t = "o") =>
    LET Flags(r) ==
          r.res = "run" =>
            /\ "NODEV" \in r.data.flags <=> ("nodev" \in ToSet(Grouped) /\ LastOf(Grouped, "nodev", "dev", TRUE))
            /\ "NOSUID" \in r.data.flags <=> ("nosuid" \in ToSet(Grouped) /\ LastOf(Grouped, "nosuid", "suid", TRUE))
    IN Flags(fuse_main_real(mount_fuse_main(Grouped)))

\* Two options put together with escapes are read back unchanged, by the library's
\* next parser and by fusermount3, whatever commas, backslashes and digits they have.
EscapesSurvive ==
  \A k \in 1..(Len(text) - 1) :
    LET os == <<SubSeq(text, 1, k), SubSeq(text, k + 1, Len(text))>>
        line == add_opt_common(add_opt_common(<< >>, os[1]), os[2])
    IN process_real_option_group(line, << >>, << >>) = os /\ get_string_opt(line, << >>, << >>) = os

\* What a command line with something on it says arrives where it is meant: in the library,
\* in the string for fusermount3, and through mount.fuse.
OptionsArrive ==
  LET Arrives(r) == LineMeans(r) /\ FlagsCarried(r)
  IN words # << >> => Arrives(fuse_main_real(words)) /\ MountFuseFlags
=============================================================================
