----------------------------- MODULE MCStartup -----------------------------
(***************************************************************************)
(* How a file system is started and stopped: its command line, and the     *)
(* mounts, unmounts and mtab lines of two daemons and a fusermount3        *)
(* command.  A behaviour is one of the part that part names.               *)
(***************************************************************************)
EXTENDS Options, Mount

VARIABLE part

MCArgWords ==
  {Non("mnt"), Word("oend", "-o", << >>, 1), Word("sep", "--", << >>, 1)}
  \union {Opt(o) : o \in {"-d", "-f", "-h", "-r", "--debug", "-x"}}
  \union {Group(os, 2) : os \in {<<"ro">>, <<"rw">>, <<"debug", "nodev">>, <<"allow_root">>, <<"fsname">>, <<"bogus">>,
                                 <<"auto_unmount", "kernel_cache">>, <<"dev", "noexec", "user">>}}
MCTextChars == {",", "\\", "1", "a"}

Who(u, m, s, a) == [uid |-> u, mnt |-> m, subtype |-> s, auto |-> a]
\* all three at one place with an mtab file; without one root and a user at two places,
\* each of them with auto_unmount, and another user who may not unmount
MCSettings ==
  {[who |-> <<Who(1, "m", FALSE, TRUE), Who(1, "m", FALSE, FALSE), Who(1, "m", FALSE, FALSE)>>, mtabFile |-> TRUE],
   [who |-> <<Who(0, "n", FALSE, FALSE), Who(1, "m", TRUE, TRUE), Who(2, "m", FALSE, FALSE)>>, mtabFile |-> FALSE],
   [who |-> <<Who(0, "n", FALSE, TRUE), Who(1, "m", TRUE, FALSE), Who(2, "m", FALSE, FALSE)>>, mtabFile |-> FALSE]}

MCInit == /\ part \in {"options", "mount"}
          /\ OptionsInit /\ MountInit /\ (part = "options" => mtabFile)
MCNext ==
  \/ part = "options" /\ OptionsNext /\ UNCHANGED <<part, mountVars>>
  \/ part = "mount" /\ MountNext /\ UNCHANGED <<part, optionVars>>
MCSpec == MCInit /\ [][MCNext]_<<part, optionVars, mountVars>> /\ MountFairness
=============================================================================
