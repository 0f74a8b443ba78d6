---------------------------- MODULE Mount_proofs ----------------------------
(***************************************************************************)
(* What /etc/mtab lists and what a failed mount leaves behind, for every   *)
(* number of daemons and unmount commands and all their settings.          *)
(*                                                                         *)
(* Lines and mounts are counted, so the inductive invariant has to know    *)
(* that nobody removes a line without having removed a mount: where every  *)
(* unmount got /etc/mtab.fuselock only its holder does, and it has seen a  *)
(* line of its own.                                                        *)
(* That a failed daemon left nothing needs to know, for every mount, who   *)
(* is still responsible for it: the helper that made it, the message under *)
(* way in the socket, or the daemon that received it.                      *)
(***************************************************************************)
EXTENDS Mount, TLAPS, FiniteSetTheorems

DaemonPcs == {"start", "sys", "sys_add", "receive", "serving", "unmounting",
              "ended", "failed"}
HelperPcs == {"start", "mount", "add", "send", "wait", "ended"}
UnmountPcs == {"idle", "lock", "check", "umount", "remove", "unlock", "ended"}
Ends == {"daemon", "helper"}
Uids == {who[x].uid : x \in DOMAIN who} \union {0}
MountNames == Daemons \X Nat

DaemonType == [pc : DaemonPcs, auto : BOOLEAN, tries : Nat, fd : MountNames \union {NoMount}]
HelperType == [pc : HelperPcs, attempt : Nat]
SockType   == [zero : SUBSET Ends, one : SUBSET Ends, msg : MountNames \union {NoMount}]

MountType ==
  /\ mtabFile \in BOOLEAN /\ DOMAIN who = Daemons \union Commands
  /\ mounts \in [Points -> Seq(MountNames)]
  /\ mtab \in [Points -> Seq(Uids)]
  /\ dm \in [Daemons -> DaemonType]
  /\ hp \in [Daemons -> HelperType]
  /\ sock \in [Daemons -> SockType]
  /\ up \in [Unmounters -> UnmountPcs]
  /\ unlisted \subseteq MountNames /\ IsFiniteSet(unlisted)
  /\ kept \in [Points -> Nat] /\ unlocked \subseteq Points
  /\ \A d \in Daemons : who[d].auto \in BOOLEAN

(* How far a daemon, its helper, their socket and the unmounting of its    *)
(* mount can be at the same time.                                          *)
Phase(d) ==
  /\ dm[d].pc \in {"sys", "sys_add"} => who[d].uid = 0
  /\ dm[d].pc \in {"start", "sys", "sys_add"} => hp[d].attempt = 0
  /\ dm[d].pc \in {"start", "sys", "sys_add", "failed"} =>
       hp[d].pc = "ended" /\ sock[d].msg = NoMount
  /\ hp[d].pc # "ended" =>
       hp[d].attempt > 0 /\ "helper" \in sock[d].zero /\ up[<<"auto", d>>] = "idle"
  /\ dm[d].pc = "receive" => "daemon" \in sock[d].one
  /\ dm[d].pc \in {"start", "receive"} => up[<<"auto", d>>] = "idle"
  /\ dm[d].pc \in {"start", "sys", "sys_add", "receive", "serving"} =>
       up[<<"exit", d>>] = "idle"
Phases == \A d \in Daemons : Phase(d)

(* /etc/mtab.fuselock is held from lock_umount to unlock_umount, except    *)
(* where an unmount went on without it.                                    *)
Held == {"check", "umount", "remove", "unlock"}
Careful(p) == Setting(p).mnt \notin unlocked
Locked == mtabFile =>
  \A p \in Unmounters : up[p] \in Held /\ Careful(p) => mtabLock = p

(* A user who unmounts has seen a line, and it is still there. *)
LineSeen == mtabFile =>
  \A p \in Unmounters : up[p] \in {"umount", "remove"} /\ Careful(p) /\ ~RootAt(Setting(p).mnt) =>
    mtab[Setting(p).mnt] # << >>

(* A mount is given up at most once, by the attempt that made it. *)
GivenUp == \A x \in unlisted :
  /\ x[2] <= hp[x[1]].attempt
  /\ x[2] = hp[x[1]].attempt => hp[x[1]].pc = "ended"

(* Somebody is responsible for the mount of d. *)
Live(d) == \/ dm[d].pc \in {"sys_add", "serving", "unmounting", "ended"}
           \/ hp[d].pc \in {"add", "send", "wait"}
           \/ sock[d].msg # NoMount

(* The daemons of which NothingLeft speaks. *)
Tidy(d) == who[d].uid # 0 \/ Alone(d)

Covered(m, x) ==
  /\ Mnt(x[1]) = m
  /\ Tidy(x[1]) => \/ x \in unlisted
                   \/ Live(x[1]) /\ (hp[x[1]].attempt > 0 => x[2] = hp[x[1]].attempt)
Accounted == \A m \in Points : \A i \in DOMAIN mounts[m] : Covered(m, mounts[m][i])

(* Before it mounts by itself a daemon that is alone finds no mount. *)
OwnPlace == \A d \in Daemons : Alone(d) =>
  /\ dm[d].pc \in {"start", "sys"} => mounts[Mnt(d)] = << >>
  /\ dm[d].pc = "sys_add" => Len(mounts[Mnt(d)]) <= 1

MountInv ==
  /\ MountType /\ Phases /\ Locked /\ LineSeen /\ GivenUp
  /\ Accounted /\ OwnPlace /\ MtabAgrees

-----------------------------------------------------------------------------
(* Sequences without their last element, and with one more. *)
LEMMA PopSeq ==
  ASSUME NEW S, NEW s \in Seq(S), s # << >>
  PROVE  /\ Front(s) \in Seq(S) /\ Len(Front(s)) = Len(s) - 1
         /\ \A i \in DOMAIN Front(s) : i \in DOMAIN s /\ Front(s)[i] = s[i]
<1>1. Len(s) \in Nat \ {0} /\ DOMAIN s = 1 .. Len(s) /\ \A i \in 1 .. Len(s) : s[i] \in S
  OBVIOUS
<1>2. Front(s) = [i \in 1 .. Len(s) - 1 |-> s[i]]
  BY DEF Front
<1>3. Len(s) - 1 \in Nat /\ \A i \in 1 .. Len(s) - 1 : i \in 1 .. Len(s)
  BY <1>1
<1>4. Front(s) \in Seq(S)
  BY <1>1, <1>2, <1>3
<1>5. DOMAIN Front(s) = 1 .. Len(s) - 1 /\ \A i \in 1 .. Len(s) - 1 : Front(s)[i] = s[i]
  BY <1>2
<1>6. Len(Front(s)) = Len(s) - 1
  BY <1>3, <1>4, <1>5
<1> QED BY <1>1, <1>3, <1>4, <1>5, <1>6

LEMMA PushSeq ==
  ASSUME NEW S, NEW s \in Seq(S), NEW x \in S
  PROVE  /\ Append(s, x) \in Seq(S) /\ Len(Append(s, x)) = Len(s) + 1
         /\ Append(s, x) # << >>
         /\ \A i \in DOMAIN Append(s, x) :
              (i \in DOMAIN s /\ Append(s, x)[i] = s[i]) \/ Append(s, x)[i] = x
OBVIOUS

(* The mounts at a place after an unmount and after a mount. *)
LEMMA PopMounts ==
  ASSUME MountType, NEW m \in Points, Pop(m)
  PROVE  /\ mounts' \in [Points -> Seq(MountNames)]
         /\ \A n \in Points : n # m => mounts'[n] = mounts[n]
         /\ mounts[m] # << >> => Len(mounts'[m]) = Len(mounts[m]) - 1
         /\ mounts[m] = << >> => mounts'[m] = << >>
         /\ \A i \in DOMAIN mounts'[m] : i \in DOMAIN mounts[m] /\ mounts'[m][i] = mounts[m][i]
<1>1. mounts \in [Points -> Seq(MountNames)]
  BY DEF MountType
<1>2. mounts' = [mounts EXCEPT ![m] = IF mounts[m] = << >> THEN mounts[m] ELSE Front(mounts[m])]
  BY DEF Pop
<1>3. CASE mounts[m] = << >>
  BY <1>1, <1>2, <1>3
<1>4. CASE mounts[m] # << >>
  <2>1. mounts[m] \in Seq(MountNames)
    BY <1>1
  <2>2. /\ Front(mounts[m]) \in Seq(MountNames) /\ Len(Front(mounts[m])) = Len(mounts[m]) - 1
        /\ \A i \in DOMAIN Front(mounts[m]) :
             i \in DOMAIN mounts[m] /\ Front(mounts[m])[i] = mounts[m][i]
    BY <1>4, <2>1, PopSeq
  <2> QED BY <1>1, <1>2, <1>4, <2>2
<1> QED BY <1>3, <1>4

LEMMA PushMounts ==
  ASSUME MountType, NEW m \in Points, NEW x \in MountNames, Push(m, x)
  PROVE  /\ mounts' \in [Points -> Seq(MountNames)]
         /\ \A n \in Points : n # m => mounts'[n] = mounts[n]
         /\ Len(mounts'[m]) = Len(mounts[m]) + 1
         /\ \A i \in DOMAIN mounts'[m] :
              (i \in DOMAIN mounts[m] /\ mounts'[m][i] = mounts[m][i]) \/ mounts'[m][i] = x
<1>1. mounts \in [Points -> Seq(MountNames)] /\ mounts[m] \in Seq(MountNames)
  BY DEF MountType
<1>2. mounts' = [mounts EXCEPT ![m] = Append(mounts[m], x)]
  BY DEF Push
<1>3. /\ Append(mounts[m], x) \in Seq(MountNames) /\ Len(Append(mounts[m], x)) = Len(mounts[m]) + 1
      /\ \A i \in DOMAIN Append(mounts[m], x) :
           \/ i \in DOMAIN mounts[m] /\ Append(mounts[m], x)[i] = mounts[m][i]
           \/ Append(mounts[m], x)[i] = x
  BY <1>1, PushSeq
<1> QED BY <1>1, <1>2, <1>3

(* The lines of /etc/mtab after one is added or removed. *)
LEMMA AddLine ==
  ASSUME MountType, NEW m \in Points, NEW u \in Uids, fuse_mnt_add_mount(m, u)
  PROVE  /\ mtab' \in [Points -> Seq(Uids)]
         /\ \A n \in Points : n # m => mtab'[n] = mtab[n]
         /\ mtabFile => Len(mtab'[m]) = Len(mtab[m]) + 1
         /\ \A n \in Points : mtab[n] # << >> => mtab'[n] # << >>
<1>1. mtab \in [Points -> Seq(Uids)] /\ mtab[m] \in Seq(Uids) /\ mtabFile \in BOOLEAN
  BY DEF MountType
<1>2. CASE ~ mtabFile
  BY <1>1, <1>2 DEF fuse_mnt_add_mount, mtab_needs_update
<1>3. CASE mtabFile
  <2>1. mtab' = [mtab EXCEPT ![m] = Append(mtab[m], u)]
    BY <1>3 DEF fuse_mnt_add_mount, mtab_needs_update
  <2>2. /\ Append(mtab[m], u) \in Seq(Uids) /\ Len(Append(mtab[m], u)) = Len(mtab[m]) + 1
        /\ Append(mtab[m], u) # << >>
    BY <1>1, PushSeq
  <2> QED BY <1>1, <2>1, <2>2
<1> QED BY <1>1, <1>2, <1>3

LEMMA RemoveLine ==
  ASSUME MountType, NEW m \in Points, fuse_mnt_remove_mount(m)
  PROVE  /\ mtab' \in [Points -> Seq(Uids)]
         /\ \A n \in Points : n # m => mtab'[n] = mtab[n]
         /\ mtabFile /\ mtab[m] # << >> => Len(mtab'[m]) = Len(mtab[m]) - 1
<1>1. mtab \in [Points -> Seq(Uids)] /\ mtab[m] \in Seq(Uids) /\ mtabFile \in BOOLEAN
  BY DEF MountType
<1>2. CASE ~ (mtabFile /\ mtab[m] # << >>)
  BY <1>1, <1>2 DEF fuse_mnt_remove_mount, mtab_needs_update
<1>3. CASE mtabFile /\ mtab[m] # << >>
  <2>1. mtab' = [mtab EXCEPT ![m] = Front(mtab[m])]
    BY <1>3 DEF fuse_mnt_remove_mount, mtab_needs_update
  <2>2. Front(mtab[m]) \in Seq(Uids) /\ Len(Front(mtab[m])) = Len(mtab[m]) - 1
    BY <1>1, <1>3, PopSeq
  <2> QED BY <1>1, <2>1, <2>2
<1> QED BY <1>1, <1>2, <1>3

(* Where the processes are. *)
LEMMA Places ==
  ASSUME MountType
  PROVE  /\ \A d \in Daemons : Mnt(d) \in Points /\ who[d].uid \in Uids
                                 /\ <<"auto", d>> \in Unmounters /\ <<"exit", d>> \in Unmounters
         /\ \A c \in Commands : <<"cmd", c>> \in Unmounters
         /\ \A p \in Unmounters : Setting(p).mnt \in Points
         /\ 0 \in Uids
<1>1. DOMAIN who = Daemons \union Commands
  BY DEF MountType
<1>2. ASSUME NEW p \in Unmounters PROVE p[2] \in DOMAIN who
  BY <1>1 DEF Unmounters
<1> QED BY <1>1, <1>2 DEF Points, Mnt, Setting, Uids, Unmounters

-----------------------------------------------------------------------------
(* Nobody changes the settings of a behaviour. *)
LEMMA Fixed ==
  ASSUME MountNext
  PROVE  /\ who' = who /\ mtabFile' = mtabFile
         /\ Points' = Points /\ Uids' = Uids
         /\ \A d : Mnt(d)' = Mnt(d) /\ Tidy(d)' = Tidy(d) /\ Alone(d)' = Alone(d)
         /\ \A p : Setting(p)' = Setting(p)
         /\ \A m : RootAt(m)' = RootAt(m)
<1>1. who' = who /\ mtabFile' = mtabFile
  <2>1. ASSUME NEW d \in Daemons,
               \/ fuse_kern_mount(d) \/ DaemonStep(d) \/ HelperStep(d)
               \/ fuse_kern_unmount(d) \/ DaemonDies(d)
        PROVE  who' = who /\ mtabFile' = mtabFile
    BY <2>1 DEF fuse_kern_mount, DaemonStep, HelperStep, fuse_kern_unmount, DaemonDies,
         fuse_mount_sys, SysAdd, receive_fd, Unmounted,
         mount_fuse, do_mount, add_mount, send_fd, WaitForDaemon
  <2>2. ASSUME NEW p \in Unmounters, UnmountStep(p) PROVE who' = who /\ mtabFile' = mtabFile
    BY <2>2 DEF UnmountStep, lock_umount, may_unmount, unmount_fuse_locked, remove_mount, unlock_umount
  <2>3. ASSUME NEW p \in Commands, Command(p) PROVE who' = who /\ mtabFile' = mtabFile
    BY <2>3 DEF Command
  <2> QED BY <2>1, <2>2, <2>3 DEF MountNext
<1> QED BY <1>1 DEF Points, Uids, Mnt, Tidy, Alone, Setting, RootAt

(* The lines and locks that failed at a mount point are those of the       *)
(* unmounting processes there.                                             *)
LEMMA DaemonsSlipNot ==
  ASSUME NEW d \in Daemons,
         \/ fuse_kern_mount(d) \/ DaemonStep(d) \/ HelperStep(d)
         \/ fuse_kern_unmount(d) \/ DaemonDies(d)
  PROVE  kept' = kept /\ unlocked' = unlocked
BY DEF fuse_kern_mount, DaemonStep, HelperStep, fuse_kern_unmount, DaemonDies,
  fuse_mount_sys, SysAdd, receive_fd, Unmounted,
  mount_fuse, do_mount, add_mount, send_fd, WaitForDaemon

LEMMA Slips ==
  ASSUME MountType, MountNext
  PROVE  /\ kept' \in [Points -> Nat] /\ unlocked' \subseteq Points
         /\ unlocked \subseteq unlocked'
<1>1. kept \in [Points -> Nat] /\ unlocked \subseteq Points
  BY DEF MountType
<1>2. ASSUME NEW d \in Daemons,
             \/ fuse_kern_mount(d) \/ DaemonStep(d) \/ HelperStep(d)
             \/ fuse_kern_unmount(d) \/ DaemonDies(d)
      PROVE  kept' = kept /\ unlocked' = unlocked
  BY <1>2, DaemonsSlipNot
<1>3. ASSUME NEW p \in Unmounters, UnmountStep(p)
      PROVE  /\ kept' = kept \/ kept' = [kept EXCEPT ![Setting(p).mnt] = @ + 1]
             /\ unlocked' = unlocked \/ unlocked' = unlocked \union {Setting(p).mnt}
  BY <1>3 DEF UnmountStep, lock_umount, may_unmount, unmount_fuse_locked, remove_mount, unlock_umount
<1>4. ASSUME NEW c \in Commands, Command(c) PROVE kept' = kept /\ unlocked' = unlocked
  BY <1>4 DEF Command
<1>5. CASE \E p \in Unmounters : UnmountStep(p)
  <2>1. PICK p \in Unmounters : UnmountStep(p)
    BY <1>5
  <2>2. Setting(p).mnt \in Points
    BY Places
  <2> QED BY <1>1, <1>3, <2>1, <2>2
<1> QED BY <1>1, <1>2, <1>4, <1>5 DEF MountNext

(* Type correctness of the changes to the state of a daemon, its helper,   *)
(* its socket and of an unmounting process.                                *)
LEMMA DaemonTo ==
  ASSUME MountType, NEW d \in Daemons, NEW pc \in DaemonPcs, dm' = [dm EXCEPT ![d].pc = pc]
  PROVE  dm' \in [Daemons -> DaemonType]
BY DEF MountType, DaemonType

(* A process closes its ends of a socket; a message is taken and an end closed. *)
LEMMA SocketClosed ==
  ASSUME NEW x \in SockType, NEW z, NEW n, NEW m \in MountNames \union {NoMount}, z \subseteq Ends, n \subseteq Ends
  PROVE  [x EXCEPT !.zero = z, !.one = n] \in SockType /\ [x EXCEPT !.msg = m, !.one = n] \in SockType
BY DEF SockType

LEMMA SocketSent ==
  ASSUME sock \in [Daemons -> SockType], NEW d \in Daemons, NEW m \in MountNames, NEW end,
         sock' = [sock EXCEPT ![d].msg = m, ![d].zero = @ \ {end}]
  PROVE  sock' \in [Daemons -> SockType]
<1> DEFINE x == sock[d]
           z == x.zero \ {end}
           y == [x EXCEPT !.msg = m, !.zero = z]
<1>1. x \in SockType
  OBVIOUS
<1>2. x.zero \subseteq Ends
  <2> HIDE DEF x
  <2> QED BY <1>1 DEF SockType
<1>3. z \subseteq Ends
  BY <1>2
<1>4. y \in SockType
  <2> HIDE DEF x, z
  <2> QED BY <1>1, <1>3 DEF SockType
<1>5. sock' = [sock EXCEPT ![d] = y]
  OBVIOUS
<1> HIDE DEF y
<1> QED BY <1>4, <1>5

LEMMA SocketLeft ==
  ASSUME sock \in [Daemons -> SockType], NEW d \in Daemons, NEW end,
         sock' = [sock EXCEPT ![d].zero = @ \ {end}, ![d].one = @ \ {end}]
  PROVE  sock' \in [Daemons -> SockType]
<1> DEFINE x == sock[d]
           z == x.zero \ {end}
           n == x.one \ {end}
           y == [x EXCEPT !.zero = z, !.one = n]
<1>1. x \in SockType
  OBVIOUS
<1>2. x.zero \subseteq Ends /\ x.one \subseteq Ends /\ x.msg \in MountNames \union {NoMount}
  <2> HIDE DEF x
  <2> QED BY <1>1 DEF SockType
<1>3. z \subseteq Ends /\ n \subseteq Ends
  BY <1>2
<1>4. y \in SockType
  <2> HIDE DEF x, z, n
  <2> QED BY <1>1, <1>2, <1>3, SocketClosed
<1>5. sock' = [sock EXCEPT ![d] = y]
  OBVIOUS
<1> HIDE DEF y
<1> QED BY <1>4, <1>5

LEMMA DaemonEndsType ==
  ASSUME MountType, NEW d \in Daemons, NEW pc \in DaemonPcs, DaemonEnds(d, pc)
  PROVE  dm' \in [Daemons -> DaemonType] /\ sock' \in [Daemons -> SockType]
<1>1. dm' \in [Daemons -> DaemonType]
  BY DaemonTo DEF DaemonEnds
<1>2. sock' \in [Daemons -> SockType]
  BY SocketLeft DEF MountType, DaemonEnds
<1> QED BY <1>1, <1>2

LEMMA HelperToType ==
  ASSUME MountType, NEW d \in Daemons, NEW from, NEW pc \in HelperPcs, HelperTo(d, from, pc)
  PROVE  hp' \in [Daemons -> HelperType]
BY DEF MountType, HelperType, HelperTo

LEMMA HelperExitType ==
  ASSUME MountType, NEW d \in Daemons, NEW from, HelperExit(d, from)
  PROVE  hp' \in [Daemons -> HelperType] /\ sock' \in [Daemons -> SockType]
<1>1. hp' \in [Daemons -> HelperType]
  BY HelperToType DEF HelperExit, HelperPcs
<1>2. sock' \in [Daemons -> SockType]
  BY SocketLeft DEF MountType, HelperExit
<1> QED BY <1>1, <1>2

LEMMA MountName ==
  ASSUME MountType, NEW d \in Daemons
  PROVE  <<d, hp[d].attempt>> \in MountNames /\ <<d, 1>> \in MountNames
BY DEF MountType, HelperType, MountNames

LEMMA NewHelperType ==
  ASSUME MountType, NEW d \in Daemons, NEW auto \in BOOLEAN, NEW tries \in Nat,
         fuse_mount_fusermount(d, auto, tries)
  PROVE  /\ dm' \in [Daemons -> DaemonType] /\ hp' \in [Daemons -> HelperType]
         /\ sock' \in [Daemons -> SockType]
<1>1. dm \in [Daemons -> DaemonType] /\ hp \in [Daemons -> HelperType] /\ sock \in [Daemons -> SockType]
  BY DEF MountType
<1>2. dm' \in [Daemons -> DaemonType]
  BY <1>1 DEF fuse_mount_fusermount, DaemonType, DaemonPcs
<1>3. hp' \in [Daemons -> HelperType]
  BY <1>1 DEF fuse_mount_fusermount, HelperType, HelperPcs
<1>4. sock' \in [Daemons -> SockType]
  BY <1>1 DEF fuse_mount_fusermount, SockType, Ends
<1> QED BY <1>2, <1>3, <1>4

(* The unmounting processes stay typed. *)
LEMMA UpTypes ==
  ASSUME MountType, NEW p \in Unmounters, NEW pc \in UnmountPcs, up' = [up EXCEPT ![p] = pc]
  PROVE  up' \in [Unmounters -> UnmountPcs]
BY DEF MountType

LEMMA TypeStep == MountType /\ MountNext => MountType'
<1> SUFFICES ASSUME MountType, MountNext PROVE MountType'
  OBVIOUS
<1>1. /\ mtabFile \in BOOLEAN /\ DOMAIN who = Daemons \union Commands
      /\ mounts \in [Points -> Seq(MountNames)] /\ mtab \in [Points -> Seq(Uids)]
      /\ dm \in [Daemons -> DaemonType] /\ hp \in [Daemons -> HelperType]
      /\ sock \in [Daemons -> SockType] /\ up \in [Unmounters -> UnmountPcs]
      /\ unlisted \subseteq MountNames /\ IsFiniteSet(unlisted)
  BY DEF MountType
<1>0. \A d \in Daemons : who[d].auto \in BOOLEAN
  BY DEF MountType
<1>2. ASSUME mounts' \in [Points -> Seq(MountNames)], mtab' \in [Points -> Seq(Uids)],
             dm' \in [Daemons -> DaemonType], hp' \in [Daemons -> HelperType],
             sock' \in [Daemons -> SockType], up' \in [Unmounters -> UnmountPcs],
             unlisted' \subseteq MountNames, IsFiniteSet(unlisted')
      PROVE  MountType'
  BY <1>0, <1>1, <1>2, Fixed, Slips DEF MountType
<1>3. ASSUME NEW p \in Unmounters, UnmountStep(p) PROVE MountType'
  <2>0. Setting(p).mnt \in Points
    BY Places
  <2>1. CASE lock_umount(p) \/ may_unmount(p) \/ unlock_umount(p)
    BY <1>1, <1>2, <2>1, UpTypes
    DEF lock_umount, may_unmount, unlock_umount, UpTo, UnmountPcs
  <2>2. CASE unmount_fuse_locked(p)
    <3>1. up' \in [Unmounters -> UnmountPcs]
      BY <2>2, UpTypes DEF unmount_fuse_locked, UpTo, UnmountPcs
    <3>2. mounts' \in [Points -> Seq(MountNames)]
      BY <1>1, <2>0, <2>2, PopMounts DEF unmount_fuse_locked
    <3> QED BY <1>1, <1>2, <2>2, <3>1, <3>2 DEF unmount_fuse_locked
  <2>3. CASE remove_mount(p)
    <3>1. up' \in [Unmounters -> UnmountPcs]
      BY <2>3, UpTypes DEF remove_mount, UpTo, UnmountPcs
    <3>2. mtab' \in [Points -> Seq(Uids)]
      BY <1>1, <2>0, <2>3, RemoveLine DEF remove_mount
    <3> QED BY <1>1, <1>2, <2>3, <3>1, <3>2 DEF remove_mount
  <2> QED BY <1>3, <2>1, <2>2, <2>3 DEF UnmountStep
<1>4. ASSUME NEW c \in Commands, Command(c) PROVE MountType'
  <2>1. <<"cmd", c>> \in Unmounters
    BY Places
  <2>2. up' \in [Unmounters -> UnmountPcs]
    BY <1>4, <2>1, UpTypes DEF Command, UpTo, UnmountPcs
  <2> QED BY <1>1, <1>2, <1>4, <2>2 DEF Command
<1>5. ASSUME NEW d \in Daemons, HelperStep(d) PROVE MountType'
  <2>0. Mnt(d) \in Points /\ who[d].uid \in Uids /\ <<"auto", d>> \in Unmounters
        /\ <<d, hp[d].attempt>> \in MountNames
    BY Places, MountName
  <2>1. CASE mount_fuse(d)
    <3>1. hp' \in [Daemons -> HelperType] /\ sock' \in [Daemons -> SockType]
      BY <1>1, <2>1, HelperToType, HelperExitType DEF mount_fuse, HelperPcs
    <3> QED BY <1>1, <1>2, <2>1, <3>1 DEF mount_fuse
  <2>2. CASE do_mount(d)
    <3>1. hp' \in [Daemons -> HelperType] /\ sock' \in [Daemons -> SockType]
      BY <1>1, <2>2, HelperToType, HelperExitType DEF do_mount, HelperPcs
    <3>2. mounts' \in [Points -> Seq(MountNames)]
      BY <1>1, <2>0, <2>2, PushMounts DEF do_mount
    <3> QED BY <1>1, <1>2, <2>2, <3>1, <3>2 DEF do_mount
  <2>3. CASE add_mount(d)
    <3>1. hp' \in [Daemons -> HelperType] /\ sock' \in [Daemons -> SockType]
      BY <1>1, <2>3, HelperToType, HelperExitType DEF add_mount, HelperPcs
    <3>2. mtab' \in [Points -> Seq(Uids)]
      BY <1>1, <2>0, <2>3, AddLine DEF add_mount
    <3>3. unlisted' \subseteq MountNames /\ IsFiniteSet(unlisted')
      <4>1. unlisted' = unlisted \/ unlisted' = unlisted \union {<<d, hp[d].attempt>>}
        BY <2>3 DEF add_mount
      <4>2. IsFiniteSet(unlisted \union {<<d, hp[d].attempt>>})
        BY <1>1, FS_AddElement, Zenon
      <4> QED BY <1>1, <2>0, <4>1, <4>2
    <3> QED BY <1>1, <1>2, <2>3, <3>1, <3>2, <3>3 DEF add_mount
  <2>4. CASE send_fd(d)
    <3>1. hp' \in [Daemons -> HelperType]
      BY <1>1, <2>4, HelperToType, HelperExitType DEF send_fd, HelperPcs
    <3>2. sock' \in [Daemons -> SockType]
      <4>1. CASE HelperExit(d, "send")
        BY <4>1, HelperExitType
      <4>2. CASE sock' = [sock EXCEPT ![d].msg = <<d, hp[d].attempt>>]
        BY <1>1, <2>0, <4>2 DEF SockType
      <4>3. CASE sock' = [sock EXCEPT ![d].msg = <<d, hp[d].attempt>>, ![d].zero = @ \ {"helper"}]
        BY <1>1, <2>0, <4>3, SocketSent DEF Ends
      <4> QED BY <2>4, <4>1, <4>2, <4>3 DEF send_fd
    <3> QED BY <1>1, <1>2, <2>4, <3>1, <3>2 DEF send_fd
  <2>5. CASE WaitForDaemon(d)
    <3>1. hp' \in [Daemons -> HelperType]
      BY <2>5, HelperToType DEF WaitForDaemon, HelperPcs
    <3>2. up' \in [Unmounters -> UnmountPcs]
      BY <2>0, <2>5, UpTypes DEF WaitForDaemon, UnmountPcs
    <3> QED BY <1>1, <1>2, <2>5, <3>1, <3>2 DEF WaitForDaemon
  <2> QED BY <1>5, <2>1, <2>2, <2>3, <2>4, <2>5 DEF HelperStep
<1>6. ASSUME NEW d \in Daemons, fuse_kern_mount(d) PROVE MountType'
  <2>1. dm' \in [Daemons -> DaemonType] /\ hp' \in [Daemons -> HelperType] /\ sock' \in [Daemons -> SockType]
    <3>1. CASE dm' = [dm EXCEPT ![d].pc = "sys"] /\ UNCHANGED <<hp, sock>>
      BY <1>1, <3>1, DaemonTo DEF DaemonPcs
    <3>2. ASSUME fuse_mount_fusermount(d, who[d].auto, IF who[d].subtype THEN 2 ELSE 1)
          PROVE  dm' \in [Daemons -> DaemonType] /\ hp' \in [Daemons -> HelperType] /\ sock' \in [Daemons -> SockType]
      <4>1. (IF who[d].subtype THEN 2 ELSE 1) \in Nat /\ who[d].auto \in BOOLEAN
        BY <1>0
      <4> QED BY <3>2, <4>1, NewHelperType, Zenon
    <3> QED BY <1>6, <3>1, <3>2 DEF fuse_kern_mount
  <2> QED BY <1>1, <1>2, <1>6, <2>1 DEF fuse_kern_mount
<1>7. ASSUME NEW d \in Daemons, DaemonStep(d) PROVE MountType'
  <2>0. Mnt(d) \in Points /\ 0 \in Uids /\ <<d, 1>> \in MountNames
    BY Places, MountName
  <2>1. CASE fuse_mount_sys(d)
    <3>1. dm' \in [Daemons -> DaemonType] /\ sock' \in [Daemons -> SockType]
      BY <1>1, <2>1, DaemonTo, DaemonEndsType DEF fuse_mount_sys, DaemonPcs
    <3>2. mounts' \in [Points -> Seq(MountNames)]
      BY <1>1, <2>0, <2>1, PushMounts DEF fuse_mount_sys
    <3> QED BY <1>1, <1>2, <2>1, <3>1, <3>2 DEF fuse_mount_sys
  <2>2. CASE SysAdd(d)
    <3>1. dm' \in [Daemons -> DaemonType] /\ sock' \in [Daemons -> SockType]
      <4>1. CASE SysAddFails(d)
        BY <4>1, DaemonEndsType DEF SysAddFails, DaemonPcs
      <4>2. CASE dm' = [dm EXCEPT ![d].pc = "serving", ![d].fd = <<d, 1>>] /\ UNCHANGED sock
        <5> DEFINE r == [dm[d] EXCEPT !.pc = "serving", !.fd = <<d, 1>>]
        <5>1. dm' = [dm EXCEPT ![d] = r]
          BY <4>2
        <5>2. dm[d] \in DaemonType
          BY <1>1
        <5>3. r \in DaemonType
          BY <2>0, <5>2 DEF DaemonType, DaemonPcs
        <5> HIDE DEF r
        <5> QED BY <1>1, <4>2, <5>1, <5>3
      <4> QED BY <2>2, <4>1, <4>2 DEF SysAdd
    <3>2. mounts' \in [Points -> Seq(MountNames)]
      BY <1>1, <2>0, <2>2, PopMounts DEF SysAdd, SysAddFails
    <3>3. mtab' \in [Points -> Seq(Uids)]
      BY <1>1, <2>0, <2>2, AddLine DEF SysAdd, SysAddFails
    <3> QED BY <1>1, <1>2, <2>2, <3>1, <3>2, <3>3 DEF SysAdd
  <2>3. CASE receive_fd(d)
    <3>1. dm' \in [Daemons -> DaemonType] /\ hp' \in [Daemons -> HelperType] /\ sock' \in [Daemons -> SockType]
      <4>1. CASE /\ dm' = [dm EXCEPT ![d].pc = "serving", ![d].fd = sock[d].msg]
                 /\ sock' = [sock EXCEPT ![d].msg = NoMount, ![d].one = IF dm[d].auto THEN @ ELSE {}]
                 /\ UNCHANGED hp
        <5>1. dm' \in [Daemons -> DaemonType]
          <6> DEFINE x == sock[d].msg
          <6>1. x \in MountNames \union {NoMount}
            BY <1>1 DEF SockType
          <6>2. dm' = [dm EXCEPT ![d].pc = "serving", ![d].fd = x]
            BY <4>1
          <6> DEFINE r == [dm[d] EXCEPT !.pc = "serving", !.fd = x]
          <6> HIDE DEF x
          <6>3. dm' = [dm EXCEPT ![d] = r]
            BY <6>2
          <6>4. dm[d] \in DaemonType
            BY <1>1
          <6>5. r \in DaemonType
            BY <6>1, <6>4 DEF DaemonType, DaemonPcs
          <6> QED BY <1>1, <6>3, <6>5
        <5>2. sock' \in [Daemons -> SockType]
          <6> DEFINE x == sock[d]
                     n == IF dm[d].auto THEN x.one ELSE {}
                     y == [x EXCEPT !.msg = NoMount, !.one = n]
          <6>1. x \in SockType
            BY <1>1
          <6>2. n \subseteq Ends
            <7> HIDE DEF x
            <7>1. x.one \subseteq Ends
              BY <6>1 DEF SockType
            <7> QED BY <7>1
          <6>3. y \in SockType
            <7> HIDE DEF x, n
            <7>1. {} \subseteq Ends /\ NoMount \in MountNames \union {NoMount}
              OBVIOUS
            <7> QED BY <6>1, <6>2, <7>1, SocketClosed
          <6>4. sock' = [sock EXCEPT ![d] = y]
            BY <4>1
          <6> HIDE DEF y
          <6> QED BY <1>1, <6>3, <6>4
        <5> QED BY <1>1, <4>1, <5>1, <5>2
      <4>2. CASE fuse_mount_fusermount(d, dm[d].auto, 1)
        <5>1. dm[d].auto \in BOOLEAN /\ 1 \in Nat
          BY <1>1 DEF DaemonType
        <5> QED BY <4>2, <5>1, NewHelperType, Zenon
      <4>3. CASE DaemonEnds(d, "failed") /\ UNCHANGED hp
        BY <1>1, <4>3, DaemonEndsType DEF DaemonPcs
      <4> QED BY <2>3, <4>1, <4>2, <4>3 DEF receive_fd
    <3> QED BY <1>1, <1>2, <2>3, <3>1 DEF receive_fd
  <2>4. CASE Unmounted(d)
    <3>1. dm' \in [Daemons -> DaemonType] /\ sock' \in [Daemons -> SockType]
      BY <2>4, DaemonEndsType DEF Unmounted, DaemonPcs
    <3> QED BY <1>1, <1>2, <2>4, <3>1 DEF Unmounted
  <2> QED BY <1>7, <2>1, <2>2, <2>3, <2>4 DEF DaemonStep
<1>8. ASSUME NEW d \in Daemons, fuse_kern_unmount(d) PROVE MountType'
  <2>0. Mnt(d) \in Points /\ <<"exit", d>> \in Unmounters
    BY Places
  <2>1. dm' \in [Daemons -> DaemonType] /\ sock' \in [Daemons -> SockType]
    BY <1>1, <1>8, DaemonTo, DaemonEndsType DEF fuse_kern_unmount, DaemonPcs
  <2>2. up' \in [Unmounters -> UnmountPcs]
    BY <1>1, <1>8, <2>0, UpTypes DEF fuse_kern_unmount, UnmountPcs
  <2>3. mounts' \in [Points -> Seq(MountNames)]
    BY <1>1, <1>8, <2>0, PopMounts DEF fuse_kern_unmount
  <2>4. mtab' \in [Points -> Seq(Uids)]
    BY <1>1, <1>8, <2>0, RemoveLine DEF fuse_kern_unmount
  <2> QED BY <1>1, <1>2, <1>8, <2>1, <2>2, <2>3, <2>4 DEF fuse_kern_unmount
<1>9. ASSUME NEW d \in Daemons, DaemonDies(d) PROVE MountType'
  <2>1. dm' \in [Daemons -> DaemonType] /\ sock' \in [Daemons -> SockType]
    BY <1>9, DaemonEndsType DEF DaemonDies, DaemonPcs
  <2> QED BY <1>1, <1>2, <1>9, <2>1 DEF DaemonDies
<1> QED BY <1>3, <1>4, <1>5, <1>6, <1>7, <1>8, <1>9 DEF MountNext

-----------------------------------------------------------------------------
(* A step of the unmounting process p that is not idle. *)
LEMMA PhasesUp ==
  ASSUME MountType, Phases, NEW p \in Unmounters, NEW pc \in UnmountPcs,
         up[p] # "idle", up' = [up EXCEPT ![p] = pc], UNCHANGED <<who, dm, hp, sock>>
  PROVE  Phases'
<1>1. \A q \in Unmounters : up[q] = "idle" => up'[q] = "idle"
  BY DEF MountType
<1> SUFFICES ASSUME NEW d \in Daemons PROVE Phase(d)'
  BY DEF Phases
<1>2. Phase(d) /\ <<"auto", d>> \in Unmounters /\ <<"exit", d>> \in Unmounters
  BY Places DEF Phases
<1> QED BY <1>1, <1>2 DEF Phase

(* Whose unmounting is whose. *)
LEMMA UnmounterNames ==
  ASSUME NEW d, NEW e
  PROVE  /\ <<"auto", d>> # <<"exit", e>> /\ <<"auto", d>> # <<"cmd", e>> /\ <<"exit", d>> # <<"cmd", e>>
         /\ d # e => <<"auto", d>> # <<"auto", e>> /\ <<"exit", d>> # <<"exit", e>>
OBVIOUS

(* The phases of the other daemons stay when only d, its helper and its    *)
(* unmounting processes move.                                              *)
LEMMA PhaseOther ==
  ASSUME MountType, Phases, NEW d \in Daemons, who' = who, Phase(d)',
         \A e \in Daemons : e # d =>
           /\ dm'[e] = dm[e] /\ hp'[e] = hp[e] /\ sock'[e] = sock[e]
           /\ up'[<<"auto", e>>] = up[<<"auto", e>>] /\ up'[<<"exit", e>>] = up[<<"exit", e>>]
  PROVE  Phases'
<1> SUFFICES ASSUME NEW e \in Daemons PROVE Phase(e)'
  BY DEF Phases
<1>1. CASE e = d
  BY <1>1
<1>2. CASE e # d
  BY <1>2 DEF Phases, Phase
<1> QED BY <1>1, <1>2

(* The others are not touched by the steps of d and its helper. *)
LEMMA OthersKept ==
  ASSUME MountType, NEW d \in Daemons,
         \/ fuse_kern_mount(d) \/ DaemonStep(d) \/ HelperStep(d)
         \/ fuse_kern_unmount(d) \/ DaemonDies(d)
  PROVE  \A e \in Daemons : e # d =>
           /\ dm'[e] = dm[e] /\ hp'[e] = hp[e] /\ sock'[e] = sock[e]
           /\ up'[<<"auto", e>>] = up[<<"auto", e>>] /\ up'[<<"exit", e>>] = up[<<"exit", e>>]
<1>1. /\ dm \in [Daemons -> DaemonType] /\ hp \in [Daemons -> HelperType]
      /\ sock \in [Daemons -> SockType] /\ up \in [Unmounters -> UnmountPcs]
  BY DEF MountType
<1> SUFFICES ASSUME NEW e \in Daemons, e # d
             PROVE  /\ dm'[e] = dm[e] /\ hp'[e] = hp[e] /\ sock'[e] = sock[e]
                    /\ up'[<<"auto", e>>] = up[<<"auto", e>>] /\ up'[<<"exit", e>>] = up[<<"exit", e>>]
  OBVIOUS
<1>2. CASE fuse_kern_mount(d)
  BY <1>1, <1>2 DEF fuse_kern_mount, fuse_mount_fusermount
<1>3. CASE DaemonStep(d)
  BY <1>1, <1>3 DEF DaemonStep, fuse_mount_sys, SysAdd, SysAddFails, receive_fd, Unmounted,
    DaemonEnds, fuse_mount_fusermount
<1>4. CASE mount_fuse(d) \/ do_mount(d) \/ add_mount(d)
  BY <1>1, <1>4 DEF mount_fuse, do_mount, add_mount, HelperTo, HelperExit
<1>5. CASE send_fd(d)
  BY <1>1, <1>5 DEF send_fd, HelperTo, HelperExit
<1>6. CASE WaitForDaemon(d)
  <2>1. up' = [up EXCEPT ![<<"auto", d>>] = "lock"] /\ hp' = [hp EXCEPT ![d].pc = "ended"]
        /\ UNCHANGED <<dm, sock>>
    BY <1>6 DEF WaitForDaemon, HelperTo
  <2>2. up'[<<"auto", e>>] = up[<<"auto", e>>] /\ up'[<<"exit", e>>] = up[<<"exit", e>>]
    BY <1>1, <2>1, UnmounterNames, Places
  <2> QED BY <1>1, <2>1, <2>2
<1>7. CASE fuse_kern_unmount(d)
  <2>1. up' = up \/ up' = [up EXCEPT ![<<"exit", d>>] = "lock"]
    BY <1>7 DEF fuse_kern_unmount
  <2>2. up'[<<"auto", e>>] = up[<<"auto", e>>] /\ up'[<<"exit", e>>] = up[<<"exit", e>>]
    BY <1>1, <2>1, UnmounterNames, Places
  <2>3. dm'[e] = dm[e] /\ hp'[e] = hp[e] /\ sock'[e] = sock[e]
    BY <1>1, <1>7 DEF fuse_kern_unmount, DaemonEnds
  <2> QED BY <2>2, <2>3
<1>8. CASE DaemonDies(d)
  BY <1>1, <1>8 DEF DaemonDies, DaemonEnds
<1> QED BY <1>2, <1>3, <1>4, <1>5, <1>6, <1>7, <1>8 DEF HelperStep

LEMMA PhasesStep == MountType /\ Phases /\ MountNext => Phases'
<1> SUFFICES ASSUME MountType, Phases, MountNext PROVE Phases'
  OBVIOUS
<1>1. /\ dm \in [Daemons -> DaemonType] /\ hp \in [Daemons -> HelperType]
      /\ sock \in [Daemons -> SockType] /\ up \in [Unmounters -> UnmountPcs]
  BY DEF MountType
<1>2. who' = who
  BY Fixed
<1>3. ASSUME NEW p \in Unmounters, UnmountStep(p) PROVE Phases'
  <2>1. PICK pc \in UnmountPcs : up[p] # "idle" /\ up' = [up EXCEPT ![p] = pc]
    BY <1>3 DEF UnmountStep, lock_umount, may_unmount, unmount_fuse_locked, remove_mount,
         unlock_umount, UpTo, UnmountPcs
  <2>2. UNCHANGED <<who, dm, hp, sock>>
    BY <1>3 DEF UnmountStep, lock_umount, may_unmount, unmount_fuse_locked, remove_mount, unlock_umount
  <2> QED BY <2>1, <2>2, PhasesUp
<1>4. ASSUME NEW c \in Commands, Command(c) PROVE Phases'
  <2>1. up' = [up EXCEPT ![<<"cmd", c>>] = "lock"] /\ UNCHANGED <<who, dm, hp, sock>>
    BY <1>4 DEF Command, UpTo
  <2> SUFFICES ASSUME NEW d \in Daemons PROVE Phase(d)'
    BY DEF Phases
  <2>2. up'[<<"auto", d>>] = up[<<"auto", d>>] /\ up'[<<"exit", d>>] = up[<<"exit", d>>]
    BY <1>1, <2>1, UnmounterNames, Places
  <2> QED BY <2>1, <2>2 DEF Phases, Phase
<1>5. ASSUME NEW d \in Daemons,
             \/ fuse_kern_mount(d) \/ DaemonStep(d) \/ HelperStep(d)
             \/ fuse_kern_unmount(d) \/ DaemonDies(d)
      PROVE  \A e \in Daemons : e # d =>
               /\ dm'[e] = dm[e] /\ hp'[e] = hp[e] /\ sock'[e] = sock[e]
               /\ up'[<<"auto", e>>] = up[<<"auto", e>>] /\ up'[<<"exit", e>>] = up[<<"exit", e>>]
  BY <1>5, OthersKept
<1>6. ASSUME NEW d \in Daemons, HelperStep(d) PROVE Phases'
  <2>1. Phase(d) /\ dm[d] \in DaemonType /\ hp[d] \in HelperType /\ sock[d] \in SockType
        /\ <<"auto", d>> \in Unmounters /\ <<"exit", d>> \in Unmounters
    BY <1>1, Places DEF Phases
  <2>2. dm'[d] = dm[d]
    BY <1>6 DEF HelperStep, mount_fuse, do_mount, add_mount, send_fd, WaitForDaemon
  <2>3. hp[d].pc # "ended" /\ hp'[d].attempt = hp[d].attempt
    BY <1>1, <1>6 DEF HelperStep, mount_fuse, do_mount, add_mount, send_fd, WaitForDaemon,
      HelperTo, HelperExit, HelperType
  <2>4. dm[d].pc \notin {"start", "sys", "sys_add", "failed"}
    BY <2>1, <2>3 DEF Phase
  <2>5. Phase(d)'
    <3>1. CASE WaitForDaemon(d)
      <4>1. hp'[d].pc = "ended" /\ sock[d].one = {} /\ UNCHANGED <<dm, sock>>
            /\ up' = [up EXCEPT ![<<"auto", d>>] = "lock"]
        BY <1>1, <3>1 DEF WaitForDaemon, HelperTo, HelperType
      <4>2. up'[<<"exit", d>>] = up[<<"exit", d>>]
        BY <1>1, <2>1, <4>1, UnmounterNames
      <4>3. dm[d].pc # "receive"
        BY <2>1, <4>1 DEF Phase
      <4> QED BY <1>2, <2>1, <2>3, <2>4, <4>1, <4>2, <4>3 DEF Phase
    <3>2. CASE mount_fuse(d) \/ do_mount(d) \/ add_mount(d) \/ send_fd(d)
      <4>1. UNCHANGED up
        BY <3>2 DEF mount_fuse, do_mount, add_mount, send_fd
      <4>2. /\ hp'[d].pc # "ended" => sock'[d].zero = sock[d].zero
            /\ "daemon" \in sock[d].one => "daemon" \in sock'[d].one
        BY <1>1, <3>2 DEF mount_fuse, do_mount, add_mount, send_fd, HelperTo, HelperExit,
          HelperType, SockType
      <4> QED BY <1>2, <2>1, <2>2, <2>3, <2>4, <4>1, <4>2 DEF Phase
    <3> QED BY <1>6, <3>1, <3>2 DEF HelperStep
  <2> QED BY <1>2, <1>5, <1>6, <2>5, PhaseOther
\* A helper is started: nothing of an earlier one is left.
<1>7. ASSUME NEW d \in Daemons, NEW auto, NEW tries, fuse_mount_fusermount(d, auto, tries),
             dm[d].pc \in {"start", "receive"}, UNCHANGED up
      PROVE  Phase(d)'
  <2>1. /\ dm'[d].pc = "receive" /\ hp'[d].pc = "start" /\ hp'[d].attempt = hp[d].attempt + 1
        /\ sock'[d].zero = {"helper"} /\ sock'[d].one = {"daemon"} /\ hp[d].attempt \in Nat
    BY <1>1, <1>7 DEF fuse_mount_fusermount, DaemonType, HelperType
  <2>2. Phase(d)
    BY DEF Phases
  <2>3. dm[d].pc \in {"start", "receive"} /\ up' = up
    BY <1>7
  <2> QED BY <1>2, <2>1, <2>2, <2>3 DEF Phase
<1>8. ASSUME NEW d \in Daemons, fuse_kern_mount(d) PROVE Phases'
  <2>1. CASE who[d].uid = 0 /\ dm' = [dm EXCEPT ![d].pc = "sys"] /\ UNCHANGED <<hp, sock>>
    <3>1. dm'[d].pc = "sys" /\ dm[d].pc = "start" /\ UNCHANGED up
      BY <1>1, <1>8, <2>1 DEF fuse_kern_mount, DaemonType
    <3>2. Phase(d)'
      BY <1>2, <2>1, <3>1 DEF Phases, Phase
    <3> QED BY <1>2, <1>5, <1>8, <3>2, PhaseOther
  <2>2. ASSUME fuse_mount_fusermount(d, who[d].auto, IF who[d].subtype THEN 2 ELSE 1)
        PROVE  Phases'
    <3>1. dm[d].pc = "start" /\ UNCHANGED up
      BY <1>8 DEF fuse_kern_mount
    <3>2. Phase(d)'
      BY <1>7, <2>2, <3>1
    <3> QED BY <1>2, <1>5, <1>8, <3>2, PhaseOther
  <2> QED BY <1>8, <2>1, <2>2 DEF fuse_kern_mount
\* A daemon comes to its end, or dies.
<1>9. ASSUME NEW d \in Daemons, NEW pc \in {"ended", "failed"}, DaemonEnds(d, pc),
             UNCHANGED <<hp, up>>, pc = "failed" => hp[d].pc = "ended" /\ sock[d].msg = NoMount
      PROVE  Phase(d)'
  <2>1. /\ dm'[d].pc = pc /\ sock'[d].zero = sock[d].zero \ {"daemon"}
        /\ sock'[d].msg = sock[d].msg
    BY <1>1, <1>9 DEF DaemonEnds, DaemonType, SockType
  <2>2. "helper" \in sock[d].zero => "helper" \in sock'[d].zero
    BY <2>1
  <2> QED BY <1>2, <1>9, <2>1, <2>2 DEF Phases, Phase
<1>10. ASSUME NEW d \in Daemons, DaemonStep(d) PROVE Phases'
  <2>0. Phase(d) /\ dm[d] \in DaemonType /\ hp[d] \in HelperType /\ sock[d] \in SockType
    BY <1>1 DEF Phases
  <2>1. CASE fuse_mount_sys(d)
    <3>1. dm[d].pc = "sys" /\ UNCHANGED <<hp, up>>
      BY <2>1 DEF fuse_mount_sys
    <3>2. CASE dm' = [dm EXCEPT ![d].pc = "sys_add"] /\ UNCHANGED sock
      <4>1. dm'[d].pc = "sys_add"
        BY <1>1, <3>2 DEF DaemonType
      <4>2. Phase(d)'
        BY <1>2, <2>0, <3>1, <3>2, <4>1 DEF Phase
      <4> QED BY <1>2, <1>5, <1>10, <4>2, PhaseOther
    <3>3. CASE DaemonEnds(d, "failed")
      <4>1. hp[d].pc = "ended" /\ sock[d].msg = NoMount
        BY <2>0, <3>1 DEF Phase
      <4>2. Phase(d)'
        BY <1>9, <3>1, <3>3, <4>1
      <4> QED BY <1>2, <1>5, <1>10, <4>2, PhaseOther
    <3> QED BY <2>1, <3>2, <3>3 DEF fuse_mount_sys
  <2>2. CASE SysAdd(d)
    <3>1. dm[d].pc = "sys_add" /\ UNCHANGED <<hp, up>>
      BY <2>2 DEF SysAdd
    <3>2. CASE dm' = [dm EXCEPT ![d].pc = "serving", ![d].fd = <<d, 1>>] /\ UNCHANGED sock
      <4>1. dm'[d].pc = "serving"
        BY <1>1, <3>2 DEF DaemonType
      <4>2. Phase(d)'
        BY <1>2, <2>0, <3>1, <3>2, <4>1 DEF Phase
      <4> QED BY <1>2, <1>5, <1>10, <4>2, PhaseOther
    <3>3. CASE DaemonEnds(d, "failed")
      <4>1. hp[d].pc = "ended" /\ sock[d].msg = NoMount
        BY <2>0, <3>1 DEF Phase
      <4>2. Phase(d)'
        BY <1>9, <3>1, <3>3, <4>1
      <4> QED BY <1>2, <1>5, <1>10, <4>2, PhaseOther
    <3> QED BY <2>2, <3>2, <3>3 DEF SysAdd, SysAddFails
  <2>3. CASE receive_fd(d)
    <3>1. dm[d].pc = "receive" /\ UNCHANGED up
      BY <2>3 DEF receive_fd
    <3>2. CASE /\ dm' = [dm EXCEPT ![d].pc = "serving", ![d].fd = sock[d].msg]
               /\ sock' = [sock EXCEPT ![d].msg = NoMount, ![d].one = IF dm[d].auto THEN @ ELSE {}]
               /\ UNCHANGED hp
      <4>1. dm'[d].pc = "serving" /\ sock'[d].zero = sock[d].zero
        BY <1>1, <3>2 DEF DaemonType, SockType
      <4>2. Phase(d)'
        BY <1>2, <2>0, <3>1, <3>2, <4>1 DEF Phase
      <4> QED BY <1>2, <1>5, <1>10, <4>2, PhaseOther
    <3>3. CASE fuse_mount_fusermount(d, dm[d].auto, 1)
      <4>1. Phase(d)'
        BY <1>7, <3>1, <3>3
      <4> QED BY <1>2, <1>5, <1>10, <4>1, PhaseOther
    <3>4. CASE sock[d].msg = NoMount /\ sock[d].zero = {} /\ DaemonEnds(d, "failed") /\ UNCHANGED hp
      <4>1. hp[d].pc = "ended"
        BY <2>0, <3>4 DEF Phase
      <4>2. Phase(d)'
        BY <1>9, <3>1, <3>4, <4>1
      <4> QED BY <1>2, <1>5, <1>10, <4>2, PhaseOther
    <3> QED BY <2>3, <3>2, <3>3, <3>4 DEF receive_fd
  <2>4. CASE Unmounted(d)
    <3>1. Phase(d)'
      BY <1>9, <2>4 DEF Unmounted
    <3> QED BY <1>2, <1>5, <1>10, <3>1, PhaseOther
  <2> QED BY <1>10, <2>1, <2>2, <2>3, <2>4 DEF DaemonStep
<1>11. ASSUME NEW d \in Daemons, fuse_kern_unmount(d) PROVE Phases'
  <2>1. CASE DaemonEnds(d, "ended") /\ UNCHANGED up
    <3>1. Phase(d)'
      BY <1>9, <1>11, <2>1 DEF fuse_kern_unmount
    <3> QED BY <1>2, <1>5, <1>11, <3>1, PhaseOther
  <2>2. CASE /\ dm' = [dm EXCEPT ![d].pc = "unmounting"]
             /\ up' = [up EXCEPT ![<<"exit", d>>] = "lock"] /\ UNCHANGED sock
    <3>1. dm'[d].pc = "unmounting" /\ UNCHANGED hp /\ dm[d].pc = "serving"
      BY <1>1, <1>11, <2>2 DEF DaemonType, fuse_kern_unmount
    <3>2. up'[<<"auto", d>>] = up[<<"auto", d>>]
      BY <1>1, <2>2, UnmounterNames, Places
    <3>3. Phase(d)'
      BY <1>2, <2>2, <3>1, <3>2 DEF Phases, Phase
    <3> QED BY <1>2, <1>5, <1>11, <3>3, PhaseOther
  <2> QED BY <1>11, <2>1, <2>2 DEF fuse_kern_unmount
<1>12. ASSUME NEW d \in Daemons, DaemonDies(d) PROVE Phases'
  <2>1. Phase(d)'
    BY <1>9, <1>12 DEF DaemonDies
  <2> QED BY <1>2, <1>5, <1>12, <2>1, PhaseOther
<1> QED BY <1>3, <1>4, <1>6, <1>8, <1>10, <1>11, <1>12 DEF MountNext

-----------------------------------------------------------------------------
(* A step that takes or gives back no lock and removes no line of a user. *)
LEMMA LocksKept ==
  ASSUME MountType, Locked, LineSeen, MountNext, mtabLock' = mtabLock, unlocked' = unlocked,
         \A p \in Unmounters : up'[p] \in Held => up'[p] = up[p],
         \A m \in Points : ~RootAt(m) /\ mtab[m] # << >> => mtab'[m] # << >>
  PROVE  Locked' /\ LineSeen'
<1>1. /\ mtabFile' = mtabFile /\ \A p : Setting(p)' = Setting(p)
      /\ \A m : RootAt(m)' = RootAt(m)
  BY Fixed
<1>2. \A p \in Unmounters : Setting(p).mnt \in Points
  BY Places
<1>3. Locked'
  BY <1>1 DEF Locked, Careful
<1>4. LineSeen'
  <2> SUFFICES ASSUME mtabFile, NEW p \in Unmounters, up'[p] \in {"umount", "remove"},
                      Careful(p), ~RootAt(Setting(p).mnt)
               PROVE  mtab'[Setting(p).mnt] # << >>
    BY <1>1 DEF LineSeen, Careful
  <2>1. up[p] \in {"umount", "remove"}
    BY DEF Held
  <2> QED BY <1>2, <2>1 DEF LineSeen
<1> QED BY <1>3, <1>4

(* An unmounting process has the lock to itself. *)
LEMMA OneHolder ==
  ASSUME Locked, mtabFile, NEW p \in Unmounters, NEW q \in Unmounters,
         up[p] \in Held, up[q] \in Held, Careful(p), Careful(q)
  PROVE  p = q
BY DEF Locked

LEMMA LocksStep == MountType /\ Locked /\ LineSeen /\ MountNext => Locked' /\ LineSeen'
<1> SUFFICES ASSUME MountType, Locked, LineSeen, MountNext PROVE Locked' /\ LineSeen'
  OBVIOUS
<1>1. up \in [Unmounters -> UnmountPcs] /\ mtab \in [Points -> Seq(Uids)]
  BY DEF MountType
<1>2. /\ mtabFile' = mtabFile /\ \A p : Setting(p)' = Setting(p)
      /\ \A m : RootAt(m)' = RootAt(m)
  BY Fixed
<1>3. ASSUME NEW p \in Unmounters, UnmountStep(p) PROVE Locked' /\ LineSeen'
  <2>0. Setting(p).mnt \in Points
    BY Places
  <2>1. CASE lock_umount(p)
    <3>1. up' = [up EXCEPT ![p] = "check"] /\ mtab' = mtab
      BY <2>1 DEF lock_umount, UpTo
    <3>2. mtabFile => \/ mtabLock = NoOne /\ mtabLock' = p /\ unlocked' = unlocked
                      \/ mtabLock' = mtabLock /\ unlocked' = unlocked \union {Setting(p).mnt}
      BY <2>1 DEF lock_umount
    <3>3. NoOne \notin Unmounters
      BY DEF NoOne, Unmounters
    <3>4. \A q \in Unmounters \ {p} : up'[q] = up[q]
      BY <1>1, <3>1
    <3>5. up'[p] = "check"
      BY <1>1, <3>1
    <3>6. CASE mtabLock = NoOne /\ mtabLock' = p /\ unlocked' = unlocked
      <4>1. mtabFile => \A q \in Unmounters : up[q] \in Held => ~Careful(q)
        BY <3>3, <3>6 DEF Locked
      <4>2. \A q \in Unmounters : Careful(q)' = Careful(q)
        BY <1>2, <3>6 DEF Careful
      <4>3. Locked'
        BY <1>2, <3>4, <3>6, <4>1, <4>2 DEF Locked
      <4>4. LineSeen'
        BY <1>2, <3>4, <3>5, <4>1, <4>2 DEF LineSeen, Held
      <4> QED BY <4>3, <4>4
    <3>7. CASE mtabLock' = mtabLock /\ unlocked' = unlocked \union {Setting(p).mnt}
      <4>1. \A q \in Unmounters : Careful(q)' => Careful(q) /\ q # p
        BY <1>2, <3>7 DEF Careful
      <4>2. Locked'
        BY <1>2, <3>4, <3>7, <4>1 DEF Locked
      <4>3. LineSeen'
        BY <1>2, <3>1, <3>4, <4>1 DEF LineSeen
      <4> QED BY <4>2, <4>3
    <3> QED BY <1>2, <3>2, <3>6, <3>7 DEF Locked, LineSeen
  <2>2. CASE may_unmount(p)
    <3> DEFINE to == IF Setting(p).uid = 0 \/ Setting(p).uid \in ToSet(Lines(Setting(p).mnt))
                     THEN "umount" ELSE "unlock"
    <3>1. up[p] = "check" /\ up' = [up EXCEPT ![p] = to] /\ mtab' = mtab /\ mtabLock' = mtabLock
          /\ unlocked' = unlocked
      BY <2>2 DEF may_unmount, UpTo
    <3>2. up'[p] = to /\ \A q \in Unmounters \ {p} : up'[q] = up[q]
      BY <1>1, <3>1
    <3>3. Locked'
      BY <1>2, <3>1, <3>2 DEF Locked, Careful, Held
    <3>4. mtabFile /\ to = "umount" /\ ~RootAt(Setting(p).mnt) => mtab[Setting(p).mnt] # << >>
      <4>1. p[2] \in DOMAIN who
        BY DEF MountType, Unmounters
      <4>2. Setting(p).uid = 0 => RootAt(Setting(p).mnt)
        BY <4>1 DEF RootAt, Setting
      <4>3. mtabFile /\ Setting(p).uid \in ToSet(Lines(Setting(p).mnt)) => mtab[Setting(p).mnt] # << >>
        BY <1>1, <2>0 DEF Lines, ToSet
      <4> QED BY <4>2, <4>3
    <3> HIDE DEF to
    <3>5. LineSeen'
      BY <1>2, <3>1, <3>2, <3>4, <2>0 DEF LineSeen, Careful, to
    <3> QED BY <3>3, <3>5
  <2>3. CASE unmount_fuse_locked(p)
    <3>1. PICK to \in {"remove", "unlock"} : up[p] = "umount" /\ up' = [up EXCEPT ![p] = to]
      BY <2>3 DEF unmount_fuse_locked, UpTo
    <3>2. up'[p] = to /\ (\A q \in Unmounters \ {p} : up'[q] = up[q]) /\ mtab' = mtab /\ mtabLock' = mtabLock
          /\ unlocked' = unlocked
      BY <1>1, <2>3, <3>1 DEF unmount_fuse_locked
    <3> QED BY <1>2, <3>1, <3>2 DEF Locked, LineSeen, Careful, Held
  <2>4. CASE remove_mount(p)
    <3>1. up[p] = "remove" /\ up' = [up EXCEPT ![p] = "unlock"] /\ mtabLock' = mtabLock
          /\ unlocked' = unlocked
      BY <2>4 DEF remove_mount, UpTo
    <3>2. up'[p] = "unlock" /\ \A q \in Unmounters \ {p} : up'[q] = up[q]
      BY <1>1, <3>1
    <3>3. Locked'
      BY <1>2, <3>1, <3>2 DEF Locked, Careful, Held
    <3>4. ASSUME mtabFile, NEW q \in Unmounters \ {p}, up[q] \in {"umount", "remove"}, Careful(q),
                 ~RootAt(Setting(q).mnt)
          PROVE  mtab'[Setting(q).mnt] # << >>
      <4>1. mtab[Setting(q).mnt] # << >> /\ Setting(q).mnt \in Points
        BY <3>4, Places DEF LineSeen
      <4>2. Setting(q).mnt # Setting(p).mnt
        BY <3>1, <3>4, OneHolder DEF Held, Careful
      <4>3. mtab' = mtab \/ fuse_mnt_remove_mount(Setting(p).mnt)
        BY <2>4 DEF remove_mount
      <4> QED BY <2>0, <4>1, <4>2, <4>3, RemoveLine
    <3>5. LineSeen'
      BY <1>2, <3>1, <3>2, <3>4 DEF LineSeen, Careful
    <3> QED BY <3>3, <3>5
  <2>5. CASE unlock_umount(p)
    <3>1. up[p] = "unlock" /\ up' = [up EXCEPT ![p] = "ended"] /\ mtab' = mtab /\ unlocked' = unlocked
          /\ (mtabLock' = mtabLock \/ mtabLock = p)
      BY <2>5 DEF unlock_umount, UpTo
    <3>2. up'[p] = "ended" /\ \A q \in Unmounters \ {p} : up'[q] = up[q]
      BY <1>1, <3>1
    <3>3. Locked' /\ LineSeen'
      BY <1>2, <3>1, <3>2 DEF LineSeen, Locked, Careful, Held
    <3> QED BY <3>3
  <2> QED BY <1>3, <2>1, <2>2, <2>3, <2>4, <2>5 DEF UnmountStep
<1>4. ASSUME NEW c \in Commands, Command(c) PROVE Locked' /\ LineSeen'
  <2>1. up' = [up EXCEPT ![<<"cmd", c>>] = "lock"] /\ mtabLock' = mtabLock /\ mtab' = mtab
        /\ unlocked' = unlocked
    BY <1>4 DEF Command, UpTo
  <2>2. \A p \in Unmounters : up'[p] \in Held => up'[p] = up[p]
    BY <1>1, <2>1 DEF Held
  <2> QED BY <2>1, <2>2, LocksKept
<1>5. ASSUME NEW d \in Daemons,
             \/ fuse_kern_mount(d) \/ DaemonStep(d) \/ HelperStep(d)
             \/ fuse_kern_unmount(d) \/ DaemonDies(d)
      PROVE  Locked' /\ LineSeen'
  <2>0. Mnt(d) \in Points /\ who[d].uid \in Uids /\ 0 \in Uids
    BY Places
  <2>1. mtabLock' = mtabLock
    BY <1>5 DEF fuse_kern_mount, DaemonStep, HelperStep, fuse_kern_unmount, DaemonDies,
         fuse_mount_sys, SysAdd, receive_fd, Unmounted,
         mount_fuse, do_mount, add_mount, send_fd, WaitForDaemon
  <2>2. \/ up' = up \/ up' = [up EXCEPT ![<<"auto", d>>] = "lock"]
        \/ up' = [up EXCEPT ![<<"exit", d>>] = "lock"]
    BY <1>5 DEF fuse_kern_mount, DaemonStep, HelperStep, fuse_kern_unmount, DaemonDies,
         fuse_mount_sys, SysAdd, receive_fd, Unmounted,
         mount_fuse, do_mount, add_mount, send_fd, WaitForDaemon
  <2>3. \A p \in Unmounters : up'[p] \in Held => up'[p] = up[p]
    BY <1>1, <2>2 DEF Held
  <2>4. \/ mtab' = mtab \/ fuse_mnt_add_mount(Mnt(d), who[d].uid) \/ fuse_mnt_add_mount(Mnt(d), 0)
        \/ who[d].uid = 0 /\ fuse_mnt_remove_mount(Mnt(d))
    BY <1>5 DEF fuse_kern_mount, DaemonStep, HelperStep, fuse_kern_unmount, DaemonDies,
         fuse_mount_sys, SysAdd, SysAddFails, receive_fd, Unmounted,
         mount_fuse, do_mount, add_mount, send_fd, WaitForDaemon
  <2>5. \A m \in Points : ~RootAt(m) /\ mtab[m] # << >> => mtab'[m] # << >>
    <3>1. CASE mtab' = mtab
      BY <3>1
    <3>2. CASE fuse_mnt_add_mount(Mnt(d), who[d].uid) \/ fuse_mnt_add_mount(Mnt(d), 0)
      BY <2>0, <3>2, AddLine
    <3>3. CASE who[d].uid = 0 /\ fuse_mnt_remove_mount(Mnt(d))
      <4>1. RootAt(Mnt(d))
        BY <3>3 DEF RootAt, Mnt, MountType
      <4>2. \A m \in Points : m # Mnt(d) => mtab'[m] = mtab[m]
        BY <2>0, <3>3, RemoveLine
      <4> QED BY <4>1, <4>2
    <3> QED BY <2>4, <3>1, <3>2, <3>3
  <2> QED BY <1>5, <2>1, <2>3, <2>5, DaemonsSlipNot, LocksKept
<1> QED BY <1>3, <1>4, <1>5 DEF MountNext

-----------------------------------------------------------------------------
(* A helper that is running has not given up its mount. *)
LEMMA Running ==
  ASSUME MountType, GivenUp, NEW d \in Daemons, hp[d].pc # "ended"
  PROVE  \A x \in unlisted : x[1] = d => x[2] < hp[d].attempt
<1>1. hp[d].attempt \in Nat /\ \A x \in unlisted : x[2] \in Nat
  BY DEF MountType, HelperType, MountNames
<1> QED BY <1>1 DEF GivenUp

(* The attempts of the helper of d in a step of d or its helper. *)
LEMMA Attempts ==
  ASSUME MountType, NEW d \in Daemons,
         \/ fuse_kern_mount(d) \/ DaemonStep(d) \/ HelperStep(d)
         \/ fuse_kern_unmount(d) \/ DaemonDies(d)
  PROVE  \/ hp'[d] = hp[d] /\ unlisted' = unlisted
         \/ hp'[d].attempt = hp[d].attempt + 1 /\ unlisted' = unlisted
         \/ /\ hp[d].pc # "ended" /\ hp'[d].attempt = hp[d].attempt
            /\ \/ unlisted' = unlisted
               \/ unlisted' = unlisted \union {<<d, hp[d].attempt>>} /\ hp'[d].pc = "ended"
<1>1. hp \in [Daemons -> HelperType]
  BY DEF MountType
<1>2. CASE fuse_kern_mount(d)
  <2>1. CASE hp' = hp
    BY <1>2, <2>1 DEF fuse_kern_mount
  <2>2. CASE hp' # hp
    <3>1. hp' = [hp EXCEPT ![d] = [pc |-> "start", attempt |-> hp[d].attempt + 1]]
      BY <1>2, <2>2 DEF fuse_kern_mount, fuse_mount_fusermount
    <3> QED BY <1>1, <1>2, <3>1 DEF fuse_kern_mount
  <2> QED BY <2>1, <2>2
<1>3. CASE DaemonStep(d)
  BY <1>1, <1>3 DEF DaemonStep, fuse_mount_sys, SysAdd, receive_fd, Unmounted, fuse_mount_fusermount
<1>4. CASE HelperStep(d)
  <2>1. ASSUME NEW from, NEW to, HelperTo(d, from, to)
        PROVE  hp[d].pc = from /\ hp'[d].attempt = hp[d].attempt /\ hp'[d].pc = to
    BY <1>1, <2>1 DEF HelperTo, HelperType
  <2>2. CASE mount_fuse(d)
    BY <2>1, <2>2 DEF mount_fuse, HelperExit
  <2>3. CASE do_mount(d)
    BY <2>1, <2>3 DEF do_mount, HelperExit
  <2>4. CASE add_mount(d)
    <3>1. CASE HelperTo(d, "add", "send") /\ UNCHANGED unlisted
      BY <2>1, <3>1
    <3>2. CASE HelperExit(d, "add") /\ unlisted' = unlisted \union {<<d, hp[d].attempt>>}
      BY <2>1, <3>2 DEF HelperExit
    <3> QED BY <2>4, <3>1, <3>2 DEF add_mount
  <2>5. CASE send_fd(d)
    BY <2>1, <2>5 DEF send_fd, HelperExit
  <2>6. CASE WaitForDaemon(d)
    BY <2>1, <2>6 DEF WaitForDaemon, HelperExit
  <2> QED BY <1>4, <2>2, <2>3, <2>4, <2>5, <2>6 DEF HelperStep
<1>5. CASE fuse_kern_unmount(d) \/ DaemonDies(d)
  BY <1>5 DEF fuse_kern_unmount, DaemonDies
<1> QED BY <1>2, <1>3, <1>4, <1>5

LEMMA GivenUpStep == MountType /\ GivenUp /\ MountNext => GivenUp'
<1> SUFFICES ASSUME MountType, GivenUp, MountNext PROVE GivenUp'
  OBVIOUS
<1>1. CASE (\E p \in Unmounters : UnmountStep(p)) \/ \E c \in Commands : Command(c)
  <2>1. hp' = hp /\ unlisted' = unlisted
    BY <1>1 DEF UnmountStep, lock_umount, may_unmount, unmount_fuse_locked, remove_mount,
      unlock_umount, Command
  <2> QED BY <2>1 DEF GivenUp
<1>2. ASSUME NEW d \in Daemons,
             \/ fuse_kern_mount(d) \/ DaemonStep(d) \/ HelperStep(d)
             \/ fuse_kern_unmount(d) \/ DaemonDies(d)
      PROVE  GivenUp'
  <2>1. \A e \in Daemons : e # d => hp'[e] = hp[e]
    BY <1>2, OthersKept
  <2>2. \A x \in unlisted : x[1] \in Daemons /\ x[2] \in Nat
    BY DEF MountType, MountNames
  <2>3. hp[d].attempt \in Nat
    BY DEF MountType, HelperType
  <2>4. CASE hp'[d] = hp[d] /\ unlisted' = unlisted
    BY <2>1, <2>2, <2>4 DEF GivenUp
  <2>5. CASE hp'[d].attempt = hp[d].attempt + 1 /\ unlisted' = unlisted
    BY <2>1, <2>2, <2>3, <2>5 DEF GivenUp
  <2>6. CASE /\ hp[d].pc # "ended" /\ hp'[d].attempt = hp[d].attempt
             /\ \/ unlisted' = unlisted
                \/ unlisted' = unlisted \union {<<d, hp[d].attempt>>} /\ hp'[d].pc = "ended"
    <3>1. \A x \in unlisted : x[1] = d => x[2] < hp[d].attempt
      BY <2>6, Running
    <3> SUFFICES ASSUME NEW x \in unlisted'
                 PROVE  x[2] <= hp'[x[1]].attempt /\ (x[2] = hp'[x[1]].attempt => hp'[x[1]].pc = "ended")
      BY DEF GivenUp
    <3>2. CASE x \in unlisted
      BY <2>1, <2>2, <2>3, <2>6, <3>1, <3>2 DEF GivenUp
    <3>3. CASE x \notin unlisted
      <4>1. x = <<d, hp[d].attempt>> /\ hp'[d].pc = "ended"
        BY <2>6, <3>3
      <4>2. x[1] = d /\ x[2] = hp[d].attempt
        BY <4>1
      <4> QED BY <2>3, <2>6, <4>1, <4>2
    <3> QED BY <3>2, <3>3
  <2> QED BY <1>2, <2>4, <2>5, <2>6, Attempts
<1> QED BY <1>1, <1>2 DEF MountNext

-----------------------------------------------------------------------------
(* Counting the mounts that are between their two steps. *)
LEMMA Countable ==
  ASSUME MountType, NEW m
  PROVE  /\ IsFiniteSet(Removing(m)) /\ IsFiniteSet(Adding(m)) /\ IsFiniteSet(Forgotten(m))
         /\ Cardinality(Removing(m)) \in Nat /\ Cardinality(Adding(m)) \in Nat
         /\ Cardinality(Forgotten(m)) \in Nat
<1>1. IsFiniteSet(Unmounters)
  <2>1. IsFiniteSet({"auto", "exit"}) /\ IsFiniteSet({"cmd"})
    <3>1. {"auto", "exit"} = {"auto"} \union {"exit"}
      OBVIOUS
    <3>2. IsFiniteSet({"auto"}) /\ IsFiniteSet({"exit"}) /\ IsFiniteSet({"cmd"})
      BY FS_Singleton, Zenon
    <3> QED BY <3>1, <3>2, FS_Union, Zenon
  <2>2. IsFiniteSet(Daemons) /\ IsFiniteSet(Commands)
    BY ProcessesAssumption
  <2>3. IsFiniteSet({"auto", "exit"} \X Daemons) /\ IsFiniteSet({"cmd"} \X Commands)
    BY <2>1, <2>2, FS_Product, Zenon
  <2>4. IsFiniteSet(({"auto", "exit"} \X Daemons) \union ({"cmd"} \X Commands))
    BY <2>3, FS_Union, Zenon
  <2>5. Unmounters = ({"auto", "exit"} \X Daemons) \union ({"cmd"} \X Commands)
    BY DEF Unmounters
  <2> QED BY <2>4, <2>5, Zenon
<1>2. Removing(m) \subseteq Unmounters /\ Adding(m) \subseteq Daemons /\ Forgotten(m) \subseteq unlisted
  BY DEF Removing, Adding, Forgotten
<1>3. IsFiniteSet(Daemons) /\ IsFiniteSet(unlisted)
  BY ProcessesAssumption DEF MountType
<1>4. IsFiniteSet(Removing(m)) /\ IsFiniteSet(Adding(m)) /\ IsFiniteSet(Forgotten(m))
  BY <1>1, <1>2, <1>3, FS_Subset, Zenon
<1> QED BY <1>4, FS_CardinalityType, Zenon

LEMMA OneMore ==
  ASSUME NEW S, NEW x, IsFiniteSet(S), x \notin S
  PROVE  Cardinality(S \union {x}) = Cardinality(S) + 1
<1>1. Cardinality(S) \in Nat
  BY FS_CardinalityType
<1> QED BY <1>1, FS_AddElement

LEMMA OneLess ==
  ASSUME NEW S, NEW x, IsFiniteSet(S), x \in S
  PROVE  Cardinality(S \ {x}) = Cardinality(S) - 1
<1>1. Cardinality(S) \in Nat
  BY FS_CardinalityType
<1> QED BY <1>1, FS_RemoveElement

Balance(m) ==
  Len(mounts[m]) + Cardinality(Removing(m)) + kept[m] =
    Len(mtab[m]) + Cardinality(Adding(m)) + Cardinality(Forgotten(m))

(* A step that moves neither a mount nor a line at n leaves them balanced. *)
LEMMA BalanceKept ==
  ASSUME MountType, MountNext, NEW n \in Points, Balance(n),
         mounts'[n] = mounts[n], mtab'[n] = mtab[n], kept' = kept,
         \A p \in Unmounters : Setting(p).mnt = n => (up'[p] = "remove" <=> up[p] = "remove"),
         \A e \in Daemons : Mnt(e) = n =>
           ((hp'[e].pc = "add" \/ dm'[e].pc = "sys_add") <=> (hp[e].pc = "add" \/ dm[e].pc = "sys_add")),
         \A x : Mnt(x[1]) = n => (x \in unlisted' <=> x \in unlisted)
  PROVE  Balance(n)'
<1>1. (\A d : Mnt(d)' = Mnt(d)) /\ \A p : Setting(p)' = Setting(p)
  BY Fixed
<1>2. Removing(n)' = Removing(n)
  BY <1>1 DEF Removing
<1>3. Adding(n)' = Adding(n)
  BY <1>1 DEF Adding
<1>4. Forgotten(n)' = Forgotten(n)
  BY <1>1 DEF Forgotten
<1> QED BY <1>2, <1>3, <1>4 DEF Balance

(* Unmounting: a mount goes before its line does. *)
LEMMA BalanceUnmount ==
  ASSUME MountType, LineSeen, MountNext, mtabFile, NEW n \in Points, ~RootAt(n), Balance(n),
         n \notin unlocked,
         NEW p \in Unmounters, UnmountStep(p)
  PROVE  Balance(n)'
<1>1. /\ up \in [Unmounters -> UnmountPcs] /\ mounts \in [Points -> Seq(MountNames)]
      /\ mtab \in [Points -> Seq(Uids)]
  BY DEF MountType
<1>2. Setting(p).mnt \in Points
  BY Places
<1>3. (\A d : Mnt(d)' = Mnt(d)) /\ \A q : Setting(q)' = Setting(q)
  BY Fixed
<1>4. dm' = dm /\ hp' = hp /\ unlisted' = unlisted
  BY DEF UnmountStep, lock_umount, may_unmount, unmount_fuse_locked, remove_mount, unlock_umount
<1>5. Adding(n)' = Adding(n) /\ Forgotten(n)' = Forgotten(n)
  BY <1>3, <1>4 DEF Adding, Forgotten
<1> DEFINE a == Len(mounts[n])          b == Cardinality(Removing(n))
           c == Len(mtab[n])            f == Cardinality(Forgotten(n))
           g == Cardinality(Adding(n))  k == kept[n]
<1>6. IsFiniteSet(Removing(n))
  BY Countable
<1>10. /\ a \in Nat /\ b \in Nat /\ c \in Nat /\ f \in Nat /\ g \in Nat /\ k \in Nat
       /\ a + b + k = c + g + f
  BY <1>1, Countable DEF MountType, Balance
<1>11. ASSUME Len(mounts'[n]) + Cardinality(Removing(n)') + kept'[n] = Len(mtab'[n]) + g + f
       PROVE  Balance(n)'
  BY <1>5, <1>11 DEF Balance
<1>12. ASSUME Len(mounts'[n]) = a, Removing(n)' = Removing(n), Len(mtab'[n]) = c, kept'[n] = k
       PROVE  Balance(n)'
  BY <1>10, <1>11, <1>12
<1> HIDE DEF a, b, c, f, g, k
<1>7. CASE /\ mounts[Setting(p).mnt] # << >> /\ Pop(Setting(p).mnt) /\ UpTo(p, "umount", "remove")
           /\ mtab' = mtab /\ kept' = kept
  <2>1. up[p] = "umount" /\ up'[p] = "remove" /\ \A q \in Unmounters \ {p} : up'[q] = up[q]
    BY <1>1, <1>7 DEF UpTo
  <2>2. CASE Setting(p).mnt = n
    <3>1. Removing(n)' = Removing(n) \union {p} /\ p \notin Removing(n)
      BY <1>3, <2>1, <2>2 DEF Removing
    <3>2. Cardinality(Removing(n)') = b + 1
      BY <1>6, <3>1, OneMore DEF b
    <3>3. Len(mounts'[n]) = a - 1 /\ Len(mtab'[n]) = c /\ kept'[n] = k
      BY <1>7, <2>2, PopMounts DEF a, c, k
    <3>4. (a - 1) + (b + 1) + k = c + g + f
      BY <1>10
    <3> QED BY <1>11, <3>2, <3>3, <3>4
  <2>3. CASE Setting(p).mnt # n
    <3>1. mounts'[n] = mounts[n]
      BY <1>2, <1>7, <2>3, PopMounts
    <3>2. Removing(n)' = Removing(n)
      BY <1>3, <2>1, <2>3 DEF Removing
    <3> QED BY <1>7, <1>12, <3>1, <3>2 DEF a, c, k
  <2> QED BY <2>2, <2>3
<1>8. CASE remove_mount(p)
  <2>1. /\ up[p] = "remove" /\ up'[p] = "unlock" /\ \A q \in Unmounters \ {p} : up'[q] = up[q]
        /\ mounts' = mounts
        /\ \/ fuse_mnt_remove_mount(Setting(p).mnt) /\ kept' = kept
           \/ mtab' = mtab /\ kept' = [kept EXCEPT ![Setting(p).mnt] = @ + 1]
    BY <1>1, <1>8 DEF UpTo, remove_mount
  <2>2. kept \in [Points -> Nat]
    BY DEF MountType
  <2>3. CASE Setting(p).mnt = n
    <3>1. Removing(n)' = Removing(n) \ {p} /\ p \in Removing(n)
      BY <1>3, <2>1, <2>3 DEF Removing
    <3>2. Cardinality(Removing(n)') = b - 1 /\ Len(mounts'[n]) = a
      BY <1>6, <2>1, <3>1, OneLess DEF a, b
    <3>3. CASE fuse_mnt_remove_mount(Setting(p).mnt) /\ kept' = kept
      <4>1. mtab[n] # << >>
        BY <2>1, <2>3 DEF LineSeen, Careful
      <4>2. Len(mtab'[n]) = c - 1 /\ kept'[n] = k
        BY <2>3, <3>3, <4>1, RemoveLine DEF c, k
      <4>3. a + (b - 1) + k = (c - 1) + g + f
        BY <1>10
      <4> QED BY <1>11, <3>2, <4>2, <4>3
    <3>4. CASE mtab' = mtab /\ kept' = [kept EXCEPT ![Setting(p).mnt] = @ + 1]
      <4>1. Len(mtab'[n]) = c /\ kept'[n] = k + 1
        BY <2>2, <2>3, <3>4 DEF c, k
      <4>2. a + (b - 1) + (k + 1) = c + g + f
        BY <1>10
      <4> QED BY <1>11, <3>2, <4>1, <4>2
    <3> QED BY <2>1, <3>3, <3>4
  <2>4. CASE Setting(p).mnt # n
    <3>1. mtab'[n] = mtab[n]
      BY <1>2, <2>1, <2>4, RemoveLine
    <3>2. Removing(n)' = Removing(n)
      BY <1>3, <2>1, <2>4 DEF Removing
    <3>3. kept'[n] = kept[n]
      BY <2>1, <2>2, <2>4
    <3> QED BY <1>12, <2>1, <3>1, <3>2, <3>3 DEF a, c, k
  <2> QED BY <2>3, <2>4
<1>9. CASE \/ lock_umount(p) \/ may_unmount(p) \/ unlock_umount(p)
           \/ UpTo(p, "umount", "unlock") /\ UNCHANGED <<mounts, mtab, kept>>
  <2>1. PICK to \in UnmountPcs \ {"remove"} : up[p] # "remove" /\ up' = [up EXCEPT ![p] = to]
    BY <1>9 DEF lock_umount, may_unmount, unlock_umount, UpTo, UnmountPcs
  <2>2. mounts' = mounts /\ mtab' = mtab /\ kept' = kept
    BY <1>9 DEF lock_umount, may_unmount, unlock_umount
  <2>3. Removing(n)' = Removing(n)
    BY <1>1, <1>3, <2>1 DEF Removing
  <2> QED BY <1>12, <2>2, <2>3 DEF a, c, k
<1> QED BY <1>7, <1>8, <1>9 DEF UnmountStep, unmount_fuse_locked

(* What the steps of d and its helper may do to the mounts, to the lines,  *)
(* to the unmounting processes and to the history.                         *)
LEMMA Reach ==
  ASSUME MountType, Phases, NEW d \in Daemons,
         \/ fuse_kern_mount(d) \/ DaemonStep(d) \/ HelperStep(d)
         \/ fuse_kern_unmount(d) \/ DaemonDies(d)
  PROVE  /\ \A n \in Points : n # Mnt(d) => mounts'[n] = mounts[n] /\ mtab'[n] = mtab[n]
         /\ \A p \in Unmounters : up'[p] = "remove" <=> up[p] = "remove"
         /\ \A x : x[1] # d => (x \in unlisted' <=> x \in unlisted)
<1>0. /\ Mnt(d) \in Points /\ who[d].uid \in Uids /\ 0 \in Uids
      /\ <<"auto", d>> \in Unmounters /\ <<"exit", d>> \in Unmounters
      /\ <<d, hp[d].attempt>> \in MountNames /\ <<d, 1>> \in MountNames
  BY Places, MountName
<1>1. up \in [Unmounters -> UnmountPcs] /\ hp[d] \in HelperType /\ dm[d] \in DaemonType
  BY DEF MountType
<1>2. mounts' = mounts \/ Pop(Mnt(d)) \/ Push(Mnt(d), <<d, 1>>) \/ Push(Mnt(d), <<d, hp[d].attempt>>)
  BY DEF fuse_kern_mount, DaemonStep, HelperStep, fuse_kern_unmount, DaemonDies,
       fuse_mount_sys, SysAdd, SysAddFails, receive_fd, Unmounted,
       mount_fuse, do_mount, add_mount, send_fd, WaitForDaemon
<1>3. \A n \in Points : n # Mnt(d) => mounts'[n] = mounts[n]
  BY <1>0, <1>2, PopMounts, PushMounts
<1>4. \/ mtab' = mtab \/ fuse_mnt_add_mount(Mnt(d), who[d].uid) \/ fuse_mnt_add_mount(Mnt(d), 0)
      \/ fuse_mnt_remove_mount(Mnt(d))
  BY DEF fuse_kern_mount, DaemonStep, HelperStep, fuse_kern_unmount, DaemonDies,
       fuse_mount_sys, SysAdd, SysAddFails, receive_fd, Unmounted,
       mount_fuse, do_mount, add_mount, send_fd, WaitForDaemon
<1>5. \A n \in Points : n # Mnt(d) => mtab'[n] = mtab[n]
  BY <1>0, <1>4, AddLine, RemoveLine
<1>6. \/ up' = up
      \/ hp[d].pc = "wait" /\ up' = [up EXCEPT ![<<"auto", d>>] = "lock"]
      \/ dm[d].pc = "serving" /\ up' = [up EXCEPT ![<<"exit", d>>] = "lock"]
  BY DEF fuse_kern_mount, DaemonStep, HelperStep, fuse_kern_unmount, DaemonDies,
       fuse_mount_sys, SysAdd, receive_fd, Unmounted,
       mount_fuse, do_mount, add_mount, send_fd, WaitForDaemon, HelperTo
<1>7. /\ hp[d].pc = "wait" => up[<<"auto", d>>] = "idle"
      /\ dm[d].pc = "serving" => up[<<"exit", d>>] = "idle"
  BY DEF Phases, Phase
<1>8. \A p \in Unmounters : up'[p] = "remove" <=> up[p] = "remove"
  BY <1>0, <1>1, <1>6, <1>7
<1>9. unlisted' = unlisted \/ unlisted' = unlisted \union {<<d, hp[d].attempt>>}
  BY Attempts
<1>10. \A x : x[1] # d => (x \in unlisted' <=> x \in unlisted)
  <2> SUFFICES ASSUME NEW x, x[1] # d PROVE x \in unlisted' <=> x \in unlisted
    OBVIOUS
  <2>1. x # <<d, hp[d].attempt>>
    OBVIOUS
  <2> QED BY <1>9, <2>1
<1> QED BY <1>3, <1>5, <1>8, <1>10

(* Mounting: the mount comes first, then its line, unless the helper fails. *)
LEMMA BalanceMount ==
  ASSUME MountType, Phases, Phases', GivenUp, MountNext, mtabFile,
         NEW n \in Points, ~RootAt(n), Balance(n), NEW d \in Daemons,
         \/ fuse_kern_mount(d) \/ DaemonStep(d) \/ HelperStep(d)
         \/ fuse_kern_unmount(d) \/ DaemonDies(d)
  PROVE  Balance(n)'
<1>1. /\ hp \in [Daemons -> HelperType] /\ dm \in [Daemons -> DaemonType]
      /\ mounts \in [Points -> Seq(MountNames)] /\ mtab \in [Points -> Seq(Uids)]
  BY DEF MountType
<1>2. /\ (\A e : Mnt(e)' = Mnt(e)) /\ \A q : Setting(q)' = Setting(q)
      /\ who' = who
  BY Fixed
<1>3. \A e \in Daemons : e # d => dm'[e] = dm[e] /\ hp'[e] = hp[e]
  BY OthersKept
<1>4. /\ \A m \in Points : m # Mnt(d) => mounts'[m] = mounts[m] /\ mtab'[m] = mtab[m]
      /\ \A p \in Unmounters : up'[p] = "remove" <=> up[p] = "remove"
      /\ \A x : x[1] # d => (x \in unlisted' <=> x \in unlisted)
  BY Reach
<1>7. kept' = kept
  BY DaemonsSlipNot
<1>5. CASE n # Mnt(d)
  <2>1. mounts'[n] = mounts[n] /\ mtab'[n] = mtab[n]
    BY <1>4, <1>5
  <2>2. \A e \in Daemons : Mnt(e) = n => dm'[e] = dm[e] /\ hp'[e] = hp[e]
    BY <1>3, <1>5
  <2>3. \A x : Mnt(x[1]) = n => (x \in unlisted' <=> x \in unlisted)
    BY <1>4, <1>5
  <2> QED BY <1>4, <1>7, <2>1, <2>2, <2>3, BalanceKept
<1>6. CASE n = Mnt(d)
  <2>1. who[d].uid # 0
    BY <1>6 DEF RootAt, Mnt, MountType
  <2>2. dm[d].pc \notin {"sys", "sys_add"} /\ dm'[d].pc \notin {"sys", "sys_add"}
    BY <1>2, <2>1 DEF Phases, Phase
  <2>3. Removing(n)' = Removing(n)
    BY <1>2, <1>4 DEF Removing
  <2>4. \A e \in Daemons \ {d} : e \in Adding(n)' <=> e \in Adding(n)
    BY <1>2, <1>3 DEF Adding
  <2>5. (d \in Adding(n) <=> hp[d].pc = "add") /\ (d \in Adding(n)' <=> hp'[d].pc = "add")
    BY <1>2, <1>6, <2>2 DEF Adding
  <2>6. Adding(n) \subseteq Daemons /\ Adding(n)' \subseteq Daemons
    BY DEF Adding
  <2>7. /\ IsFiniteSet(Adding(n)) /\ IsFiniteSet(Forgotten(n)) /\ Cardinality(Removing(n)) \in Nat
        /\ Cardinality(Adding(n)) \in Nat /\ Cardinality(Forgotten(n)) \in Nat
        /\ Len(mounts[n]) \in Nat /\ Len(mtab[n]) \in Nat
    BY <1>1, Countable
  <2>8. <<d, hp[d].attempt>> \in MountNames /\ who[d].uid \in Uids
    BY MountName, Places
  <2> DEFINE a == Len(mounts[n])          b == Cardinality(Removing(n))
             c == Len(mtab[n])            f == Cardinality(Forgotten(n))
             g == Cardinality(Adding(n))  k == kept[n]
  <2>9. /\ a \in Nat /\ b \in Nat /\ c \in Nat /\ f \in Nat /\ g \in Nat /\ k \in Nat
        /\ a + b + k = c + g + f
    BY <2>7 DEF Balance, MountType
  <2>10. ASSUME Len(mounts'[n]) + b + k = Len(mtab'[n]) + Cardinality(Adding(n)') + Cardinality(Forgotten(n)')
         PROVE  Balance(n)'
    BY <1>7, <2>3, <2>10 DEF Balance
  <2>11. CASE HelperTo(d, "mount", "add") /\ Push(Mnt(d), <<d, hp[d].attempt>>) /\ UNCHANGED <<mtab, unlisted>>
    <3>1. hp[d].pc = "mount" /\ hp'[d].pc = "add"
      BY <1>1, <2>11 DEF HelperTo, HelperType
    <3>2. Adding(n)' = Adding(n) \union {d} /\ d \notin Adding(n)
      BY <2>4, <2>5, <2>6, <3>1
    <3>3. Cardinality(Adding(n)') = g + 1
      BY <2>7, <3>2, OneMore
    <3>4. Len(mounts'[n]) = a + 1
      BY <1>6, <2>8, <2>11, PushMounts
    <3>5. Forgotten(n)' = Forgotten(n)
      BY <1>2, <2>11 DEF Forgotten
    <3>6. Len(mtab'[n]) = c /\ Cardinality(Forgotten(n)') = f
      BY <2>11, <3>5
    <3> HIDE DEF a, b, c, f, g, k
    <3>7. (a + 1) + b + k = c + (g + 1) + f
      BY <2>9
    <3> QED BY <2>10, <3>3, <3>4, <3>6, <3>7
  <2>12. CASE HelperTo(d, "add", "send") /\ fuse_mnt_add_mount(Mnt(d), who[d].uid) /\ UNCHANGED <<mounts, unlisted>>
    <3>1. hp[d].pc = "add" /\ hp'[d].pc = "send"
      BY <1>1, <2>12 DEF HelperTo, HelperType
    <3>2. Adding(n)' = Adding(n) \ {d} /\ d \in Adding(n)
      BY <2>4, <2>5, <2>6, <3>1
    <3>3. Cardinality(Adding(n)') = g - 1
      BY <2>7, <3>2, OneLess
    <3>4. Len(mtab'[n]) = c + 1
      BY <1>6, <2>8, <2>12, AddLine
    <3>5. Forgotten(n)' = Forgotten(n)
      BY <1>2, <2>12 DEF Forgotten
    <3>6. Len(mounts'[n]) = a /\ Cardinality(Forgotten(n)') = f
      BY <2>12, <3>5
    <3> HIDE DEF a, b, c, f, g, k
    <3>7. a + b + k = (c + 1) + (g - 1) + f
      BY <2>9
    <3> QED BY <2>10, <3>3, <3>4, <3>6, <3>7
  <2>13. CASE /\ HelperExit(d, "add") /\ unlisted' = unlisted \union {<<d, hp[d].attempt>>}
              /\ UNCHANGED <<mounts, mtab>>
    <3>1. hp[d].pc = "add" /\ hp'[d].pc = "ended"
      BY <1>1, <2>13 DEF HelperTo, HelperExit, HelperType
    <3>2. Adding(n)' = Adding(n) \ {d} /\ d \in Adding(n)
      BY <2>4, <2>5, <2>6, <3>1
    <3>3. Cardinality(Adding(n)') = g - 1
      BY <2>7, <3>2, OneLess
    <3> DEFINE y == <<d, hp[d].attempt>>
    <3>4. y \notin unlisted /\ Mnt(y[1]) = n
      <4>1. \A x \in unlisted : x[1] = d => x[2] < hp[d].attempt
        BY <3>1, Running
      <4>2. hp[d].attempt \in Nat /\ y[1] = d /\ y[2] = hp[d].attempt
        BY <1>1 DEF HelperType
      <4> QED BY <1>6, <4>1, <4>2
    <3>5. Forgotten(n)' = Forgotten(n) \union {y} /\ y \notin Forgotten(n)
      <4> HIDE DEF y
      <4>1. unlisted' = unlisted \union {y}
        BY <2>13 DEF y
      <4> QED BY <1>2, <3>4, <4>1 DEF Forgotten
    <3>6. Cardinality(Forgotten(n)') = f + 1
      BY <2>7, <3>5, OneMore
    <3>7. Len(mounts'[n]) = a /\ Len(mtab'[n]) = c
      BY <2>13
    <3> HIDE DEF a, b, c, f, g, k
    <3>8. a + b + k = c + (g - 1) + (f + 1)
      BY <2>9
    <3> QED BY <2>10, <3>3, <3>6, <3>7, <3>8
  <2>14. CASE mounts' = mounts /\ mtab' = mtab /\ unlisted' = unlisted /\ (hp'[d].pc = "add" <=> hp[d].pc = "add")
    <3>1. Adding(n)' = Adding(n)
      BY <2>4, <2>5, <2>6, <2>14
    <3>2. Forgotten(n)' = Forgotten(n)
      BY <1>2, <2>14 DEF Forgotten
    <3> QED BY <1>7, <2>3, <2>14, <3>1, <3>2 DEF Balance
  <2>15. CASE HelperStep(d)
    <3>1. CASE do_mount(d) \/ add_mount(d)
      <4>1. ASSUME HelperExit(d, "mount") PROVE hp'[d].pc = "ended" /\ hp[d].pc = "mount"
        BY <1>1, <4>1 DEF HelperTo, HelperExit, HelperType
      <4> QED BY <2>11, <2>12, <2>13, <2>14, <3>1, <4>1 DEF do_mount, add_mount
    <3>2. CASE mount_fuse(d) \/ send_fd(d) \/ WaitForDaemon(d)
      <4>1. hp'[d].pc # "add" /\ hp[d].pc # "add"
        BY <1>1, <3>2 DEF mount_fuse, send_fd, WaitForDaemon, HelperTo, HelperExit, HelperType
      <4>2. mounts' = mounts /\ mtab' = mtab /\ unlisted' = unlisted
        BY <3>2 DEF mount_fuse, send_fd, WaitForDaemon
      <4> QED BY <2>14, <4>1, <4>2
    <3> QED BY <2>15, <3>1, <3>2 DEF HelperStep
  <2>16. CASE fuse_kern_mount(d) \/ DaemonStep(d) \/ fuse_kern_unmount(d) \/ DaemonDies(d)
    <3>1. mounts' = mounts /\ mtab' = mtab /\ unlisted' = unlisted
      BY <2>1, <2>2, <2>16 DEF fuse_kern_mount, DaemonStep, fuse_mount_sys, SysAdd, receive_fd,
        Unmounted, fuse_kern_unmount, DaemonDies
    <3>2. CASE hp' = hp
      BY <2>14, <3>1, <3>2
    <3>3. CASE hp' # hp
      <4>1. \/ dm[d].pc = "start" /\ \E t \in {1, 2} : fuse_mount_fusermount(d, who[d].auto, t)
            \/ dm[d].pc = "receive" /\ sock[d].zero = {} /\ fuse_mount_fusermount(d, dm[d].auto, 1)
        BY <2>16, <3>3 DEF fuse_kern_mount, DaemonStep, fuse_mount_sys, SysAdd, receive_fd,
          Unmounted, fuse_kern_unmount, DaemonDies
      <4>2. hp[d].pc = "ended"
        BY <4>1 DEF Phases, Phase
      <4>3. hp'[d].pc = "start"
        <5>1. hp' = [hp EXCEPT ![d] = [pc |-> "start", attempt |-> hp[d].attempt + 1]]
          BY <4>1 DEF fuse_mount_fusermount
        <5> QED BY <1>1, <5>1
      <4> QED BY <2>14, <3>1, <4>2, <4>3
    <3> QED BY <3>2, <3>3
  <2> QED BY <2>15, <2>16
<1> QED BY <1>5, <1>6

LEMMA AgreesStep ==
  MountType /\ Phases /\ Phases' /\ LineSeen /\ GivenUp /\ MtabAgrees /\ MountNext => MtabAgrees'
<1> SUFFICES ASSUME MountType, Phases, Phases', LineSeen, GivenUp, MtabAgrees, MountNext,
                    mtabFile, NEW n \in Points, n \notin unlocked, ~RootAt(n)
             PROVE  Balance(n)'
  BY Fixed, Slips DEF MtabAgrees, Balance
<1>1. Balance(n)
  BY DEF MtabAgrees, Balance
<1>2. ASSUME NEW p \in Unmounters, UnmountStep(p) PROVE Balance(n)'
  BY <1>1, <1>2, BalanceUnmount
<1>3. ASSUME NEW c \in Commands, Command(c) PROVE Balance(n)'
  <2>1. /\ up' = [up EXCEPT ![<<"cmd", c>>] = "lock"] /\ up[<<"cmd", c>>] = "idle"
        /\ UNCHANGED <<mounts, mtab, dm, hp, unlisted, kept>>
    BY <1>3 DEF Command, UpTo
  <2>2. \A p \in Unmounters : up'[p] = "remove" <=> up[p] = "remove"
    BY <2>1 DEF MountType
  <2> QED BY <1>1, <2>1, <2>2, BalanceKept
<1>4. ASSUME NEW d \in Daemons,
             \/ fuse_kern_mount(d) \/ DaemonStep(d) \/ HelperStep(d)
             \/ fuse_kern_unmount(d) \/ DaemonDies(d)
      PROVE  Balance(n)'
  BY <1>1, <1>4, BalanceMount
<1> QED BY <1>2, <1>3, <1>4 DEF MountNext

-----------------------------------------------------------------------------
(* A mount of d that is still there after a step of d or of its helper has *)
(* been given up, or somebody is responsible for it.                       *)
LEMMA CoveredOwn ==
  ASSUME MountType, Phases, OwnPlace, MountNext, NEW d \in Daemons,
         \/ fuse_kern_mount(d) \/ DaemonStep(d) \/ HelperStep(d)
         \/ fuse_kern_unmount(d) \/ DaemonDies(d),
         NEW x \in MountNames, x[1] = d, Covered(Mnt(d), x), mounts'[Mnt(d)] # << >>
  PROVE  Covered(Mnt(d), x)'
<1>1. /\ hp \in [Daemons -> HelperType] /\ dm \in [Daemons -> DaemonType]
      /\ sock \in [Daemons -> SockType] /\ mounts \in [Points -> Seq(MountNames)]
  BY DEF MountType
<1>2. /\ \A e : Mnt(e)' = Mnt(e) /\ Tidy(e)' = Tidy(e)
      /\ who' = who
  BY Fixed
<1>3. Phase(d) /\ hp[d] \in HelperType /\ dm[d] \in DaemonType /\ sock[d] \in SockType
      /\ hp[d].attempt \in Nat /\ Mnt(d) \in Points /\ dm[d].pc \in DaemonPcs
  BY <1>1, Places DEF Phases, HelperType, DaemonType
<1>4. unlisted \subseteq unlisted'
  BY Attempts
<1>5. CASE ~Tidy(d) \/ x \in unlisted
  BY <1>2, <1>4, <1>5 DEF Covered
<1>6. CASE Tidy(d) /\ x \notin unlisted
  <2>1. Live(d) /\ (hp[d].attempt > 0 => x[2] = hp[d].attempt)
    BY <1>6 DEF Covered
  <2>2. ASSUME Live(d)', hp'[d].attempt = hp[d].attempt PROVE Covered(Mnt(d), x)'
    BY <1>2, <2>1, <2>2 DEF Covered
  <2>3. CASE fuse_kern_mount(d)
    BY <1>3, <2>1, <2>3 DEF fuse_kern_mount, Live, Phase
  <2>4. CASE fuse_kern_unmount(d) \/ DaemonDies(d) \/ Unmounted(d)
    <3>1. dm'[d].pc \in {"ended", "unmounting"} /\ hp' = hp
      BY <1>1, <2>4 DEF fuse_kern_unmount, DaemonDies, Unmounted, DaemonEnds, DaemonType
    <3> QED BY <2>2, <3>1 DEF Live
  <2>5. CASE fuse_mount_sys(d)
    BY <1>3, <2>1, <2>5 DEF fuse_mount_sys, Live, Phase
  <2>6. CASE SysAdd(d)
    <3>1. CASE SysAddFails(d)
      <4>1. dm[d].pc = "sys_add" /\ Alone(d)
        BY <1>3, <1>6, <2>6 DEF SysAdd, Phase, Tidy
      <4>2. Len(mounts[Mnt(d)]) <= 1
        BY <4>1 DEF OwnPlace
      <4>3. Pop(Mnt(d))
        BY <3>1 DEF SysAddFails
      <4>4. mounts' \in [Points -> Seq(MountNames)] /\ mounts'[Mnt(d)] \in Seq(MountNames)
            /\ mounts[Mnt(d)] \in Seq(MountNames)
        BY <1>1, <1>3, <4>3, PopMounts
      <4>5. mounts[Mnt(d)] # << >> /\ Len(mounts'[Mnt(d)]) = Len(mounts[Mnt(d)]) - 1
        BY <1>3, <4>3, PopMounts
      <4> QED BY <4>2, <4>4, <4>5
    <3>2. CASE ~SysAddFails(d)
      <4>1. dm'[d].pc = "serving" /\ hp' = hp
        BY <1>1, <2>6, <3>2 DEF SysAdd, DaemonType
      <4> QED BY <2>2, <4>1 DEF Live
    <3> QED BY <3>1, <3>2
  <2>7. CASE receive_fd(d)
    <3>1. dm[d].pc = "receive"
      BY <2>7 DEF receive_fd
    <3>2. CASE sock[d].msg = NoMount /\ sock[d].zero = {}
      BY <1>3, <2>1, <3>1, <3>2 DEF Live, Phase
    <3>3. CASE ~(sock[d].msg = NoMount /\ sock[d].zero = {})
      <4>1. dm'[d].pc = "serving" /\ hp' = hp
        BY <1>1, <2>7, <3>3 DEF receive_fd, DaemonType
      <4> QED BY <2>2, <4>1 DEF Live
    <3> QED BY <3>2, <3>3
  <2>8. CASE HelperStep(d)
    <3>1. dm' = dm /\ hp[d].pc # "ended" /\ hp'[d].attempt = hp[d].attempt
      BY <1>1, <2>8 DEF HelperStep, mount_fuse, do_mount, add_mount, send_fd, WaitForDaemon,
        HelperTo, HelperExit, HelperType
    <3>2. hp[d].attempt > 0
      BY <1>3, <3>1 DEF Phase
    <3>3. CASE sock[d].one = {}
      <4>1. dm[d].pc \notin {"start", "sys", "sys_add", "failed", "receive"}
        BY <1>3, <3>1, <3>3 DEF Phase
      <4>2. dm'[d].pc \in {"serving", "unmounting", "ended"}
        BY <1>3, <3>1, <4>1 DEF DaemonPcs
      <4> QED BY <2>2, <3>1, <4>2 DEF Live
    <3>4. CASE mount_fuse(d) \/ do_mount(d)
      <4>1. hp[d].pc \in {"start", "mount"} /\ sock'[d].msg = sock[d].msg
        BY <1>1, <3>4 DEF mount_fuse, do_mount, HelperTo, HelperExit, SockType
      <4>2. Live(d)'
        BY <2>1, <3>1, <4>1 DEF Live
      <4> QED BY <2>2, <3>1, <4>2
    <3>5. CASE add_mount(d)
      <4>1. CASE HelperTo(d, "add", "send")
        <5>1. hp'[d].pc = "send"
          BY <1>1, <4>1 DEF HelperTo, HelperType
        <5> QED BY <2>2, <3>1, <5>1 DEF Live
      <4>2. CASE unlisted' = unlisted \union {<<d, hp[d].attempt>>}
        <5>1. x = <<d, hp[d].attempt>>
          BY <2>1, <3>2 DEF MountNames
        <5> QED BY <1>2, <4>2, <5>1 DEF Covered
      <4> QED BY <3>5, <4>1, <4>2 DEF add_mount
    <3>6. CASE send_fd(d) /\ sock[d].one # {}
      <4>1. sock'[d].msg = <<d, hp[d].attempt>>
        BY <1>1, <3>6 DEF send_fd, SockType
      <4>2. sock'[d].msg # NoMount
        BY <1>3, <3>2, <4>1 DEF NoMount
      <4> QED BY <2>2, <3>1, <4>2 DEF Live
    <3>7. CASE WaitForDaemon(d)
      BY <3>3, <3>7 DEF WaitForDaemon
    <3> QED BY <2>8, <3>3, <3>4, <3>5, <3>6, <3>7 DEF HelperStep
  <2> QED BY <2>3, <2>4, <2>5, <2>6, <2>7, <2>8 DEF DaemonStep
<1> QED BY <1>5, <1>6

(* The mounts of the others stay covered. *)
LEMMA CoveredOther ==
  ASSUME MountType, MountNext, NEW m \in Points, NEW x \in MountNames, Covered(m, x),
         LET e == x[1] IN dm'[e] = dm[e] /\ hp'[e] = hp[e] /\ sock'[e] = sock[e],
         unlisted \subseteq unlisted'
  PROVE  Covered(m, x)'
<1>1. \A e : Mnt(e)' = Mnt(e) /\ Tidy(e)' = Tidy(e)
  BY Fixed
<1> QED BY <1>1 DEF Covered, Live

(* A new mount is the business of the one who made it. *)
LEMMA CoveredNew ==
  ASSUME MountType, Phases, MountNext, NEW d \in Daemons, NEW x,
         \/ fuse_mount_sys(d) /\ dm' = [dm EXCEPT ![d].pc = "sys_add"] /\ x = <<d, 1>>
         \/ do_mount(d) /\ HelperTo(d, "mount", "add") /\ x = <<d, hp[d].attempt>>
  PROVE  Covered(Mnt(d), x)'
<1>1. /\ hp \in [Daemons -> HelperType] /\ dm \in [Daemons -> DaemonType]
  BY DEF MountType
<1>2. \A e : Mnt(e)' = Mnt(e) /\ Tidy(e)' = Tidy(e)
  BY Fixed
<1>3. CASE fuse_mount_sys(d) /\ dm' = [dm EXCEPT ![d].pc = "sys_add"] /\ x = <<d, 1>>
  <2>1. dm'[d].pc = "sys_add" /\ dm[d].pc = "sys" /\ hp' = hp
    BY <1>1, <1>3 DEF DaemonType, fuse_mount_sys
  <2>2. hp'[d].attempt = 0 /\ x[1] = d
    BY <1>3, <2>1 DEF Phases, Phase
  <2> QED BY <1>2, <2>1, <2>2 DEF Covered, Live
<1>4. CASE do_mount(d) /\ HelperTo(d, "mount", "add") /\ x = <<d, hp[d].attempt>>
  <2>1. hp'[d].pc = "add" /\ hp'[d].attempt = hp[d].attempt /\ x[1] = d /\ x[2] = hp[d].attempt
    BY <1>1, <1>4 DEF HelperType, HelperTo
  <2> QED BY <1>2, <2>1 DEF Covered, Live
<1> QED BY <1>3, <1>4

LEMMA AccountedStep ==
  MountType /\ Phases /\ Accounted /\ OwnPlace /\ MountNext => Accounted'
<1> SUFFICES ASSUME MountType, Phases, Accounted, OwnPlace, MountNext,
                    NEW m \in Points, NEW i \in DOMAIN mounts'[m], NEW x, x = mounts'[m][i]
             PROVE  Covered(m, x)'
  BY Fixed DEF Accounted, Covered
<1>1. mounts \in [Points -> Seq(MountNames)]
  BY DEF MountType
<1>2. ASSUME i \in DOMAIN mounts[m], mounts'[m][i] = mounts[m][i]
      PROVE  x \in MountNames /\ Covered(m, x)
  BY <1>1, <1>2 DEF Accounted
<1>3. ASSUME NEW p \in Unmounters, UnmountStep(p) PROVE Covered(m, x)'
  <2>1. dm' = dm /\ hp' = hp /\ sock' = sock /\ unlisted' = unlisted
    BY <1>3 DEF UnmountStep, lock_umount, may_unmount, unmount_fuse_locked, remove_mount, unlock_umount
  <2>2. mounts' = mounts \/ Pop(Setting(p).mnt)
    BY <1>3 DEF UnmountStep, lock_umount, may_unmount, unmount_fuse_locked, remove_mount, unlock_umount
  <2>3. Setting(p).mnt \in Points
    BY Places
  <2>4. i \in DOMAIN mounts[m] /\ mounts'[m][i] = mounts[m][i]
    BY <2>2, <2>3, PopMounts
  <2> QED BY <1>2, <2>1, <2>4, CoveredOther
<1>4. ASSUME NEW c \in Commands, Command(c) PROVE Covered(m, x)'
  <2>1. dm' = dm /\ hp' = hp /\ sock' = sock /\ unlisted' = unlisted /\ mounts' = mounts
    BY <1>4 DEF Command
  <2> QED BY <1>2, <2>1, CoveredOther
<1>5. ASSUME NEW d \in Daemons,
             \/ fuse_kern_mount(d) \/ DaemonStep(d) \/ HelperStep(d)
             \/ fuse_kern_unmount(d) \/ DaemonDies(d)
      PROVE  Covered(m, x)'
  <2>0. Mnt(d) \in Points /\ <<d, 1>> \in MountNames /\ <<d, hp[d].attempt>> \in MountNames
    BY Places, MountName
  <2>1. /\ \A e \in Daemons : e # d => dm'[e] = dm[e] /\ hp'[e] = hp[e] /\ sock'[e] = sock[e]
        /\ unlisted \subseteq unlisted'
    BY <1>5, OthersKept, Attempts
  <2>2. CASE i \in DOMAIN mounts[m] /\ mounts'[m][i] = mounts[m][i]
    <3>1. x \in MountNames /\ Covered(m, x) /\ x[1] \in Daemons
      BY <1>2, <2>2 DEF MountNames
    <3>2. CASE x[1] # d
      BY <2>1, <3>1, <3>2, CoveredOther
    <3>3. CASE x[1] = d
      <4>1. m = Mnt(d) /\ mounts'[m] # << >>
        BY <3>1, <3>3 DEF Covered
      <4>2. Covered(Mnt(d), x)'
        BY <1>5, <3>1, <3>3, <4>1, CoveredOwn
      <4>3. Mnt(d)' = Mnt(d)
        BY Fixed
      <4> QED BY <4>1, <4>2, <4>3
    <3> QED BY <3>2, <3>3
  <2>3. CASE ~(i \in DOMAIN mounts[m] /\ mounts'[m][i] = mounts[m][i])
    <3>1. \/ mounts' = mounts \/ Pop(Mnt(d))
          \/ /\ fuse_mount_sys(d) /\ dm' = [dm EXCEPT ![d].pc = "sys_add"]
             /\ Push(Mnt(d), <<d, 1>>)
          \/ do_mount(d) /\ HelperTo(d, "mount", "add") /\ Push(Mnt(d), <<d, hp[d].attempt>>)
      BY <1>5 DEF fuse_kern_mount, DaemonStep, HelperStep, fuse_kern_unmount, DaemonDies,
        fuse_mount_sys, SysAdd, SysAddFails, receive_fd, Unmounted,
        mount_fuse, do_mount, add_mount, send_fd, WaitForDaemon
    <3>2. ~(mounts' = mounts \/ Pop(Mnt(d)))
      BY <2>0, <2>3, PopMounts
    <3>3. /\ m = Mnt(d)
          /\ \/ fuse_mount_sys(d) /\ dm' = [dm EXCEPT ![d].pc = "sys_add"] /\ x = <<d, 1>>
             \/ do_mount(d) /\ HelperTo(d, "mount", "add") /\ x = <<d, hp[d].attempt>>
      BY <2>0, <2>3, <3>1, <3>2, PushMounts
    <3>4. Covered(Mnt(d), x)' /\ Mnt(d)' = Mnt(d)
      BY <3>3, CoveredNew, Fixed
    <3> QED BY <3>3, <3>4
  <2> QED BY <2>2, <2>3
<1> QED BY <1>3, <1>4, <1>5 DEF MountNext

LEMMA OwnPlaceStep == MountType /\ Phases /\ OwnPlace /\ MountNext => OwnPlace'
<1> SUFFICES ASSUME MountType, Phases, OwnPlace, MountNext, NEW d \in Daemons, Alone(d)
             PROVE  /\ dm'[d].pc \in {"start", "sys"} => mounts'[Mnt(d)] = << >>
                    /\ dm'[d].pc = "sys_add" => Len(mounts'[Mnt(d)]) <= 1
  BY Fixed DEF OwnPlace
<1>1. /\ mounts \in [Points -> Seq(MountNames)] /\ dm \in [Daemons -> DaemonType] /\ Mnt(d) \in Points
      /\ mounts[Mnt(d)] \in Seq(MountNames)
  BY Places DEF MountType
<1>2. /\ dm[d].pc \in {"start", "sys"} => mounts[Mnt(d)] = << >>
      /\ dm[d].pc = "sys_add" => Len(mounts[Mnt(d)]) <= 1
  BY DEF OwnPlace
<1>3. CASE dm'[d].pc = dm[d].pc /\ mounts'[Mnt(d)] = mounts[Mnt(d)]
  BY <1>2, <1>3
<1>4. ASSUME NEW p \in Unmounters, UnmountStep(p)
      PROVE  /\ dm'[d].pc \in {"start", "sys"} => mounts'[Mnt(d)] = << >>
             /\ dm'[d].pc = "sys_add" => Len(mounts'[Mnt(d)]) <= 1
  <2>1. dm' = dm /\ (mounts' = mounts \/ Pop(Setting(p).mnt))
    BY <1>4 DEF UnmountStep, lock_umount, may_unmount, unmount_fuse_locked, remove_mount, unlock_umount
  <2>2. Setting(p).mnt \in Points
    BY Places
  <2>3. CASE mounts' = mounts
    BY <1>3, <2>1, <2>3
  <2>4. CASE Pop(Setting(p).mnt)
    <3>1. CASE Setting(p).mnt # Mnt(d)
      BY <1>1, <1>3, <2>1, <2>2, <2>4, <3>1, PopMounts
    <3>2. CASE Setting(p).mnt = Mnt(d)
      <4>1. /\ mounts[Mnt(d)] = << >> => mounts'[Mnt(d)] = << >>
            /\ mounts[Mnt(d)] # << >> => Len(mounts'[Mnt(d)]) = Len(mounts[Mnt(d)]) - 1
        BY <2>2, <2>4, <3>2, PopMounts
      <4>2. Len(mounts[Mnt(d)]) \in Nat
        BY <1>1
      <4> QED BY <1>2, <2>1, <4>1, <4>2
    <3> QED BY <3>1, <3>2
  <2> QED BY <2>1, <2>3, <2>4
<1>5. ASSUME NEW c \in Commands, Command(c)
      PROVE  dm'[d].pc = dm[d].pc /\ mounts'[Mnt(d)] = mounts[Mnt(d)]
  BY <1>5 DEF Command
<1>6. ASSUME NEW e \in Daemons \ {d},
             \/ fuse_kern_mount(e) \/ DaemonStep(e) \/ HelperStep(e)
             \/ fuse_kern_unmount(e) \/ DaemonDies(e)
      PROVE  dm'[d].pc = dm[d].pc /\ mounts'[Mnt(d)] = mounts[Mnt(d)]
  <2>1. Mnt(e) # Mnt(d)
    BY DEF Alone
  <2> QED BY <1>1, <1>6, <2>1, OthersKept, Reach
<1>7. ASSUME fuse_kern_mount(d) \/ fuse_mount_sys(d)
      PROVE  /\ dm'[d].pc \in {"start", "sys"} => mounts'[Mnt(d)] = << >>
             /\ dm'[d].pc = "sys_add" => Len(mounts'[Mnt(d)]) <= 1
  <2>1. dm[d].pc \in {"start", "sys"} /\ mounts[Mnt(d)] = << >>
    BY <1>2, <1>7 DEF fuse_kern_mount, fuse_mount_sys
  <2>2. CASE fuse_kern_mount(d)
    <3>1. mounts' = mounts
      BY <2>2 DEF fuse_kern_mount
    <3>2. \/ dm' = [dm EXCEPT ![d].pc = "sys"]
          \/ dm' = [dm EXCEPT ![d] = [dm[d] EXCEPT !.pc = "receive", !.auto = who[d].auto,
                                                  !.tries = IF who[d].subtype THEN 2 ELSE 1]]
      BY <2>2 DEF fuse_kern_mount, fuse_mount_fusermount
    <3>3. dm'[d].pc = "sys" \/ dm'[d].pc = "receive"
      <4>1. CASE dm' = [dm EXCEPT ![d].pc = "sys"]
        BY <1>1, <4>1 DEF DaemonType
      <4>2. CASE dm' # [dm EXCEPT ![d].pc = "sys"]
        <5> DEFINE r == [dm[d] EXCEPT !.pc = "receive", !.auto = who[d].auto,
                                      !.tries = IF who[d].subtype THEN 2 ELSE 1]
        <5>1. r.pc = "receive"
          BY <1>1 DEF DaemonType
        <5>2. dm' = [dm EXCEPT ![d] = r]
          BY <3>2, <4>2
        <5> HIDE DEF r
        <5> QED BY <1>1, <5>1, <5>2
      <4> QED BY <4>1, <4>2
    <3> QED BY <2>1, <3>1, <3>3
  <2>3. CASE fuse_mount_sys(d)
    <3>1. CASE dm' = [dm EXCEPT ![d].pc = "sys_add"] /\ Push(Mnt(d), <<d, 1>>)
      <4>1. dm'[d].pc = "sys_add" /\ <<d, 1>> \in MountNames
        BY <1>1, <3>1, MountName DEF DaemonType
      <4>2. Len(mounts'[Mnt(d)]) = Len(mounts[Mnt(d)]) + 1
        BY <1>1, <3>1, <4>1, PushMounts
      <4> QED BY <2>1, <4>1, <4>2
    <3>2. CASE DaemonEnds(d, "failed")
      <4>1. dm'[d].pc = "failed"
        BY <1>1, <3>2 DEF DaemonType, DaemonEnds
      <4> QED BY <4>1
    <3> QED BY <2>3, <3>1, <3>2 DEF fuse_mount_sys
  <2> QED BY <1>7, <2>2, <2>3
<1>8. ASSUME \/ SysAdd(d) \/ receive_fd(d) \/ Unmounted(d)
             \/ fuse_kern_unmount(d) \/ DaemonDies(d)
      PROVE  dm'[d].pc \notin {"start", "sys", "sys_add"}
  <2>1. ASSUME NEW pc, DaemonEnds(d, pc) PROVE dm'[d].pc = pc
    BY <1>1, <2>1 DEF DaemonEnds, DaemonType
  <2>2. CASE SysAdd(d)
    BY <1>1, <2>1, <2>2 DEF SysAdd, SysAddFails, DaemonType
  <2>3. CASE receive_fd(d)
    <3>1. \/ dm' = [dm EXCEPT ![d].pc = "serving", ![d].fd = sock[d].msg]
          \/ fuse_mount_fusermount(d, dm[d].auto, 1)
          \/ DaemonEnds(d, "failed")
      BY <2>3, Zenon DEF receive_fd
    <3>2. CASE dm' = [dm EXCEPT ![d].pc = "serving", ![d].fd = sock[d].msg]
      BY <1>1, <3>2 DEF DaemonType
    <3>3. CASE fuse_mount_fusermount(d, dm[d].auto, 1)
      BY <1>1, <3>3 DEF fuse_mount_fusermount, DaemonType
    <3> QED BY <2>1, <3>1, <3>2, <3>3
  <2>4. CASE Unmounted(d) \/ DaemonDies(d)
    BY <2>1, <2>4 DEF Unmounted, DaemonDies
  <2>5. CASE fuse_kern_unmount(d)
    BY <1>1, <2>1, <2>5 DEF fuse_kern_unmount, DaemonType
  <2> QED BY <1>8, <2>2, <2>3, <2>4, <2>5
<1>9. ASSUME HelperStep(d) PROVE dm'[d].pc \notin {"start", "sys", "sys_add"}
  <2>1. dm' = dm /\ hp[d].pc # "ended"
    BY <1>9 DEF HelperStep, mount_fuse, do_mount, add_mount, send_fd, WaitForDaemon,
      HelperTo, HelperExit
  <2> QED BY <2>1 DEF Phases, Phase
<1>10. ASSUME NEW e \in Daemons,
              \/ fuse_kern_mount(e) \/ DaemonStep(e) \/ HelperStep(e)
              \/ fuse_kern_unmount(e) \/ DaemonDies(e)
       PROVE  /\ dm'[d].pc \in {"start", "sys"} => mounts'[Mnt(d)] = << >>
              /\ dm'[d].pc = "sys_add" => Len(mounts'[Mnt(d)]) <= 1
  <2>1. CASE e # d
    BY <1>3, <1>6, <1>10, <2>1
  <2>2. CASE e = d
    BY <1>7, <1>8, <1>9, <1>10, <2>2 DEF DaemonStep
  <2> QED BY <2>1, <2>2
<1> QED BY <1>3, <1>4, <1>5, <1>10 DEF MountNext

-----------------------------------------------------------------------------
LEMMA MountStarts == MountInit => MountInv
<1> SUFFICES ASSUME MountInit PROVE MountInv
  OBVIOUS
<1>1. mtabFile \in BOOLEAN /\ DOMAIN who = Daemons \union Commands
  BY SettingsAssumption DEF MountInit
<1>2. /\ \A m \in Points : mounts[m] = << >> /\ mtab[m] = << >>
      /\ \A d \in Daemons : dm[d] = [pc |-> "start", auto |-> FALSE, tries |-> 0, fd |-> NoMount]
      /\ \A d \in Daemons : hp[d] = [pc |-> "ended", attempt |-> 0]
      /\ \A d \in Daemons : sock[d] = Shut
      /\ \A p \in Unmounters : up[p] = "idle"
      /\ unlisted = {}
      /\ kept = [m \in Points |-> 0] /\ unlocked = {}
  BY DEF MountInit
<1>3. MountType
  <2>1. mounts \in [Points -> Seq(MountNames)] /\ mtab \in [Points -> Seq(Uids)]
    <3>1. << >> \in Seq(MountNames) /\ << >> \in Seq(Uids)
      OBVIOUS
    <3> QED BY <3>1 DEF MountInit
  <2>2. dm \in [Daemons -> DaemonType]
    BY DEF MountInit, DaemonType, DaemonPcs
  <2>3. hp \in [Daemons -> HelperType]
    BY DEF MountInit, HelperType, HelperPcs
  <2>4. sock \in [Daemons -> SockType]
    BY DEF MountInit, SockType, Shut
  <2>5. up \in [Unmounters -> UnmountPcs]
    BY DEF MountInit, UnmountPcs
  <2>6. unlisted \subseteq MountNames /\ IsFiniteSet(unlisted)
    <3>1. unlisted = {}
      BY DEF MountInit
    <3> QED BY <3>1, FS_EmptySet, Zenon
  <2>7. /\ kept \in [Points -> Nat] /\ unlocked \subseteq Points
        /\ \A d \in Daemons : who[d].auto \in BOOLEAN
    BY <1>2, SettingsAssumption DEF MountInit
  <2> QED BY <1>1, <2>1, <2>2, <2>3, <2>4, <2>5, <2>6, <2>7 DEF MountType
<1>4. Phases
  <2> SUFFICES ASSUME NEW d \in Daemons PROVE Phase(d)
    BY DEF Phases
  <2>1. <<"auto", d>> \in Unmounters /\ <<"exit", d>> \in Unmounters
    BY <1>3, Places
  <2>2. dm[d].pc = "start" /\ hp[d].pc = "ended" /\ hp[d].attempt = 0 /\ sock[d].msg = NoMount
    BY <1>2 DEF Shut
  <2> QED BY <1>2, <2>1, <2>2 DEF Phase
<1>5. Locked /\ LineSeen
  BY <1>2 DEF Locked, LineSeen, Held
<1>6. GivenUp
  BY <1>2 DEF GivenUp
<1>7. Accounted
  BY <1>2 DEF Accounted
<1>8. OwnPlace
  <2>1. \A d \in Daemons : mounts[Mnt(d)] = << >> /\ dm[d].pc = "start"
    <3>1. \A d \in Daemons : Mnt(d) \in Points
      BY <1>3, Places
    <3>2. \A d \in Daemons : dm[d].pc = "start"
      BY <1>2
    <3> QED BY <1>2, <3>1, <3>2, Zenon
  <2> QED BY <2>1 DEF OwnPlace
<1>9. MtabAgrees
  <2> SUFFICES ASSUME NEW m \in Points PROVE Balance(m)
    BY DEF MtabAgrees, Balance
  <2>1. Removing(m) = {} /\ Adding(m) = {} /\ Forgotten(m) = {}
    BY <1>2 DEF Removing, Adding, Forgotten
  <2>2. Cardinality({}) = 0
    BY FS_EmptySet
  <2>3. Len(mounts[m]) = 0 /\ Len(mtab[m]) = 0 /\ kept[m] = 0
    BY <1>2
  <2> QED BY <2>1, <2>2, <2>3 DEF Balance
<1> QED BY <1>3, <1>4, <1>5, <1>6, <1>7, <1>8, <1>9 DEF MountInv

LEMMA MountKeeps == MountInv /\ [MountNext]_mountVars => MountInv'
<1> SUFFICES ASSUME MountInv, [MountNext]_mountVars PROVE MountInv'
  OBVIOUS
<1>1. CASE MountNext
  <2>1. MountType' /\ Phases'
    BY <1>1, TypeStep, PhasesStep DEF MountInv
  <2>2. Locked' /\ LineSeen' /\ GivenUp'
    BY <1>1, LocksStep, GivenUpStep DEF MountInv
  <2>3. Accounted' /\ OwnPlace'
    BY <1>1, AccountedStep, OwnPlaceStep DEF MountInv
  <2>4. MtabAgrees'
    BY <1>1, <2>1, AgreesStep DEF MountInv
  <2> QED BY <2>1, <2>2, <2>3, <2>4 DEF MountInv
<1>2. CASE UNCHANGED mountVars
  <2>1. /\ who' = who /\ mtabFile' = mtabFile /\ mounts' = mounts /\ mtab' = mtab
        /\ mtabLock' = mtabLock /\ dm' = dm /\ hp' = hp /\ sock' = sock /\ up' = up
        /\ unlisted' = unlisted /\ kept' = kept /\ unlocked' = unlocked
    BY <1>2 DEF mountVars
  <2>2. MountType' = MountType /\ Phases' = Phases /\ Locked' = Locked
    BY <2>1 DEF MountType, Points, Uids, Phases, Phase, Locked, Careful, Setting
  <2>3. LineSeen' = LineSeen /\ GivenUp' = GivenUp
    BY <2>1 DEF LineSeen, GivenUp, RootAt, Setting, Careful
  <2>4. Accounted' = Accounted /\ OwnPlace' = OwnPlace
    BY <2>1 DEF Accounted, OwnPlace, Covered, Live, Tidy, Alone, Mnt, Points
  <2>5. MtabAgrees' = MtabAgrees
    BY <2>1 DEF MtabAgrees, Points, RootAt, Removing, Adding, Forgotten, Setting, Mnt
  <2> QED BY <2>2, <2>3, <2>4, <2>5 DEF MountInv
<1> QED BY <1>1, <1>2

LEMMA FailedLeavesNothing == MountInv => NothingLeft
<1> SUFFICES ASSUME MountInv, NEW d \in Daemons, dm[d].pc = "failed", Tidy(d),
                    NEW m \in Points, NEW i \in DOMAIN mounts[m], mounts[m][i][1] = d
             PROVE  mounts[m][i] \in unlisted
  BY DEF NothingLeft, Tidy
<1>1. Covered(m, mounts[m][i])
  BY DEF MountInv, Accounted
<1>2. hp[d].pc = "ended" /\ sock[d].msg = NoMount
  BY DEF MountInv, Phases, Phase
<1>3. ~Live(d)
  BY <1>2 DEF Live
<1> QED BY <1>1, <1>3 DEF Covered

(* The daemons, helpers and unmount commands of every number and setting   *)
(* keep the inductive invariant: who has the lock and unmounts has seen a  *)
(* line, where nobody went on without the lock, and for each mount         *)
(* somebody is responsible or a helper has given it up.                    *)
THEOREM MountInvariant == MountSpec => []MountInv
<1>1. MountInit => MountInv
  BY MountStarts
<1>2. MountInv /\ [MountNext]_mountVars => MountInv'
  BY MountKeeps
<1> QED BY <1>1, <1>2, PTL DEF MountSpec

(* Where every unmount got the lock, /etc/mtab lists as many mounts as the *)
(* kernel has but for those between their two steps, mounts a helper gave  *)
(* up and lines whose removal failed, although fuse_mnt_add_mount takes no *)
(* lock; and a fuse_kern_mount that failed left no mount behind.           *)
THEOREM MountsAgree == MountSpec => []MountsListed
<1>1. MountInv => MountsListed
  BY FailedLeavesNothing DEF MountsListed, MountInv
<1> QED BY <1>1, MountInvariant, PTL
=============================================================================
