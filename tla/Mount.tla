------------------------------- MODULE Mount -------------------------------
(***************************************************************************)
(* Mounting and unmounting: a daemon mounts by itself (fuse_mount_sys) or  *)
(* through the helper fusermount3, which sends the opened device back over *)
(* a socket and with auto_unmount stays until the daemon is gone.  Mounts  *)
(* are also entered in /etc/mtab, unless that is a link to /proc/mounts.   *)
(* Daemons, helpers and unmount commands run concurrently, daemons die at  *)
(* any point, and a step of a helper may fail: mounting, listing a mount   *)
(* and taking its line away, locking /etc/mtab, and a command's umount2.   *)
(* The lazy umount2 of a helper that unmounts for its daemon is taken to   *)
(* find its mount, and a /bin/mount or /bin/umount that fails to have left *)
(* /etc/mtab alone.                                                        *)
(*                                                                         *)
(* A mount is named <<daemon, attempt>>.  Whether a user may use a mount   *)
(* point is not modelled, nor are kills of the helper; nobody moves the    *)
(* directories above a mount point.                                        *)
(***************************************************************************)
EXTENDS Integers, SequencesExt, FiniteSets

CONSTANTS Daemons,   \* processes that mount
          Commands,  \* runs of fusermount3 -u
          Settings,  \* who: daemon or command -> uid (0 is root), mount point, the options
                     \* subtype and auto_unmount given?  mtabFile: is /etc/mtab a file?
          MountMax   \* mount_max of fuse.conf

ASSUME ProcessesAssumption == IsFiniteSet(Daemons) /\ IsFiniteSet(Commands)
ASSUME SettingsAssumption ==
  \A s \in Settings : /\ s.mtabFile \in BOOLEAN /\ DOMAIN s.who = Daemons \union Commands
                      /\ \A d \in Daemons : s.who[d].auto \in BOOLEAN

VARIABLES who,        \* the settings of this behaviour
          mtabFile,   \* /etc/mtab is a file and not a link
          mounts,     \* mount point -> the kernel's mounts, the last on top
          mtab,       \* mount point -> uids of its lines in /etc/mtab
          mtabLock,   \* holder of /etc/mtab.fuselock
          dm,         \* daemons
          hp,         \* the mounting helper of each daemon
          sock,       \* its socket pair: who holds which end, the message under way
          up,         \* processes in unmount_fuse: pc
          unlisted,   \* history: mounts whose helper failed before it listed them
          kept,       \* history: mount point -> lines left by a removal that failed
          unlocked    \* history: mount points unmounted without the lock

mountVars == <<who, mtabFile, mounts, mtab, mtabLock, dm, hp, sock, up,
               unlisted, kept, unlocked>>

NoOne == <<"none", 0>>
NoMount == <<0, 0>>
\* unmount_fuse runs in a waiting helper, in one forked by fuse_kern_unmount, or on command
Unmounters == {<<k, d>> : k \in {"auto", "exit"}, d \in Daemons} \union {<<"cmd", c>> : c \in Commands}
Setting(p) == who[p[2]]
Mnt(d) == who[d].mnt
Points == {who[x].mnt : x \in DOMAIN who}

Push(m, x) == mounts' = [mounts EXCEPT ![m] = Append(@, x)]
Pop(m) == mounts' = [mounts EXCEPT ![m] = IF @ = << >> THEN @ ELSE Front(@)]
\* fuse_mnt_add_mount and fuse_mnt_remove_mount do nothing when mtab is a link.
mtab_needs_update == mtabFile
fuse_mnt_add_mount(m, uid) == mtab' = IF mtab_needs_update THEN [mtab EXCEPT ![m] = Append(@, uid)] ELSE mtab
fuse_mnt_remove_mount(m) ==
  mtab' = IF mtab_needs_update /\ mtab[m] # << >> THEN [mtab EXCEPT ![m] = Front(@)] ELSE mtab
\* the uids getmntent finds for a mount point
Lines(m) == IF mtabFile THEN mtab[m] ELSE [i \in DOMAIN mounts[m] |-> who[mounts[m][i][1]].uid]
count_fuse_fs == FoldFunctionOnSet(LAMBDA s, n : Len(s) + n, 0, [m \in Points |-> Lines(m)], Points)

-----------------------------------------------------------------------------
(* Unmounting: fusermount.c, unmount_fuse                                  *)

UpTo(p, from, to) == up[p] = from /\ up' = [up EXCEPT ![p] = to]
lock_umount_not(p) == /\ UpTo(p, "lock", "check") /\ UNCHANGED <<who, mtabFile, mounts, mtab, mtabLock, dm, hp, sock, unlisted, kept, unlocked>>
\* A link is not locked; an unmount whose lock file cannot be opened or locked
\* goes on without it.
lock_umount(p) ==
  /\ UpTo(p, "lock", "check")
  /\ \/ mtabFile /\ mtabLock = NoOne /\ mtabLock' = p /\ UNCHANGED unlocked
     \/ mtabFile /\ unlocked' = unlocked \union {Setting(p).mnt} /\ UNCHANGED mtabLock
     \/ ~mtabFile /\ UNCHANGED <<mtabLock, unlocked>>
  /\ UNCHANGED <<who, mtabFile, mounts, mtab, dm, hp, sock, unlisted, kept>>
may_unmount(p) ==
  /\ LET s == Setting(p)
     IN UpTo(p, "check", IF s.uid = 0 \/ s.uid \in ToSet(Lines(s.mnt)) THEN "umount" ELSE "unlock")
  /\ UNCHANGED <<who, mtabFile, mounts, mtab, mtabLock, dm, hp, sock, unlisted, kept, unlocked>>
\* umount2 takes the topmost mount; a busy one only lazily.
unmount_fuse_locked(p) ==
  /\ \/ /\ mounts[Setting(p).mnt] # << >> /\ Pop(Setting(p).mnt) /\ UpTo(p, "umount", "remove")
     \/ /\ mounts[Setting(p).mnt] = << >> \/ p[1] = "cmd"
        /\ UpTo(p, "umount", "unlock") /\ UNCHANGED mounts
  /\ UNCHANGED <<who, mtabFile, mtab, mtabLock, dm, hp, sock, unlisted, kept, unlocked>>
\* The way back to / and /bin/umount --fake may fail: the line stays.
remove_mount(p) ==
  /\ UpTo(p, "remove", "unlock")
  /\ \/ fuse_mnt_remove_mount(Setting(p).mnt) /\ UNCHANGED kept
     \/ mtabFile /\ kept' = [kept EXCEPT ![Setting(p).mnt] = @ + 1] /\ UNCHANGED mtab
  /\ UNCHANGED <<who, mtabFile, mounts, mtabLock, dm, hp, sock, unlisted, unlocked>>
unlock_umount(p) ==
  /\ UpTo(p, "unlock", "ended")
  /\ mtabLock' = IF mtabLock = p THEN NoOne ELSE mtabLock
  /\ UNCHANGED <<who, mtabFile, mounts, mtab, dm, hp, sock, unlisted, kept, unlocked>>
UnmountStep(p) ==
  lock_umount(p) \/ may_unmount(p) \/ unmount_fuse_locked(p) \/ remove_mount(p) \/ unlock_umount(p)
\* somebody types fusermount3 -u
Command(c) == /\ UpTo(<<"cmd", c>>, "idle", "lock")
              /\ UNCHANGED <<who, mtabFile, mounts, mtab, mtabLock, dm, hp, sock, unlisted, kept, unlocked>>

-----------------------------------------------------------------------------
(* The mounting helper: fusermount.c, main and mount_fuse                  *)

HelperTo(d, from, to) == hp[d].pc = from /\ hp' = [hp EXCEPT ![d].pc = to]
HelperExit(d, from) ==
  /\ HelperTo(d, from, "ended")
  /\ sock' = [sock EXCEPT ![d].zero = @ \ {"helper"}, ![d].one = @ \ {"helper"}]
\* Opens the device, reads fuse.conf, counts the mounts and checks the mount point.
mount_fuse(d) ==
  /\ \/ /\ who[d].uid = 0 \/ count_fuse_fs < MountMax
        /\ HelperTo(d, "start", "mount") /\ UNCHANGED sock
     \/ HelperExit(d, "start")
  /\ UNCHANGED <<who, mtabFile, mounts, mtab, mtabLock, dm, up, unlisted, kept, unlocked>>
\* With its second and third try when the kernel lacks subtypes or group_id.
do_mount(d) ==
  /\ \/ HelperTo(d, "mount", "add") /\ Push(Mnt(d), <<d, hp[d].attempt>>) /\ UNCHANGED sock
     \/ HelperExit(d, "mount") /\ UNCHANGED mounts
  /\ UNCHANGED <<who, mtabFile, mtab, mtabLock, dm, up, unlisted, kept, unlocked>>
\* "Can't clean up mount in a non-racy way": a failure leaves the mount.
add_mount(d) ==
  /\ \/ HelperTo(d, "add", "send") /\ fuse_mnt_add_mount(Mnt(d), who[d].uid) /\ UNCHANGED <<sock, unlisted, kept, unlocked>>
     \/ HelperExit(d, "add") /\ unlisted' = unlisted \union {<<d, hp[d].attempt>>} /\ UNCHANGED mtab
  /\ UNCHANGED <<who, mtabFile, mounts, mtabLock, dm, up, kept, unlocked>>
\* With auto_unmount the helper stays.
send_fd(d) ==
  /\ IF sock[d].one = {} THEN HelperExit(d, "send")
     ELSE IF dm[d].auto THEN HelperTo(d, "send", "wait") /\ sock' = [sock EXCEPT ![d].msg = <<d, hp[d].attempt>>]
     ELSE /\ HelperTo(d, "send", "ended")
          /\ sock' = [sock EXCEPT ![d].msg = <<d, hp[d].attempt>>, ![d].zero = @ \ {"helper"}]
  /\ UNCHANGED <<who, mtabFile, mounts, mtab, mtabLock, dm, up, unlisted, kept, unlocked>>
\* recv returns 0: nobody holds the other end any more.
WaitForDaemon(d) ==
  /\ HelperTo(d, "wait", "ended") /\ sock[d].one = {}
  /\ up' = [up EXCEPT ![<<"auto", d>>] = "lock"]
  /\ UNCHANGED <<who, mtabFile, mounts, mtab, mtabLock, dm, sock, unlisted, kept, unlocked>>
HelperStep(d) == mount_fuse(d) \/ do_mount(d) \/ add_mount(d) \/ send_fd(d) \/ WaitForDaemon(d)

-----------------------------------------------------------------------------
(* The daemon: mount.c                                                     *)

Shut == [zero |-> {}, one |-> {}, msg |-> NoMount]
\* When the process is gone its end of the socket is closed.
DaemonEnds(d, pc) ==
  /\ dm' = [dm EXCEPT ![d].pc = pc]
  /\ sock' = [sock EXCEPT ![d].zero = @ \ {"daemon"}, ![d].one = @ \ {"daemon"}]

fuse_mount_fusermount_keeps(d, auto, tries) ==
  /\ dm' = [dm EXCEPT ![d] = [@ EXCEPT !.pc = "receive", !.auto = auto, !.tries = tries]]
  /\ hp' = [hp EXCEPT ![d] = [pc |-> "start", attempt |-> @.attempt + 1]]
  /\ sock' = [sock EXCEPT ![d] = [zero |-> {"daemon", "helper"}, one |-> {"daemon"}, msg |-> NoMount]]
fuse_mount_fusermount_childkeeps(d, auto, tries) ==
  /\ dm' = [dm EXCEPT ![d] = [@ EXCEPT !.pc = "receive", !.auto = auto, !.tries = tries]]
  /\ hp' = [hp EXCEPT ![d] = [pc |-> "start", attempt |-> @.attempt + 1]]
  /\ sock' = [sock EXCEPT ![d] = [zero |-> {"helper"}, one |-> {"daemon", "helper"}, msg |-> NoMount]]
\* The parent closes fds[0] and the child fds[1], so that each sees the other's end.
fuse_mount_fusermount(d, auto, tries) ==
  /\ dm' = [dm EXCEPT ![d] = [@ EXCEPT !.pc = "receive", !.auto = auto, !.tries = tries]]
  /\ hp' = [hp EXCEPT ![d] = [pc |-> "start", attempt |-> @.attempt + 1]]
  /\ sock' = [sock EXCEPT ![d] = [zero |-> {"helper"}, one |-> {"daemon"}, msg |-> NoMount]]

\* Root mounts by itself, anybody else and auto_unmount take the helper, first with
\* the subtype if there is one.
fuse_kern_mount(d) ==
  /\ dm[d].pc = "start"
  /\ \/ /\ who[d].uid = 0 /\ ~who[d].auto
        /\ dm' = [dm EXCEPT ![d].pc = "sys"] /\ UNCHANGED <<hp, sock>>
     \/ /\ who[d].uid # 0 \/ who[d].auto
        /\ fuse_mount_fusermount(d, who[d].auto, IF who[d].subtype THEN 2 ELSE 1)
  /\ UNCHANGED <<who, mtabFile, mounts, mtab, mtabLock, up, unlisted, kept, unlocked>>

fuse_mount_sys(d) ==
  /\ dm[d].pc = "sys"
  /\ \/ /\ Push(Mnt(d), <<d, 1>>)
        /\ dm' = [dm EXCEPT ![d].pc = "sys_add"] /\ UNCHANGED sock
     \/ DaemonEnds(d, "failed") /\ UNCHANGED mounts
  /\ UNCHANGED <<who, mtabFile, mtab, mtabLock, hp, up, unlisted, kept, unlocked>>
\* out_umount
SysAddFails(d) == Pop(Mnt(d)) /\ DaemonEnds(d, "failed") /\ UNCHANGED mtab
SysAdd(d) ==
  /\ dm[d].pc = "sys_add"
  /\ \/ /\ fuse_mnt_add_mount(Mnt(d), 0)
        /\ dm' = [dm EXCEPT ![d].pc = "serving", ![d].fd = <<d, 1>>] /\ UNCHANGED <<mounts, sock>>
     \/ SysAddFails(d)
  /\ UNCHANGED <<who, mtabFile, mtabLock, hp, up, unlisted, kept, unlocked>>

\* A descriptor, or the end of the stream when the helper failed; then once more
\* without the subtype.
receive_fd(d) ==
  /\ dm[d].pc = "receive"
  /\ \/ /\ sock[d].msg # NoMount /\ (dm[d].auto \/ hp[d].pc = "ended")
        /\ dm' = [dm EXCEPT ![d].pc = "serving", ![d].fd = sock[d].msg]
        /\ sock' = [sock EXCEPT ![d].msg = NoMount, ![d].one = IF dm[d].auto THEN @ ELSE {}]
        /\ UNCHANGED hp
     \/ /\ sock[d].msg = NoMount /\ sock[d].zero = {}
        /\ IF dm[d].tries = 2 THEN fuse_mount_fusermount(d, dm[d].auto, 1)
           ELSE DaemonEnds(d, "failed") /\ UNCHANGED hp
  /\ UNCHANGED <<who, mtabFile, mounts, mtab, mtabLock, up, unlisted, kept, unlocked>>

\* The device says whether the mount is gone already.  Root takes the mount and its
\* line away, or only the mount, or neither when /bin/umount fails.  A user's umount2 is
\* refused, so the helper is run, if a process can be forked.
fuse_kern_unmount(d) ==
  /\ dm[d].pc = "serving"
  /\ \/ DaemonEnds(d, "ended") /\ UNCHANGED <<mounts, mtab, up>>
     \/ /\ dm[d].fd \in ToSet(mounts[Mnt(d)]) /\ who[d].uid = 0
        /\ Pop(Mnt(d))
        /\ fuse_mnt_remove_mount(Mnt(d)) \/ UNCHANGED mtab
        /\ DaemonEnds(d, "ended") /\ UNCHANGED up
     \/ /\ dm[d].fd \in ToSet(mounts[Mnt(d)]) /\ who[d].uid # 0
        /\ dm' = [dm EXCEPT ![d].pc = "unmounting"]
        /\ up' = [up EXCEPT ![<<"exit", d>>] = "lock"]
        /\ UNCHANGED <<mounts, mtab, sock>>
  /\ UNCHANGED <<who, mtabFile, mtabLock, hp, unlisted, kept, unlocked>>
Unmounted(d) ==
  /\ dm[d].pc = "unmounting" /\ up[<<"exit", d>>] = "ended"
  /\ DaemonEnds(d, "ended")
  /\ UNCHANGED <<who, mtabFile, mounts, mtab, mtabLock, hp, up, unlisted, kept, unlocked>>
Over(d) == dm[d].pc \in {"ended", "failed"}
\* The daemon is killed.
DaemonDies(d) ==
  /\ dm[d].pc # "start" /\ ~Over(d)
  /\ DaemonEnds(d, "ended")
  /\ UNCHANGED <<who, mtabFile, mounts, mtab, mtabLock, hp, up, unlisted, kept, unlocked>>
DaemonStep(d) == fuse_mount_sys(d) \/ SysAdd(d) \/ receive_fd(d) \/ Unmounted(d)

MountInit ==
  /\ \E s \in Settings : who = s.who /\ mtabFile = s.mtabFile
  /\ mounts = [m \in Points |-> << >>] /\ mtab = [m \in Points |-> << >>] /\ mtabLock = NoOne
  /\ dm = [d \in Daemons |-> [pc |-> "start", auto |-> FALSE, tries |-> 0, fd |-> NoMount]]
  /\ hp = [d \in Daemons |-> [pc |-> "ended", attempt |-> 0]]
  /\ sock = [d \in Daemons |-> Shut]
  /\ up = [p \in Unmounters |-> "idle"]
  /\ unlisted = {} /\ kept = [m \in Points |-> 0] /\ unlocked = {}
MountNext ==
  \/ \E d \in Daemons : \/ fuse_kern_mount(d) \/ DaemonStep(d) \/ HelperStep(d)
                        \/ fuse_kern_unmount(d) \/ DaemonDies(d)
  \/ \E p \in Unmounters : UnmountStep(p)
  \/ \E c \in Commands : Command(c)
MountSpec == MountInit /\ [][MountNext]_mountVars
\* Some process that can run does (a weaker assumption than fairness to each);
\* nothing forces a daemon to stop or a user to unmount.
MountFairness ==
  WF_mountVars(\/ \E d \in Daemons : DaemonStep(d) \/ HelperStep(d)
               \/ \E p \in Unmounters : UnmountStep(p))

-----------------------------------------------------------------------------
(* Properties                                                              *)

Removing(m) == {p \in Unmounters : up[p] = "remove" /\ Setting(p).mnt = m}
Adding(m) == {d \in Daemons : Mnt(d) = m /\ (hp[d].pc = "add" \/ dm[d].pc = "sys_add")}
Forgotten(m) == {x \in unlisted : Mnt(x[1]) = m}
\* a root process that dies or unmounts between the two may leave them apart
RootAt(m) == \E x \in DOMAIN who : who[x].mnt = m /\ who[x].uid = 0
\* nobody else mounts where d does
Alone(d) == \A e \in Daemons \ {d} : Mnt(e) # Mnt(d)

\* Lines of /etc/mtab and mounts of the kernel agree in number except for the mounts
\* and unmounts that are between their two steps, for mounts whose helper failed and for
\* lines whose removal failed, however mounting, which takes no lock, and unmounting
\* overlap, where every unmount got the lock.
MtabAgrees ==
  mtabFile => \A m \in Points \ unlocked : ~RootAt(m) =>
    Len(mounts[m]) + Cardinality(Removing(m)) + kept[m] =
      Len(mtab[m]) + Cardinality(Adding(m)) + Cardinality(Forgotten(m))

\* A daemon whose fuse_kern_mount failed has left no mount behind, unless its helper
\* said it could not clean up, or it is root and not alone at its mount point (out_umount
\* takes the topmost mount).
NothingLeft ==
  \A d \in Daemons : dm[d].pc = "failed" /\ (who[d].uid # 0 \/ Alone(d)) =>
    \A m \in Points : \A i \in DOMAIN mounts[m] :
      mounts[m][i][1] = d => mounts[m][i] \in unlisted

\* A call of fuse_kern_mount returns: the daemon gets the descriptor or sees that
\* the helper is gone.
MountReturns == \A d \in Daemons : dm[d].pc = "receive" ~> dm[d].pc # "receive"

\* auto_unmount: when a daemon that has its mount is gone, however it ended, the mount
\* goes too, if no other daemon mounted at the same place.
AutoUnmounted ==
  \A d \in Daemons :
    (hp[d].pc = "wait" /\ Over(d)) ~>
      \/ \A i \in DOMAIN mounts[Mnt(d)] : mounts[Mnt(d)][i] # <<d, hp[d].attempt>>
      \/ \E e \in Daemons \ {d} : Mnt(e) = Mnt(d) /\ (hp[e].attempt > 0 \/ who[e].uid = 0)

\* Where every unmount got the lock, /etc/mtab lists as many mounts as the kernel has, but
\* for those between their two steps, mounts whose helper failed to list them and lines
\* whose removal failed; and a fuse_kern_mount that failed has left no mount behind.
MountsListed == MtabAgrees /\ NothingLeft
=============================================================================
