------------------------------ MODULE Dispatch ------------------------------
(***************************************************************************)
(* What fuse_lowlevel.c does with a request before the file system sees    *)
(* it: the checks of fuse_session_process_buf_int, the table fuse_ll_ops   *)
(* and the functions do_* behind it, each of which calls the operation the *)
(* file system supplies or gives the answer for a missing one.             *)
(*                                                                         *)
(* The value of do_* is <<"call", operation>>, <<"reply", answer>> or      *)
(* <<"none">> (freed with no answer), and for the requests of the session  *)
(* itself the name of the code that handles them.                          *)
(***************************************************************************)
Owner == "owner"
Root == "root"
Other == "other"

Call(ops, op, missing) == IF op \in ops THEN <<"call", op>> ELSE missing
ENOSYS == <<"reply", "ENOSYS">>

do_lookup(ops) == Call(ops, "lookup", ENOSYS)
do_forget(ops) == Call(ops, "forget", <<"none">>)
do_batch_forget(ops) == Call(ops, "forget_multi", Call(ops, "forget", <<"none">>))
do_getattr(ops) == Call(ops, "getattr", ENOSYS)
do_setattr(ops) == Call(ops, "setattr", ENOSYS)
do_access(ops) == Call(ops, "access", ENOSYS)
do_readlink(ops) == Call(ops, "readlink", ENOSYS)
do_mknod(ops) == Call(ops, "mknod", ENOSYS)
do_mkdir(ops) == Call(ops, "mkdir", ENOSYS)
do_unlink(ops) == Call(ops, "unlink", ENOSYS)
do_rmdir(ops) == Call(ops, "rmdir", ENOSYS)
do_symlink(ops) == Call(ops, "symlink", ENOSYS)
do_rename(ops) == Call(ops, "rename", ENOSYS)
do_rename2(ops) == Call(ops, "rename", ENOSYS)
do_link(ops) == Call(ops, "link", ENOSYS)
do_create(ops) == Call(ops, "create", ENOSYS)
do_open(ops) == Call(ops, "open", <<"reply", "open">>)
do_read(ops) == Call(ops, "read", ENOSYS)
do_write(ops) == Call(ops, "write", ENOSYS)
\* Only called when the file system has write_buf; a buffer shorter than the
\* size it announces is refused.
do_write_buf(short) == IF short THEN <<"reply", "EIO">> ELSE <<"call", "write_buf">>
do_flush(ops) == Call(ops, "flush", ENOSYS)
do_release(ops) == Call(ops, "release", <<"reply", "0">>)
do_fsync(ops) == Call(ops, "fsync", ENOSYS)
do_opendir(ops) == Call(ops, "opendir", <<"reply", "open">>)
do_readdir(ops) == Call(ops, "readdir", ENOSYS)
do_readdirplus(ops) == Call(ops, "readdirplus", ENOSYS)
do_releasedir(ops) == Call(ops, "releasedir", <<"reply", "0">>)
do_fsyncdir(ops) == Call(ops, "fsyncdir", ENOSYS)
do_statfs(ops) == Call(ops, "statfs", <<"reply", "statfs">>)
do_setxattr(ops) == Call(ops, "setxattr", ENOSYS)
do_getxattr(ops) == Call(ops, "getxattr", ENOSYS)
do_listxattr(ops) == Call(ops, "listxattr", ENOSYS)
do_removexattr(ops) == Call(ops, "removexattr", ENOSYS)
do_getlk(ops) == Call(ops, "getlk", ENOSYS)
do_setlk_common(ops, flock) == IF flock THEN Call(ops, "flock", ENOSYS) ELSE Call(ops, "setlk", ENOSYS)
do_bmap(ops) == Call(ops, "bmap", ENOSYS)
\* A directory ioctl needs the capability FUSE_CAP_IOCTL_DIR.
do_ioctl(ops, dir, cap) == IF dir /\ ~cap THEN <<"reply", "ENOTTY">> ELSE Call(ops, "ioctl", ENOSYS)
do_poll(ops) == Call(ops, "poll", ENOSYS)
do_fallocate(ops) == Call(ops, "fallocate", ENOSYS)

\* fuse_ll_ops: x holds what the choice of a function depends on besides ops.
fuse_ll_ops(ops, x) ==
  [lookup |-> do_lookup(ops), forget |-> do_forget(ops), getattr |-> do_getattr(ops),
   setattr |-> do_setattr(ops), readlink |-> do_readlink(ops), symlink |-> do_symlink(ops),
   mknod |-> do_mknod(ops), mkdir |-> do_mkdir(ops), unlink |-> do_unlink(ops),
   rmdir |-> do_rmdir(ops), rename |-> do_rename(ops), link |-> do_link(ops),
   open |-> do_open(ops), read |-> do_read(ops),
   write |-> IF "write_buf" \in ops THEN do_write_buf(x.short) ELSE do_write(ops),
   statfs |-> do_statfs(ops), release |-> do_release(ops), fsync |-> do_fsync(ops),
   setxattr |-> do_setxattr(ops), getxattr |-> do_getxattr(ops),
   listxattr |-> do_listxattr(ops), removexattr |-> do_removexattr(ops),
   flush |-> do_flush(ops), init |-> <<"init">>, opendir |-> do_opendir(ops),
   readdir |-> do_readdir(ops), releasedir |-> do_releasedir(ops),
   fsyncdir |-> do_fsyncdir(ops), getlk |-> do_getlk(ops),
   setlk |-> do_setlk_common(ops, x.flock), setlkw |-> do_setlk_common(ops, x.flock),
   access |-> do_access(ops), create |-> do_create(ops), interrupt |-> <<"interrupt">>,
   bmap |-> do_bmap(ops), ioctl |-> do_ioctl(ops, x.dir, x.cap), poll |-> do_poll(ops),
   fallocate |-> do_fallocate(ops), destroy |-> <<"destroy">>,
   notify_reply |-> <<"notify_reply">>, batch_forget |-> do_batch_forget(ops),
   readdirplus |-> do_readdirplus(ops), rename2 |-> do_rename2(ops), cuse_init |-> <<"init">>]

\* The opcodes of the kernel; lseek has no entry in fuse_ll_ops.
fuse_opcode == DOMAIN fuse_ll_ops({}, [short |-> FALSE, flock |-> FALSE, dir |-> FALSE, cap |-> FALSE])
               \cup {"lseek"}

\* The error with which fuse_session_process_buf_int refuses a request, in the
\* order of its tests; "no" when it passes them.
Refused(se, op, uid) ==
  IF IF se.got_init THEN op \in {"init", "cuse_init"}
     ELSE op # (IF se.cuse THEN "cuse_init" ELSE "init")
  THEN "EIO"
  ELSE IF se.deny_others /\ uid = Other
            /\ op \notin {"init", "read", "write", "fsync", "release", "readdir", "fsyncdir",
                          "releasedir", "notify_reply", "readdirplus"}
       THEN "EACCES"
       ELSE IF op = "lseek" THEN "ENOSYS" ELSE "no"

\* The requests whose answer nobody waits for.
NoAnswer == {"forget", "batch_forget", "interrupt", "notify_reply"}
=============================================================================
