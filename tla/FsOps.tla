------------------------------- MODULE FsOps -------------------------------
(***************************************************************************)
(* The operations of a file system below the high-level library: the       *)
(* functions fuse_fs_* that call the topmost layer, and the tables of the  *)
(* two built-in modules, subdir and iconv, whose handlers translate the    *)
(* paths they are given and call the same fuse_fs_* of the layer below.    *)
(***************************************************************************)
EXTENDS Sequences, TLC

\* Call the first of the operations that the layer has; `missing' if it has none.
FirstOf(alts, missing) == [alts |-> alts, missing |-> missing]
ENOSYS == "ENOSYS"

fuse_fs_getattr == FirstOf(<<"getattr">>, ENOSYS)
fuse_fs_access == FirstOf(<<"access">>, ENOSYS)
fuse_fs_readlink == FirstOf(<<"readlink">>, ENOSYS)
fuse_fs_opendir == FirstOf(<<"opendir">>, "ok")
fuse_fs_readdir == FirstOf(<<"readdir">>, ENOSYS)
fuse_fs_releasedir == FirstOf(<<"releasedir">>, "ok")
fuse_fs_mknod == FirstOf(<<"mknod">>, ENOSYS)
fuse_fs_mkdir == FirstOf(<<"mkdir">>, ENOSYS)
fuse_fs_unlink == FirstOf(<<"unlink">>, ENOSYS)
fuse_fs_rmdir == FirstOf(<<"rmdir">>, ENOSYS)
fuse_fs_symlink == FirstOf(<<"symlink">>, ENOSYS)
fuse_fs_rename == FirstOf(<<"rename">>, ENOSYS)
fuse_fs_link == FirstOf(<<"link">>, ENOSYS)
fuse_fs_chmod == FirstOf(<<"chmod">>, ENOSYS)
fuse_fs_chown == FirstOf(<<"chown">>, ENOSYS)
fuse_fs_truncate == FirstOf(<<"truncate">>, ENOSYS)
fuse_fs_utimens == FirstOf(<<"utimens">>, ENOSYS)
fuse_fs_create == FirstOf(<<"create">>, ENOSYS)
fuse_fs_open == FirstOf(<<"open">>, "ok")
fuse_fs_read_buf == FirstOf(<<"read_buf", "read">>, ENOSYS)
fuse_fs_read == FirstOf(<<"read_buf", "read">>, ENOSYS)
fuse_fs_write_buf == FirstOf(<<"write_buf", "write">>, ENOSYS)
fuse_fs_write == fuse_fs_write_buf
fuse_fs_statfs == FirstOf(<<"statfs">>, "ok")
fuse_fs_flush == FirstOf(<<"flush">>, ENOSYS)
fuse_fs_release == FirstOf(<<"release">>, "ok")
fuse_fs_fsync == FirstOf(<<"fsync">>, ENOSYS)
fuse_fs_fsyncdir == FirstOf(<<"fsyncdir">>, ENOSYS)
fuse_fs_setxattr == FirstOf(<<"setxattr">>, ENOSYS)
fuse_fs_getxattr == FirstOf(<<"getxattr">>, ENOSYS)
fuse_fs_listxattr == FirstOf(<<"listxattr">>, ENOSYS)
fuse_fs_removexattr == FirstOf(<<"removexattr">>, ENOSYS)
fuse_fs_lock == FirstOf(<<"lock">>, ENOSYS)
fuse_fs_flock == FirstOf(<<"flock">>, ENOSYS)
fuse_fs_bmap == FirstOf(<<"bmap">>, ENOSYS)
fuse_fs_ioctl == FirstOf(<<"ioctl">>, ENOSYS)
fuse_fs_poll == FirstOf(<<"poll">>, ENOSYS)
fuse_fs_fallocate == FirstOf(<<"fallocate">>, ENOSYS)

fuse_operations ==
  [getattr |-> fuse_fs_getattr, access |-> fuse_fs_access, readlink |-> fuse_fs_readlink,
    opendir |-> fuse_fs_opendir, readdir |-> fuse_fs_readdir, releasedir |-> fuse_fs_releasedir,
    mknod |-> fuse_fs_mknod, mkdir |-> fuse_fs_mkdir, unlink |-> fuse_fs_unlink,
    rmdir |-> fuse_fs_rmdir, symlink |-> fuse_fs_symlink, rename |-> fuse_fs_rename,
    link |-> fuse_fs_link, chmod |-> fuse_fs_chmod, chown |-> fuse_fs_chown,
    truncate |-> fuse_fs_truncate, utimens |-> fuse_fs_utimens, create |-> fuse_fs_create,
    open |-> fuse_fs_open, read_buf |-> fuse_fs_read_buf, read |-> fuse_fs_read,
    write_buf |-> fuse_fs_write_buf, write |-> fuse_fs_write, statfs |-> fuse_fs_statfs,
    flush |-> fuse_fs_flush, release |-> fuse_fs_release, fsync |-> fuse_fs_fsync,
    fsyncdir |-> fuse_fs_fsyncdir, setxattr |-> fuse_fs_setxattr, getxattr |-> fuse_fs_getxattr,
    listxattr |-> fuse_fs_listxattr, removexattr |-> fuse_fs_removexattr, lock |-> fuse_fs_lock,
    flock |-> fuse_fs_flock, bmap |-> fuse_fs_bmap, ioctl |-> fuse_fs_ioctl,
    poll |-> fuse_fs_poll, fallocate |-> fuse_fs_fallocate]

-----------------------------------------------------------------------------
(* Which arguments a handler of subdir translates                          *)

OnePath == <<TRUE>>
TwoPaths == <<TRUE, TRUE>>
\* the contents of a symbolic link are stored as they come
SecondPath == <<FALSE, TRUE>>

subdir_getattr == OnePath
subdir_access == OnePath
subdir_readlink == OnePath
subdir_opendir == OnePath
subdir_readdir == OnePath
subdir_releasedir == OnePath
subdir_mknod == OnePath
subdir_mkdir == OnePath
subdir_unlink == OnePath
subdir_rmdir == OnePath
subdir_symlink == SecondPath
subdir_rename == TwoPaths
subdir_link_source == <<TRUE, FALSE>>
subdir_link == TwoPaths
subdir_chmod == OnePath
subdir_chown == OnePath
subdir_truncate == OnePath
subdir_utimens == OnePath
subdir_create == OnePath
subdir_open == OnePath
subdir_read_buf == OnePath
subdir_write_buf == OnePath
subdir_statfs == OnePath
subdir_flush == OnePath
subdir_release == OnePath
subdir_fsync == OnePath
subdir_fsyncdir == OnePath
subdir_setxattr == OnePath
subdir_getxattr == OnePath
subdir_listxattr == OnePath
subdir_removexattr == OnePath
subdir_lock == OnePath
subdir_flock == OnePath
subdir_bmap == OnePath

subdir_oper ==
  [getattr |-> subdir_getattr, access |-> subdir_access, readlink |-> subdir_readlink,
    opendir |-> subdir_opendir, readdir |-> subdir_readdir, releasedir |-> subdir_releasedir,
    mknod |-> subdir_mknod, mkdir |-> subdir_mkdir, unlink |-> subdir_unlink,
    rmdir |-> subdir_rmdir, symlink |-> subdir_symlink, rename |-> subdir_rename,
    link |-> subdir_link, chmod |-> subdir_chmod, chown |-> subdir_chown,
    truncate |-> subdir_truncate, utimens |-> subdir_utimens, create |-> subdir_create,
    open |-> subdir_open, read_buf |-> subdir_read_buf, write_buf |-> subdir_write_buf,
    statfs |-> subdir_statfs, flush |-> subdir_flush, release |-> subdir_release,
    fsync |-> subdir_fsync, fsyncdir |-> subdir_fsyncdir, setxattr |-> subdir_setxattr,
    getxattr |-> subdir_getxattr, listxattr |-> subdir_listxattr,
    removexattr |-> subdir_removexattr, lock |-> subdir_lock, flock |-> subdir_flock,
    bmap |-> subdir_bmap]

-----------------------------------------------------------------------------
(* Which arguments a handler of iconv translates                           *)

iconv_getattr == OnePath
iconv_access == OnePath
\* (the text of the link is converted on its way up: LinkUp of FsStack)
iconv_readlink == OnePath
iconv_opendir == OnePath
iconv_readdir == OnePath
iconv_releasedir == OnePath
iconv_mknod == OnePath
iconv_mkdir == OnePath
iconv_unlink == OnePath
iconv_rmdir == OnePath
iconv_symlink == TwoPaths
iconv_rename == TwoPaths
iconv_link == TwoPaths
iconv_chmod == OnePath
iconv_chown == OnePath
iconv_truncate == OnePath
iconv_utimens == OnePath
iconv_create == OnePath
iconv_open_file == OnePath
iconv_read_buf == OnePath
iconv_write_buf == OnePath
iconv_statfs == OnePath
iconv_flush == OnePath
iconv_release == OnePath
iconv_fsync == OnePath
iconv_fsyncdir == OnePath
iconv_setxattr == OnePath
iconv_getxattr == OnePath
iconv_listxattr == OnePath
iconv_removexattr == OnePath
iconv_lock == OnePath
iconv_flock == OnePath
iconv_bmap == OnePath

iconv_oper ==
  [getattr |-> iconv_getattr, access |-> iconv_access, readlink |-> iconv_readlink,
    opendir |-> iconv_opendir, readdir |-> iconv_readdir, releasedir |-> iconv_releasedir,
    mknod |-> iconv_mknod, mkdir |-> iconv_mkdir, unlink |-> iconv_unlink,
    rmdir |-> iconv_rmdir, symlink |-> iconv_symlink, rename |-> iconv_rename,
    link |-> iconv_link, chmod |-> iconv_chmod, chown |-> iconv_chown,
    truncate |-> iconv_truncate, utimens |-> iconv_utimens, create |-> iconv_create,
    open |-> iconv_open_file, read_buf |-> iconv_read_buf, write_buf |-> iconv_write_buf,
    statfs |-> iconv_statfs, flush |-> iconv_flush, release |-> iconv_release,
    fsync |-> iconv_fsync, fsyncdir |-> iconv_fsyncdir, setxattr |-> iconv_setxattr,
    getxattr |-> iconv_getxattr, listxattr |-> iconv_listxattr,
    removexattr |-> iconv_removexattr, lock |-> iconv_lock, flock |-> iconv_flock,
    bmap |-> iconv_bmap]
=============================================================================
