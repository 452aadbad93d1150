----------------------------- MODULE PluginApi -----------------------------
(***************************************************************************)
(* The operation codes that the handlers and the plugins agree on.  IOOp is *)
(* the enumeration of the file system, iofs_op_t the one of the plugin ABI; *)
(* Monitoring::record converts between them by position.                   *)
(***************************************************************************)
EXTENDS Naturals, Sequences

\* enum class IOOp without its synthetic last element.
IOOp == <<
    "getattr", "readlink", "mkdir", "unlink", "rmdir", "symlink", "rename",
    "link", "chmod", "chown", "truncate", "open", "read", "write", "statfs",
    "flush", "release", "fsync", "setxattr", "getxattr", "listxattr",
    "removexattr", "opendir", "readdir", "releasedir", "access", "create",
    "utimens", "write_buf", "read_buf", "flock", "fallocate" >>

\* iofs_op_t, whose IOFS_OP_COUNT is the length of this sequence.
IofsOp == <<
    "getattr", "readlink", "mkdir", "unlink", "rmdir", "symlink", "rename",
    "link", "chmod", "chown", "truncate", "open", "read", "write", "statfs",
    "flush", "release", "fsync", "setxattr", "getxattr", "listxattr",
    "removexattr", "opendir", "readdir", "releasedir", "access", "create",
    "utimens", "write_buf", "read_buf", "flock", "fallocate" >>

\* The cast by position in Monitoring::record names the same operation on both
\* sides; nothing in the code ties IOOp::last to IOFS_OP_COUNT.
ASSUME SameCodes == IOOp = IofsOp

AllOps == {IofsOp[i] : i \in DOMAIN IofsOp}

\* The operations that plugins/stats.cc counts as it is built, and those it
\* counts with STATS_MINIMAL; either list is meant to be edited.
VerboseOps == AllOps
MinimalOps == {"read", "write", "read_buf", "write_buf", "open", "create",
               "release", "getattr", "readdir"}

\* Names and codes agree by position, so an operation is its name here.
Ordinal(op) == CHOOSE i \in DOMAIN IofsOp : IofsOp[i] = op

\* The operations that move file data, by the direction they move it in.
Directions == {"read", "write"}

MovesData(d) ==
    IF d = "read" THEN {"read", "read_buf"} ELSE {"write", "write_buf"}
=============================================================================
