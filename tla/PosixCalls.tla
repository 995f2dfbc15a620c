------------------------------ MODULE PosixCalls ------------------------------
(***************************************************************************)
(* The calls of runtime/POSIX/fd.c over the state of PosixFiles.  A call   *)
(* that changes nothing is a stuttering step whose answer the client still *)
(* judges; MaxCalls bounds the others.                                     *)
(***************************************************************************)
EXTENDS PosixFiles

\* The client is told the call and its answer; "ok" when no errno was set.
Answer(call, fd, arg, ret, err, data) ==
  LET a == [call |-> call, fd |-> fd, arg |-> arg, ret |-> ret, err |-> err, data |-> data]
  IN client' = Told(client, a) /\ sharing' = Shares(sharing, client, a)

\* A call that leaves everything as it was.
Quiet(call, fd, ret, err) ==
  /\ Answer(call, fd, 0, ret, err, <<>>)
  /\ UNCHANGED <<config, tables, failures, calls>>

\* A call that may change a table.
Changing == calls' = calls + 1 /\ UNCHANGED config

\* A path that ends: an assertion, an invalid access.
Stop(how) ==
  /\ phase' = how
  /\ UNCHANGED <<argv, k, opts, tables, failures, calls, client, sharing>>

\* __get_sym_file and __get_file
SymFile(path) ==
  path \in {SymNames[i] : i \in 1..opts.nFiles} /\ files[path].ino
GetFile(fd) == fd \in FD /\ "eOpen" \in fds[fd].flags
OnSym(fd) == GetFile(fd) /\ fds[fd].dfile # None
OnOs(fd) == GetFile(fd) /\ fds[fd].dfile = None
FileOf(fd) == files[fds[fd].dfile]

FreeFds == {fd \in FD : "eOpen" \notin fds[fd].flags}

\* syscall and klee_get_errno: the operating system, anything (external).
OsResults(n) == -1..n
OsErr(r) == IF r = -1 THEN "os" ELSE "ok"
OsAnswers(call, fd) == \E r \in OsResults(0) : Quiet(call, fd, r, OsErr(r))

\* The shape of most calls: on a symbolic file the answer (ret, err), on
\* anything else what the system says.
PathCall(call, path, ret, err) ==
  IF SymFile(path) THEN Quiet(call, NoFd, ret, err) ELSE OsAnswers(call, NoFd)
FdCall(call, fd, ret, err) ==
  \/ ~GetFile(fd) /\ Quiet(call, fd, -1, "EBADF")
  \/ OnSym(fd) /\ Quiet(call, fd, ret, err)
  \/ OnOs(fd) /\ OsAnswers(call, fd)

\* The *at calls: base is AT_FDCWD (NoFd) or a descriptor of a directory.
AtRefused(call, base) ==
  /\ base # NoFd
  /\ \/ ~GetFile(base) /\ Quiet(call, base, -1, "EBADF")
     \/ OnSym(base) /\ Quiet(call, base, -1, "ENOENT")
AtBase(base) == base = NoFd \/ OnOs(base)

\* Mutant: from the chosen call on, every call fails (>= for ==).
InjectsAgain(kind) ==
  /\ maxFailures > 0
  /\ maxFailures' = maxFailures - 1 /\ settled' = settled \cup {kind}

\* An injected failure: the symbolic *_fail equals the number of this call.
\* That can be so once for each kind of call.
Injects(kind) ==
  /\ maxFailures > 0 /\ kind \notin settled
  /\ maxFailures' = maxFailures - 1 /\ settled' = settled \cup {kind}
InjectedFailure(kind, fd, err) ==
  /\ Injects(kind) /\ Changing
  /\ Answer(kind, fd, 0, -1, err, 0) /\ UNCHANGED tables

-----------------------------------------------------------------------------
Access(path) == PathCall("access", path, 0, "ok")

Umask(mask) ==
  /\ Changing /\ umask' = mask
  /\ UNCHANGED <<fds, files, stdoutWrites, failures, client, sharing>>

\* O_RDONLY is 0: `flags & O_RDONLY` is never true.
HasPermission(flags, mode) ==
  /\ "O_RDWR" \in flags => mode \cap {"ur", "or"} = {}
  /\ flags \cap {"O_WRONLY", "O_RDWR"} # {} => mode \cap {"uw", "ow"} # {}

AccessFlags(flags) ==
  {"eOpen"} \cup (CASE flags \cap {"O_WRONLY", "O_RDWR"} = {} -> {"eReadable"}
                    [] flags \cap {"O_WRONLY", "O_RDWR"} = {"O_WRONLY"} -> {"eWriteable"}
                    [] OTHER -> {"eReadable", "eWriteable"})

\* open and openat of fd_64.c pass mode 0 without O_CREAT.
OpenMode(flags, mode) == IF "O_CREAT" \in flags THEN mode ELSE {}

OpenError(path, flags) ==
  CASE {"O_CREAT", "O_EXCL"} \subseteq flags -> "EEXIST"
    [] "O_EXCL" \in flags /\ "O_CREAT" \notin flags -> "EACCES"
    [] "O_EXCL" \notin flags /\ ~HasPermission(flags, files[path].mode) -> "EACCES"
    [] OTHER -> "ok"

\* An entry is cleared before the outcome is known.
OpenOs(base, flags, fd) ==
  \E r \in OsFds \cup {-1} :
    /\ Changing
    /\ fds' = [fds EXCEPT ![fd] = IF r = -1 THEN Closed ELSE Entry(AccessFlags(flags), r, None)]
    /\ Answer("open", base, 0, IF r = -1 THEN -1 ELSE fd, OsErr(r), OS)
    /\ UNCHANGED <<umask, files, stdoutWrites, failures>>

OpenSym(base, path, flags, mode, fd) ==
  LET err == OpenError(path, flags)
  IN /\ Changing
     /\ IF err # "ok"
          THEN /\ fds' = [fds EXCEPT ![fd] = [Closed EXCEPT !.dfile = path]]
               /\ Answer("open", base, 0, -1, err, 0) /\ UNCHANGED files
          ELSE /\ fds' = [fds EXCEPT ![fd] = Entry(AccessFlags(flags), 0, path)]
               /\ files' = [files EXCEPT ![path].mode =
                              (@ \cap {"sgid"}) \cup (mode \ umask)]
               /\ Answer("open", base, 0, fd, "ok", path)
     /\ UNCHANGED <<umask, stdoutWrites, failures>>

FdOpen(base, path, flags, mode) ==
  IF FreeFds = {} THEN Quiet("open", base, -1, "EMFILE")
  ELSE IF SymFile(path) THEN OpenSym(base, path, flags, mode, Min(FreeFds))
  ELSE OpenOs(base, flags, Min(FreeFds))

Open(path, flags, mode) == FdOpen(NoFd, path, flags, OpenMode(flags, mode))

Openat(base, path, flags, mode) ==
  \/ AtRefused("open", base)
  \/ AtBase(base) /\ FdOpen(base, path, flags, OpenMode(flags, mode))

Utimes(path, t) ==
  \/ /\ SymFile(path) /\ Changing
     /\ files' = [files EXCEPT ![path].times = t]
     /\ Answer("utimes", NoFd, 0, 0, "ok", 0)
     /\ UNCHANGED <<fds, umask, stdoutWrites, failures>>
  \/ ~SymFile(path) /\ OsAnswers("utimes", NoFd)

Futimesat(base, path, t) ==
  \/ AtRefused("futimesat", base)
  \/ AtBase(base) /\ Utimes(path, t)

Close(fd) ==
  \/ ~GetFile(fd) /\ Quiet("close", fd, -1, "EBADF")
  \/ GetFile(fd) /\ InjectedFailure("close", fd, "EIO")
  \/ /\ GetFile(fd) /\ Changing
     /\ fds' = [fds EXCEPT ![fd] = Closed]
     /\ Answer("close", fd, 0, 0, "ok", 0)
     /\ UNCHANGED <<umask, files, stdoutWrites, failures>>

\* A transfer through a concrete descriptor moves its offset by the result,
\* except on the standard streams.
OsTransfer(call, fd, n, streams) ==
  \E r \in OsResults(n) :
    LET moves == r > 0 /\ fds[fd].fd \notin streams
    IN /\ moves => fds[fd].off + r <= MaxOff
       /\ IF moves THEN Changing /\ fds' = [fds EXCEPT ![fd].off = @ + r]
                   ELSE UNCHANGED <<config, calls, fds>>
       /\ Answer(call, fd, n, r, OsErr(r), 0)
       /\ UNCHANGED <<umask, files, stdoutWrites, failures>>

ReadSym(fd, n) ==
  LET f == FileOf(fd)
      off == fds[fd].off
      count == IF f.size < off THEN 0 ELSE Min({n, f.size - off})
  IN /\ Changing
     /\ fds' = [fds EXCEPT ![fd].off = @ + count]
     /\ Answer("read", fd, n, count, "ok", [i \in 1..count |-> f.contents[off + i - 1]])
     /\ UNCHANGED <<umask, files, stdoutWrites, failures>>

Read(fd, n, buf) ==
  \/ n = 0 /\ Quiet("read", fd, 0, "ok")
  \/ n # 0 /\ buf = "NULL" /\ Quiet("read", fd, -1, "EFAULT")
  \/ /\ n # 0 /\ buf # "NULL"
     /\ \/ ~GetFile(fd) /\ Quiet("read", fd, -1, "EBADF")
        \/ GetFile(fd) /\ InjectedFailure("read", fd, "EIO")
        \/ OnSym(fd) /\ ReadSym(fd, n)
        \/ OnOs(fd) /\ OsTransfer("read", fd, n, {0})

\* Mutant: the offset moves by the bytes stored.
WriteEndStored(off, count, actual) == off + actual

WriteEnd(off, count, actual) == off + count

\* Bytes past the end are ignored, or assert(0) with -save-all-writes.
WriteSym(fd, data) ==
  LET f == FileOf(fd)
      off == fds[fd].off
      fits == off + Len(data) <= f.size
      actual == IF fits THEN Len(data) ELSE Max({0, f.size - off})
  IN IF ~fits /\ opts.saveAllWrites THEN Stop("assert")
     ELSE /\ Changing /\ off + Len(data) <= MaxOff
          /\ files' = [files EXCEPT ![fds[fd].dfile].contents =
                         [p \in DOMAIN @ |-> IF p \in off..(off + actual - 1)
                                               THEN data[p - off + 1] ELSE @[p]]]
          /\ stdoutWrites' = stdoutWrites + IF fds[fd].dfile = "stdout" THEN actual ELSE 0
          /\ fds' = [fds EXCEPT ![fd].off = WriteEnd(@, Len(data), actual)]
          /\ Answer("write", fd, 0, Len(data), "ok", data)
          /\ UNCHANGED <<umask, failures>>

Write(fd, data) ==
  \/ ~GetFile(fd) /\ Quiet("write", fd, -1, "EBADF")
  \/ GetFile(fd) /\ InjectedFailure("write", fd, "EIO")
  \/ OnSym(fd) /\ WriteSym(fd, data)
  \/ OnOs(fd) /\ OsTransfer("write", fd, Len(data), {1, 2})

\* A descriptor's offset after a seek; -1 is refused.
SeekTo(fd, offset, whence) ==
  LET to == CASE whence = "SEEK_SET" -> offset
              [] whence = "SEEK_CUR" -> fds[fd].off + offset
              [] whence = "SEEK_END" -> FileOf(fd).size + offset
              [] OTHER -> -1
  IN IF to < 0 THEN -1 ELSE to

Moved(fd, to) ==
  /\ Changing /\ to <= MaxOff
  /\ fds' = [fds EXCEPT ![fd].off = to]
  /\ Answer("lseek", fd, 0, to, "ok", 0)
  /\ UNCHANGED <<umask, files, stdoutWrites, failures>>

Lseek(fd, offset, whence) ==
  \/ ~GetFile(fd) /\ Quiet("lseek", fd, -1, "EBADF")
  \/ /\ OnSym(fd)
     /\ LET to == SeekTo(fd, offset, whence)
        IN IF to = -1 THEN Quiet("lseek", fd, -1, "EINVAL") ELSE Moved(fd, to)
  \/ /\ OnOs(fd)
     /\ \E r \in {-1} \cup {o \in Offsets : o >= 0} :
          IF r = -1 THEN Quiet("lseek", fd, -1, "os") ELSE Moved(fd, r)

-----------------------------------------------------------------------------
\* Calls that tell what is there.

Stat(path) == PathCall("stat", path, 0, "ok")
Lstat(path) == PathCall("lstat", path, 0, "ok")
Fstat(fd) == FdCall("fstat", fd, 0, "ok")
Fstatat(base, path) ==
  \/ AtRefused("fstatat", base)
  \/ AtBase(base) /\ PathCall("fstatat", path, 0, "ok")

Chdir(path) == PathCall("chdir", path, -1, "ENOENT")
Fchdir(fd) == FdCall("fchdir", fd, -1, "ENOENT")
Statfs(path) == PathCall("statfs", path, -1, "ENOENT")
Fstatfs(fd) == FdCall("fstatfs", fd, -1, "EBADF")
Fsync(fd) == FdCall("fsync", fd, 0, "ok")

\* __df_chown refuses; fchown hands the system the program's descriptor.
DfChownErr == "EPERM"
Chown(path) == PathCall("chown", path, -1, DfChownErr)
Lchown(path) == PathCall("lchown", path, -1, DfChownErr)
Fchown(fd) == FdCall("fchown", fd, -1, DfChownErr)

\* __df_chmod
DfChmod(call, fd, f, mode) ==
  IF files[f].mine
    THEN /\ Changing
         /\ files' = [files EXCEPT ![f].mode =
                        IF files[f].group THEN mode ELSE mode \ {"sgid"}]
         /\ Answer(call, fd, 0, 0, "ok", 0)
         /\ UNCHANGED <<fds, umask, stdoutWrites, failures>>
    ELSE Quiet(call, fd, -1, "EPERM")

\* klee_init_fds allocates no chmod_fail and no fchmod_fail: with failures
\* left, the comparison reads through a null pointer.
ChmodFailIsNull == maxFailures > 0

Chmod(path, mode) ==
  IF ChmodFailIsNull THEN Stop("crash")
  ELSE \/ SymFile(path) /\ DfChmod("chmod", NoFd, path, mode)
       \/ ~SymFile(path) /\ OsAnswers("chmod", NoFd)

Fchmod(fd, mode) ==
  \/ ~GetFile(fd) /\ Quiet("fchmod", fd, -1, "EBADF")
  \/ GetFile(fd) /\ ChmodFailIsNull /\ Stop("crash")
  \/ OnSym(fd) /\ ~ChmodFailIsNull /\ DfChmod("fchmod", fd, fds[fd].dfile, mode)
  \/ OnOs(fd) /\ ~ChmodFailIsNull /\ OsAnswers("fchmod", fd)

Ftruncate(fd) ==
  \/ GetFile(fd) /\ InjectedFailure("ftruncate", fd, "EIO")
  \/ FdCall("ftruncate", fd, -1, "EIO")

\* The symbolic files are listed first, from record off / DirentSize on, and
\* a "deleted" record leads to the records of the system at DirBase.
GetdentsSym(fd, count) ==
  LET off == fds[fd].off
      i == off \div DirentSize
      bytes == DirentSize * (opts.nFiles - i)
      pad == Min({count, DirBase})
  IN IF i * DirentSize # off \/ i > opts.nFiles
       THEN Quiet("getdents", fd, -1, "EINVAL")
       ELSE /\ Changing
            /\ fds' = [fds EXCEPT ![fd].off = pad]
            /\ Answer("getdents", fd, count, bytes + ((pad - bytes) % 65536), "ok", 0)
            /\ UNCHANGED <<umask, files, stdoutWrites, failures>>

GetdentsOs(fd) ==
  \/ Quiet("getdents", fd, -1, "os")
  \/ \E pos \in {o \in Offsets : o >= 0} :
       /\ Changing /\ pos + DirBase <= MaxOff
       /\ fds' = [fds EXCEPT ![fd].off = pos + DirBase]
       /\ Answer("getdents", fd, 0, 0, "ok", 0)
       /\ UNCHANGED <<umask, files, stdoutWrites, failures>>

Getdents(fd, count) ==
  \/ ~GetFile(fd) /\ Quiet("getdents", fd, -1, "EBADF")
  \/ OnSym(fd) /\ Quiet("getdents", fd, -1, "EINVAL")
  \/ OnOs(fd) /\ fds[fd].off < DirBase /\ GetdentsSym(fd, count)
  \/ OnOs(fd) /\ fds[fd].off >= DirBase /\ GetdentsOs(fd)

\* ioctl of a symbolic file; only terminals answer.
TtyRequests == {"TCGETS", "TCSETS", "TCSETSF", "TIOCGWINSZ"}
IoctlErr(fd, request) ==
  LET tty == FileOf(fd).type = "CHR"
  IN CASE request \in TtyRequests \cup {"FIONREAD"} -> IF tty THEN "ok" ELSE "ENOTTY"
       [] request = "TCSETSW" -> IF fd = 0 THEN "ok" ELSE "ENOTTY"
       [] request = "TIOCSWINSZ" -> IF tty THEN "EINVAL" ELSE "ENOTTY"
       [] OTHER -> "EINVAL"                      \* MTIOCGET and the others
BytesLeft(fd) == Max({0, FileOf(fd).size - fds[fd].off})

Ioctl(fd, request) ==
  LET err == IoctlErr(fd, request)
  IN \/ ~GetFile(fd) /\ Quiet("ioctl", fd, -1, "EBADF")
     \/ /\ OnSym(fd)
        /\ Answer(IF request = "FIONREAD" THEN request ELSE "ioctl", fd, 0,
                  IF err = "ok" THEN 0 ELSE -1, err, BytesLeft(fd))
        /\ UNCHANGED <<config, tables, failures, calls>>
     \/ OnOs(fd) /\ OsAnswers("ioctl", fd)

Fcntl(fd, cmd, cloexec) ==
  \/ ~GetFile(fd) /\ Quiet("fcntl", fd, -1, "EBADF")
  \/ /\ OnSym(fd) /\ cmd \in {"F_GETFD", "F_GETFL"}
     /\ Quiet("fcntl", fd, IF cmd = "F_GETFD" /\ "eCloseOnExec" \in fds[fd].flags
                             THEN 1 ELSE 0, "ok")
  \/ /\ OnSym(fd) /\ cmd = "F_SETFD" /\ Changing
     /\ fds' = [fds EXCEPT ![fd].flags =
                  (@ \ {"eCloseOnExec"}) \cup (IF cloexec THEN {"eCloseOnExec"} ELSE {})]
     /\ Answer("fcntl", fd, 0, 0, "ok", 0)
     /\ UNCHANGED <<umask, files, stdoutWrites, failures>>
  \/ OnSym(fd) /\ cmd = "F_OTHER" /\ Quiet("fcntl", fd, -1, "EINVAL")
  \/ OnOs(fd) /\ OsAnswers("fcntl", fd)

-----------------------------------------------------------------------------
\* dup2 closes newfd first; a failure of that close goes unnoticed.
DupTo(call, old, new) ==
  LET closing == GetFile(new)
      after(table) == [table EXCEPT ![new] =
                         [table[old] EXCEPT !.flags = @ \ {"eCloseOnExec"}]]
  IN /\ Changing /\ Answer(call, old, new, new, "ok", 0)
     /\ \/ closing /\ Injects("close") /\ fds' = after(fds)
        \/ closing /\ UNCHANGED failures /\ fds' = after([fds EXCEPT ![new] = Closed])
        \/ ~closing /\ UNCHANGED failures /\ fds' = after(fds)
     /\ UNCHANGED <<umask, files, stdoutWrites>>

Dup2(old, new) ==
  IF GetFile(old) /\ new \in FD THEN DupTo("dup2", old, new)
  ELSE /\ Answer("dup2", old, new, -1, "EBADF", 0)
       /\ UNCHANGED <<config, tables, failures, calls>>

Dup(old) ==
  \/ ~GetFile(old) /\ Quiet("dup", old, -1, "EBADF")
  \/ GetFile(old) /\ FreeFds = {} /\ Quiet("dup", old, -1, "EMFILE")
  \/ GetFile(old) /\ FreeFds # {} /\ DupTo("dup", old, Min(FreeFds))

\* A removed symbolic file loses its name (st_ino 0); its descriptors stay.
Remove(call, path, type, err) ==
  IF SymFile(path) /\ files[path].type = type
    THEN /\ Changing /\ files' = [files EXCEPT ![path].ino = FALSE]
         /\ Answer(call, NoFd, 0, 0, "ok", 0)
         /\ UNCHANGED <<fds, umask, stdoutWrites, failures>>
    ELSE Quiet(call, NoFd, -1, err)

Rmdir(path) ==
  Remove("rmdir", path, "DIR", IF SymFile(path) THEN "ENOTDIR" ELSE "EPERM")
UnlinkErr(path) ==
  IF SymFile(path) /\ files[path].type = "DIR" THEN "EISDIR" ELSE "EPERM"
Unlink(path) == Remove("unlink", path, "REG", UnlinkErr(path))
Unlinkat(path) == Remove("unlinkat", path, "REG", UnlinkErr(path))

Readlink(path, n) ==
  IF SymFile(path)
    THEN IF files[path].type = "LNK" THEN Quiet("readlink", NoFd, Min({n, 5}), "ok")
         ELSE Quiet("readlink", NoFd, -1, "EINVAL")
    ELSE OsAnswers("readlink", NoFd)

\* select: symbolic descriptors are always ready; the others are asked of
\* the system, whose answer is spread over all descriptors of an OS file.
SelectAsked(s) ==
  {a \in {"read", "write", "except"} \X FD : a[2] \in s.sets[a[1]] /\ a[2] < s.nfds}
SelectOs(s) == {<<a[1], fds[a[2]].fd>> : a \in {b \in SelectAsked(s) : OnOs(b[2])}}
SelectSym(s) == {a \in SelectAsked(s) : OnSym(a[2])}
SelectReady(s, bits) ==
  SelectSym(s) \cup {a \in {"read", "write", "except"} \X FD :
                       OnOs(a[2]) /\ a[2] < s.nfds /\ <<a[1], fds[a[2]].fd>> \in bits}

Select(s) ==
  LET count == Cardinality({a[2] : a \in SelectSym(s)})
  IN IF \E a \in SelectAsked(s) : ~GetFile(a[2])
       THEN Quiet("select", NoFd, -1, "EBADF")
       ELSE \/ \E bits \in SUBSET SelectOs(s) :
                 /\ Answer("select", NoFd, 0, count + Cardinality(bits), "ok", SelectReady(s, bits))
                 /\ UNCHANGED <<config, tables, failures, calls>>
            \/ count = 0 /\ SelectOs(s) # {} /\ Quiet("select", NoFd, -1, "os")

Getcwd ==
  \/ InjectedFailure("getcwd", NoFd, "ERANGE")
  \/ OsAnswers("getcwd", NoFd)

Chroot(path) ==
  IF path = "/" THEN Quiet("chroot", NoFd, 0, "ok") ELSE Quiet("chroot", NoFd, -1, "ENOENT")
=============================================================================
