----------------------------- MODULE PosixRuntime -----------------------------
(***************************************************************************)
(* The whole POSIX runtime: the start of a program (klee_init_env,         *)
(* klee_init_fds), the calls of PosixCalls in any order, and the calls of  *)
(* stubs.c and illegal.c, which never reach a file.                        *)
(***************************************************************************)
EXTENDS PosixCalls

Ignored(names) == [c \in names |-> <<0, "ok">>]
Refused(names, err) == [c \in names |-> <<-1, err>>]

\* stubs.c: what each call answers.
SignalStubs == Ignored({"rt_sigaction", "sigaction", "sigprocmask", "fdatasync", "sync"})
MakeStubs ==
  [c \in {"socketcall", "mkdir", "mkfifo", "mknod", "pipe", "link", "symlink", "rename"} |->
     <<-1, CASE c = "socketcall" -> "EAFNOSUPPORT" [] c = "pipe" -> "ENFILE"
             [] c \in {"mkdir", "mkfifo", "mknod"} -> "EIO" [] OTHER -> "EPERM">>]
TimeStubs ==
  [c \in {"nanosleep", "clock_gettime", "clock_settime", "times"} |->
     IF c = "clock_settime" THEN <<-1, "EPERM">> ELSE <<0, "ok">>]
UserStubs ==
  [c \in {"utmpxname", "utime", "futimes", "getloadavg"} |->
     CASE c = "utmpxname" -> <<0, "ok">> [] c = "utime" -> <<-1, "EPERM">>
       [] c = "futimes" -> <<-1, "EBADF">> [] c = "getloadavg" -> <<-1, "ok">>]
WaitStubs == Refused({"wait", "wait3", "wait4", "waitpid", "waitid"}, "ECHILD")
AclStubs ==          \* a null acl_t is written -1 here
  [c \in {"acl_delete_def_file", "acl_extended_file", "acl_entries", "acl_from_mode",
          "acl_get_fd", "acl_get_file", "acl_set_fd", "acl_set_file", "acl_free"} |->
     <<-1, CASE c = "acl_extended_file" -> "ENOENT"
             [] c \in {"acl_entries", "acl_free"} -> "EINVAL"
             [] c \in {"acl_from_mode", "acl_get_fd", "acl_get_file"} -> "ENOMEM"
             [] OTHER -> "EPERM">>]
MountStubs == Refused({"mount", "umount", "umount2", "swapon", "swapoff"}, "EPERM")
SetStubs ==
  [c \in {"setgid", "setgroups", "sethostname", "setpgid", "setpgrp", "setpriority",
          "setresgid", "setresuid", "setrlimit", "setrlimit64", "setsid",
          "settimeofday", "setuid"} |->
     IF c \in {"setgid", "setuid"} THEN <<0, "ok">> ELSE <<-1, "EPERM">>]
MemoryStubs ==
  Refused({"reboot", "mlock", "munlock", "pause", "readahead", "mmap", "mmap64", "munmap"},
          "EPERM")

\* illegal.c
IllegalCalls ==
  [c \in {"kill", "_setjmp", "exec", "fork", "vfork"} |->
     CASE c = "kill" -> <<-1, "EPERM">> [] c = "_setjmp" -> <<0, "ok">>
       [] c = "exec" -> <<-1, "EACCES">> [] OTHER -> <<-1, "ENOMEM">>]
Longjmp == Stop("error")

StubTables == {SignalStubs, MakeStubs, TimeStubs, UserStubs, WaitStubs, AclStubs,
               MountStubs, SetStubs, MemoryStubs, IllegalCalls}

\* Stubs with the same answer teach the same.
StubAnswers == UNION {{t[c] : c \in DOMAIN t} : t \in StubTables}
Stub == \E answer \in StubAnswers : Quiet("stub", NoFd, answer[1], answer[2])

\* euidaccess and eaccess
EffectiveAccess(path) == Access(path)

-----------------------------------------------------------------------------
Start ==
  \/ HelpOption \/ SymArgOption \/ SymArgsOption \/ SymFilesOption
  \/ SymStdinOption \/ SymStdoutOption \/ SaveAllWritesOption \/ FdFailOption
  \/ MaxFailOption \/ PlainArgument \/ KleeInitFds

OfPath ==
  \E path \in PathArgs :
    \/ Access(path) \/ EffectiveAccess(path) \/ Stat(path) \/ Lstat(path)
    \/ Chdir(path) \/ Statfs(path) \/ Chown(path) \/ Lchown(path)
    \/ Rmdir(path) \/ Unlink(path) \/ Unlinkat(path) \/ Chroot(path)
    \/ \E n \in Counts : Readlink(path, n)
    \/ \E t \in {1} : Utimes(path, t)
    \/ \E mode \in Modes : Chmod(path, mode)
    \/ \E flags \in OpenFlags, mode \in Modes : Open(path, flags, mode)
    \/ \E base \in FdArgs \cup {NoFd} :
         \/ Fstatat(base, path)
         \/ \E t \in {1} : Futimesat(base, path, t)
         \/ \E flags \in OpenFlags, mode \in Modes : Openat(base, path, flags, mode)

OfDescriptor ==
  \E fd \in FdArgs :
    \/ Close(fd) \/ Dup(fd) \/ Fstat(fd) \/ Fchdir(fd) \/ Fstatfs(fd) \/ Fsync(fd)
    \/ Fchown(fd) \/ Ftruncate(fd)
    \/ \E new \in FdArgs : Dup2(fd, new)
    \/ \E mode \in Modes : Fchmod(fd, mode)
    \/ \E n \in Counts, buf \in {"NULL", "buf"} : Read(fd, n, buf)
    \/ \E data \in Buffers : Write(fd, data)
    \/ \E o \in Offsets, w \in {"SEEK_SET", "SEEK_CUR", "SEEK_END", "bad"} : Lseek(fd, o, w)
    \/ \E n \in Counts : Getdents(fd, n)
    \/ \E r \in TtyRequests \cup {"TCSETSW", "TIOCSWINSZ", "FIONREAD", "MTIOCGET"} : Ioctl(fd, r)
    \/ \E cmd \in {"F_GETFD", "F_GETFL", "F_SETFD", "F_OTHER"}, b \in BOOLEAN : Fcntl(fd, cmd, b)

Others ==
  \/ \E mask \in Modes : Umask(mask)
  \/ \E s \in SelectArgs : Select(s)
  \/ Getcwd \/ Stub \/ Longjmp

Running == phase = "run" /\ calls < MaxCalls

Next ==
  \/ Start
  \/ Running /\ OfPath
  \/ Running /\ OfDescriptor
  \/ Running /\ Others

Spec == Init /\ [][Next]_vars

-----------------------------------------------------------------------------
(***************************************************************************)
(* Properties.                                                             *)
(***************************************************************************)

\* Whatever the order of opens, duplications, closes, seeks, transfers and
\* injected failures, the answers of the runtime are all a program needs:
\* none contradicts an earlier one, and the descriptor table, the offsets
\* and the contents are what the program works out for itself, bytes past
\* the end of a file and removed names included (fd.c: open, close, read,
\* write, __fd_lseek, dup2, unlink).  After dup2(fd, fd) it cannot know
\* whether fd is still open, and nothing more is claimed.  Nor is anything
\* claimed of the position of a descriptor after one that dup or dup2 made it
\* share a file with has moved, or once such a descriptor was read or written:
\* POSIX moves both, dup2 copies the entry ("XXX Incorrect, really we need
\* another data structure for open files", fd.c:1166) and moves one.
AnswersTellAll ==
  (phase = "run" /\ ~client.lost /\ ~sharing.misled) =>
    /\ client.complaints = {}
    /\ \A fd \in FD :
         /\ GetFile(fd) <=> client.holds[fd] # None
         /\ OnSym(fd) => fds[fd].dfile = client.holds[fd]
         /\ OnSym(fd) /\ fd \notin sharing.astray => fds[fd].off = client.pos[fd]
    /\ \A f \in DOMAIN files : files[f].contents = client.image[f]
    /\ stdoutWrites = client.out

\* An injected failure (max_failures counts down) is only that: no file, no
\* mode and no descriptor changes, no kind of call fails twice and never
\* more than -max-fail of them do.  The exception is the failure of the
\* close inside dup2, which dup2 does not see: newfd is overwritten.
FailuresOnlyFail ==
  [][maxFailures' # maxFailures /\ phase = "run" =>
       /\ maxFailures' = maxFailures - 1
       /\ UNCHANGED <<files, umask, stdoutWrites>>
       /\ Cardinality(settled') = opts.maxFail - maxFailures'
       /\ \A fd \in FD : fds'[fd] # fds[fd] =>
            /\ settled' = settled \cup {"close"}
            /\ \E old \in FD : fds'[fd] = [fds[old] EXCEPT !.flags = @ \ {"eCloseOnExec"}]]_vars

-----------------------------------------------------------------------------
(***************************************************************************)
(* The inductive invariant.                                                *)
(***************************************************************************)

TypeOK ==
  /\ phase \in {"args", "run", "error", "crash", "assert"}
  /\ argv \in ArgLists /\ k \in Nat \ {0}
  /\ opts \in [nFiles : 0..Len(SymNames), fileLength : Nat, stdinLength : Nat,
               symStdout : BOOLEAN, saveAllWrites : BOOLEAN, maxFail : Nat, argc : Nat]

\* Nothing has happened to the tables while the command line is read.
AtStart ==
  /\ \A fd \in FD : fds[fd] = CASE fd = 0 -> Entry({"eOpen", "eReadable"}, 0, None)
                                [] fd \in {1, 2} -> Entry({"eOpen", "eWriteable"}, fd, None)
                                [] OTHER -> Closed
  /\ fds = [fd \in FD |-> fds[fd]]
  /\ settled = {} /\ stdoutWrites = 0

EntryFlags == {"eOpen", "eReadable", "eWriteable", "eCloseOnExec"}

\* The files are those of the options, and keep their sizes; an entry refers
\* to one of them or to none, at no negative offset.
TablesInv ==
  /\ files = [f \in DOMAIN files |-> files[f]]
  /\ {None, OS} \cap DOMAIN files = {}
  /\ {SymNames[i] : i \in 1..opts.nFiles} \in SUBSET DOMAIN files
  /\ \A f \in DOMAIN files :
       LET file == files[f] IN
       /\ file = [size |-> file.size, contents |-> file.contents, ino |-> file.ino,
                  mode |-> file.mode, type |-> file.type, mine |-> file.mine,
                  group |-> file.group, times |-> file.times]
       /\ file.size \in Nat /\ file.contents \in [0..(file.size - 1) -> Nat]
  /\ fds \in [FD -> [flags : SUBSET EntryFlags, fd : OsFds \cup 0..2, off : Nat,
                     dfile : DOMAIN files \cup {None}]]
  /\ stdoutWrites \in Nat

\* One kind of call for each failure that was injected.
FailuresInv ==
  /\ maxFailures \in Int /\ IsFiniteSet(settled)
  /\ Cardinality(settled) = opts.maxFail - maxFailures

\* What the program knows is what the tables hold.
ClientInv ==
  /\ client = [holds |-> client.holds, pos |-> client.pos, image |-> client.image,
               out |-> client.out, complaints |-> client.complaints, lost |-> client.lost]
  /\ client.holds = [fd \in FD |-> client.holds[fd]]
  /\ client.pos = [fd \in FD |-> client.pos[fd]]
  /\ client.lost \in BOOLEAN
  /\ ~client.lost =>
       /\ client.complaints = {}
       /\ \A fd \in FD :
            /\ client.holds[fd] = IF ~GetFile(fd) THEN None
                                  ELSE IF OnOs(fd) THEN OS ELSE fds[fd].dfile
            /\ OnSym(fd) => fds[fd].off = client.pos[fd]
       /\ client.image = [f \in DOMAIN files |-> files[f].contents]
       /\ stdoutWrites = client.out

RuntimeInv ==
  /\ TypeOK
  /\ phase = "args" => AtStart
  /\ phase = "run" => TablesInv /\ FailuresInv /\ ClientInv
=============================================================================
