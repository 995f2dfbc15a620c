------------------------------ MODULE PosixFiles ------------------------------
(***************************************************************************)
(* The POSIX runtime of klee (runtime/POSIX): klee_init_env reads the      *)
(* options of the program's command line, klee_init_fds creates the        *)
(* symbolic files, and every call of fd.c, stubs.c and illegal.c that the  *)
(* program can make is one action.  A path is a name of SymNames, which    *)
(* may name a symbolic file, or a member of OtherPaths.  The operating     *)
(* system behind concrete descriptors answers anything (external).  Modes  *)
(* are sets of permission bits.  errno is the last error a call set.       *)
(*                                                                         *)
(* client and sharing are the reference of PosixClient, told every call    *)
(* and its answer; they constrain nothing.                                 *)
(***************************************************************************)
EXTENDS PosixClient

CONSTANTS
  ArgLists,           \* command lines: words [w |-> word, n |-> number]
  ArgcMax,            \* room in new_argv (1024)
  SymNames,           \* the names 'A', 'B', ... in order
  OtherPaths,         \* paths no symbolic file has, the empty one and "/" too
  Bytes,              \* what an unknown byte may be
  StdoutSize,         \* size of the symbolic stdout (1024)
  InitialStats,       \* what st_mode, st_uid and st_gid of each file may be
  FdArgs, PathArgs,   \* the arguments tried
  OpenFlags, Modes, Counts, Buffers, Offsets, SelectArgs,
  OsFds,              \* descriptors the operating system hands out
  DirentSize,         \* sizeof(struct dirent64)
  DirBase,            \* where the records of the OS begin (4096)
  MaxOff, MaxCalls    \* bounds: offsets of a descriptor, calls of a path

\* No more symbolic files are asked for than there are names: of one letter,
\* never those of the standard streams.
ASSUME FilesAssumption ==
  /\ ArgLists \in SUBSET Seq([w : STRING, n : Nat])
  /\ \A a \in ArgLists : \A i \in 1..(Len(a) - 1) :
       a[i].w = "-sym-files" => a[i + 1].n <= Len(SymNames)
  /\ \A i \in 1..Len(SymNames) : SymNames[i] \notin {None, OS, "stdin", "stdout"}
  /\ Counts \in SUBSET Nat /\ Offsets \in SUBSET Int /\ Bytes \in SUBSET Nat
  /\ Buffers \in SUBSET Seq(Nat)
  /\ ArgcMax \in Nat /\ StdoutSize \in Nat \ {0} /\ Bytes # {}
  /\ DirentSize \in Nat \ {0} /\ DirBase \in Nat /\ MaxOff \in Nat
  /\ DirBase > DirentSize * (Len(SymNames) + 1)
  /\ \A i \in 1..Len(SymNames) : SymNames[i] \notin OtherPaths
  /\ {"(empty)", "/"} \subseteq OtherPaths

VARIABLES
  phase,              \* "args", "run", "error" (reported), "crash", "assert"
  argv, k, opts,      \* klee_init_env: words, the next one, options so far
  fds, umask,         \* __exe_env
  files,              \* the symbolic files by name: n_sym_files, sym_stdin, ..
  maxFailures,        \* __exe_fs.max_failures
  settled,            \* the *_fail values that the calls so far have fixed
  stdoutWrites,       \* __exe_fs.stdout_writes
  calls, client,
  sharing             \* which descriptors POSIX lets share a position

config == <<phase, argv, k, opts>>
tables == <<fds, umask, files, stdoutWrites>>
failures == <<maxFailures, settled>>
vars == <<config, tables, failures, calls, client, sharing>>

Closed == [flags |-> {}, fd |-> 0, off |-> 0, dfile |-> None]
Entry(flags, fd, dfile) == [flags |-> flags, fd |-> fd, off |-> 0, dfile |-> dfile]

-----------------------------------------------------------------------------
\* klee_init_env.c: the words of the command line.

Argc == Len(argv)
Word(i) == argv[i].w
IsNum(i) == i <= Argc /\ Word(i) = "num"

\* __emit_error: klee_report_error ends the path.
EmitError == phase' = "error" /\ UNCHANGED <<argv, k, opts>>

\* __str_to_int of the n words after the option, or the error.
Option(w, n, Take) ==
  /\ phase = "args" /\ k <= Argc /\ Word(k) = w
  /\ IF \A i \in 1..n : IsNum(k + i)
       THEN Take /\ k' = k + n + 1 /\ UNCHANGED <<phase, argv>>
       ELSE EmitError
  /\ UNCHANGED <<tables, failures, calls, client, sharing>>

\* __add_arg: "too many arguments for klee_init_env".
AddArgs(n) ==
  IF opts.argc + n > ArgcMax
    THEN EmitError
    ELSE /\ opts' = [opts EXCEPT !.argc = @ + n]
         /\ UNCHANGED <<phase, argv>>

Num(i) == argv[k + i].n
Set(field, v) == opts' = [opts EXCEPT ![field] = v]

HelpOption ==
  /\ phase = "args" /\ k = 1 /\ Argc = 2 /\ Word(2) = "--help"
  /\ EmitError /\ UNCHANGED <<tables, failures, calls, client, sharing>>

SymArgOption ==
  /\ phase = "args" /\ k <= Argc /\ Word(k) = "-sym-arg"
  /\ IF IsNum(k + 1) THEN AddArgs(1) /\ k' = (IF phase' = "args" THEN k + 2 ELSE k)
                     ELSE EmitError
  /\ UNCHANGED <<tables, failures, calls, client, sharing>>

\* klee_range(min, max + 1): an invalid range is an error.
KleeRange(lo, hi) == lo..(hi - 1)

SymArgsOption ==
  /\ phase = "args" /\ k <= Argc /\ Word(k) = "-sym-args"
  /\ IF (\A i \in 1..3 : IsNum(k + i)) /\ KleeRange(Num(1), Num(2) + 1) # {}
       THEN \E n \in KleeRange(Num(1), Num(2) + 1) :
              AddArgs(n) /\ k' = (IF phase' = "args" THEN k + 4 ELSE k)
       ELSE EmitError
  /\ UNCHANGED <<tables, failures, calls, client, sharing>>

SymFilesOption ==
  Option("-sym-files", 2,
         opts' = [opts EXCEPT !.nFiles = Num(1), !.fileLength = Num(2)])
SymStdinOption == Option("-sym-stdin", 1, Set("stdinLength", Num(1)))
SymStdoutOption == Option("-sym-stdout", 0, Set("symStdout", TRUE))
SaveAllWritesOption == Option("-save-all-writes", 0, Set("saveAllWrites", TRUE))
FdFailOption == Option("-fd-fail", 0, Set("maxFail", 1))
MaxFailOption == Option("-max-fail", 1, Set("maxFail", Num(1)))

\* "simply copy arguments"
PlainArgument ==
  /\ phase = "args" /\ k <= Argc /\ Word(k) \in {"plain", "num", "--help"}
  /\ ~(k = 1 /\ Argc = 2 /\ Word(2) = "--help")
  /\ AddArgs(1) /\ k' = (IF phase' = "args" THEN k + 1 ELSE k)
  /\ UNCHANGED <<tables, failures, calls, client, sharing>>

-----------------------------------------------------------------------------
\* fd_init.c

\* __create_new_dfile: symbolic contents, symbolic stat with st_ino # 0.
NewDFiles(f, size) ==
  {[size |-> size, contents |-> c, ino |-> TRUE, mode |-> s.mode,
    type |-> s.type, mine |-> s.mine, group |-> s.group, times |-> 0] :
     c \in [0..(size - 1) -> Bytes], s \in InitialStats[f]}

SizeOfFile(f) == CASE f = "stdin" -> opts.stdinLength
                   [] f = "stdout" -> StdoutSize
                   [] OTHER -> opts.fileLength

FilesOfOptions ==
  {SymNames[i] : i \in 1..opts.nFiles}
  \cup (IF opts.stdinLength # 0 THEN {"stdin"} ELSE {})
  \cup (IF opts.symStdout THEN {"stdout"} ELSE {})

\* klee_init_fds; an empty file fails assert(size).
KleeInitFds ==
  /\ phase = "args" /\ k > Argc
  /\ IF opts.nFiles > 0 /\ opts.fileLength = 0
       THEN phase' = "assert" /\ UNCHANGED <<tables, maxFailures, client, sharing>>
       ELSE LET std(f) == IF f \in FilesOfOptions THEN f ELSE None IN
            /\ phase' = "run"
            /\ files' \in {fs \in [FilesOfOptions -> UNION {NewDFiles(f, SizeOfFile(f)) : f \in FilesOfOptions}] :
                             \A f \in FilesOfOptions : fs[f] \in NewDFiles(f, SizeOfFile(f))}
            /\ fds' = [fds EXCEPT ![0].dfile = std("stdin"), ![1].dfile = std("stdout")]
            /\ maxFailures' = opts.maxFail
            /\ client' = Informed([f \in FilesOfOptions |-> files'[f].contents],
                                  IF std("stdin") = None THEN OS ELSE "stdin",
                                  IF std("stdout") = None THEN OS ELSE "stdout")
            /\ UNCHANGED <<umask, stdoutWrites, sharing>>
  /\ UNCHANGED <<argv, k, opts, settled, calls>>

\* The statically initialized __exe_env.
Init ==
  /\ phase = "args" /\ argv \in ArgLists /\ k = 1
  /\ opts = [nFiles |-> 0, fileLength |-> 0, stdinLength |-> 0, symStdout |-> FALSE,
             saveAllWrites |-> FALSE, maxFail |-> 0, argc |-> 0]
  /\ fds = [fd \in FD |-> CASE fd = 0 -> Entry({"eOpen", "eReadable"}, 0, None)
                            [] fd \in {1, 2} -> Entry({"eOpen", "eWriteable"}, fd, None)
                            [] OTHER -> Closed]
  /\ umask = {"ow"}
  /\ files = <<>> /\ maxFailures = 0 /\ settled = {} /\ stdoutWrites = 0
  /\ calls = 0 /\ client = Informed(<<>>, OS, OS) /\ sharing = Alone
=============================================================================
