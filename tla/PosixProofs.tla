----------------------------- MODULE PosixProofs -----------------------------
(***************************************************************************)
(* The POSIX runtime for every number of descriptors, files and failures,  *)
(* any command line and any sequence of calls: what a program is answered  *)
(* is what the tables hold, and injected failures only fail.  A call is    *)
(* first told to the client (what it teaches), then laid over the tables.  *)
(***************************************************************************)
EXTENDS PosixRuntime, FiniteSetTheorems, WellFoundedInduction, TLAPS

-----------------------------------------------------------------------------
(* The lesser and the greater of two numbers, the least of a set.          *)

LEMMA LeastIs ==
  ASSUME NEW S \in SUBSET Nat, S # {}
  PROVE  Min(S) \in S /\ \A n \in S : Min(S) <= n
<1>1. PICK m \in S : \A n \in S : ~(<<n, m>> \in OpToRel(<, Nat))
  BY NatLessThanWellFounded, WFMin
<1>2. ASSUME NEW n \in S
      PROVE  m <= n
  <2>1. DEFINE ss == <<n, m>>
  <2>2. ss \in Nat \X Nat /\ ss[1] = n /\ ss[2] = m
    OBVIOUS
  <2>3. ~(ss[1] < ss[2])
    BY <1>1, <2>2 DEF OpToRel
  <2> QED BY <2>2, <2>3
<1> QED BY <1>2 DEF Min

LEMMA LesserIs ==
  ASSUME NEW a \in Int, NEW b \in Int
  PROVE  Min({a, b}) = IF a <= b THEN a ELSE b
BY DEF Min

LEMMA GreaterIs ==
  ASSUME NEW a \in Int, NEW b \in Int
  PROVE  Max({a, b}) = IF a >= b THEN a ELSE b
BY DEF Max

LEMMA StretchIs ==
  ASSUME NEW a \in Int, NEW n \in Nat
  PROVE  Cardinality(a..(a + n - 1)) = n
<1>1. Cardinality(a..(a + n - 1)) = IF a > a + n - 1 THEN 0 ELSE a + n - 1 - a + 1
  BY FS_Interval
<1> QED BY <1>1

-----------------------------------------------------------------------------
(* What the client makes of an answer.                                     *)

\* A running program, its tables and what it knows in order.
InOrder == phase = "run" /\ TypeOK /\ TablesInv /\ FailuresInv /\ ClientInv

LEMMA DescriptorsAre == FD \in SUBSET Nat /\ NoFd \notin FD
BY FdsAssumption DEF FD, NoFd

LEMMA Knows ==
  ASSUME InOrder, ~client.lost, NEW fd
  PROVE  /\ Holds(client, fd) <=> GetFile(fd)
         /\ Symbolic(client, fd) <=> OnSym(fd)
         /\ OnSym(fd) => /\ fd \in FD /\ fds[fd].dfile \in DOMAIN files
                         /\ client.holds[fd] = fds[fd].dfile
                         /\ client.pos[fd] = fds[fd].off /\ fds[fd].off \in Nat
                         /\ client.image[client.holds[fd]] = FileOf(fd).contents
                         /\ DOMAIN FileOf(fd).contents = 0..(FileOf(fd).size - 1)
                         /\ FileOf(fd).size \in Nat
                         /\ Size(client, fd) = FileOf(fd).size
<1>1. OnSym(fd) => fd \in FD /\ fds[fd].dfile \in DOMAIN files
  BY DEF InOrder, TablesInv, OnSym, GetFile
<1>2. /\ Holds(client, fd) <=> GetFile(fd)
      /\ Symbolic(client, fd) <=> OnSym(fd)
      /\ OnSym(fd) => client.holds[fd] = fds[fd].dfile
  BY <1>1 DEF InOrder, ClientInv, TablesInv, Holds, Symbolic, OnSym, OnOs, GetFile, None, OS
<1>3. OnSym(fd) => /\ client.pos[fd] = fds[fd].off /\ fds[fd].off \in Nat
  BY <1>1 DEF InOrder, ClientInv, TablesInv
<1>4. OnSym(fd) => /\ client.image[client.holds[fd]] = FileOf(fd).contents
                   /\ DOMAIN FileOf(fd).contents = 0..(FileOf(fd).size - 1)
                   /\ FileOf(fd).size \in Nat
  BY <1>1, <1>2 DEF InOrder, ClientInv, TablesInv, FileOf
<1>5. OnSym(fd) => Size(client, fd) = FileOf(fd).size
  <2>1. ASSUME NEW n \in Nat
        PROVE  Cardinality(0..(n - 1)) = n
    BY StretchIs
  <2> QED BY <1>4, <2>1 DEF Size
<1> QED BY <1>1, <1>2, <1>3, <1>4, <1>5

LEMMA FreeAre ==
  ASSUME InOrder
  PROVE  /\ ~client.lost => Free(client) = FreeFds
         /\ FreeFds # {} => Min(FreeFds) \in FreeFds
<1>1. ~client.lost => Free(client) = FreeFds
  BY Knows DEF Free, FreeFds, Holds, GetFile
<1>2. FreeFds \in SUBSET Nat
  BY DescriptorsAre DEF FreeFds
<1> QED BY <1>1, <1>2, LeastIs

\* The answers that contradict nothing: one conjunct per complaint.
Credible(c, a) ==
  /\ a.err = "EBADF" => \/ ~Holds(c, a.fd) \/ a.call = "fstatfs"
                        \/ a.call = "dup2" /\ a.arg \notin FD
  /\ a.fd # NoFd /\ ~Holds(c, a.fd) => a.ret = -1 \/ (a.call = "read" /\ a.arg = 0)
  /\ a.call = "read" /\ a.ret # -1 /\ Symbolic(c, a.fd) =>
       a.data = Expected(c, a.fd, a.arg) /\ a.ret = Len(a.data)
  /\ a.call = "write" /\ a.ret # -1 /\ Symbolic(c, a.fd) => a.ret = Len(a.data)
  /\ a.call \in {"open", "dup"} /\ a.ret # -1 => Free(c) # {} /\ a.ret = Min(Free(c))
  /\ a.call = "FIONREAD" /\ a.ret # -1 =>
       a.data = Len(Expected(c, a.fd, Size(c, a.fd)))

LEMMA ToldCredible ==
  ASSUME NEW c, NEW a, ~c.lost, Credible(c, a)
  PROVE  Told(c, a) = Learned(c, a)
<1>1. Complaints(c, a) = {}
  BY DEF Complaints, Credible
<1> QED BY <1>1 DEF Told

LEMMA ToldLost ==
  ASSUME NEW c, NEW a, c.lost
  PROVE  Told(c, a) = c
BY DEF Told

\* An answer that names no contents, no place and no new descriptor.
LEMMA TellsNothing ==
  ASSUME InOrder, NEW call, NEW fd, NEW arg, NEW ret, NEW err, NEW data,
         Answer(call, fd, arg, ret, err, data),
         err = "EBADF" => \/ ~GetFile(fd) \/ call = "fstatfs"
                          \/ call = "dup2" /\ arg \notin FD,
         fd # NoFd /\ ~GetFile(fd) => ret = -1 \/ (call = "read" /\ arg = 0),
         ret # -1 => /\ call \notin {"open", "close", "dup", "dup2", "FIONREAD"}
                     /\ call \in {"read", "write", "lseek"} => ~OnSym(fd)
  PROVE  client' = client
<1> DEFINE a == [call |-> call, fd |-> fd, arg |-> arg, ret |-> ret, err |-> err, data |-> data]
<1>1. client' = Told(client, a)
  BY DEF Answer
<1>2. CASE client.lost
  BY <1>1, <1>2, ToldLost
<1>3. CASE ~client.lost
  <2>1. Holds(client, fd) = GetFile(fd) /\ Symbolic(client, fd) = OnSym(fd)
    BY <1>3, Knows DEF Holds, GetFile, Symbolic, OnSym
  <2>2. Credible(client, a)
    BY <2>1 DEF Credible
  <2>3. Learned(client, a) = client
    BY <2>1 DEF Learned
  <2> QED BY <1>1, <1>3, <2>2, <2>3, ToldCredible
<1> QED BY <1>2, <1>3

-----------------------------------------------------------------------------
(* What a call leaves behind.                                              *)

\* FailuresOnlyFail of one step.
OnlyFails ==
  maxFailures' # maxFailures =>
    /\ maxFailures' = maxFailures - 1
    /\ UNCHANGED <<files, umask, stdoutWrites>>
    /\ Cardinality(settled') = opts.maxFail - maxFailures'
    /\ \A fd \in FD : fds'[fd] # fds[fd] =>
         /\ settled' = settled \cup {"close"}
         /\ \E old \in FD : fds'[fd] = [fds[old] EXCEPT !.flags = @ \ {"eCloseOnExec"}]

Kept == RuntimeInv' /\ OnlyFails

\* Nothing but the tables and the client changes.
LEMMA Orderly ==
  ASSUME InOrder, UNCHANGED <<config, failures>>, TablesInv', ClientInv'
  PROVE  Kept
BY DEF InOrder, config, failures, Kept, RuntimeInv, OnlyFails, TypeOK, FailuresInv

LEMMA Untouched ==
  ASSUME InOrder, UNCHANGED <<config, tables, failures>>, client' = client
  PROVE  Kept
<1>1. TablesInv'
  BY DEF InOrder, config, tables, TablesInv
<1>2. ClientInv'
  BY DEF InOrder, config, tables, ClientInv, GetFile, OnOs, OnSym
<1> QED BY <1>1, <1>2, Orderly

LEMMA Stopped ==
  ASSUME InOrder, NEW how \in {"error", "crash", "assert"}, Stop(how)
  PROVE  Kept
BY DEF InOrder, Stop, tables, failures, Kept, RuntimeInv, OnlyFails, TypeOK

LEMMA QuietKeeps ==
  ASSUME InOrder, NEW call, NEW fd, NEW ret, NEW err, Quiet(call, fd, ret, err),
         err = "EBADF" => ~GetFile(fd) \/ call = "fstatfs",
         fd # NoFd /\ ~GetFile(fd) => ret = -1,
         ret # -1 => /\ call \notin {"open", "close", "dup", "dup2", "FIONREAD"}
                     /\ call \in {"read", "write", "lseek"} => ~OnSym(fd)
  PROVE  Kept
<1>1. client' = client
  BY TellsNothing DEF Quiet
<1> QED BY <1>1, Untouched DEF Quiet

\* The client still knows what the tables hold, if no open descriptor was
\* changed but in its flags or where the system keeps its place.
LEMMA StillKnows ==
  ASSUME InOrder, client' = client, stdoutWrites' = stdoutWrites,
         DOMAIN files' = DOMAIN files,
         \A f \in DOMAIN files : files'[f].contents = files[f].contents,
         \A fd \in FD : "eOpen" \in fds'[fd].flags <=> GetFile(fd),
         \A fd \in FD : GetFile(fd) => /\ fds'[fd].dfile = fds[fd].dfile
                                       /\ OnSym(fd) => fds'[fd].off = fds[fd].off
  PROVE  ClientInv'
<1>1. \A fd \in FD : /\ GetFile(fd)' <=> GetFile(fd)
                     /\ OnSym(fd)' <=> OnSym(fd)
                     /\ OnOs(fd)' <=> OnOs(fd)
  BY DEF GetFile, OnSym, OnOs
<1>2. ASSUME ~client.lost
      PROVE  client.image = [f \in DOMAIN files' |-> files'[f].contents]
  BY <1>2 DEF InOrder, ClientInv
<1>3. ASSUME ~client.lost, NEW fd \in FD
      PROVE  /\ client.holds[fd] = IF ~GetFile(fd)' THEN None
                                   ELSE IF OnOs(fd)' THEN OS ELSE fds'[fd].dfile
             /\ OnSym(fd)' => fds'[fd].off = client.pos[fd]
  BY <1>1, <1>3 DEF InOrder, ClientInv, OnSym
<1> QED BY <1>2, <1>3 DEF InOrder, ClientInv

\* Calls whose answers never speak of contents, places or new descriptors.
Telling == {"open", "close", "dup", "dup2", "FIONREAD", "read", "write", "lseek"}

LEMMA OsAnswersKeeps ==
  ASSUME InOrder, NEW call, call \notin Telling, NEW fd, fd = NoFd \/ GetFile(fd),
         OsAnswers(call, fd)
  PROVE  Kept
BY QuietKeeps DEF OsAnswers, OsErr, OsResults, Telling

LEMMA PathCallKeeps ==
  ASSUME InOrder, NEW call, call \notin Telling, NEW path, NEW ret, NEW err,
         err # "EBADF", PathCall(call, path, ret, err)
  PROVE  Kept
BY QuietKeeps, OsAnswersKeeps DEF PathCall, Telling

LEMMA FdCallKeeps ==
  ASSUME InOrder, NEW call, call \notin Telling, NEW fd, NEW ret, NEW err,
         err = "EBADF" => call = "fstatfs", FdCall(call, fd, ret, err)
  PROVE  Kept
BY QuietKeeps, OsAnswersKeeps DEF FdCall, OnSym, OnOs, Telling

LEMMA AtRefusedKeeps ==
  ASSUME InOrder, NEW call, NEW base, AtRefused(call, base)
  PROVE  Kept
BY QuietKeeps DEF AtRefused, OnSym

LEMMA InjectsCounts ==
  ASSUME InOrder, NEW kind, Injects(kind), opts' = opts
  PROVE  FailuresInv' /\ Cardinality(settled') = opts.maxFail - maxFailures'
<1>1. IsFiniteSet(settled') /\ Cardinality(settled') = Cardinality(settled) + 1
  BY FS_AddElement DEF Injects, InOrder, FailuresInv
<1>2. Cardinality(settled) \in Nat /\ opts.maxFail \in Nat
  BY FS_CardinalityType DEF InOrder, FailuresInv, TypeOK
<1> QED BY <1>1, <1>2 DEF Injects, InOrder, FailuresInv

LEMMA InjectedKeeps ==
  ASSUME InOrder, NEW kind, NEW fd, NEW err, fd = NoFd \/ GetFile(fd), err # "EBADF",
         InjectedFailure(kind, fd, err)
  PROVE  Kept
<1>1. client' = client
  BY TellsNothing DEF InjectedFailure
<1>2. TablesInv' /\ ClientInv'
  BY <1>1 DEF InjectedFailure, Changing, InOrder, config, tables, TablesInv, ClientInv,
              GetFile, OnOs, OnSym
<1>3. FailuresInv' /\ Cardinality(settled') = opts.maxFail - maxFailures'
  BY InjectsCounts DEF InjectedFailure, Changing, config
<1> QED BY <1>2, <1>3 DEF InjectedFailure, Injects, Changing, InOrder, config, tables, Kept,
                          RuntimeInv, OnlyFails, TypeOK

-----------------------------------------------------------------------------
(* One entry or one file of the tables.                                    *)

EntryType(names) ==
  [flags : SUBSET EntryFlags, fd : OsFds \cup 0..2, off : Nat, dfile : names \cup {None}]

LEMMA EntryKeeps ==
  ASSUME InOrder, UNCHANGED <<config, files, stdoutWrites>>,
         NEW fd \in FD, NEW e \in EntryType(DOMAIN files), fds' = [fds EXCEPT ![fd] = e]
  PROVE  TablesInv'
BY DEF InOrder, config, TablesInv, EntryType

\* What TablesInv says of the files, apart from the descriptors.
WellFormed(file) ==
  /\ file = [size |-> file.size, contents |-> file.contents, ino |-> file.ino,
             mode |-> file.mode, type |-> file.type, mine |-> file.mine,
             group |-> file.group, times |-> file.times]
  /\ file.size \in Nat /\ file.contents \in [0..(file.size - 1) -> Nat]

FilesInv ==
  /\ files = [f \in DOMAIN files |-> files[f]]
  /\ {None, OS} \cap DOMAIN files = {}
  /\ {SymNames[i] : i \in 1..opts.nFiles} \in SUBSET DOMAIN files
  /\ \A f \in DOMAIN files : WellFormed(files[f])

LEMMA TablesAre ==
  TablesInv <=> FilesInv /\ fds \in [FD -> EntryType(DOMAIN files)] /\ stdoutWrites \in Nat
BY Zenon DEF TablesInv, FilesInv, WellFormed, EntryType

LEMMA TablesAreNext ==
  TablesInv' <=> FilesInv' /\ fds' \in [FD -> EntryType(DOMAIN files')] /\ stdoutWrites' \in Nat
BY Zenon DEF TablesInv, FilesInv, WellFormed, EntryType

LEMMA FilesKeep ==
  ASSUME FilesInv, opts' = opts, NEW f \in DOMAIN files,
         NEW r, r = [size |-> files[f].size, contents |-> r.contents, ino |-> r.ino,
                     mode |-> r.mode, type |-> r.type, mine |-> r.mine,
                     group |-> r.group, times |-> r.times],
         r.contents \in [0..(files[f].size - 1) -> Nat],
         files' = [files EXCEPT ![f] = r]
  PROVE  FilesInv' /\ DOMAIN files' = DOMAIN files
<1>1. /\ files' = [g \in DOMAIN files |-> IF g = f THEN r ELSE files[g]]
      /\ DOMAIN files' = DOMAIN files
  BY DEF FilesInv
<1>2. WellFormed(r)
  <2>1. r.size = files[f].size
    OBVIOUS
  <2>2. r.size \in Nat
    BY <2>1 DEF FilesInv, WellFormed
  <2> QED BY <2>1, <2>2 DEF WellFormed
<1>3. \A g \in DOMAIN files : WellFormed(files'[g])
  BY <1>1, <1>2 DEF FilesInv
<1>4. files' = [g \in DOMAIN files' |-> files'[g]]
  BY <1>1
<1> QED BY <1>1, <1>3, <1>4 DEF FilesInv

LEMMA FileKeeps ==
  ASSUME InOrder, UNCHANGED <<config, fds>>, stdoutWrites' \in Nat, NEW f \in DOMAIN files,
         NEW r, r = [size |-> files[f].size, contents |-> r.contents, ino |-> r.ino,
                     mode |-> r.mode, type |-> r.type, mine |-> r.mine,
                     group |-> r.group, times |-> r.times],
         r.contents \in [0..(files[f].size - 1) -> Nat],
         files' = [files EXCEPT ![f] = r]
  PROVE  TablesInv' /\ DOMAIN files' = DOMAIN files
<1>1. opts' = opts /\ fds' = fds
  BY DEF config
<1>2. FilesInv /\ fds \in [FD -> EntryType(DOMAIN files)]
  BY TablesAre DEF InOrder
<1>3. FilesInv' /\ DOMAIN files' = DOMAIN files
  BY <1>1, <1>2, FilesKeep
<1> QED BY <1>1, <1>2, <1>3, TablesAreNext

LEMMA BothKeep ==
  ASSUME InOrder, UNCHANGED config, stdoutWrites' \in Nat, NEW f \in DOMAIN files,
         NEW r, r = [size |-> files[f].size, contents |-> r.contents, ino |-> r.ino,
                     mode |-> r.mode, type |-> r.type, mine |-> r.mine,
                     group |-> r.group, times |-> r.times],
         r.contents \in [0..(files[f].size - 1) -> Nat],
         files' = [files EXCEPT ![f] = r],
         NEW fd \in FD, NEW e \in EntryType(DOMAIN files), fds' = [fds EXCEPT ![fd] = e]
  PROVE  TablesInv' /\ DOMAIN files' = DOMAIN files
<1>1. opts' = opts
  BY DEF config
<1>2. FilesInv /\ fds \in [FD -> EntryType(DOMAIN files)]
  BY TablesAre DEF InOrder
<1>3. FilesInv' /\ DOMAIN files' = DOMAIN files
  BY <1>1, <1>2, FilesKeep
<1>4. fds' \in [FD -> EntryType(DOMAIN files)]
  BY <1>2
<1> QED BY <1>3, <1>4, TablesAreNext

\* A file changes in anything but its size and contents.
LEMMA AttributesKeep ==
  ASSUME InOrder, client' = client, UNCHANGED <<config, fds, stdoutWrites, failures>>,
         NEW f \in DOMAIN files,
         NEW r, r = [size |-> files[f].size, contents |-> files[f].contents, ino |-> r.ino,
                     mode |-> r.mode, type |-> r.type, mine |-> r.mine,
                     group |-> r.group, times |-> r.times],
         files' = [files EXCEPT ![f] = r]
  PROVE  Kept
<1>1. stdoutWrites' \in Nat /\ files[f].contents \in [0..(files[f].size - 1) -> Nat]
  BY DEF InOrder, TablesInv
<1>2. r.contents = files[f].contents
  OBVIOUS
<1>3. TablesInv' /\ DOMAIN files' = DOMAIN files
  BY <1>1, <1>2, FileKeeps
<1>4. \A g \in DOMAIN files : files'[g].contents = files[g].contents
  BY <1>2 DEF InOrder, TablesInv
<1>5. ClientInv'
  BY <1>3, <1>4, StillKnows DEF GetFile
<1> QED BY <1>3, <1>5, Orderly

\* The program learns what one descriptor holds and where it stands.
LearnsAt(fd, h, p) ==
  client' = IF client.lost THEN client
            ELSE [client EXCEPT !.holds[fd] = h, !.pos[fd] = p]

LEMMA Teaches ==
  ASSUME NEW a, client' = Told(client, a), NEW fd, NEW h, NEW p,
         ~client.lost => /\ Credible(client, a)
                         /\ Learned(client, a) = [client EXCEPT !.holds[fd] = h, !.pos[fd] = p]
  PROVE  LearnsAt(fd, h, p)
BY ToldCredible, ToldLost DEF LearnsAt

LEMMA LearnsOfOne ==
  ASSUME InOrder, NEW fd \in FD, NEW e \in EntryType(DOMAIN files), NEW h, NEW p,
         fds' = [fds EXCEPT ![fd] = e],
         LearnsAt(fd, h, p),
         h = IF "eOpen" \notin e.flags THEN None ELSE IF e.dfile = None THEN OS ELSE e.dfile,
         "eOpen" \in e.flags /\ e.dfile # None => e.off = p,
         stdoutWrites' = stdoutWrites, DOMAIN files' = DOMAIN files,
         \A f \in DOMAIN files : files'[f].contents = files[f].contents
  PROVE  ClientInv'
<1>1. CASE client.lost
  BY <1>1 DEF InOrder, ClientInv, LearnsAt
<1>2. CASE ~client.lost
  <2>1. client = [holds |-> client.holds, pos |-> client.pos, image |-> client.image,
                  out |-> client.out, complaints |-> client.complaints, lost |-> client.lost]
    BY DEF InOrder, ClientInv
  <2>2. client' = [holds |-> [client.holds EXCEPT ![fd] = h], pos |-> [client.pos EXCEPT ![fd] = p],
                   image |-> client.image, out |-> client.out,
                   complaints |-> client.complaints, lost |-> client.lost]
    BY <1>2, <2>1 DEF LearnsAt
  <2>3. /\ client'.holds = [g \in FD |-> IF g = fd THEN h ELSE client.holds[g]]
        /\ client'.pos = [g \in FD |-> IF g = fd THEN p ELSE client.pos[g]]
        /\ client'.image = client.image /\ client'.out = client.out
        /\ client'.complaints = client.complaints /\ client'.lost = FALSE
    <3>1. /\ client.holds = [g \in FD |-> client.holds[g]]
          /\ client.pos = [g \in FD |-> client.pos[g]]
          /\ client.lost \in BOOLEAN
      BY DEF InOrder, ClientInv
    <3>2. [client.holds EXCEPT ![fd] = h] = [g \in FD |-> IF g = fd THEN h ELSE client.holds[g]]
      BY <3>1
    <3>3. [client.pos EXCEPT ![fd] = p] = [g \in FD |-> IF g = fd THEN p ELSE client.pos[g]]
      BY <3>1
    <3>4. client.lost = FALSE
      BY <1>2, <3>1
    <3> QED BY <2>2, <3>2, <3>3, <3>4
  <2>4. fds' = [g \in FD |-> IF g = fd THEN e ELSE fds[g]]
    BY DEF InOrder, TablesInv
  <2>5. ASSUME NEW g \in FD
        PROVE  /\ client'.holds[g] = IF ~GetFile(g)' THEN None
                                     ELSE IF OnOs(g)' THEN OS ELSE fds'[g].dfile
               /\ OnSym(g)' => fds'[g].off = client'.pos[g]
    <3>1. CASE g = fd
      BY <2>3, <2>4, <3>1 DEF GetFile, OnOs, OnSym
    <3>2. CASE g # fd
      BY <1>2, <2>3, <2>4, <3>2 DEF GetFile, OnOs, OnSym, InOrder, ClientInv
    <3> QED BY <3>1, <3>2
  <2>6. client'.image = [f \in DOMAIN files' |-> files'[f].contents]
    <3>1. client.image = [f \in DOMAIN files |-> files[f].contents]
      BY <1>2 DEF InOrder, ClientInv
    <3>2. [f \in DOMAIN files |-> files[f].contents]
            = [f \in DOMAIN files' |-> files'[f].contents]
      OBVIOUS
    <3> QED BY <2>3, <3>1, <3>2
  <2>7. client'.complaints = {} /\ stdoutWrites' = client'.out
    BY <1>2, <2>3 DEF InOrder, ClientInv
  <2>8. /\ client' = [holds |-> client'.holds, pos |-> client'.pos, image |-> client'.image,
                      out |-> client'.out, complaints |-> client'.complaints, lost |-> client'.lost]
        /\ client'.holds = [g \in FD |-> client'.holds[g]]
        /\ client'.pos = [g \in FD |-> client'.pos[g]]
    BY <2>2, <2>3
  <2> QED BY <2>3, <2>5, <2>6, <2>7, <2>8 DEF ClientInv
<1> QED BY <1>1, <1>2

-----------------------------------------------------------------------------
(* The calls that change a file's attributes.                              *)

LEMMA SymFileIs ==
  ASSUME InOrder, NEW path, SymFile(path)
  PROVE  path \in DOMAIN files
BY DEF InOrder, TablesInv, SymFile

LEMMA RecordOf ==
  ASSUME InOrder, NEW f \in DOMAIN files
  PROVE  files[f] = [size |-> files[f].size, contents |-> files[f].contents,
                     ino |-> files[f].ino, mode |-> files[f].mode, type |-> files[f].type,
                     mine |-> files[f].mine, group |-> files[f].group,
                     times |-> files[f].times]
BY DEF InOrder, TablesInv

LEMMA UmaskKeeps ==
  ASSUME InOrder, NEW mask, Umask(mask)
  PROVE  Kept
<1>1. TablesInv' /\ ClientInv'
  BY DEF Umask, Changing, InOrder, config, TablesInv, ClientInv, GetFile, OnOs, OnSym
<1> QED BY <1>1, Orderly DEF Umask, Changing

LEMMA UtimesKeeps ==
  ASSUME InOrder, NEW path, NEW t, Utimes(path, t)
  PROVE  Kept
<1>1. CASE ~SymFile(path)
  BY <1>1, OsAnswersKeeps DEF Utimes, Telling
<1>2. CASE SymFile(path)
  <2> DEFINE r == [files[path] EXCEPT !.times = t]
  <2>1. client' = client
    BY <1>2, TellsNothing DEF Utimes
  <2>2. path \in DOMAIN files
    BY <1>2, SymFileIs
  <2>3. r = [size |-> files[path].size, contents |-> files[path].contents, ino |-> r.ino,
             mode |-> r.mode, type |-> r.type, mine |-> r.mine, group |-> r.group,
             times |-> r.times]
    BY <2>2, RecordOf
  <2>4. files' = [files EXCEPT ![path] = r]
    BY <1>2 DEF Utimes
  <2> QED BY <1>2, <2>1, <2>2, <2>3, <2>4, AttributesKeep DEF Utimes, Changing
<1> QED BY <1>1, <1>2

LEMMA DfChmodKeeps ==
  ASSUME InOrder, NEW call, call \notin Telling, NEW fd, fd = NoFd \/ GetFile(fd),
         NEW f \in DOMAIN files, NEW mode, DfChmod(call, fd, f, mode)
  PROVE  Kept
<1>1. CASE ~files[f].mine
  BY <1>1, QuietKeeps DEF DfChmod, Telling
<1>2. CASE files[f].mine
  <2> DEFINE r == [files[f] EXCEPT !.mode = IF files[f].group THEN mode ELSE mode \ {"sgid"}]
  <2>1. client' = client
    BY <1>2, TellsNothing DEF DfChmod, Telling
  <2>2. r = [size |-> files[f].size, contents |-> files[f].contents, ino |-> r.ino,
             mode |-> r.mode, type |-> r.type, mine |-> r.mine, group |-> r.group,
             times |-> r.times]
    BY RecordOf
  <2>3. files' = [files EXCEPT ![f] = r]
    BY <1>2 DEF DfChmod
  <2> QED BY <1>2, <2>1, <2>2, <2>3, AttributesKeep DEF DfChmod, Changing
<1> QED BY <1>1, <1>2

LEMMA RemoveKeeps ==
  ASSUME InOrder, NEW call, call \notin Telling, NEW path, NEW type, NEW err,
         err # "EBADF", Remove(call, path, type, err)
  PROVE  Kept
<1>1. CASE ~(SymFile(path) /\ files[path].type = type)
  BY <1>1, QuietKeeps DEF Remove, Telling
<1>2. CASE SymFile(path) /\ files[path].type = type
  <2> DEFINE r == [files[path] EXCEPT !.ino = FALSE]
  <2>1. client' = client
    BY <1>2, TellsNothing DEF Remove, Telling
  <2>2. path \in DOMAIN files
    BY <1>2, SymFileIs
  <2>3. ASSUME NEW ino, NEW q, q = [files[path] EXCEPT !.ino = ino]
        PROVE  q = [size |-> files[path].size, contents |-> files[path].contents,
                    ino |-> q.ino, mode |-> q.mode, type |-> q.type, mine |-> q.mine,
                    group |-> q.group, times |-> q.times]
    BY <2>2, <2>3, RecordOf
  <2>4. files' = [files EXCEPT ![path] = r]
    BY <1>2 DEF Remove
  <2> QED BY <1>2, <2>1, <2>2, <2>3, <2>4, AttributesKeep DEF Remove, Changing
<1> QED BY <1>1, <1>2

-----------------------------------------------------------------------------
(* The calls that change a descriptor.                                     *)

LEMMA AccessFlagsAre ==
  ASSUME NEW flags
  PROVE  AccessFlags(flags) \in SUBSET EntryFlags /\ "eOpen" \in AccessFlags(flags)
BY DEF AccessFlags, EntryFlags

LEMMA OpenOsKeeps ==
  ASSUME InOrder, NEW base, base = NoFd \/ GetFile(base), NEW flags, FreeFds # {},
         OpenOs(base, flags, Min(FreeFds))
  PROVE  Kept
<1> DEFINE fd == Min(FreeFds)
<1>1. fd \in FD /\ fd \in FreeFds /\ ~GetFile(fd) /\ fd \in Nat
  BY FreeAre, DescriptorsAre DEF FreeFds, GetFile
<1>2. PICK r \in OsFds \cup {-1} :
        /\ fds' = [fds EXCEPT ![fd] = IF r = -1 THEN Closed ELSE Entry(AccessFlags(flags), r, None)]
        /\ Answer("open", base, 0, IF r = -1 THEN -1 ELSE fd, OsErr(r), OS)
  BY DEF OpenOs
<1>3. UNCHANGED <<config, files, stdoutWrites, failures>>
  BY DEF OpenOs, Changing
<1>4. CASE r = -1
  <2>1. client' = client
    BY <1>2, <1>4, TellsNothing DEF OsErr
  <2>2. Closed \in EntryType(DOMAIN files) /\ fds' = [fds EXCEPT ![fd] = Closed]
    BY <1>2, <1>4 DEF Closed, EntryType
  <2>3. TablesInv'
    BY <1>1, <1>3, <2>2, EntryKeeps
  <2>4. fds' = [g \in FD |-> IF g = fd THEN Closed ELSE fds[g]]
    BY <2>2 DEF InOrder, TablesInv
  <2>5. ClientInv'
    BY <1>1, <1>3, <2>1, <2>4, StillKnows DEF GetFile, Closed
  <2> QED BY <1>3, <2>3, <2>5, Orderly
<1>5. CASE r # -1
  <2> DEFINE e == Entry(AccessFlags(flags), r, None)
             a == [call |-> "open", fd |-> base, arg |-> 0, ret |-> fd, err |-> "ok", data |-> OS]
  <2>1. e \in EntryType(DOMAIN files) /\ fds' = [fds EXCEPT ![fd] = e]
    BY <1>2, <1>5, AccessFlagsAre DEF Entry, EntryType
  <2>2. client' = Told(client, a)
    BY <1>2, <1>5 DEF Answer, OsErr
  <2>3. LearnsAt(fd, OS, 0)
    <3>1. ASSUME ~client.lost
          PROVE  Credible(client, a)
      BY <1>1, <3>1, Knows, FreeAre DEF Credible
    <3>2. Learned(client, a) = [client EXCEPT !.holds[fd] = OS, !.pos[fd] = 0]
      BY <1>1 DEF Learned
    <3> QED BY <2>2, <3>1, <3>2, Teaches
  <2>4. TablesInv'
    BY <1>1, <1>3, <2>1, EntryKeeps
  <2>5. "eOpen" \in e.flags /\ e.dfile = None
    BY AccessFlagsAre DEF Entry
  <2>6. ClientInv'
    BY <1>1, <1>3, <2>1, <2>3, <2>5, LearnsOfOne
  <2> QED BY <1>3, <2>4, <2>6, Orderly
<1> QED BY <1>4, <1>5

LEMMA OpenSymKeeps ==
  ASSUME InOrder, NEW base, base = NoFd \/ GetFile(base), NEW path, SymFile(path),
         NEW flags, NEW mode, FreeFds # {}, OpenSym(base, path, flags, mode, Min(FreeFds))
  PROVE  Kept
<1> DEFINE fd == Min(FreeFds)
<1>1. fd \in FD /\ fd \in FreeFds /\ ~GetFile(fd) /\ fd \in Nat
  BY FreeAre, DescriptorsAre DEF FreeFds, GetFile
<1>2. path \in DOMAIN files /\ path # None
  BY SymFileIs DEF InOrder, TablesInv
<1>3. UNCHANGED <<config, stdoutWrites, failures>>
  BY DEF OpenSym, Changing
<1>4. CASE OpenError(path, flags) # "ok"
  <2> DEFINE e == [Closed EXCEPT !.dfile = path]
  <2>1. /\ fds' = [fds EXCEPT ![fd] = e] /\ files' = files
        /\ Answer("open", base, 0, -1, OpenError(path, flags), 0)
    BY <1>4 DEF OpenSym
  <2>2. OpenError(path, flags) # "EBADF"
    BY DEF OpenError
  <2>3. client' = client
    BY <2>1, <2>2, TellsNothing
  <2>4. e \in EntryType(DOMAIN files) /\ e.flags = {}
    BY <1>2 DEF Closed, EntryType
  <2>5. TablesInv'
    BY <1>1, <1>3, <2>1, <2>4, EntryKeeps
  <2>6. fds' = [g \in FD |-> IF g = fd THEN e ELSE fds[g]]
    BY <2>1 DEF InOrder, TablesInv
  <2>7. ClientInv'
    BY <1>1, <1>3, <2>1, <2>3, <2>4, <2>6, StillKnows DEF GetFile
  <2> QED BY <1>3, <2>5, <2>7, Orderly
<1>5. CASE OpenError(path, flags) = "ok"
  <2> DEFINE e == Entry(AccessFlags(flags), 0, path)
             a == [call |-> "open", fd |-> base, arg |-> 0, ret |-> fd, err |-> "ok", data |-> path]
             r == [files[path] EXCEPT !.mode = (@ \cap {"sgid"}) \cup (mode \ umask)]
  <2>1. /\ fds' = [fds EXCEPT ![fd] = e] /\ files' = [files EXCEPT ![path] = r]
        /\ client' = Told(client, a)
    BY <1>5 DEF OpenSym, Answer
  <2>2. e \in EntryType(DOMAIN files)
    BY <1>2, AccessFlagsAre DEF Entry, EntryType
  <2>3. LearnsAt(fd, path, 0)
    <3>1. ASSUME ~client.lost
          PROVE  Credible(client, a)
      BY <1>1, <3>1, Knows, FreeAre DEF Credible
    <3>2. Learned(client, a) = [client EXCEPT !.holds[fd] = path, !.pos[fd] = 0]
      BY <1>1 DEF Learned
    <3> QED BY <2>1, <3>1, <3>2, Teaches
  <2>4. r = [size |-> files[path].size, contents |-> files[path].contents, ino |-> r.ino,
             mode |-> r.mode, type |-> r.type, mine |-> r.mine, group |-> r.group,
             times |-> r.times]
    BY <1>2, RecordOf
  <2>5. /\ files' = [f \in DOMAIN files |-> IF f = path THEN r ELSE files[f]]
        /\ fds' = [g \in FD |-> IF g = fd THEN e ELSE fds[g]]
    BY <2>1 DEF InOrder, TablesInv
  <2>6. r.size = files[path].size /\ r.contents = files[path].contents
    BY <2>4
  <2>7. TablesInv'
    <3>1. stdoutWrites' \in Nat /\ files[path].contents \in [0..(files[path].size - 1) -> Nat]
      BY <1>2, <1>3 DEF InOrder, TablesInv
    <3> QED BY <1>1, <1>2, <1>3, <2>1, <2>2, <2>4, <2>6, <3>1, BothKeep
  <2>8. "eOpen" \in e.flags /\ e.dfile = path /\ e.off = 0
    BY AccessFlagsAre DEF Entry
  <2>9. \A f \in DOMAIN files : files'[f].contents = files[f].contents
    BY <2>5, <2>6
  <2>10. ClientInv'
    BY <1>1, <1>2, <1>3, <2>1, <2>2, <2>3, <2>5, <2>8, <2>9, LearnsOfOne
  <2> QED BY <1>3, <2>7, <2>10, Orderly
<1> QED BY <1>4, <1>5

LEMMA FdOpenKeeps ==
  ASSUME InOrder, NEW base, base = NoFd \/ GetFile(base), NEW path, NEW flags, NEW mode,
         FdOpen(base, path, flags, mode)
  PROVE  Kept
BY OpenSymKeeps, OpenOsKeeps, QuietKeeps DEF FdOpen

LEMMA OpensKeep ==
  ASSUME InOrder, NEW base, NEW path, NEW flags, NEW mode,
         Open(path, flags, mode) \/ Openat(base, path, flags, mode)
  PROVE  Kept
BY FdOpenKeeps, AtRefusedKeeps DEF Open, Openat, AtBase, OnOs

LEMMA CloseKeeps ==
  ASSUME InOrder, NEW fd, Close(fd)
  PROVE  Kept
<1>1. CASE ~GetFile(fd) /\ Quiet("close", fd, -1, "EBADF")
  BY <1>1, QuietKeeps
<1>2. CASE GetFile(fd) /\ InjectedFailure("close", fd, "EIO")
  BY <1>2, InjectedKeeps
<1>3. CASE /\ GetFile(fd) /\ fds' = [fds EXCEPT ![fd] = Closed]
           /\ Answer("close", fd, 0, 0, "ok", 0)
           /\ Changing /\ UNCHANGED <<umask, files, stdoutWrites, failures>>
  <2> DEFINE a == [call |-> "close", fd |-> fd, arg |-> 0, ret |-> 0, err |-> "ok", data |-> 0]
  <2>1. fd \in FD /\ client' = Told(client, a) /\ UNCHANGED <<config, failures>>
    BY <1>3 DEF GetFile, Answer, Changing
  <2>2. LearnsAt(fd, None, 0)
    <3>1. ASSUME ~client.lost
          PROVE  Credible(client, a)
      BY <1>3, <3>1, Knows DEF Credible
    <3>2. Learned(client, a) = [client EXCEPT !.holds[fd] = None, !.pos[fd] = 0]
      BY DEF Learned
    <3> QED BY <2>1, <3>1, <3>2, Teaches
  <2>3. Closed \in EntryType(DOMAIN files) /\ Closed.flags = {}
    BY DEF Closed, EntryType
  <2>4. TablesInv'
    BY <1>3, <2>1, <2>3, EntryKeeps
  <2>5. ClientInv'
    BY <1>3, <2>1, <2>2, <2>3, LearnsOfOne
  <2> QED BY <2>1, <2>4, <2>5, Orderly
<1> QED BY <1>1, <1>2, <1>3 DEF Close

\* What dup and dup2 put into the new descriptor's entry.
Copied(entry) == [entry EXCEPT !.flags = @ \ {"eCloseOnExec"}]

\* The step over the descriptors: newfd was free, its close failed, or it was
\* closed, which matters to what is copied only if it is the old one.
LEMMA DupCopies ==
  ASSUME InOrder, NEW call, NEW old \in FD, NEW new \in FD, DupTo(call, old, new)
  PROVE  \E src \in EntryType(DOMAIN files) :
           /\ fds' = [fds EXCEPT ![new] = Copied(src)]
           /\ src = fds[old] \/ (old = new /\ UNCHANGED failures)
           /\ UNCHANGED failures \/ Injects("close")
<1>1. fds = [g \in FD |-> fds[g]] /\ fds[old] \in EntryType(DOMAIN files)
  BY DEF InOrder, TablesInv, EntryType
<1>2. CASE UNCHANGED failures /\ fds' = [[fds EXCEPT ![new] = Closed] EXCEPT ![new] =
             [[fds EXCEPT ![new] = Closed][old] EXCEPT !.flags = @ \ {"eCloseOnExec"}]]
  <2> DEFINE src == [fds EXCEPT ![new] = Closed][old]
  <2>1. src = IF old = new THEN Closed ELSE fds[old]
    BY <1>1
  <2>2. src \in EntryType(DOMAIN files)
    BY <1>1, <2>1 DEF Closed, EntryType
  <2>3. fds' = [fds EXCEPT ![new] = Copied(src)]
    BY <1>1, <1>2 DEF Copied
  <2> QED BY <1>2, <2>1, <2>2, <2>3
<1>3. CASE /\ UNCHANGED failures \/ Injects("close")
           /\ fds' = [fds EXCEPT ![new] = [fds[old] EXCEPT !.flags = @ \ {"eCloseOnExec"}]]
  BY <1>1, <1>3 DEF Copied
<1> QED BY <1>2, <1>3 DEF DupTo

LEMMA CopiedIs ==
  ASSUME NEW names, NEW e \in EntryType(names)
  PROVE  /\ Copied(e) \in EntryType(names)
         /\ Copied(e).dfile = e.dfile /\ Copied(e).off = e.off
         /\ "eOpen" \in Copied(e).flags <=> "eOpen" \in e.flags
BY DEF EntryType, Copied

LEMMA DupToKeeps ==
  ASSUME InOrder, NEW call \in {"dup", "dup2"}, NEW old, GetFile(old), NEW new \in FD,
         call = "dup" => FreeFds # {} /\ new = Min(FreeFds),
         DupTo(call, old, new)
  PROVE  Kept
<1> DEFINE a == [call |-> call, fd |-> old, arg |-> new, ret |-> new, err |-> "ok", data |-> 0]
<1>1. old \in FD /\ new \in Nat
  BY DescriptorsAre DEF GetFile
<1>a. client' = Told(client, a) /\ UNCHANGED <<config, umask, files, stdoutWrites>>
  BY DEF DupTo, Answer, Changing
<1>2. PICK src \in EntryType(DOMAIN files) :
        /\ fds' = [fds EXCEPT ![new] = Copied(src)]
        /\ src = fds[old] \/ (old = new /\ UNCHANGED failures)
        /\ UNCHANGED failures \/ Injects("close")
  <2>1. old \in FD
    BY <1>1
  <2> QED BY <2>1, DupCopies
<1>3. Copied(src) \in EntryType(DOMAIN files)
  BY CopiedIs
<1>4. TablesInv'
  BY <1>1, <1>a, <1>2, <1>3, EntryKeeps
<1>5. ASSUME ~client.lost
      PROVE  Credible(client, a)
  BY <1>1, <1>5, Knows, FreeAre DEF Credible
<1>6. ClientInv'
  <2>1. CASE old # new
    <3> DEFINE p == IF Symbolic(client, old) THEN client.pos[old] ELSE 0
               h == client.holds[old]
    <3>1. LearnsAt(new, h, p)
      <4>1. Learned(client, a) = [client EXCEPT !.holds[new] = h, !.pos[new] = p]
        <5>1. CASE call = "dup"
          BY <1>1, <2>1, <5>1 DEF Learned
        <5>2. CASE call = "dup2"
          BY <1>1, <2>1, <5>2 DEF Learned
        <5> QED BY <5>1, <5>2
      <4> QED BY <1>a, <1>5, <4>1, Teaches
    <3>2. CASE ~client.lost
      <4>1. /\ Copied(src).dfile = fds[old].dfile /\ Copied(src).off = fds[old].off
            /\ "eOpen" \in Copied(src).flags
        BY <1>2, <2>1, CopiedIs DEF GetFile
      <4>2. h = IF fds[old].dfile = None THEN OS ELSE fds[old].dfile
        BY <1>1, <3>2 DEF InOrder, ClientInv, OnOs
      <4>3. fds[old].dfile # None => fds[old].off = p
        BY <3>2, Knows DEF OnSym
      <4> QED BY <1>1, <1>a, <1>2, <1>3, <3>1, <4>1, <4>2, <4>3, LearnsOfOne
    <3>3. CASE client.lost
      BY <3>1, <3>3 DEF LearnsAt, InOrder, ClientInv
    <3> QED BY <3>2, <3>3
  <2>2. CASE old = new
    <3>1. call = "dup2"
      BY <2>2, FreeAre DEF FreeFds, GetFile
    <3>2. Learned(client, a) = [client EXCEPT !.lost = TRUE]
      <4>1. /\ a.ret # -1 /\ a.call = "dup2" /\ a.ret = a.fd
        BY <1>1, <2>2, <3>1
      <4> QED BY <4>1 DEF Learned
    <3>3. CASE client.lost
      <4>1. client' = client
        BY <1>a, <3>3, ToldLost
      <4> QED BY <3>3, <4>1 DEF InOrder, ClientInv
    <3>4. CASE ~client.lost
      <4>1. client' = [client EXCEPT !.lost = TRUE]
        BY <1>a, <1>5, <3>2, <3>4, ToldCredible
      <4> QED BY <4>1 DEF InOrder, ClientInv
    <3> QED BY <3>3, <3>4
  <2> QED BY <2>1, <2>2
<1>7. CASE UNCHANGED failures
  BY <1>a, <1>4, <1>6, <1>7, Orderly
<1>8. CASE Injects("close") /\ src = fds[old]
  <2>1. opts' = opts
    BY <1>a DEF config
  <2>2. FailuresInv' /\ Cardinality(settled') = opts.maxFail - maxFailures'
    BY <1>8, <2>1, InjectsCounts
  <2>3. \A fd \in FD : fds'[fd] # fds[fd] =>
          fds'[fd] = [fds[old] EXCEPT !.flags = @ \ {"eCloseOnExec"}]
    BY <1>2, <1>8 DEF InOrder, TablesInv, Copied
  <2>4. OnlyFails
    <3>1. UNCHANGED <<files, umask, stdoutWrites>>
      BY <1>a
    <3> QED BY <1>1, <1>8, <2>2, <2>3, <3>1 DEF OnlyFails, Injects
  <2> QED BY <1>a, <1>4, <1>6, <2>2, <2>4 DEF Kept, RuntimeInv, InOrder, config, TypeOK
<1> QED BY <1>2, <1>7, <1>8

LEMMA DupsKeep ==
  ASSUME InOrder, NEW old, NEW new, Dup(old) \/ Dup2(old, new)
  PROVE  Kept
<1>1. CASE Dup(old)
  <2>1. FreeFds # {} => Min(FreeFds) \in FD
    BY FreeAre DEF FreeFds
  <2> QED BY <1>1, <2>1, DupToKeeps, QuietKeeps DEF Dup
<1>2. CASE Dup2(old, new) /\ ~(GetFile(old) /\ new \in FD)
  <2>1. client' = client
    BY <1>2, TellsNothing DEF Dup2
  <2> QED BY <1>2, <2>1, Untouched DEF Dup2
<1>3. CASE Dup2(old, new) /\ GetFile(old) /\ new \in FD
  BY <1>3, DupToKeeps DEF Dup2
<1> QED BY <1>1, <1>2, <1>3

-----------------------------------------------------------------------------
(* The calls that move within a file.                                      *)

\* The system's descriptors keep any place; the client does not care.
LEMMA OsPlaceKeeps ==
  ASSUME InOrder, NEW fd, OnOs(fd), NEW to \in Nat, fds' = [fds EXCEPT ![fd].off = to],
         UNCHANGED <<config, files, stdoutWrites, failures>>, client' = client
  PROVE  Kept
<1> DEFINE e == [fds[fd] EXCEPT !.off = to]
<1>1. fd \in FD /\ fds[fd] \in EntryType(DOMAIN files)
  BY DEF OnOs, GetFile, InOrder, TablesInv, EntryType
<1>2. /\ e \in EntryType(DOMAIN files) /\ fds' = [fds EXCEPT ![fd] = e]
      /\ e.flags = fds[fd].flags /\ e.dfile = fds[fd].dfile
  BY <1>1 DEF EntryType
<1>3. fds' = [g \in FD |-> IF g = fd THEN e ELSE fds[g]]
  BY <1>2 DEF InOrder, TablesInv
<1>4. TablesInv'
  BY <1>1, <1>2, EntryKeeps
<1>5. ClientInv'
  BY <1>1, <1>2, <1>3, StillKnows DEF GetFile, OnOs, OnSym
<1> QED BY <1>4, <1>5, Orderly

\* An answer that teaches the new place in a symbolic file.
LEMMA MovesTo ==
  ASSUME InOrder, NEW fd, OnSym(fd), NEW to \in Nat, fds' = [fds EXCEPT ![fd].off = to],
         UNCHANGED <<config, files, stdoutWrites, failures>>,
         NEW a, client' = Told(client, a),
         ~client.lost => /\ Credible(client, a)
                         /\ Learned(client, a) = [client EXCEPT !.pos[fd] = to]
  PROVE  Kept
<1> DEFINE e == [fds[fd] EXCEPT !.off = to]
           h == IF fds[fd].dfile = None THEN OS ELSE fds[fd].dfile
<1>1. fd \in FD /\ fds[fd] \in EntryType(DOMAIN files) /\ "eOpen" \in fds[fd].flags
  BY DEF OnSym, GetFile, InOrder, TablesInv, EntryType
<1>2. /\ e \in EntryType(DOMAIN files) /\ fds' = [fds EXCEPT ![fd] = e]
      /\ e.flags = fds[fd].flags /\ e.dfile = fds[fd].dfile /\ e.off = to
  BY <1>1 DEF EntryType
<1>3. TablesInv'
  BY <1>1, <1>2, EntryKeeps
<1>4. ASSUME ~client.lost
      PROVE  [client EXCEPT !.pos[fd] = to] = [client EXCEPT !.holds[fd] = h, !.pos[fd] = to]
  <2>1. client.holds[fd] = h
    BY <1>1, <1>4 DEF InOrder, ClientInv, OnOs, GetFile
  <2>2. client.holds = [g \in FD |-> client.holds[g]]
    BY DEF InOrder, ClientInv
  <2>3. [client.holds EXCEPT ![fd] = h] = client.holds
    BY <1>1, <2>1, <2>2
  <2>4. client = [holds |-> client.holds, pos |-> client.pos, image |-> client.image,
                  out |-> client.out, complaints |-> client.complaints, lost |-> client.lost]
    BY DEF InOrder, ClientInv
  <2> QED BY <2>3, <2>4
<1>5. LearnsAt(fd, h, to)
  BY <1>4, Teaches
<1>6. ClientInv'
  BY <1>1, <1>2, <1>5, LearnsOfOne
<1> QED BY <1>3, <1>6, Orderly

LEMMA OsTransferKeeps ==
  ASSUME InOrder, NEW call \in {"read", "write"}, NEW fd, OnOs(fd), NEW n \in Nat,
         NEW streams, OsTransfer(call, fd, n, streams)
  PROVE  Kept
<1>1. PICK r \in OsResults(n) :
        /\ IF r > 0 /\ fds[fd].fd \notin streams
             THEN Changing /\ fds' = [fds EXCEPT ![fd].off = @ + r]
             ELSE UNCHANGED <<config, calls, fds>>
        /\ Answer(call, fd, n, r, OsErr(r), 0)
        /\ UNCHANGED <<umask, files, stdoutWrites, failures>>
  BY DEF OsTransfer
<1>2. r \in Int /\ GetFile(fd) /\ ~OnSym(fd) /\ OsErr(r) # "EBADF" /\ fds[fd].off \in Nat
  BY DEF OsResults, OsErr, OnOs, OnSym, GetFile, InOrder, TablesInv
<1>3. client' = client
  BY <1>1, <1>2, TellsNothing
<1>4. CASE r > 0 /\ fds[fd].fd \notin streams
  <2>1. fds[fd].off + r \in Nat /\ fds' = [fds EXCEPT ![fd].off = fds[fd].off + r]
    BY <1>1, <1>2, <1>4
  <2> QED BY <1>1, <1>3, <1>4, <2>1, OsPlaceKeeps DEF Changing
<1>5. CASE ~(r > 0 /\ fds[fd].fd \notin streams)
  BY <1>1, <1>3, <1>5, Untouched DEF tables
<1> QED BY <1>4, <1>5

LEMMA ArgumentsAre ==
  /\ Counts \in SUBSET Nat /\ Offsets \in SUBSET Int /\ Bytes \in SUBSET Nat
  /\ Buffers \in SUBSET Seq(Nat) /\ DirBase \in Nat
BY FilesAssumption

LEMMA LseekKeeps ==
  ASSUME InOrder, NEW fd, NEW offset \in Offsets, NEW whence, Lseek(fd, offset, whence)
  PROVE  Kept
<1>1. CASE ~GetFile(fd) /\ Quiet("lseek", fd, -1, "EBADF")
  BY <1>1, QuietKeeps
<1>2. CASE OnSym(fd)
  <2> DEFINE to == SeekTo(fd, offset, whence)
             a == [call |-> "lseek", fd |-> fd, arg |-> 0, ret |-> to, err |-> "ok", data |-> 0]
  <2>1. CASE to = -1
    BY <1>2, <2>1, QuietKeeps DEF Lseek, OnSym, OnOs
  <2>2. CASE to # -1
    <3>1. /\ fds' = [fds EXCEPT ![fd].off = to] /\ client' = Told(client, a)
          /\ UNCHANGED <<config, files, stdoutWrites, failures>>
      BY <1>2, <2>2 DEF Lseek, OnSym, OnOs, Moved, Answer, Changing
    <3>2. offset \in Int /\ fds[fd].off \in Nat /\ FileOf(fd).size \in Nat
      BY <1>2, FilesAssumption DEF OnSym, GetFile, InOrder, TablesInv, FileOf
    <3>3. to \in Nat
      BY <2>2, <3>2 DEF SeekTo
    <3>4. ASSUME ~client.lost
          PROVE  /\ Credible(client, a)
                 /\ Learned(client, a) = [client EXCEPT !.pos[fd] = to]
      <4>1. Holds(client, fd) /\ Symbolic(client, fd)
        BY <1>2, <3>4, Knows DEF OnSym
      <4>2. Credible(client, a)
        BY <4>1 DEF Credible
      <4>3. Learned(client, a) = [client EXCEPT !.pos[fd] = to]
        BY <2>2, <4>1 DEF Learned
      <4> QED BY <4>2, <4>3
    <3> QED BY <1>2, <3>1, <3>3, <3>4, MovesTo
  <2> QED BY <2>1, <2>2
<1>3. CASE OnOs(fd)
  <2>1. PICK r \in {-1} \cup {o \in Offsets : o >= 0} :
          IF r = -1 THEN Quiet("lseek", fd, -1, "os") ELSE Moved(fd, r)
    BY <1>3 DEF Lseek, OnSym, OnOs
  <2>2. CASE r = -1
    BY <1>3, <2>1, <2>2, QuietKeeps DEF OnOs
  <2>3. CASE r # -1
    <3>1. r \in Nat
      BY <2>3, ArgumentsAre
    <3>2. client' = client
      BY <1>3, <2>1, <2>3, TellsNothing DEF Moved, OnOs, OnSym
    <3> QED BY <1>3, <2>1, <2>3, <3>1, <3>2, OsPlaceKeeps DEF Moved, Changing
  <2> QED BY <2>2, <2>3
<1> QED BY <1>1, <1>2, <1>3 DEF Lseek

\* What a program must read from the place it stands at.
LEMMA ExpectedIs ==
  ASSUME InOrder, ~client.lost, NEW fd, OnSym(fd), NEW n \in Nat
  PROVE  LET f == FileOf(fd)
             off == fds[fd].off
             count == IF f.size < off THEN 0 ELSE Min({n, f.size - off})
         IN /\ count \in Nat
            /\ Expected(client, fd, n) = [i \in 1..count |-> f.contents[off + i - 1]]
            /\ Len(Expected(client, fd, n)) = count
<1> DEFINE f == FileOf(fd)
           off == fds[fd].off
           count == IF f.size < off THEN 0 ELSE Min({n, f.size - off})
<1>1. /\ client.pos[fd] = off /\ off \in Nat /\ f.size \in Nat
      /\ client.image[client.holds[fd]] = f.contents
      /\ Size(client, fd) = f.size
  BY Knows
<1>2. Min({n, f.size - off}) = IF n <= f.size - off THEN n ELSE f.size - off
  BY <1>1, LesserIs
<1>3. count \in Nat
  BY <1>1, <1>2
<1>4. Max({0, Min({n, f.size - off})}) = count
  <2>1. ASSUME NEW m \in Int
        PROVE  Max({0, m}) = IF 0 >= m THEN 0 ELSE m
    BY GreaterIs
  <2>2. PICK m \in Int : m = Min({n, f.size - off})
    BY <1>1, <1>2
  <2>3. Max({0, m}) = IF 0 >= m THEN 0 ELSE m
    BY <2>1
  <2> QED BY <1>1, <1>2, <2>2, <2>3
<1>5. Expected(client, fd, n) = [i \in 1..count |-> f.contents[off + i - 1]]
  BY <1>1, <1>4 DEF Expected
<1>6. Len([i \in 1..count |-> f.contents[off + i - 1]]) = count
  BY <1>3
<1> QED BY <1>3, <1>5, <1>6

LEMMA ReadSymKeeps ==
  ASSUME InOrder, NEW fd, OnSym(fd), NEW n \in Nat, ReadSym(fd, n)
  PROVE  Kept
<1> DEFINE f == FileOf(fd)
           off == fds[fd].off
           count == IF f.size < off THEN 0 ELSE Min({n, f.size - off})
           a == [call |-> "read", fd |-> fd, arg |-> n, ret |-> count, err |-> "ok",
                 data |-> [i \in 1..count |-> f.contents[off + i - 1]]]
<1>1. /\ fds' = [fds EXCEPT ![fd].off = off + count] /\ client' = Told(client, a)
      /\ UNCHANGED <<config, files, stdoutWrites, failures>>
  BY DEF ReadSym, Answer, Changing
<1>2. off \in Nat /\ f.size \in Nat
  BY DEF OnSym, GetFile, InOrder, TablesInv, FileOf
<1>3. count \in Nat
  BY <1>2, LesserIs
<1>4. ASSUME ~client.lost
      PROVE  /\ Credible(client, a)
             /\ Learned(client, a) = [client EXCEPT !.pos[fd] = off + count]
  <2>1. Holds(client, fd) /\ Symbolic(client, fd) /\ client.pos[fd] = off
    BY <1>4, Knows DEF OnSym
  <2>2. a.data = Expected(client, fd, n) /\ a.ret = Len(a.data)
    BY <1>4, ExpectedIs
  <2>3. Credible(client, a)
    BY <2>1, <2>2 DEF Credible
  <2>4. Learned(client, a) = [client EXCEPT !.pos[fd] = client.pos[fd] + count]
    BY <1>3, <2>1 DEF Learned
  <2> QED BY <2>1, <2>3, <2>4
<1>5. off + count \in Nat
  BY <1>2, <1>3
<1> QED BY <1>1, <1>4, <1>5, MovesTo

LEMMA LearnedRead ==
  ASSUME NEW c, NEW a, a.call = "read", a.ret # -1, Symbolic(c, a.fd)
  PROVE  Learned(c, a) = [c EXCEPT !.pos[a.fd] = c.pos[a.fd] + a.ret]
BY DEF Learned

\* read of no bytes answers 0 on any descriptor.
LEMMA ReadNothingKeeps ==
  ASSUME InOrder, NEW fd, Quiet("read", fd, 0, "ok")
  PROVE  Kept
<1> DEFINE a == [call |-> "read", fd |-> fd, arg |-> 0, ret |-> 0, err |-> "ok", data |-> <<>>]
<1>1. CASE ~OnSym(fd)
  <2>1. client' = client
    BY <1>1, TellsNothing DEF Quiet
  <2> QED BY <2>1, Untouched DEF Quiet
<1>2. CASE OnSym(fd)
  <2>1. client' = Told(client, a)
    BY DEF Quiet, Answer
  <2>2. ASSUME ~client.lost
        PROVE  Credible(client, a) /\ Learned(client, a) = client
    <3>1. Holds(client, fd) /\ Symbolic(client, fd) /\ client.pos[fd] \in Nat
      BY <1>2, <2>2, Knows DEF OnSym
    <3>2. Expected(client, fd, 0) = <<>>
      <4> DEFINE f == FileOf(fd)
                 off == fds[fd].off
                 count == IF f.size < off THEN 0 ELSE Min({0, f.size - off})
      <4>1. off \in Nat /\ f.size \in Nat
        BY <1>2 DEF OnSym, GetFile, InOrder, TablesInv, FileOf
      <4>2. Min({0, f.size - off}) = IF 0 <= f.size - off THEN 0 ELSE f.size - off
        BY <4>1, LesserIs
      <4>3. count = 0
        BY <4>1, <4>2
      <4>4. Expected(client, fd, 0) = [i \in 1..count |-> f.contents[off + i - 1]]
        BY <1>2, <2>2, ExpectedIs
      <4> QED BY <4>3, <4>4
    <3>3. /\ a.ret # -1 /\ a.call = "read" /\ a.fd = fd /\ a.ret = 0
          /\ a.data = <<>> /\ a.arg = 0 /\ a.err = "ok"
      OBVIOUS
    <3>4. Credible(client, a)
      BY <3>1, <3>2, <3>3 DEF Credible
    <3>5. Learned(client, a) = [client EXCEPT !.pos[fd] = client.pos[fd] + 0]
      <4> HIDE DEF a
      <4> QED BY <3>1, <3>3, LearnedRead
    <3>6. [client EXCEPT !.pos[fd] = client.pos[fd] + 0] = client
      <4>1. /\ client = [holds |-> client.holds, pos |-> client.pos, image |-> client.image,
                         out |-> client.out, complaints |-> client.complaints, lost |-> client.lost]
            /\ client.pos = [g \in FD |-> client.pos[g]]
        BY DEF InOrder, ClientInv
      <4>2. [client.pos EXCEPT ![fd] = client.pos[fd] + 0] = client.pos
        <5>1. client.pos[fd] + 0 = client.pos[fd]
          BY <3>1
        <5> QED BY <4>1, <5>1
      <4> QED BY <4>1, <4>2
    <3> QED BY <3>4, <3>5, <3>6
  <2>3. client' = client
    BY <2>1, <2>2, ToldCredible, ToldLost
  <2> QED BY <2>3, Untouched DEF Quiet
<1> QED BY <1>1, <1>2

LEMMA ReadKeeps ==
  ASSUME InOrder, NEW fd, NEW n \in Counts, NEW buf, Read(fd, n, buf)
  PROVE  Kept
<1>1. n \in Nat
  BY ArgumentsAre
<1>2. CASE n = 0 /\ Quiet("read", fd, 0, "ok")
  BY <1>2, ReadNothingKeeps
<1>3. CASE Quiet("read", fd, -1, "EFAULT")
  BY <1>3, QuietKeeps
<1>4. CASE ~GetFile(fd) /\ Quiet("read", fd, -1, "EBADF")
  BY <1>4, QuietKeeps
<1>5. CASE GetFile(fd) /\ InjectedFailure("read", fd, "EIO")
  BY <1>5, InjectedKeeps
<1>6. CASE OnSym(fd) /\ ReadSym(fd, n)
  BY <1>1, <1>6, ReadSymKeeps
<1>7. CASE OnOs(fd) /\ OsTransfer("read", fd, n, {0})
  BY <1>1, <1>7, OsTransferKeeps
<1> QED BY <1>2, <1>3, <1>4, <1>5, <1>6, <1>7 DEF Read

\* How many of the n bytes at off a file of this size takes, and what it holds then.
Room(off, n, size) == IF off + n <= size THEN n ELSE Max({0, size - off})
Hit(off, n, size) == {q \in 0..(size - 1) : off <= q /\ q < off + n}
Over(old, size, off, data) ==
  [p \in 0..(size - 1) |-> IF p \in off..(off + Room(off, Len(data), size) - 1)
                             THEN data[p - off + 1] ELSE old[p]]

Fits(off, n, size) ==
  /\ Room(off, n, size) \in 0..n
  /\ Hit(off, n, size) = off..(off + Room(off, n, size) - 1)
  /\ Cardinality(Hit(off, n, size)) = Room(off, n, size)

LEMMA RoomIs ==
  ASSUME NEW off \in Nat, NEW n \in Nat, NEW size \in Nat
  PROVE  Fits(off, n, size)
<1>1. Max({0, size - off}) = IF 0 >= size - off THEN 0 ELSE size - off
  BY GreaterIs
<1>2. Room(off, n, size) \in 0..n
  BY <1>1 DEF Room
<1>3. Hit(off, n, size) = off..(off + Room(off, n, size) - 1)
  BY <1>1 DEF Room, Hit
<1>4. Cardinality(off..(off + Room(off, n, size) - 1)) = Room(off, n, size)
  BY <1>2, StretchIs
<1> QED BY <1>2, <1>3, <1>4 DEF Fits

LEMMA RecordUpdated ==
  ASSUME NEW h, NEW p, NEW i, NEW o, NEW w, NEW l, NEW q, NEW c,
         c = [holds |-> h, pos |-> p, image |-> i, out |-> o, complaints |-> w, lost |-> l]
  PROVE  /\ [c EXCEPT !.image = q] = [holds |-> h, pos |-> p, image |-> q, out |-> o,
                                      complaints |-> w, lost |-> l]
         /\ [c EXCEPT !.pos = q] = [holds |-> h, pos |-> q, image |-> i, out |-> o,
                                    complaints |-> w, lost |-> l]
         /\ [c EXCEPT !.out = q] = [holds |-> h, pos |-> p, image |-> i, out |-> q,
                                    complaints |-> w, lost |-> l]
         /\ c.pos = p /\ c.image = i
OBVIOUS

Updated(c, fd, d, x, y, z) == [c EXCEPT !.image[d] = x, !.pos[fd] = y, !.out = z]
ClientOf(h, p, i, o, w, l) ==
  [holds |-> h, pos |-> p, image |-> i, out |-> o, complaints |-> w, lost |-> l]

LEMMA ClientUpdated ==
  ASSUME NEW h, NEW p, NEW i, NEW o, NEW w, NEW l, NEW c, c = ClientOf(h, p, i, o, w, l),
         NEW fd, NEW d, NEW x, NEW y, NEW z
  PROVE  Updated(c, fd, d, x, y, z)
           = ClientOf(h, [p EXCEPT ![fd] = y], [i EXCEPT ![d] = x], z, w, l)
<1>1. PICK q : q = [i EXCEPT ![d] = x]
  OBVIOUS
<1>2. PICK r : r = [p EXCEPT ![fd] = y]
  OBVIOUS
<1>3. PICK c1 : c1 = [holds |-> h, pos |-> p, image |-> q, out |-> o, complaints |-> w, lost |-> l]
  OBVIOUS
<1>4. PICK c2 : c2 = [holds |-> h, pos |-> r, image |-> q, out |-> o, complaints |-> w, lost |-> l]
  OBVIOUS
<1>5. [c EXCEPT !.image[d] = x] = c1
  <2>1. [c EXCEPT !.image = q] = c1 /\ c.image = i
    BY <1>3, RecordUpdated DEF ClientOf
  <2> QED BY <1>1, <2>1, Zenon
<1>6. [c1 EXCEPT !.pos[fd] = y] = c2
  <2>1. [c1 EXCEPT !.pos = r] = c2 /\ c1.pos = p
    BY <1>3, <1>4, RecordUpdated
  <2> QED BY <1>2, <2>1, Zenon
<1>7. [c2 EXCEPT !.out = z]
        = [holds |-> h, pos |-> r, image |-> q, out |-> z, complaints |-> w, lost |-> l]
  BY <1>4, RecordUpdated
<1> QED BY <1>1, <1>2, <1>5, <1>6, <1>7, Zenon DEF Updated, ClientOf

\* What the client takes a write to have done is what it does.
Wrote(c, fd, data, size, d, off, old) ==
  ClientOf(c.holds, [c.pos EXCEPT ![fd] = off + Len(data)],
           [c.image EXCEPT ![d] = Over(old, size, off, data)],
           c.out + (IF d = "stdout" THEN Room(off, Len(data), size) ELSE 0),
           c.complaints, c.lost)

LEMMA WrittenIs ==
  ASSUME NEW c, NEW fd, NEW data \in Seq(Nat), NEW size \in Nat, NEW d, NEW off \in Nat, NEW old,
         c = ClientOf(c.holds, c.pos, c.image, c.out, c.complaints, c.lost),
         c.holds[fd] = d, c.pos[fd] = off, c.image[d] = old, DOMAIN old = 0..(size - 1),
         c.out \in Nat
  PROVE  Written(c, fd, data) =
           Wrote(c, fd, data, size, d, off, old)
<1>1. PICK n \in Nat : n = Len(data)
  OBVIOUS
<1> DEFINE hit == {q \in DOMAIN old : off <= q /\ q < off + n}
           seen == [q \in DOMAIN old |-> IF q \in hit THEN data[q - off + 1] ELSE old[q]]
           out == IF d = "stdout" THEN c.out + Cardinality(hit) ELSE c.out
<1>2. /\ hit = off..(off + Room(off, n, size) - 1) /\ Cardinality(hit) = Room(off, n, size)
      /\ Room(off, n, size) \in Nat
  <2>1. hit = Hit(off, n, size)
    BY DEF Hit
  <2>2. /\ Room(off, n, size) \in 0..n
        /\ Hit(off, n, size) = off..(off + Room(off, n, size) - 1)
        /\ Cardinality(Hit(off, n, size)) = Room(off, n, size)
    <3>1. Fits(off, n, size)
      BY RoomIs
    <3> QED BY <3>1, Zenon DEF Fits
  <2>3. Room(off, n, size) \in Nat
    BY <2>2
  <2> HIDE DEF hit
  <2> QED BY <2>1, <2>2, <2>3, Zenon
<1>3. out = c.out + (IF d = "stdout" THEN Room(off, n, size) ELSE 0)
  BY <1>2
<1>4. seen = Over(old, size, off, data)
  BY <1>1, <1>2 DEF Over
<1>5. Written(c, fd, data) = [c EXCEPT !.image[d] = seen, !.pos[fd] = off + n, !.out = out]
  BY <1>1 DEF Written
<1>6. PICK h, p, i, o, w, l : /\ h = c.holds /\ p = c.pos /\ i = c.image /\ o = c.out
                              /\ w = c.complaints /\ l = c.lost
  OBVIOUS
<1>7. PICK x, y, z : x = seen /\ y = off + n /\ z = out
  OBVIOUS
<1>8. c = ClientOf(h, p, i, o, w, l)
  BY <1>6, Zenon
<1>9. Updated(c, fd, d, x, y, z)
        = ClientOf(h, [p EXCEPT ![fd] = y], [i EXCEPT ![d] = x], z, w, l)
  BY <1>8, ClientUpdated
<1> HIDE DEF seen, out
<1>10. Written(c, fd, data) = Updated(c, fd, d, x, y, z)
  BY <1>5, <1>7, Zenon DEF Updated
<1>11. /\ x = Over(old, size, off, data) /\ y = off + Len(data)
       /\ z = c.out + (IF d = "stdout" THEN Room(off, Len(data), size) ELSE 0)
  BY <1>1, <1>3, <1>4, <1>7
<1> QED BY <1>6, <1>9, <1>10, <1>11, Zenon DEF Wrote

LEMMA LearnedWrite ==
  ASSUME NEW c, NEW fd, NEW n \in Nat, NEW data, Symbolic(c, fd)
  PROVE  Learned(c, [call |-> "write", fd |-> fd, arg |-> 0, ret |-> n, err |-> "ok",
                     data |-> data]) = Written(c, fd, data)
BY DEF Learned

\* A byte that is written comes from a place of the data.
LEMMA PlaceInData ==
  ASSUME NEW off \in Nat, NEW n \in Nat, NEW m \in 0..n, NEW p \in off..(off + m - 1)
  PROVE  p - off + 1 \in 1..n
OBVIOUS

LEMMA WriteSymKeeps ==
  ASSUME InOrder, NEW fd, OnSym(fd), NEW data \in Seq(Nat), WriteSym(fd, data)
  PROVE  Kept
<1> DEFINE d == fds[fd].dfile
           f == FileOf(fd)
           off == fds[fd].off
           n == Len(data)
           actual == Room(off, n, f.size)
           stored == Over(f.contents, f.size, off, data)
           r == [f EXCEPT !.contents = stored]
           e == [fds[fd] EXCEPT !.off = off + n]
           more == IF d = "stdout" THEN actual ELSE 0
           a == [call |-> "write", fd |-> fd, arg |-> 0, ret |-> n, err |-> "ok", data |-> data]
<1>1. CASE ~(off + n <= f.size) /\ opts.saveAllWrites
  BY <1>1, Stopped DEF WriteSym
<1>2. CASE ~(~(off + n <= f.size) /\ opts.saveAllWrites)
  <2>1. /\ fd \in FD /\ d \in DOMAIN files /\ "eOpen" \in fds[fd].flags /\ d # None /\ d # OS
        /\ off \in Nat /\ f.size \in Nat /\ f = files[d] /\ n \in Nat
        /\ f.contents \in [0..(f.size - 1) -> Nat] /\ DOMAIN f.contents = 0..(f.size - 1)
        /\ fds[fd] \in EntryType(DOMAIN files) /\ stdoutWrites \in Nat
    BY DEF OnSym, GetFile, InOrder, TablesInv, FileOf, EntryType, None, OS
  <2>2. actual \in 0..n
    BY <2>1, RoomIs DEF Fits
  <2>3. /\ files' = [files EXCEPT ![d] = r] /\ fds' = [fds EXCEPT ![fd] = e]
        /\ stdoutWrites' = stdoutWrites + more /\ client' = Told(client, a)
        /\ UNCHANGED <<config, failures>>
    BY <1>2, <2>1 DEF WriteSym, WriteEnd, Answer, Changing, FileOf, Room, Over
  <2>4. stored \in [0..(f.size - 1) -> Nat]
    <3>1. ASSUME NEW p \in 0..(f.size - 1)
          PROVE  (IF p \in off..(off + actual - 1) THEN data[p - off + 1]
                  ELSE f.contents[p]) \in Nat
      <4>1. CASE p \in off..(off + actual - 1)
        <5>1. p - off + 1 \in 1..n
          <6> HIDE DEF off, n, actual
          <6> QED BY <2>1, <2>2, <4>1, PlaceInData
        <5>2. data[p - off + 1] \in Nat
          BY <5>1
        <5> QED BY <4>1, <5>2
      <4>2. CASE p \notin off..(off + actual - 1)
        BY <2>1, <4>2
      <4> QED BY <4>1, <4>2
    <3> QED BY <3>1 DEF Over
  <2>5. /\ r = [size |-> f.size, contents |-> stored, ino |-> f.ino, mode |-> f.mode,
                type |-> f.type, mine |-> f.mine, group |-> f.group, times |-> f.times]
        /\ r.contents = stored
    <3>1. ASSUME NEW q
          PROVE  [f EXCEPT !.contents = q]
                   = [size |-> f.size, contents |-> q, ino |-> f.ino, mode |-> f.mode,
                      type |-> f.type, mine |-> f.mine, group |-> f.group, times |-> f.times]
      BY <2>1, RecordOf
    <3>2. r = [size |-> f.size, contents |-> stored, ino |-> f.ino, mode |-> f.mode,
               type |-> f.type, mine |-> f.mine, group |-> f.group, times |-> f.times]
      BY <3>1
    <3> QED BY <3>2
  <2>6. e \in EntryType(DOMAIN files) /\ e.flags = fds[fd].flags /\ e.dfile = d /\ e.off = off + n
    <3>1. off + n \in Nat
      BY <2>1
    <3> QED BY <2>1, <3>1 DEF EntryType
  <2>7. stdoutWrites' \in Nat
    BY <2>1, <2>2, <2>3
  <2>8. TablesInv' /\ DOMAIN files' = DOMAIN files
    <3>1. r = [size |-> files[d].size, contents |-> r.contents, ino |-> r.ino, mode |-> r.mode,
               type |-> r.type, mine |-> r.mine, group |-> r.group, times |-> r.times]
      BY <2>1, <2>5
    <3>2. r.contents \in [0..(files[d].size - 1) -> Nat]
      BY <2>1, <2>4, <2>5
    <3> QED BY <2>1, <2>3, <2>6, <2>7, <3>1, <3>2, BothKeep
  <2>9. ClientInv'
    <3>1. CASE client.lost
      <4>1. client' = client
        BY <2>3, <3>1, ToldLost
      <4> QED BY <3>1, <4>1 DEF InOrder, ClientInv
    <3>2. CASE ~client.lost
      <4>1. /\ Holds(client, fd) /\ Symbolic(client, fd) /\ client.holds[fd] = d
            /\ client.pos[fd] = off /\ client.image[d] = f.contents
            /\ client.image = [x \in DOMAIN files |-> files[x].contents]
            /\ client.out = stdoutWrites
        BY <3>2, Knows DEF OnSym, InOrder, ClientInv
      <4>2. client' = Written(client, fd, data)
        <5>1. Credible(client, a)
          BY <4>1 DEF Credible
        <5>2. Learned(client, a) = Written(client, fd, data)
          BY <2>1, <4>1, LearnedWrite
        <5> QED BY <2>3, <3>2, <5>1, <5>2, ToldCredible
      <4>3. Written(client, fd, data)
              = [holds |-> client.holds, pos |-> [client.pos EXCEPT ![fd] = off + n],
                 image |-> [client.image EXCEPT ![d] = stored], out |-> client.out + more,
                 complaints |-> client.complaints, lost |-> client.lost]
        <5>1. client = ClientOf(client.holds, client.pos, client.image, client.out,
                                client.complaints, client.lost)
          BY Zenon DEF InOrder, ClientInv, ClientOf
        <5>2. DOMAIN f.contents = 0..(f.size - 1) /\ f.size \in Nat /\ off \in Nat
              /\ client.out \in Nat
          BY <2>1, <4>1
        <5>3. client.holds[fd] = d /\ client.pos[fd] = off /\ client.image[d] = f.contents
          BY <4>1
        <5>4. Written(client, fd, data) = Wrote(client, fd, data, f.size, d, off, f.contents)
          <6> HIDE DEF d, off, f
          <6> QED BY <5>1, <5>2, <5>3, WrittenIs
        <5> QED BY <5>4, Zenon DEF Wrote, ClientOf
      <4>4. /\ client' = [holds |-> client.holds, pos |-> client'.pos, image |-> client'.image,
                          out |-> client'.out, complaints |-> client.complaints,
                          lost |-> client.lost]
            /\ client'.pos = [g \in FD |-> IF g = fd THEN off + n ELSE client.pos[g]]
            /\ client'.image = [x \in DOMAIN files |-> IF x = d THEN stored ELSE files[x].contents]
            /\ client'.out = stdoutWrites'
        <5>1. client.pos = [g \in FD |-> client.pos[g]]
          BY DEF InOrder, ClientInv
        <5>2. [client.pos EXCEPT ![fd] = off + n]
                = [g \in FD |-> IF g = fd THEN off + n ELSE client.pos[g]]
          BY <5>1
        <5>3. [client.image EXCEPT ![d] = stored]
                = [x \in DOMAIN files |-> IF x = d THEN stored ELSE files[x].contents]
          BY <2>1, <4>1
        <5>4. stdoutWrites' = client.out + more
          BY <2>3, <4>1
        <5> QED BY <4>2, <4>3, <5>2, <5>3, <5>4
      <4>5. /\ fds' = [g \in FD |-> IF g = fd THEN e ELSE fds[g]]
            /\ files' = [x \in DOMAIN files |-> IF x = d THEN r ELSE files[x]]
        BY <2>3 DEF InOrder, TablesInv
      <4>6. client'.image = [x \in DOMAIN files' |-> files'[x].contents]
        BY <2>5, <4>4, <4>5
      <4>7. \A g \in FD : fds'[g].flags = fds[g].flags /\ fds'[g].dfile = fds[g].dfile
        BY <2>6, <4>5
      <4>8. ASSUME NEW g \in FD
            PROVE  /\ client'.holds[g] = IF ~GetFile(g)' THEN None
                                         ELSE IF OnOs(g)' THEN OS ELSE fds'[g].dfile
                   /\ OnSym(g)' => fds'[g].off = client'.pos[g]
        <5>1. client'.holds[g] = client.holds[g]
          BY <4>4
        <5>2. /\ GetFile(g)' <=> GetFile(g)
              /\ OnSym(g)' <=> OnSym(g)
              /\ OnOs(g)' <=> OnOs(g)
          BY <4>7 DEF GetFile, OnSym, OnOs
        <5>3. client.holds[g] = IF ~GetFile(g) THEN None
                                ELSE IF OnOs(g) THEN OS ELSE fds[g].dfile
          BY <3>2 DEF InOrder, ClientInv
        <5>4. OnSym(g) => fds[g].off = client.pos[g]
          BY <3>2 DEF InOrder, ClientInv
        <5>5. OnSym(g)' => fds'[g].off = client'.pos[g]
          BY <2>6, <4>4, <4>5, <5>2, <5>4
        <5> QED BY <4>7, <5>1, <5>2, <5>3, <5>5
      <4>9. client.complaints = {} /\ client.holds = [g \in FD |-> client.holds[g]]
        BY <3>2 DEF InOrder, ClientInv
      <4>10. /\ client'.holds = [g \in FD |-> client'.holds[g]]
             /\ client'.pos = [g \in FD |-> client'.pos[g]]
             /\ client'.complaints = {} /\ client'.lost = client.lost
             /\ client' = [holds |-> client'.holds, pos |-> client'.pos, image |-> client'.image,
                           out |-> client'.out, complaints |-> client'.complaints,
                           lost |-> client'.lost]
        BY <4>4, <4>9
      <4>11. client'.lost \in BOOLEAN
        BY <4>10 DEF InOrder, ClientInv
      <4>12. client'.out = stdoutWrites'
        BY <4>4
      <4> QED BY <4>6, <4>8, <4>10, <4>11, <4>12 DEF ClientInv
    <3> QED BY <3>1, <3>2
  <2> QED BY <2>3, <2>8, <2>9, Orderly
<1> QED BY <1>1, <1>2

LEMMA WriteKeeps ==
  ASSUME InOrder, NEW fd, NEW data \in Buffers, Write(fd, data)
  PROVE  Kept
<1>1. data \in Seq(Nat) /\ Len(data) \in Nat
  BY ArgumentsAre
<1>2. CASE ~GetFile(fd) /\ Quiet("write", fd, -1, "EBADF")
  BY <1>2, QuietKeeps
<1>3. CASE GetFile(fd) /\ InjectedFailure("write", fd, "EIO")
  BY <1>3, InjectedKeeps
<1>4. CASE OnSym(fd) /\ WriteSym(fd, data)
  BY <1>1, <1>4, WriteSymKeeps
<1>5. CASE OnOs(fd) /\ OsTransfer("write", fd, Len(data), {1, 2})
  <2>1. PICK n \in Nat : n = Len(data)
    BY <1>1
  <2> QED BY <1>5, <2>1, OsTransferKeeps
<1> QED BY <1>2, <1>3, <1>4, <1>5 DEF Write

-----------------------------------------------------------------------------
(* The calls that tell what is there.                                      *)

LEMMA GetdentsKeeps ==
  ASSUME InOrder, NEW fd, NEW count \in Counts, Getdents(fd, count)
  PROVE  Kept
<1>1. CASE Quiet("getdents", fd, -1, "EBADF") /\ ~GetFile(fd)
  BY <1>1, QuietKeeps
<1>2. CASE /\ GetFile(fd)
           /\ Quiet("getdents", fd, -1, "EINVAL") \/ Quiet("getdents", fd, -1, "os")
  BY <1>2, QuietKeeps
<1>3. ASSUME OnOs(fd), NEW to \in Nat, Changing, fds' = [fds EXCEPT ![fd].off = to],
             NEW arg, NEW ret, Answer("getdents", fd, arg, ret, "ok", 0),
             UNCHANGED <<umask, files, stdoutWrites, failures>>
      PROVE  Kept
  <2>1. client' = client
    BY <1>3, TellsNothing DEF OnOs, OnSym
  <2> QED BY <1>3, <2>1, OsPlaceKeeps DEF Changing
<1>4. CASE OnOs(fd) /\ GetdentsSym(fd, count)
  <2>1. Min({count, DirBase}) \in Nat
    BY ArgumentsAre, LesserIs
  <2> QED BY <1>2, <1>3, <1>4, <2>1 DEF GetdentsSym, OnOs
<1>5. CASE OnOs(fd) /\ GetdentsOs(fd)
  <2>1. ASSUME NEW pos \in {o \in Offsets : o >= 0}
        PROVE  pos + DirBase \in Nat
    BY ArgumentsAre
  <2> QED BY <1>2, <1>3, <1>5, <2>1 DEF GetdentsOs, OnOs
<1> QED BY <1>1, <1>2, <1>4, <1>5 DEF Getdents, OnSym

LEMMA IoctlKeeps ==
  ASSUME InOrder, NEW fd, NEW request, Ioctl(fd, request)
  PROVE  Kept
<1> DEFINE err == IoctlErr(fd, request)
           call == IF request = "FIONREAD" THEN request ELSE "ioctl"
           ret == IF err = "ok" THEN 0 ELSE -1
           a == [call |-> call, fd |-> fd, arg |-> 0, ret |-> ret, err |-> err,
                 data |-> BytesLeft(fd)]
<1>1. CASE ~GetFile(fd) /\ Quiet("ioctl", fd, -1, "EBADF")
  BY <1>1, QuietKeeps
<1>2. CASE /\ OnSym(fd) /\ client' = Told(client, a)
           /\ UNCHANGED <<config, tables, failures, calls>>
  <2>1. ASSUME ~client.lost
        PROVE  Credible(client, a) /\ Learned(client, a) = client
    <3>1. Holds(client, fd) /\ Symbolic(client, fd) /\ Size(client, fd) = FileOf(fd).size
      BY <1>2, <2>1, Knows DEF OnSym
    <3>2. BytesLeft(fd) = Len(Expected(client, fd, Size(client, fd)))
      <4> DEFINE size == FileOf(fd).size
                 off == fds[fd].off
      <4>1. off \in Nat /\ size \in Nat
        BY <1>2 DEF OnSym, GetFile, InOrder, TablesInv, FileOf
      <4>2. /\ Max({0, size - off}) = (IF 0 >= size - off THEN 0 ELSE size - off)
            /\ Min({size, size - off}) = IF size <= size - off THEN size ELSE size - off
        BY <4>1, LesserIs, GreaterIs
      <4>3. Len(Expected(client, fd, size))
              = IF size < off THEN 0 ELSE Min({size, size - off})
        BY <1>2, <2>1, <4>1, ExpectedIs
      <4> QED BY <3>1, <4>1, <4>2, <4>3 DEF BytesLeft
    <3>3. err # "EBADF"
      BY DEF IoctlErr
    <3>4. Credible(client, a)
      BY <3>1, <3>2, <3>3 DEF Credible
    <3>5. Learned(client, a) = client
      BY DEF Learned
    <3> QED BY <3>4, <3>5
  <2>2. client' = client
    BY <1>2, <2>1, ToldCredible, ToldLost
  <2> QED BY <1>2, <2>2, Untouched
<1>3. CASE OnOs(fd) /\ OsAnswers("ioctl", fd)
  BY <1>3, OsAnswersKeeps DEF OnOs, Telling
<1> QED BY <1>1, <1>2, <1>3 DEF Ioctl, Answer

LEMMA FcntlKeeps ==
  ASSUME InOrder, NEW fd, NEW cmd, NEW cloexec \in BOOLEAN, Fcntl(fd, cmd, cloexec)
  PROVE  Kept
<1>1. CASE ~GetFile(fd) /\ Quiet("fcntl", fd, -1, "EBADF")
  BY <1>1, QuietKeeps
<1>2. CASE /\ GetFile(fd)
           /\ \/ \E r \in {0, 1} : Quiet("fcntl", fd, r, "ok")
              \/ Quiet("fcntl", fd, -1, "EINVAL")
  BY <1>2, QuietKeeps
<1>3. CASE OnOs(fd) /\ OsAnswers("fcntl", fd)
  BY <1>3, OsAnswersKeeps DEF OnOs, Telling
<1>4. CASE /\ OnSym(fd) /\ cmd = "F_SETFD" /\ Changing
           /\ Answer("fcntl", fd, 0, 0, "ok", 0)
           /\ UNCHANGED <<umask, files, stdoutWrites, failures>>
           /\ fds' = [fds EXCEPT ![fd].flags =
                        (@ \ {"eCloseOnExec"}) \cup (IF cloexec THEN {"eCloseOnExec"} ELSE {})]
  <2> DEFINE flags == IF cloexec THEN {"eCloseOnExec"} ELSE {}
             e == [fds[fd] EXCEPT !.flags = (@ \ {"eCloseOnExec"}) \cup flags]
  <2>1. fd \in FD /\ fds[fd] \in EntryType(DOMAIN files)
    BY <1>4 DEF OnSym, GetFile, InOrder, TablesInv, EntryType
  <2>2. /\ e \in EntryType(DOMAIN files) /\ fds' = [fds EXCEPT ![fd] = e]
        /\ "eOpen" \in e.flags <=> "eOpen" \in fds[fd].flags
        /\ e.dfile = fds[fd].dfile /\ e.off = fds[fd].off
    BY <1>4, <2>1 DEF EntryType, EntryFlags
  <2>3. fds' = [g \in FD |-> IF g = fd THEN e ELSE fds[g]]
    BY <2>2 DEF InOrder, TablesInv
  <2>4. client' = client
    BY <1>4, TellsNothing DEF OnSym
  <2>5. TablesInv'
    BY <1>4, <2>1, <2>2, EntryKeeps DEF Changing
  <2>6. ClientInv'
    BY <1>4, <2>1, <2>2, <2>3, <2>4, StillKnows DEF GetFile
  <2> QED BY <1>4, <2>5, <2>6, Orderly DEF Changing
<1>5. CASE OnSym(fd) /\ cmd \in {"F_GETFD", "F_GETFL"}
  <2>1. Fcntl(fd, cmd, cloexec) =>
          Quiet("fcntl", fd, IF cmd = "F_GETFD" /\ "eCloseOnExec" \in fds[fd].flags
                               THEN 1 ELSE 0, "ok")
    BY <1>5 DEF Fcntl, OnSym, OnOs
  <2>2. \E r \in {0, 1} : Quiet("fcntl", fd, r, "ok")
    BY <2>1
  <2> QED BY <1>2, <1>5, <2>2 DEF OnSym
<1>6. CASE OnSym(fd) /\ Quiet("fcntl", fd, -1, "EINVAL")
  BY <1>2, <1>6 DEF OnSym
<1> QED BY <1>1, <1>3, <1>4, <1>5, <1>6 DEF Fcntl

LEMMA SelectKeeps ==
  ASSUME InOrder, NEW s, Select(s)
  PROVE  Kept
<1>1. CASE \E a \in SelectAsked(s) : ~GetFile(a[2])
  <2>1. Quiet("select", NoFd, -1, "EBADF")
    BY <1>1 DEF Select
  <2>2. ~GetFile(NoFd)
    BY DescriptorsAre DEF GetFile
  <2> QED BY <2>1, <2>2, QuietKeeps
<1>2. CASE Quiet("select", NoFd, -1, "os")
  BY <1>2, QuietKeeps
<1>3. ASSUME NEW ret, NEW data, Answer("select", NoFd, 0, ret, "ok", data),
             UNCHANGED <<config, tables, failures, calls>>
      PROVE  Kept
  <2>1. client' = client
    BY <1>3, TellsNothing
  <2> QED BY <1>3, <2>1, Untouched
<1> QED BY <1>1, <1>2, <1>3 DEF Select

-----------------------------------------------------------------------------
(* Every call.                                                             *)

LEMMA ChmodKeeps ==
  ASSUME InOrder, NEW path, NEW mode, Chmod(path, mode)
  PROVE  Kept
<1>1. CASE Stop("crash")
  BY <1>1, Stopped
<1>2. CASE SymFile(path) /\ DfChmod("chmod", NoFd, path, mode)
  BY <1>2, SymFileIs, DfChmodKeeps DEF Telling
<1>3. CASE OsAnswers("chmod", NoFd)
  BY <1>3, OsAnswersKeeps DEF Telling
<1> QED BY <1>1, <1>2, <1>3 DEF Chmod

LEMMA FchmodKeeps ==
  ASSUME InOrder, NEW fd, NEW mode, Fchmod(fd, mode)
  PROVE  Kept
<1>1. CASE ~GetFile(fd) /\ Quiet("fchmod", fd, -1, "EBADF")
  BY <1>1, QuietKeeps
<1>2. CASE Stop("crash")
  BY <1>2, Stopped
<1>3. CASE OnSym(fd) /\ DfChmod("fchmod", fd, fds[fd].dfile, mode)
  <2>1. GetFile(fd) /\ fds[fd].dfile \in DOMAIN files
    BY <1>3 DEF OnSym, GetFile, InOrder, TablesInv
  <2> QED BY <1>3, <2>1, DfChmodKeeps DEF Telling
<1>4. CASE OnOs(fd) /\ OsAnswers("fchmod", fd)
  BY <1>4, OsAnswersKeeps DEF OnOs, Telling
<1> QED BY <1>1, <1>2, <1>3, <1>4 DEF Fchmod

LEMMA FtruncateKeeps ==
  ASSUME InOrder, NEW fd, Ftruncate(fd)
  PROVE  Kept
BY InjectedKeeps, FdCallKeeps DEF Ftruncate, Telling

LEMMA ReadlinkKeeps ==
  ASSUME InOrder, NEW path, NEW n \in Counts, Readlink(path, n)
  PROVE  Kept
<1>1. ASSUME NEW ret, Quiet("readlink", NoFd, ret, "ok")
      PROVE  Kept
  <2>1. client' = client
    BY <1>1, TellsNothing DEF Quiet
  <2> QED BY <1>1, <2>1, Untouched DEF Quiet
<1>2. CASE Quiet("readlink", NoFd, -1, "EINVAL")
  BY <1>2, QuietKeeps
<1>3. CASE OsAnswers("readlink", NoFd)
  BY <1>3, OsAnswersKeeps DEF Telling
<1> QED BY <1>1, <1>2, <1>3 DEF Readlink

LEMMA FutimesatKeeps ==
  ASSUME InOrder, NEW base, NEW path, NEW t, Futimesat(base, path, t)
  PROVE  Kept
BY AtRefusedKeeps, UtimesKeeps DEF Futimesat

LEMMA FstatatKeeps ==
  ASSUME InOrder, NEW base, NEW path, Fstatat(base, path)
  PROVE  Kept
BY AtRefusedKeeps, PathCallKeeps DEF Fstatat, Telling

LEMMA PathCallsKeep ==
  ASSUME InOrder, NEW path,
         \/ Access(path) \/ EffectiveAccess(path) \/ Stat(path) \/ Lstat(path)
         \/ Chdir(path) \/ Statfs(path) \/ Chown(path) \/ Lchown(path)
  PROVE  Kept
<1>1. \E call \in {"access", "stat", "lstat", "chdir", "statfs", "chown", "lchown"} :
        \E ret, err : err # "EBADF" /\ PathCall(call, path, ret, err)
  BY DEF Access, EffectiveAccess, Stat, Lstat, Chdir, Statfs, Chown, Lchown, DfChownErr
<1> QED BY <1>1, PathCallKeeps DEF Telling

LEMMA FdCallsKeep ==
  ASSUME InOrder, NEW fd,
         Fstat(fd) \/ Fchdir(fd) \/ Fstatfs(fd) \/ Fsync(fd) \/ Fchown(fd)
  PROVE  Kept
<1>1. \E call \in {"fstat", "fchdir", "fstatfs", "fsync", "fchown"} :
        \E ret, err : (err = "EBADF" => call = "fstatfs") /\ FdCall(call, fd, ret, err)
  BY DEF Fstat, Fchdir, Fstatfs, Fsync, Fchown, DfChownErr
<1> QED BY <1>1, FdCallKeeps DEF Telling

LEMMA RemovesKeep ==
  ASSUME InOrder, NEW path, Rmdir(path) \/ Unlink(path) \/ Unlinkat(path)
  PROVE  Kept
<1>1. \E call \in {"rmdir", "unlink", "unlinkat"} :
        \E type, err : err # "EBADF" /\ Remove(call, path, type, err)
  BY DEF Rmdir, Unlink, Unlinkat, UnlinkErr
<1> QED BY <1>1, RemoveKeeps DEF Telling

LEMMA ChrootKeeps ==
  ASSUME InOrder, NEW path, Chroot(path)
  PROVE  Kept
BY QuietKeeps DEF Chroot

LEMMA OfPathKeeps ==
  ASSUME InOrder, OfPath
  PROVE  Kept
<1>1. PICK path \in PathArgs :
        \/ Access(path) \/ EffectiveAccess(path) \/ Stat(path) \/ Lstat(path)
        \/ Chdir(path) \/ Statfs(path) \/ Chown(path) \/ Lchown(path)
        \/ Rmdir(path) \/ Unlink(path) \/ Unlinkat(path) \/ Chroot(path)
        \/ \E n \in Counts : Readlink(path, n)
        \/ \E t \in {1} : Utimes(path, t)
        \/ \E mode \in Modes : Chmod(path, mode)
        \/ \E flags \in OpenFlags, mode \in Modes : Open(path, flags, mode)
        \/ \E base \in FdArgs \cup {NoFd} :
             \/ Fstatat(base, path)
             \/ \E t \in {1} : Futimesat(base, path, t)
             \/ \E flags \in OpenFlags, mode \in Modes : Openat(base, path, flags, mode)
  BY DEF OfPath
<1> QED BY <1>1, PathCallsKeep, RemovesKeep, ChrootKeeps, ReadlinkKeeps, UtimesKeeps,
           ChmodKeeps, OpensKeep, FstatatKeeps, FutimesatKeeps

LEMMA OfDescriptorKeeps ==
  ASSUME InOrder, OfDescriptor
  PROVE  Kept
<1>1. PICK fd \in FdArgs :
        \/ Close(fd) \/ Dup(fd) \/ Fstat(fd) \/ Fchdir(fd) \/ Fstatfs(fd) \/ Fsync(fd)
        \/ Fchown(fd) \/ Ftruncate(fd)
        \/ \E new \in FdArgs : Dup2(fd, new)
        \/ \E mode \in Modes : Fchmod(fd, mode)
        \/ \E n \in Counts, buf \in {"NULL", "buf"} : Read(fd, n, buf)
        \/ \E data \in Buffers : Write(fd, data)
        \/ \E o \in Offsets, w \in {"SEEK_SET", "SEEK_CUR", "SEEK_END", "bad"} : Lseek(fd, o, w)
        \/ \E n \in Counts : Getdents(fd, n)
        \/ \E r \in TtyRequests \cup {"TCSETSW", "TIOCSWINSZ", "FIONREAD", "MTIOCGET"} : Ioctl(fd, r)
        \/ \E cmd \in {"F_GETFD", "F_GETFL", "F_SETFD", "F_OTHER"}, b \in BOOLEAN : Fcntl(fd, cmd, b)
  BY DEF OfDescriptor
<1> QED BY <1>1, CloseKeeps, DupsKeep, FdCallsKeep, FtruncateKeeps, FchmodKeeps, ReadKeeps,
           WriteKeeps, LseekKeeps, GetdentsKeeps, IoctlKeeps, FcntlKeeps

LEMMA StubKeeps ==
  ASSUME InOrder, Stub
  PROVE  Kept
<1>1. \E ret, err : Quiet("stub", NoFd, ret, err)
  BY DEF Stub
<1>2. ~GetFile(NoFd)
  BY DescriptorsAre DEF GetFile
<1> QED BY <1>1, <1>2, QuietKeeps DEF Telling

LEMMA OthersKeep ==
  ASSUME InOrder, Others
  PROVE  Kept
<1>1. CASE Getcwd
  BY <1>1, InjectedKeeps, OsAnswersKeeps DEF Getcwd, Telling
<1>2. CASE Longjmp
  BY <1>2, Stopped DEF Longjmp
<1> QED BY <1>1, <1>2, UmaskKeeps, SelectKeeps, StubKeeps DEF Others

-----------------------------------------------------------------------------
(* The start: klee_init_env and klee_init_fds.                             *)

Options == [nFiles : 0..Len(SymNames), fileLength : Nat, stdinLength : Nat,
            symStdout : BOOLEAN, saveAllWrites : BOOLEAN, maxFail : Nat, argc : Nat]

LEMMA CommandLinesAre ==
  /\ ArgLists \in SUBSET Seq([w : STRING, n : Nat])
  /\ \A a \in ArgLists : \A i \in 1..(Len(a) - 1) :
       a[i].w = "-sym-files" => a[i + 1].n <= Len(SymNames)
BY FilesAssumption

LEMMA NamesAre ==
  /\ \A i \in 1..Len(SymNames) : SymNames[i] \notin {None, OS}
  /\ StdoutSize \in Nat /\ Bytes \in SUBSET Nat
BY FilesAssumption

LEMMA ElementIs ==
  ASSUME NEW S, NEW s \in Seq(S), NEW j \in 1..Len(s)
  PROVE  s[j] \in S
OBVIOUS

LEMMA NumbersAre ==
  ASSUME TypeOK, NEW i \in Nat, IsNum(k + i)
  PROVE  /\ Num(i) \in Nat
         /\ i = 1 /\ Word(k) = "-sym-files" => Num(i) \in 0..Len(SymNames)
<1>1. argv \in Seq([w : STRING, n : Nat]) /\ k \in Nat \ {0} /\ k + i \in 1..Len(argv)
  BY CommandLinesAre DEF TypeOK, IsNum, Argc
<1>2. argv[k + i] \in [w : STRING, n : Nat]
  BY <1>1, ElementIs
<1>3. Num(i) \in Nat
  BY <1>2 DEF Num
<1>4. ASSUME i = 1, Word(k) = "-sym-files"
      PROVE  Num(i) <= Len(SymNames)
  <2>1. k \in 1..(Len(argv) - 1)
    BY <1>1, <1>4
  <2> QED BY <1>4, <2>1, CommandLinesAre DEF TypeOK, Num, Word
<1> QED BY <1>3, <1>4

\* An option is read, or the command line refused.
Reads ==
  /\ UNCHANGED <<argv, tables, failures, client>>
  /\ \/ phase' = "error" /\ UNCHANGED <<k, opts>>
     \/ phase' = "args" /\ k' \in Nat \ {0} /\ opts' \in Options

LEMMA ReadsKeeps ==
  ASSUME phase = "args", TypeOK, AtStart, Reads
  PROVE  RuntimeInv'
BY DEF Reads, TypeOK, AtStart, RuntimeInv, Options, tables, failures

LEMMA AddArgsReads ==
  ASSUME phase = "args", TypeOK, NEW n \in Nat, AddArgs(n), NEW to \in Nat \ {0},
         k' = (IF phase' = "args" THEN to ELSE k),
         UNCHANGED <<tables, failures, calls, client>>
  PROVE  Reads
<1>1. opts \in Options /\ k \in Nat \ {0}
  BY DEF TypeOK, Options
<1>2. [opts EXCEPT !.argc = @ + n] \in Options
  BY <1>1 DEF Options
<1> QED BY <1>1, <1>2 DEF AddArgs, EmitError, Reads

LEMMA OptionReads ==
  ASSUME phase = "args", TypeOK, NEW w, NEW n \in Nat, NEW to, Option(w, n, opts' = to),
         (Word(k) = w /\ \A i \in 1..n : IsNum(k + i)) => to \in Options
  PROVE  Reads
<1>1. k \in Nat \ {0} /\ k + n + 1 \in Nat \ {0}
  BY DEF TypeOK
<1>2. CASE \A i \in 1..n : IsNum(k + i)
  <2>1. opts' = to /\ to \in Options /\ k' = k + n + 1 /\ UNCHANGED <<phase, argv>>
    BY <1>2 DEF Option
  <2> QED BY <1>1, <2>1 DEF Option, Reads
<1>3. CASE ~(\A i \in 1..n : IsNum(k + i))
  BY <1>3 DEF Option, EmitError, Reads
<1> QED BY <1>2, <1>3

LEMMA StartReads ==
  ASSUME phase = "args", TypeOK, Start, ~KleeInitFds
  PROVE  Reads
<1>1. opts \in Options /\ k \in Nat \ {0}
  BY DEF TypeOK, Options
<1>2. CASE HelpOption
  BY <1>2 DEF HelpOption, EmitError, Reads
<1>3. CASE SymArgOption
  BY <1>1, <1>3, AddArgsReads DEF SymArgOption, EmitError, Reads
<1>4. CASE SymArgsOption
  <2>1. CASE EmitError /\ UNCHANGED <<tables, failures, calls, client>>
    BY <2>1 DEF EmitError, Reads
  <2>2. CASE (\A i \in 1..3 : IsNum(k + i)) /\ ~EmitError
    <3>1. Num(1) \in Nat /\ Num(2) \in Nat
      BY <2>2, NumbersAre
    <3>2. PICK n \in KleeRange(Num(1), Num(2) + 1) :
            AddArgs(n) /\ k' = (IF phase' = "args" THEN k + 4 ELSE k)
      BY <1>4, <2>2 DEF SymArgsOption
    <3>3. n \in Nat /\ k + 4 \in Nat \ {0}
      BY <1>1, <3>1 DEF KleeRange
    <3> QED BY <1>4, <3>2, <3>3, AddArgsReads DEF SymArgsOption
  <2> QED BY <1>4, <2>1, <2>2 DEF SymArgsOption
<1>5. CASE SymFilesOption
  <2> DEFINE to == [opts EXCEPT !.nFiles = Num(1), !.fileLength = Num(2)]
  <2>1. ASSUME Word(k) = "-sym-files", \A i \in 1..2 : IsNum(k + i)
        PROVE  to \in Options
    <3>1. Num(1) \in 0..Len(SymNames) /\ Num(2) \in Nat
      BY <2>1, NumbersAre
    <3> QED BY <1>1, <3>1 DEF Options
  <2> QED BY <1>5, <2>1, OptionReads DEF SymFilesOption
<1>6. CASE SymStdinOption
  <2>1. ASSUME \A i \in 1..1 : IsNum(k + i)
        PROVE  [opts EXCEPT !["stdinLength"] = Num(1)] \in Options
    <3>1. Num(1) \in Nat
      BY <2>1, NumbersAre
    <3> QED BY <1>1, <3>1 DEF Options
  <2> QED BY <1>6, <2>1, OptionReads DEF SymStdinOption, Set
<1>7. CASE SymStdoutOption
  <2>1. [opts EXCEPT !["symStdout"] = TRUE] \in Options
    BY <1>1 DEF Options
  <2> QED BY <1>7, <2>1, OptionReads DEF SymStdoutOption, Set
<1>8. CASE SaveAllWritesOption
  <2>1. [opts EXCEPT !["saveAllWrites"] = TRUE] \in Options
    BY <1>1 DEF Options
  <2> QED BY <1>8, <2>1, OptionReads DEF SaveAllWritesOption, Set
<1>9. CASE FdFailOption
  <2>1. [opts EXCEPT !["maxFail"] = 1] \in Options
    BY <1>1 DEF Options
  <2> QED BY <1>9, <2>1, OptionReads DEF FdFailOption, Set
<1>10. CASE MaxFailOption
  <2>1. ASSUME \A i \in 1..1 : IsNum(k + i)
        PROVE  [opts EXCEPT !["maxFail"] = Num(1)] \in Options
    <3>1. Num(1) \in Nat
      BY <2>1, NumbersAre
    <3> QED BY <1>1, <3>1 DEF Options
  <2> QED BY <1>10, <2>1, OptionReads DEF MaxFailOption, Set
<1>11. CASE PlainArgument
  BY <1>1, <1>11, AddArgsReads DEF PlainArgument
<1> QED BY <1>2, <1>3, <1>4, <1>5, <1>6, <1>7, <1>8, <1>9, <1>10, <1>11 DEF Start

\* The entries that stand for a symbolic standard input and output.
Std(f) == IF f \in FilesOfOptions THEN f ELSE None

LEMMA FilesOfOptionsAre ==
  ASSUME TypeOK
  PROVE  /\ {None, OS} \cap FilesOfOptions = {}
         /\ {SymNames[i] : i \in 1..opts.nFiles} \in SUBSET FilesOfOptions
         /\ \A f : SizeOfFile(f) \in Nat
         /\ opts.maxFail \in Nat
<1>1. opts.nFiles \in 0..Len(SymNames) /\ opts.maxFail \in Nat
      /\ opts.stdinLength \in Nat /\ opts.fileLength \in Nat
  BY DEF TypeOK
<1>2. \A i \in 1..opts.nFiles : SymNames[i] \notin {None, OS}
  BY <1>1, NamesAre
<1>3. \A f \in FilesOfOptions : f \notin {None, OS}
  BY <1>2 DEF FilesOfOptions, None, OS
<1> QED BY <1>1, <1>3, NamesAre DEF FilesOfOptions, SizeOfFile

LEMMA NewFileIs ==
  ASSUME NEW f, SizeOfFile(f) \in Nat, NEW r \in NewDFiles(f, SizeOfFile(f))
  PROVE  /\ r = [size |-> r.size, contents |-> r.contents, ino |-> r.ino, mode |-> r.mode,
                 type |-> r.type, mine |-> r.mine, group |-> r.group, times |-> r.times]
         /\ r.size \in Nat /\ r.contents \in [0..(r.size - 1) -> Nat]
<1>1. PICK c \in [0..(SizeOfFile(f) - 1) -> Bytes], s \in InitialStats[f] :
        r = [size |-> SizeOfFile(f), contents |-> c, ino |-> TRUE, mode |-> s.mode,
             type |-> s.type, mine |-> s.mine, group |-> s.group, times |-> 0]
  BY DEF NewDFiles
<1>2. c \in [0..(SizeOfFile(f) - 1) -> Nat]
  BY NamesAre
<1> QED BY <1>1, <1>2

\* The descriptors of a program that starts.
LEMMA DescriptorsAtStart ==
  ASSUME AtStart, NEW x, NEW y, fds' = [fds EXCEPT ![0].dfile = x, ![1].dfile = y]
  PROVE  /\ fds' = [fd \in FD |->
                     CASE fd = 0 -> Entry({"eOpen", "eReadable"}, 0, x)
                       [] fd = 1 -> Entry({"eOpen", "eWriteable"}, 1, y)
                       [] fd = 2 -> Entry({"eOpen", "eWriteable"}, 2, None)
                       [] OTHER -> Closed]
         /\ 0 \in FD /\ 1 \in FD /\ 2 \in FD
<1>1. 0 \in FD /\ 1 \in FD /\ 2 \in FD /\ FD \in SUBSET Nat
  BY FdsAssumption DEF FD
<1>2. /\ fds[0] = Entry({"eOpen", "eReadable"}, 0, None)
      /\ fds[1] = Entry({"eOpen", "eWriteable"}, 1, None)
      /\ fds[2] = Entry({"eOpen", "eWriteable"}, 2, None)
      /\ \A fd \in FD : fd \notin {0, 1, 2} => fds[fd] = Closed
      /\ fds = [fd \in FD |-> fds[fd]]
  BY <1>1 DEF AtStart
<1>3. PICK e0, e1 : e0 = [fds[0] EXCEPT !.dfile = x] /\ e1 = [fds[1] EXCEPT !.dfile = y]
  OBVIOUS
<1>4. e0 = Entry({"eOpen", "eReadable"}, 0, x) /\ e1 = Entry({"eOpen", "eWriteable"}, 1, y)
  <2>1. PICK q0, q1 : q0 = fds[0] /\ q1 = fds[1]
    OBVIOUS
  <2>2. q0 = Entry({"eOpen", "eReadable"}, 0, None) /\ q1 = Entry({"eOpen", "eWriteable"}, 1, None)
    BY <1>2, <2>1, Zenon
  <2>3. e0 = [q0 EXCEPT !.dfile = x] /\ e1 = [q1 EXCEPT !.dfile = y]
    BY <1>3, <2>1, Zenon
  <2>4. [q0 EXCEPT !.dfile = x] = Entry({"eOpen", "eReadable"}, 0, x)
    BY <2>2 DEF Entry
  <2>5. [q1 EXCEPT !.dfile = y] = Entry({"eOpen", "eWriteable"}, 1, y)
    BY <2>2 DEF Entry
  <2> QED BY <2>3, <2>4, <2>5, Zenon
<1>5. fds' = [[fds EXCEPT ![0] = e0] EXCEPT ![1] = e1]
  BY <1>1, <1>2, <1>3
<1>6. fds' = [fd \in FD |-> IF fd = 0 THEN e0 ELSE IF fd = 1 THEN e1 ELSE fds[fd]]
  BY <1>2, <1>5
<1> QED BY <1>1, <1>2, <1>4, <1>6

LEMMA KleeInitFdsKeeps ==
  ASSUME phase = "args", TypeOK, AtStart, KleeInitFds
  PROVE  RuntimeInv'
<1>1. UNCHANGED <<argv, k, opts, settled>>
  BY DEF KleeInitFds
<1>2. CASE phase' = "assert"
  BY <1>1, <1>2 DEF TypeOK, RuntimeInv
<1>3. CASE phase' # "assert"
  <2> DEFINE image == [f \in FilesOfOptions |-> files'[f].contents]
             h0 == IF Std("stdin") = None THEN OS ELSE "stdin"
             h1 == IF Std("stdout") = None THEN OS ELSE "stdout"
  <2>1. /\ phase' = "run"
        /\ files' \in [FilesOfOptions -> UNION {NewDFiles(f, SizeOfFile(f)) : f \in FilesOfOptions}]
        /\ \A f \in FilesOfOptions : files'[f] \in NewDFiles(f, SizeOfFile(f))
        /\ fds' = [fds EXCEPT ![0].dfile = Std("stdin"), ![1].dfile = Std("stdout")]
        /\ maxFailures' = opts.maxFail /\ stdoutWrites' = stdoutWrites
        /\ client' = Informed(image, h0, h1)
    BY <1>3, Zenon DEF KleeInitFds, Std
  <2>2. /\ {None, OS} \cap FilesOfOptions = {} /\ opts.maxFail \in Nat
        /\ {SymNames[i] : i \in 1..opts.nFiles} \in SUBSET FilesOfOptions
        /\ \A f : SizeOfFile(f) \in Nat
    BY FilesOfOptionsAre
  <2>3. DOMAIN files' = FilesOfOptions /\ files' = [f \in FilesOfOptions |-> files'[f]]
    BY <2>1
  <2>4. \A f \in FilesOfOptions : LET file == files'[f] IN
          /\ file = [size |-> file.size, contents |-> file.contents, ino |-> file.ino,
                     mode |-> file.mode, type |-> file.type, mine |-> file.mine,
                     group |-> file.group, times |-> file.times]
          /\ file.size \in Nat /\ file.contents \in [0..(file.size - 1) -> Nat]
    BY <2>1, <2>2, NewFileIs
  <2>5. /\ fds' = [fd \in FD |->
                    CASE fd = 0 -> Entry({"eOpen", "eReadable"}, 0, Std("stdin"))
                      [] fd = 1 -> Entry({"eOpen", "eWriteable"}, 1, Std("stdout"))
                      [] fd = 2 -> Entry({"eOpen", "eWriteable"}, 2, None)
                      [] OTHER -> Closed]
        /\ 0 \in FD /\ 1 \in FD /\ 2 \in FD
    BY <2>1, DescriptorsAtStart
  <2>6. Std("stdin") \in FilesOfOptions \cup {None} /\ Std("stdout") \in FilesOfOptions \cup {None}
    BY DEF Std
  <2>7. TablesInv'
    <3>1. \A fd \in FD : fds'[fd] \in EntryType(FilesOfOptions)
      BY <2>5, <2>6 DEF EntryType, EntryFlags, Entry, Closed
    <3>2. fds' \in [FD -> EntryType(FilesOfOptions)]
      BY <2>5, <3>1
    <3>3. stdoutWrites' \in Nat
      BY <2>1 DEF AtStart
    <3> QED BY <1>1, <2>2, <2>3, <2>4, <3>2, <3>3 DEF TablesInv, EntryType
  <2>8. FailuresInv'
    <3>1. settled' = {} /\ opts' = opts /\ maxFailures' = opts.maxFail
      BY <1>1, <2>1 DEF AtStart
    <3> QED BY <2>2, <3>1, FS_EmptySet DEF FailuresInv
  <2>9. ClientInv'
    <3> HIDE DEF image, h0, h1
    <3>1. /\ client' = [holds |-> client'.holds, pos |-> client'.pos, image |-> client'.image,
                        out |-> client'.out, complaints |-> client'.complaints,
                        lost |-> client'.lost]
          /\ client'.holds = [fd \in FD |-> CASE fd = 0 -> h0 [] fd = 1 -> h1 [] fd = 2 -> OS
                                             [] OTHER -> None]
          /\ client'.pos = [fd \in FD |-> 0] /\ client'.image = image
          /\ client'.out = 0 /\ client'.complaints = {} /\ client'.lost = FALSE
      BY <2>1 DEF Informed
    <3>2. client'.image = [f \in DOMAIN files' |-> files'[f].contents]
      BY <2>3, <3>1 DEF image
    <3>3. stdoutWrites' = client'.out
      BY <2>1, <3>1 DEF AtStart
    <3>4. ASSUME NEW fd \in FD
          PROVE  /\ client'.holds[fd] = IF ~GetFile(fd)' THEN None
                                        ELSE IF OnOs(fd)' THEN OS ELSE fds'[fd].dfile
                 /\ fds'[fd].off = client'.pos[fd]
      <4>1. CASE fd = 0
        BY <2>5, <3>1, <4>1 DEF GetFile, OnOs, Entry, h0, Std
      <4>2. CASE fd = 1
        BY <2>5, <3>1, <4>2 DEF GetFile, OnOs, Entry, h1, Std
      <4>3. CASE fd = 2
        BY <2>5, <3>1, <4>3 DEF GetFile, OnOs, Entry
      <4>4. CASE fd \notin {0, 1, 2}
        BY <2>5, <3>1, <4>4 DEF GetFile, OnOs, Closed
      <4> QED BY <4>1, <4>2, <4>3, <4>4
    <3>5. /\ client'.holds = [fd \in FD |-> client'.holds[fd]]
          /\ client'.pos = [fd \in FD |-> client'.pos[fd]]
      BY <3>1
    <3> QED BY <3>1, <3>2, <3>3, <3>4, <3>5 DEF ClientInv
  <2> QED BY <1>1, <2>1, <2>7, <2>8, <2>9 DEF TypeOK, RuntimeInv
<1> QED BY <1>2, <1>3

-----------------------------------------------------------------------------
(* The theorems.                                                           *)

LEMMA InitRuntime ==
  ASSUME Init
  PROVE  RuntimeInv
<1>1. TypeOK
  BY DEF Init, TypeOK
<1>2. AtStart
  BY DEF Init, AtStart
<1>3. phase = "args"
  BY DEF Init
<1> QED BY <1>1, <1>2, <1>3 DEF RuntimeInv

LEMMA StepRuntime ==
  ASSUME RuntimeInv, [Next]_vars
  PROVE  RuntimeInv' /\ (phase = "run" => OnlyFails)
<1>1. CASE phase = "run"
  <2>1. InOrder
    BY <1>1 DEF InOrder, RuntimeInv
  <2>2. CASE UNCHANGED vars
    BY <2>1, <2>2, Untouched DEF vars, Kept
  <2>3. ~Start
    BY <1>1 DEF Start, HelpOption, SymArgOption, SymArgsOption, SymFilesOption, SymStdinOption,
       SymStdoutOption, SaveAllWritesOption, FdFailOption, MaxFailOption, PlainArgument,
       KleeInitFds, Option
  <2> QED BY <2>1, <2>2, <2>3, OfPathKeeps, OfDescriptorKeeps, OthersKeep DEF Next, Kept
<1>2. CASE phase = "args"
  <2>1. TypeOK /\ AtStart
    BY <1>2 DEF RuntimeInv
  <2>2. CASE UNCHANGED vars
    BY <1>2, <2>1, <2>2 DEF vars, config, tables, failures, TypeOK, AtStart, RuntimeInv
  <2>3. CASE Start
    BY <1>2, <2>1, <2>3, StartReads, ReadsKeeps, KleeInitFdsKeeps
  <2> QED BY <1>2, <2>2, <2>3 DEF Next, Running
<1>3. CASE phase \notin {"run", "args"}
  <2>1. UNCHANGED vars
    BY <1>3 DEF Next, Running, Start, HelpOption, SymArgOption, SymArgsOption, SymFilesOption,
       SymStdinOption, SymStdoutOption, SaveAllWritesOption, FdFailOption, MaxFailOption,
       PlainArgument, KleeInitFds, Option
  <2> QED BY <1>3, <2>1 DEF vars, config, TypeOK, RuntimeInv
<1> QED BY <1>1, <1>2, <1>3

\* The types, the tables and what the client knows hold together whatever a
\* program calls (fd.c, fd_init.c, klee_init_env.c).
THEOREM RuntimeInductive == Spec => []RuntimeInv
<1>1. Init => RuntimeInv
  BY InitRuntime
<1>2. RuntimeInv /\ [Next]_vars => RuntimeInv'
  BY StepRuntime
<1> QED BY <1>1, <1>2, PTL DEF Spec

\* The answers of the runtime are all a program needs, for any number of
\* descriptors, files of any size and any sequence of calls (fd.c).  Where
\* duplicates do not share their position as in POSIX nothing is claimed.
THEOREM AnswersHold == Spec => []AnswersTellAll
<1>1. ASSUME RuntimeInv
      PROVE  AnswersTellAll
  <2>1. SUFFICES ASSUME phase = "run", ~client.lost
                 PROVE  /\ client.complaints = {}
                        /\ \A fd \in FD :
                             /\ GetFile(fd) <=> client.holds[fd] # None
                             /\ OnSym(fd) => /\ fds[fd].dfile = client.holds[fd]
                                             /\ fds[fd].off = client.pos[fd]
                        /\ \A f \in DOMAIN files : files[f].contents = client.image[f]
                        /\ stdoutWrites = client.out
    BY DEF AnswersTellAll
  <2>2. InOrder
    BY <1>1, <2>1 DEF InOrder, RuntimeInv
  <2>3. ASSUME NEW fd \in FD
        PROVE  /\ GetFile(fd) <=> client.holds[fd] # None
               /\ OnSym(fd) => /\ fds[fd].dfile = client.holds[fd]
                               /\ fds[fd].off = client.pos[fd]
    BY <2>1, <2>2, Knows DEF Holds
  <2> QED BY <2>1, <2>2, <2>3 DEF InOrder, ClientInv
<1> QED BY <1>1, RuntimeInductive, PTL

\* An injected failure changes nothing and is counted, whatever -max-fail
\* and however many calls (fd.c; __exe_fs.max_failures).
THEOREM FailuresAreFailures == Spec => FailuresOnlyFail
<1>1. ASSUME RuntimeInv, [Next]_vars
      PROVE  [maxFailures' # maxFailures /\ phase = "run" =>
       /\ maxFailures' = maxFailures - 1
       /\ UNCHANGED <<files, umask, stdoutWrites>>
       /\ Cardinality(settled') = opts.maxFail - maxFailures'
       /\ \A fd \in FD : fds'[fd] # fds[fd] =>
            /\ settled' = settled \cup {"close"}
            /\ \E old \in FD : fds'[fd] = [fds[old] EXCEPT !.flags = @ \ {"eCloseOnExec"}]]_vars
  BY <1>1, StepRuntime DEF OnlyFails
<1> QED BY <1>1, RuntimeInductive, PTL DEF Spec, FailuresOnlyFail
=============================================================================
