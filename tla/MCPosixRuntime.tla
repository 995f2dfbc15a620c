---------------------------- MODULE MCPosixRuntime ----------------------------
EXTENDS PosixRuntime

W(w) == [w |-> w, n |-> 0]
N(n) == [w |-> "num", n |-> n]

\* Two symbolic files, the second no regular one; a file, stdin and stdout; all writes saved and two
\* failures to inject; and command lines with mistakes.
MCArgLists ==
  {<<W("plain"), W("-sym-files"), N(2), N(2)>>,
   <<W("plain"), W("-sym-files"), N(1), N(1), W("-sym-stdin"), N(1), W("-sym-stdout"),
     W("-sym-arg"), N(1)>>,
   <<W("plain"), W("-sym-files"), N(1), N(1), W("-save-all-writes"), W("-max-fail"), N(2)>>,
   <<W("plain"), W("-fd-fail"), W("-sym-args"), N(0), N(2), N(1), W("-max-fail"), W("plain")>>,
   <<W("plain"), W("--help")>>,
   <<W("plain"), W("-sym-files"), N(1)>>,
   <<W("plain"), W("-sym-files"), N(1), N(0)>>,
   <<W("plain"), W("-sym-args"), N(2), N(1), N(1)>>,
   <<W("plain"), W("-sym-args"), N(3), N(3), N(1)>>,
   <<W("plain"), W("-sym-arg"), W("plain")>>}

MCSymNames == <<"A", "B">>
S(mode, type, mine, group) == [mode |-> mode, type |-> type, mine |-> mine, group |-> group]
MCInitialStats ==
  [f \in {"A", "B", "stdin", "stdout"} |->
     CASE f = "A" -> {S({"uw", "ow"}, "REG", TRUE, FALSE)}
       [] f = "B" -> {S({"ur"}, "DIR", TRUE, TRUE), S({"ow"}, "LNK", FALSE, TRUE)}
       [] OTHER -> {S({"ur", "uw"}, "CHR", FALSE, TRUE)}]
MCOpenFlags == {{"O_WRONLY"}, {"O_RDWR", "O_CREAT"}, {"O_CREAT", "O_EXCL"}}
MCOffsets == {-1, 1}
MCModes == {{"uw", "sgid"}}
MCBuffers == {<<1>>, <<2, 1>>}
MCSelectArgs ==
  {[nfds |-> 3, sets |-> [read |-> {0, 1}, write |-> {1, 2}, except |-> {}]],
   [nfds |-> 4, sets |-> [read |-> {1, 3}, write |-> {}, except |-> {3}]]}
=============================================================================
