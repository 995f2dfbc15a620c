----------------------------- MODULE PosixClient -----------------------------
(***************************************************************************)
(* What a program that uses the POSIX runtime is entitled to believe, told *)
(* only what it asked and what it was answered: which file each of its     *)
(* descriptors reaches, where in it, and the bytes it would read back.     *)
(* This is the reference PosixFiles is checked against; it knows nothing   *)
(* of the runtime's tables.  A file has a fixed size: bytes written past   *)
(* it are dropped and the position still moves (fd.h, save_all_writes).    *)
(* It gives every descriptor a position of its own.  POSIX lets those that *)
(* dup makes share one, the code does not (fd.c:1166): Shares tells where  *)
(* the two differ, and there nothing is claimed.                           *)
(***************************************************************************)
EXTENDS Integers, Sequences, FiniteSets, FiniteSetsExt

CONSTANTS MAX_FDS

ASSUME FdsAssumption == MAX_FDS \in Nat /\ MAX_FDS >= 3

FD == 0..(MAX_FDS - 1)
None == "none"
OS == "os"
NoFd == -9             \* the call names no descriptor

\* What is known at the start of main, of files with these contents.
Informed(image, fd0, fd1) ==
  [holds |-> [fd \in FD |-> CASE fd = 0 -> fd0 [] fd = 1 -> fd1
                              [] fd = 2 -> OS [] OTHER -> None],
   pos |-> [fd \in FD |-> 0],
   image |-> image,
   out |-> 0,              \* bytes that reached the symbolic stdout
   complaints |-> {},      \* answers that contradict what was known
   lost |-> FALSE]         \* an answer that left open what it had done

Holds(c, fd) == fd \in FD /\ c.holds[fd] # None
Symbolic(c, fd) == Holds(c, fd) /\ c.holds[fd] # OS
Size(c, fd) == Cardinality(DOMAIN c.image[c.holds[fd]])

\* The bytes a read of n at the position must return.
Expected(c, fd, n) ==
  LET p == c.pos[fd]
      got == Max({0, Min({n, Size(c, fd) - p})})
  IN [i \in 1..got |-> c.image[c.holds[fd]][p + i - 1]]

\* A write that was taken in full, as it must be seen from now on.
Written(c, fd, data) ==
  LET p == c.pos[fd]
      f == c.holds[fd]
      hit == {q \in DOMAIN c.image[f] : p <= q /\ q < p + Len(data)}
  IN [c EXCEPT !.image[f] = [q \in DOMAIN @ |-> IF q \in hit THEN data[q - p + 1] ELSE @[q]],
               !.pos[fd] = @ + Len(data),
               !.out = IF f = "stdout" THEN @ + Cardinality(hit) ELSE @]

Free(c) == {fd \in FD : c.holds[fd] = None}

\* The contradictions in an answer a.
Complaints(c, a) ==
  LET Unless(ok, what) == IF ok THEN {} ELSE {what}
  IN Unless(a.err = "EBADF" => \/ ~Holds(c, a.fd) \/ a.call = "fstatfs"
                               \/ a.call = "dup2" /\ a.arg \notin FD,
            "a held descriptor is refused")
     \cup Unless(a.fd # NoFd /\ ~Holds(c, a.fd) =>
                 a.ret = -1 \/ (a.call = "read" /\ a.arg = 0),
                 "a call on no descriptor succeeds")
     \cup Unless(a.call = "read" /\ a.ret # -1 /\ Symbolic(c, a.fd) =>
                 a.data = Expected(c, a.fd, a.arg) /\ a.ret = Len(a.data),
                 "other bytes are read")
     \cup Unless(a.call = "write" /\ a.ret # -1 /\ Symbolic(c, a.fd) =>
                 a.ret = Len(a.data),
                 "a write is cut short")
     \cup Unless(a.call \in {"open", "dup"} /\ a.ret # -1 =>
                 Free(c) # {} /\ a.ret = Min(Free(c)),
                 "the descriptor is not the lowest free one")
     \cup Unless(a.call = "FIONREAD" /\ a.ret # -1 =>
                 a.data = Len(Expected(c, a.fd, Size(c, a.fd))),
                 "the bytes left are miscounted")

\* What an answer without contradictions teaches.
Learned(c, a) ==
  IF a.ret = -1 THEN c ELSE
  CASE a.call = "open" -> [c EXCEPT !.holds[a.ret] = a.data, !.pos[a.ret] = 0]
    [] a.call = "close" -> [c EXCEPT !.holds[a.fd] = None, !.pos[a.fd] = 0]
    [] a.call = "read" /\ Symbolic(c, a.fd) -> [c EXCEPT !.pos[a.fd] = @ + a.ret]
    [] a.call = "write" /\ Symbolic(c, a.fd) -> Written(c, a.fd, a.data)
    [] a.call = "lseek" /\ Symbolic(c, a.fd) -> [c EXCEPT !.pos[a.fd] = a.ret]
    [] a.call \in {"dup", "dup2"} /\ a.ret # a.fd ->
         [c EXCEPT !.holds[a.ret] = c.holds[a.fd],
                   !.pos[a.ret] = IF Symbolic(c, a.fd) THEN c.pos[a.fd] ELSE 0]
    [] a.call = "dup2" /\ a.ret = a.fd -> [c EXCEPT !.lost = TRUE]
    [] OTHER -> c

Told(c, a) ==
  IF c.lost THEN c
  ELSE LET wrong == Complaints(c, a)
       IN IF wrong = {} THEN Learned(c, a)
          ELSE [c EXCEPT !.complaints = @ \cup wrong]

-----------------------------------------------------------------------------
\* In POSIX a descriptor and its duplicates have one position.  groups are the
\* descriptors that share; astray are those whose position another one of
\* their group has moved, and misled is a program that has used one of these.
Alone == [groups |-> {}, astray |-> {}, misled |-> FALSE]

Twins(s, fd) == UNION {g \in s.groups : fd \in g} \ {fd}

Apart(s, fd) ==
  [s EXCEPT !.groups = {g \in {h \ {fd} : h \in @} : Cardinality(g) > 1},
            !.astray = @ \ {fd}]

Joined(s, old, new) ==
  LET t == Apart(s, new)
  IN [t EXCEPT !.groups = {g \in @ : old \notin g} \cup {Twins(t, old) \cup {old, new}},
               !.astray = IF old \in @ THEN @ \cup {new} ELSE @]

Shares(s, c, a) ==
  CASE a.ret = -1 \/ s.misled -> s
    [] a.call \notin {"dup", "dup2"} /\ s = Alone -> s
    [] a.call \in {"read", "write", "FIONREAD"} /\ a.fd \in s.astray ->
         [Alone EXCEPT !.misled = TRUE]
    [] a.call = "close" -> Apart(s, a.fd)
    [] a.call \in {"dup", "dup2"} /\ a.ret # a.fd ->
         IF Symbolic(c, a.fd) THEN Joined(s, a.fd, a.ret) ELSE Apart(s, a.ret)
    [] a.call \in {"read", "write"} /\ a.ret > 0 -> [s EXCEPT !.astray = @ \cup Twins(s, a.fd)]
    [] a.call = "lseek" -> [s EXCEPT !.astray = (@ \cup Twins(s, a.fd)) \ {a.fd}]
    [] OTHER -> s
=============================================================================
