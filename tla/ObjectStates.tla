----------------------------- MODULE ObjectStates -----------------------------
(***************************************************************************)
(* ObjectState (klee/lib/Core/Memory.cpp): the contents of a memory object *)
(* in one state.  A byte is cached as a number (concreteStore) or as an    *)
(* expression (knownSymbolics), or is to be found in the update list; an   *)
(* access at a symbolic offset first flushes the cached bytes into the     *)
(* list.  A mask that is not allocated yet stands for a full one, and      *)
(* knownSymbolics is a function on the bytes that have an expression.      *)
(* `contents` says, for every world, what the bytes are to be.             *)
(*                                                                         *)
(* The expressions are a parameter: a term is a record with a width w and, *)
(* of a constant, a value v; the module builds terms only with what stands *)
(* for the functions `create` of these classes, and `ValueOf` says what a  *)
(* term is in a world.  LanguageIsSound says what is asked of them, and    *)
(* ExprTerms has such operators.                                           *)
(***************************************************************************)
EXTENDS Integers, Sequences, FiniteSetsExt

CONSTANTS
  Size,             \* of the object, and of its arrays, in bytes
  Int8, Int32,      \* Expr::Int8, the width of a byte; Expr::Int32, of an index
  ConstantValues,   \* name -> constantValues, of the arrays that have them
  Worlds,           \* a world gives every other array its bytes
  ConstantExpr(_, _), IsConstant(_), BinaryExpr(_, _, _), CastExpr(_, _, _),
  ExtractExpr(_, _, _), ConcatExpr(_, _), ReadExpr(_, _, _, _), ValueOf(_, _)

CONSTANTS
  SymbolicArray,      \* the array of an object made symbolic
  TmpArray,           \* the array of an object without constant arrays
  NoArray,            \* no update list yet
  UseConstantArrays,  \* --use-constant-arrays
  LittleEndian,       \* Context::isLittleEndian
  Entry,              \* the path constraint when the object is made
  Offsets, Values,    \* the expressions a program accesses memory with
  Widths,             \* the widths it reads
  ExternalBytes,      \* what an external call stores
  MaxObjects, MaxSteps

BoolWidth == 1       \* Expr::Bool
Position == 0..(Size - 1)

\* The bits of a value from position i * Int8 on.
ByteOf(v, i) == (v \div 2^(i * Int8)) % 2^Int8

Byte == 0..(2^Int8 - 1)
Roots == {SymbolicArray, TmpArray} \cup DOMAIN ConstantValues

\* A value of several bytes takes all of its width; a truth value takes a byte.
NumBytes(w) == IF w = BoolWidth THEN 1 ELSE w \div Int8

ASSUME ObjectAssumption ==
  /\ {Size, Int32} \subseteq Nat \ {0} /\ Int8 \in Nat \ {0, BoolWidth}
  /\ UseConstantArrays \in BOOLEAN /\ LittleEndian \in BOOLEAN
  /\ MaxObjects \in Nat \ {0} /\ MaxSteps \in Nat

\* Powers of two are positive; a byte tells the values the program stores.
ASSUME ByteAssumption ==
  /\ \A i \in 0..Size : 2^(i * Int8) \in Nat \ {0}
  /\ 2^Int8 \in Nat \ {0}
  /\ {0, 2} \cup ExternalBytes \subseteq Byte

\* The array cache makes an array of any contents.
ASSUME ArrayAssumption ==
  /\ NoArray \notin Roots
  /\ SymbolicArray \notin DOMAIN ConstantValues
  /\ \A wd \in Worlds : wd[SymbolicArray] \in [Position -> Byte]
  /\ \A bytes \in [1..Size -> Byte] :
       \E a \in DOMAIN ConstantValues : ConstantValues[a] = bytes

\* The program accesses truth values and whole bytes.
ASSUME WidthAssumption ==
  \A w \in Widths \cup {e.w : e \in Values} :
    NumBytes(w) \in Nat \ {0} /\ (w # BoolWidth => w = NumBytes(w) * Int8)

VARIABLES
  objects,    \* the ObjectStates, copies of the first one
  contents,   \* what each of them is to hold, in each world
  outdated,   \* bytes of each that an external call changed after a flush
  path,       \* the worlds in which every access was in bounds
  steps
vars == <<objects, contents, outdated, path, steps>>

-----------------------------------------------------------------------------
(* The caches.                                                             *)

IsByteConcrete(os, i) == i \in os.concrete
IsByteFlushed(os, i) == i \notin os.unflushed
IsByteKnownSymbolic(os, i) == i \in DOMAIN os.known

\* setKnownSymbolic(offset, 0).
Forget(os, i) == [os EXCEPT !.known = [j \in DOMAIN @ \ {i} |-> @[j]]]
SetKnownSymbolic(os, i, e) == [os EXCEPT !.known = [j \in DOMAIN @ \cup {i} |-> IF j = i THEN e ELSE @[j]]]
MarkByteConcrete(os, i) == [os EXCEPT !.concrete = @ \cup {i}]
MarkByteSymbolic(os, i) == [os EXCEPT !.concrete = @ \ {i}]
MarkByteUnflushed(os, i) == [os EXCEPT !.unflushed = @ \cup {i}]
MarkByteFlushed(os, i) == [os EXCEPT !.unflushed = @ \ {i}]
Check(os, cond) == [os EXCEPT !.failed = @ \/ ~cond]      \* assert(cond)
Extend(os, i, e) == [os EXCEPT !.ups = <<[i |-> i, v |-> e]>> \o @]

NoneKnown == [i \in {} |-> ConstantExpr(0, Int8)]
NewObject(root) ==
  [store |-> [i \in Position |-> 0], concrete |-> Position, unflushed |-> Position,
   known |-> NoneKnown, root |-> root, ups |-> <<>>, failed |-> FALSE]

MakeConcrete(os) == [os EXCEPT !.concrete = Position, !.unflushed = Position, !.known = NoneKnown]
\* The first markByteFlushed makes a mask in which every byte is flushed.
MakeSymbolic(os) ==
  [Check(os, os.ups = <<>>) EXCEPT !.concrete = {}, !.unflushed = {}, !.known = NoneKnown]

\* ObjectState(mo), then initializeToZero or initializeToRandom.
ConcreteObject(byte) ==
  [MakeConcrete(NewObject(IF UseConstantArrays THEN NoArray ELSE TmpArray))
     EXCEPT !.store = [i \in Position |-> byte]]

\* ObjectState(mo, array).
SymbolicObject == MakeSymbolic(NewObject(SymbolicArray))

-----------------------------------------------------------------------------
(* The update list.                                                        *)

\* A byte the list lacks is appended to it.
FlushByte(os, i) ==
  IF IsByteFlushed(os, i) THEN os
  ELSE IF IsByteConcrete(os, i)
  THEN MarkByteFlushed(Extend(os, ConstantExpr(i, Int32), ConstantExpr(os.store[i], Int8)), i)
  ELSE IF IsByteKnownSymbolic(os, i)
  THEN MarkByteFlushed(Extend(os, ConstantExpr(i, Int32), os.known[i]), i)
  ELSE Check(os, FALSE)

\* fastRangeCheckOffset always gives the whole object.
FlushRangeForRead(os) ==
  LET F[n \in 0..Size] == IF n = 0 THEN os ELSE FlushByte(F[n - 1], n - 1)
  IN F[Size]

\* Defective: bytes that were flushed before keep their cached value.
FlushRangeForWriteNew(os) ==
  LET fl == FlushRangeForRead(os)
  IN [fl EXCEPT !.concrete = @ \ os.unflushed, !.known = [j \in DOMAIN @ \ os.unflushed |-> @[j]]]

\* The list is the only place where the bytes are afterwards.
FlushRangeForWrite(os) ==
  [FlushRangeForRead(os) EXCEPT !.concrete = {},
                                !.known = [j \in DOMAIN @ \cap os.concrete |-> @[j]]]

\* The array with constant contents, of size Size.
ConstantArray(bytes) == CHOOSE a \in DOMAIN ConstantValues : ConstantValues[a] = bytes

\* A list without a root gets one lazily: the oldest writes, as long as they
\* are of constants at constants, are the contents of a constant array.
GetUpdates(os) ==
  IF os.root # NoArray THEN os
  ELSE LET all == DOMAIN os.ups
           fixed(k) == IsConstant(os.ups[k].i) /\ IsConstant(os.ups[k].v)
           kept == Min({n \in {0} \cup all : \A k \in all : k > n => fixed(k)})
           to(i) == {k \in all : k > kept /\ os.ups[k].i.v = i}
           byte(i) == IF to(i) = {} THEN 0 ELSE os.ups[Min(to(i))].v.v
       IN [os EXCEPT !.root = ConstantArray([n \in 1..Size |-> byte(n - 1)]),
                     !.ups = SubSeq(@, 1, kept)]

-----------------------------------------------------------------------------
(* Bytes.  A read is a pair of the object it leaves and what it returns.   *)

Listed(os, i) ==
  LET o == GetUpdates(os) IN <<o, ReadExpr(o.root, o.ups, i, o.ups)>>

Read8(os, i) ==
  IF IsByteConcrete(os, i) THEN <<os, ConstantExpr(os.store[i], Int8)>>
  ELSE IF IsByteKnownSymbolic(os, i) THEN <<os, os.known[i]>>
  ELSE Listed(Check(os, IsByteFlushed(os, i)), ConstantExpr(i, Int32))

Read8At(os, off) ==
  Listed(FlushRangeForRead(Check(os, ~IsConstant(off))), CastExpr("ZExt", off, Int32))

Write8(os, i, e) ==
  IF IsConstant(e)
  THEN MarkByteUnflushed(MarkByteConcrete(Forget([os EXCEPT !.store[i] = e.v], i), i), i)
  ELSE MarkByteUnflushed(MarkByteSymbolic(SetKnownSymbolic(os, i, e), i), i)

Write8At(os, off, e) ==
  Extend(FlushRangeForWrite(Check(os, ~IsConstant(off))), CastExpr("ZExt", off, Int32), e)

-----------------------------------------------------------------------------
(* Values of several bytes, and truth values, which take one.              *)

ByteAt(i, n) == IF LittleEndian THEN i ELSE n - i - 1
Narrow(off) == CastExpr("ZExt", off, Int32)
Plus(off, idx) == BinaryExpr("Add", off, ConstantExpr(idx, Int32))

ReadByte(os, off, idx) ==
  IF IsConstant(off) THEN Read8(os, off.v + idx) ELSE Read8At(os, Plus(off, idx))

Read(os, offset, w) ==
  LET off == Narrow(offset)
      n == NumBytes(w)
      F[i \in 0..(n - 1)] ==
        IF i = 0 THEN ReadByte(os, off, ByteAt(0, n))
        ELSE LET byte == ReadByte(F[i - 1][1], off, ByteAt(i, n))
             IN <<byte[1], ConcatExpr(byte[2], F[i - 1][2])>>
  IN IF w = BoolWidth THEN <<F[0][1], ExtractExpr(F[0][2], 0, BoolWidth)>> ELSE F[n - 1]

\* The bytes of a constant that write16, write32 and write64 store.
ConstByte(e, i) == ConstantExpr(ByteOf(e.v, i), Int8)
HasWriter(w) == w = BoolWidth \/ \E n \in {1, 2, 4, 8} : w = n * Int8

SliceOf(e, i) ==
  IF IsConstant(e) /\ HasWriter(e.w) THEN ConstByte(e, i)
  ELSE IF e.w = BoolWidth THEN CastExpr("ZExt", e, Int8)
  ELSE ExtractExpr(e, i * Int8, Int8)

WriteByte(os, off, e, i) ==
  LET idx == ByteAt(i, NumBytes(e.w))
  IN IF IsConstant(off) THEN Write8(os, off.v + idx, SliceOf(e, i))
     ELSE Write8At(os, IF e.w = BoolWidth THEN off ELSE Plus(off, idx), SliceOf(e, i))

Write(os, offset, e) ==
  LET off == Narrow(offset)
      F[i \in 0..NumBytes(e.w)] == IF i = 0 THEN os ELSE WriteByte(F[i - 1], off, e, i - 1)
  IN F[NumBytes(e.w)]

-----------------------------------------------------------------------------
(* The accesses of a program, and external calls.                          *)

\* MemoryObject::getBoundsCheckOffset, as the executor asserts it.
BoundsCheck(off, n) ==
  IF n <= Size THEN BinaryExpr("Ult", off, ConstantExpr(Size - n + 1, off.w))
  ELSE ConstantExpr(0, BoolWidth)
InBounds(off, n) == {wd \in path : ValueOf(BoundsCheck(off, n), wd) = 1}

Init ==
  /\ path = {wd \in Worlds : ValueOf(Entry, wd) = 1}
  /\ \/ \E byte \in {0, 2} :
          /\ objects = <<ConcreteObject(byte)>>
          /\ contents = <<[wd \in path |-> [i \in Position |-> byte]]>>
     \/ /\ objects = <<SymbolicObject>>
        /\ contents = <<[wd \in path |-> wd[SymbolicArray]]>>
  /\ outdated = <<{}>>
  /\ steps = 0

Step == steps < MaxSteps /\ steps' = steps + 1

Store(o, off, e) ==
  LET n == NumBytes(e.w)
      inside == InBounds(off, n)
      put(old, at, value) ==
        [i \in Position |-> IF i \notin at..(at + n - 1) THEN old[i]
                        ELSE ByteOf(value, ByteAt(i - at, n))]
  IN /\ inside # {}
     /\ Step
     /\ path' = inside
     /\ objects' = [objects EXCEPT ![o] = Write(@, off, e)]
     /\ contents' = [contents EXCEPT ![o] =
          [wd \in inside |-> put(@[wd], ValueOf(off, wd), ValueOf(e, wd))]]
     /\ outdated' = [outdated EXCEPT ![o] =
          IF IsConstant(off) THEN @ \ (off.v)..(off.v + n - 1) ELSE @]

\* A read flushes and makes the list: the state it leaves is another one.
Load(o, off, w) ==
  /\ InBounds(off, NumBytes(w)) # {}
  /\ Step
  /\ path' = InBounds(off, NumBytes(w))
  /\ objects' = [objects EXCEPT ![o] = Read(@, off, w)[1]]
  /\ UNCHANGED <<contents, outdated>>

\* The copy constructor, for an object written in two states: masks, cached
\* expressions and updates are all copied.
Copy(o) ==
  /\ Len(objects) < MaxObjects
  /\ Step
  /\ objects' = Append(objects, objects[o])
  /\ contents' = Append(contents, contents[o])
  /\ outdated' = Append(outdated, outdated[o])
  /\ UNCHANGED path

\* copyOutConcretes, a store by the called function, and copyInConcretes, which
\* changes the concrete store and nothing else.
StoredOutside(os, i, byte) == [os EXCEPT !.store[i] = byte]

\* callExternalFunction.
CallExternal(o, i, byte) ==
  /\ objects[o].store[i] # byte
  /\ Step
  /\ objects' = [objects EXCEPT ![o] = StoredOutside(@, i, byte)]
  /\ contents' = IF IsByteConcrete(objects[o], i)
                 THEN [contents EXCEPT ![o] = [wd \in DOMAIN @ |-> [@[wd] EXCEPT ![i] = byte]]]
                 ELSE contents
  /\ outdated' = IF IsByteConcrete(objects[o], i) /\ IsByteFlushed(objects[o], i)
                 THEN [outdated EXCEPT ![o] = @ \cup {i}] ELSE outdated
  /\ UNCHANGED path

Next ==
  \E o \in DOMAIN objects :
    \/ \E off \in Offsets, e \in Values : Store(o, off, e)
    \/ \E off \in Offsets, w \in Widths : Load(o, off, w)
    \/ Copy(o)
    \/ \E i \in Position, byte \in ExternalBytes : CallExternal(o, i, byte)

Spec == Init /\ [][Next]_vars

-----------------------------------------------------------------------------
(* What is asked of the language of expressions: T is a set of terms with a *)
(* value in every world, `lists` are update lists of such terms.           *)

Of(T, w) == {t \in T : t.w = w}
Updates(T) == [i : Of(T, Int32), v : Of(T, Int8)]

\* The byte b at i: of the newest update there, or of the array.
RootByte(root, i, wd) ==
  IF root = NoArray THEN 0
  ELSE IF root \in DOMAIN ConstantValues THEN ConstantValues[root][i + 1]
  ELSE wd[root][i]
Lists(root, ups, i, wd, b) ==
  \/ \E k \in DOMAIN ups : /\ ValueOf(ups[k].i, wd) = i
                           /\ \A j \in DOMAIN ups : j < k => ValueOf(ups[j].i, wd) # i
                           /\ b = ValueOf(ups[k].v, wd)
  \/ (\A k \in DOMAIN ups : ValueOf(ups[k].i, wd) # i) /\ b = RootByte(root, i, wd)

\* The create functions stay among the terms and give them the widths asked for.
Closed(T) ==
  /\ \A i \in Position : ConstantExpr(i, Int32) \in Of(T, Int32)
  /\ \A b \in Byte : ConstantExpr(b, Int8) \in Of(T, Int8)
  /\ \A t \in T : /\ Narrow(t) \in Of(T, Int32)
                  /\ t.w = BoolWidth => CastExpr("ZExt", t, Int8) \in Of(T, Int8)
  /\ \A t \in Of(T, Int32), i \in Position : Plus(t, i) \in Of(T, Int32)
  /\ \A n \in 1..Size : \A t \in Of(T, n * Int8) :
       /\ \A i \in 0..(n - 1) : ExtractExpr(t, i * Int8, Int8) \in Of(T, Int8)
       /\ \A b \in Of(T, Int8) : ConcatExpr(b, t) \in Of(T, (n + 1) * Int8)
  /\ \A root \in Roots, ups \in Seq(Updates(T)), i \in Of(T, Int32) :
       ReadExpr(root, ups, i, ups) \in Of(T, Int8)

\* Constants are known, and only they are constant.
ConstantsAreRight(T) ==
  /\ \A i \in Position : IsConstant(ConstantExpr(i, Int32)) /\ ConstantExpr(i, Int32).v = i
  /\ \A b \in Byte : IsConstant(ConstantExpr(b, Int8)) /\ ConstantExpr(b, Int8).v = b
  /\ \A t \in T : IsConstant(t) =>
       /\ t.v \in Nat /\ IsConstant(Narrow(t)) /\ (t.w = Int8 => t.v \in Byte)
       /\ \A wd \in Worlds : ValueOf(t, wd) = t.v
  /\ \A t \in Of(T, Int32), i \in Position : ~IsConstant(t) => ~IsConstant(Plus(t, i))

\* Truncation, addition, extracts and concatenations of bytes.
ValuesAreRight(T, wd) ==
  /\ \A t \in T : LET v == ValueOf(t, wd)
                 IN v \in Nat /\ (v \in Position => ValueOf(Narrow(t), wd) = v)
  /\ \A t \in Of(T, Int32), i \in Position :
       ValueOf(t, wd) + i \in Position => ValueOf(Plus(t, i), wd) = ValueOf(t, wd) + i
  /\ \A t \in Of(T, BoolWidth) : ValueOf(CastExpr("ZExt", t, Int8), wd) = ByteOf(ValueOf(t, wd), 0)
  /\ \A b \in Of(T, Int8) :
       /\ ValueOf(b, wd) \in Byte /\ ByteOf(ValueOf(b, wd), 0) = ValueOf(b, wd)
       /\ ByteOf(ValueOf(ExtractExpr(b, 0, BoolWidth), wd), 0) = ValueOf(b, wd) % 2
  /\ \A n \in 1..Size : \A t \in Of(T, n * Int8), i \in 0..(n - 1) :
       /\ ValueOf(ExtractExpr(t, i * Int8, Int8), wd) = ByteOf(ValueOf(t, wd), i)
       /\ \A b \in Of(T, Int8) :
            LET all == ValueOf(ConcatExpr(b, t), wd)
            IN ByteOf(all, i) = ByteOf(ValueOf(t, wd), i) /\ ByteOf(all, n) = ValueOf(b, wd)

\* A read gives the byte its list gives.
ReadsAreRight(T, lists, wd) ==
  \A root \in Roots, ups \in lists, t \in Of(T, Int32), b \in Byte :
    ValueOf(t, wd) \in Position /\ Lists(root, ups, ValueOf(t, wd), wd, b)
      => ValueOf(ReadExpr(root, ups, t, ups), wd) = b

LanguageIsSound(T) ==
  /\ Closed(T) /\ ConstantsAreRight(T)
  /\ \A wd \in Worlds : ValuesAreRight(T, wd) /\ ReadsAreRight(T, Seq(Updates(T)), wd)

\* An offset is wide enough for every size.
ASSUME BoundsAssumption ==
  \A wd \in Worlds, off \in Offsets :
    /\ \A n \in 1..Size :
         ValueOf(BoundsCheck(off, n), wd) = 1 <=> ValueOf(off, wd) \in 0..(Size - n)
    /\ ValueOf(ConstantExpr(0, BoolWidth), wd) # 1

-----------------------------------------------------------------------------

\* "Cache Invariants" of Memory.cpp.
CacheInvariants(os) ==
  os.concrete \cap DOMAIN os.known = {} /\ os.unflushed \subseteq os.concrete \cup DOMAIN os.known

\* In the worlds ws, whatever of a byte is cached is the byte, and so is what the
\* list gives, of a flushed byte that is not stale.
Represents(os, mem, stale, ws) ==
  \A wd \in ws, i \in Position :
    /\ i \in os.concrete => os.store[i] = mem[wd][i]
    /\ i \in DOMAIN os.known => ValueOf(os.known[i], wd) = mem[wd][i]
    /\ i \notin os.unflushed \cup stale => Lists(os.root, os.ups, i, wd, mem[wd][i])

\* The invariant behind ReadsSeeWrites, but for the types.
ObjectsInv ==
  \A o \in DOMAIN objects :
    /\ CacheInvariants(objects[o])
    /\ Represents(objects[o], contents[o], outdated[o], path)

\* What a read of width w shows of a byte.
Seen(byte, w) == IF w = BoolWidth THEN byte % 2 ELSE byte

\* Whatever was written, copied and flushed in whatever order, a read at any
\* offset and of any width gives in every world of the path the bytes last
\* written there, no assertion on the caches fails, and an object is not
\* disturbed by its copies.  Bytes that an external call changed after they were
\* flushed are the exception: see copyInConcretes.
ReadsSeeWrites ==
  \A o \in DOMAIN objects :
    /\ ~objects[o].failed
    /\ outdated[o] = {} =>
         \A off \in Offsets, w \in Widths :
           \A inside \in {InBounds(off, NumBytes(w))} \ {{}}, got \in {Read(objects[o], off, w)} :
             /\ ~got[1].failed
             /\ \A wd \in inside :
                  LET value == ValueOf(got[2], wd)
                      at == ValueOf(off, wd)
                      n == NumBytes(w)
                  IN \A i \in 0..(n - 1) :
                       ByteOf(value, i) = Seen(contents[o][wd][at + ByteAt(i, n)], w)

=============================================================================
