-------------------------- MODULE ObjectStatesProofs --------------------------
(***************************************************************************)
(* Every read of an ObjectState sees what was last written, for objects of *)
(* any size, any offsets and values, either byte order, any sequence of    *)
(* accesses, copies and external calls, and any language of expressions    *)
(* that is sound.                                                          *)
(*                                                                         *)
(* RepInv(T) holds in every state: the caches and the update list hold     *)
(* terms of T, the cache invariants of Memory.cpp hold, and all that an    *)
(* object has of a byte is that byte.  First what the functions on         *)
(* numbers, masks and lists return, then that each function of ObjectState *)
(* keeps the representation, then the steps.  A loop is a recursive        *)
(* function; that its invariant holds of every index is shown from the     *)
(* first index where it would not.                                         *)
(***************************************************************************)
EXTENDS ObjectStates, WellFoundedInduction, TLAPS

\* The first number of a set.
LEMMA FirstOf ==
  ASSUME NEW S \in SUBSET Nat, S # {}
  PROVE  \E m \in S : \A n \in S : m <= n
<1>1. PICK m \in S : \A n \in S : ~(<<n, m>> \in OpToRel(<, Nat))
  BY NatLessThanWellFounded, WFMin
<1>2. ASSUME NEW n \in S
      PROVE  m <= n
  <2>1. DEFINE ss == <<n, m>>
  <2>2. ss \in Nat \X Nat /\ ss[1] = n /\ ss[2] = m
    OBVIOUS
  <2>3. ~(ss[1] < ss[2])
    BY <1>1, <2>2 DEF OpToRel
  <2> QED BY <2>2, <2>3
<1> QED BY <1>2

LEMMA LeastIs ==
  ASSUME NEW S \in SUBSET Nat, S # {}
  PROVE  Min(S) \in S /\ \A n \in S : Min(S) <= n
BY FirstOf DEF Min

\* The loop of flushRangeForRead, as the functions of its turns.
FlushLoop(os, f, n) ==
  f = [k \in 0..n |-> IF k = 0 THEN os ELSE FlushByte(f[k - 1], k - 1)]

LEMMA FlushLoopIs ==
  ASSUME NEW os
  PROVE  \E f : FlushLoop(os, f, Size) /\ FlushRangeForRead(os) = f[Size]
<1>0. Size \in Nat
  BY ObjectAssumption
<1> DEFINE Bad == {n \in Nat : ~\E f : FlushLoop(os, f, n)}
<1>1. Bad = {}
  <2> SUFFICES ASSUME Bad # {}
               PROVE  FALSE
    OBVIOUS
  <2>1. PICK m \in Bad : \A n \in Bad : m <= n
    BY FirstOf
  <2>2. m # 0
    <3>1. FlushLoop(os, [k \in 0..0 |-> os], 0)
      BY DEF FlushLoop
    <3> QED BY <3>1, <2>1
  <2>3. PICK f : FlushLoop(os, f, m - 1)
    BY <2>1, <2>2
  <2> DEFINE g == [k \in 0..m |-> IF k = m THEN FlushByte(f[m - 1], m - 1) ELSE f[k]]
  <2>4. FlushLoop(os, g, m)
    <3>1. \A k \in 0..(m - 1) : g[k] = f[k]
      BY <2>1
    <3>2. \A k \in 0..(m - 1) : f[k] = IF k = 0 THEN os ELSE FlushByte(f[k - 1], k - 1)
      BY <2>3 DEF FlushLoop
    <3>3. ASSUME NEW k \in 0..m
          PROVE  g[k] = IF k = 0 THEN os ELSE FlushByte(g[k - 1], k - 1)
      <4>1. CASE k = m
        <5>1. k - 1 \in 0..(m - 1)
          BY <4>1, <2>2, <2>1
        <5> QED BY <4>1, <3>1, <5>1, <2>2
      <4>2. CASE k # m
        <5>1. k \in 0..(m - 1) /\ (k # 0 => k - 1 \in 0..(m - 1))
          BY <4>2, <2>1
        <5> QED BY <5>1, <3>1, <3>2
      <4> QED BY <4>1, <4>2
    <3> QED BY <3>3 DEF FlushLoop
  <2> QED BY <2>4, <2>1
<1>2. PICK h : FlushLoop(os, h, Size)
  BY <1>0, <1>1
<1> DEFINE F == CHOOSE f : f = [n \in 0..Size |-> IF n = 0 THEN os ELSE FlushByte(f[n - 1], n - 1)]
<1>3. FlushLoop(os, F, Size)
  BY <1>2 DEF FlushLoop
<1>4. FlushRangeForRead(os) = F[Size]
  BY DEF FlushRangeForRead
<1> QED BY <1>3, <1>4

-----------------------------------------------------------------------------
(* Objects, and what they represent.                                       *)

Objects(T) ==
  [store : [Position -> Byte], concrete : SUBSET Position, unflushed : SUBSET Position,
   known : UNION {[D -> Of(T, Int8)] : D \in SUBSET Position},
   root : Roots \cup {NoArray}, ups : Seq(Updates(T)), failed : {FALSE}]

Rep(T, os, mem, stale, ws) ==
  os \in Objects(T) /\ CacheInvariants(os) /\ Represents(os, mem, stale, ws)

LEMMA KnownIs ==
  ASSUME NEW T, NEW k
  PROVE  k \in UNION {[D -> Of(T, Int8)] : D \in SUBSET Position}
           <=> /\ DOMAIN k \subseteq Position /\ k = [j \in DOMAIN k |-> k[j]]
               /\ \A j \in DOMAIN k : k[j] \in Of(T, Int8)
<1>1. ASSUME NEW D \in SUBSET Position, k \in [D -> Of(T, Int8)]
      PROVE  /\ DOMAIN k \subseteq Position /\ k = [j \in DOMAIN k |-> k[j]]
             /\ \A j \in DOMAIN k : k[j] \in Of(T, Int8)
  BY <1>1
<1>2. ASSUME DOMAIN k \subseteq Position, k = [j \in DOMAIN k |-> k[j]],
             \A j \in DOMAIN k : k[j] \in Of(T, Int8)
      PROVE  k \in [DOMAIN k -> Of(T, Int8)] /\ DOMAIN k \in SUBSET Position
  BY <1>2
<1> QED BY <1>1, <1>2

\* An update at the head of a list is what the list gives at its index.
LEMMA ListsHead ==
  ASSUME NEW S, NEW ups \in Seq(S), NEW u \in S, NEW root, NEW i, NEW wd, NEW b,
         IF ValueOf(u.i, wd) = i THEN b = ValueOf(u.v, wd) ELSE Lists(root, ups, i, wd, b)
  PROVE  Lists(root, <<u>> \o ups, i, wd, b)
<1> DEFINE new == <<u>> \o ups
<1>1. /\ new \in Seq(S) /\ DOMAIN new = 1..(Len(ups) + 1) /\ new[1] = u
      /\ \A k \in 1..Len(ups) : new[k + 1] = ups[k]
  OBVIOUS
<1>2. /\ DOMAIN ups = 1..Len(ups) /\ Len(ups) \in Nat
      /\ \A k \in DOMAIN new : k # 1 => k - 1 \in DOMAIN ups /\ new[k] = ups[k - 1]
  <2>1. DOMAIN ups = 1..Len(ups) /\ Len(ups) \in Nat
    OBVIOUS
  <2>2. ASSUME NEW k \in DOMAIN new, k # 1
        PROVE  k - 1 \in 1..Len(ups) /\ k = (k - 1) + 1
    BY <1>1, <2>1, <2>2
  <2> QED BY <1>1, <2>1, <2>2
<1> HIDE DEF new
<1>3. CASE ValueOf(u.i, wd) = i
  BY <1>1, <1>2, <1>3 DEF Lists, new
<1>4. CASE ValueOf(u.i, wd) # i /\ \E k \in DOMAIN ups : /\ ValueOf(ups[k].i, wd) = i
                                                         /\ \A j \in DOMAIN ups : j < k => ValueOf(ups[j].i, wd) # i
                                                         /\ b = ValueOf(ups[k].v, wd)
  <2>1. PICK k \in DOMAIN ups : /\ ValueOf(ups[k].i, wd) = i
                           /\ \A j \in DOMAIN ups : j < k => ValueOf(ups[j].i, wd) # i
                           /\ b = ValueOf(ups[k].v, wd)
    BY <1>4
  <2>2. k + 1 \in DOMAIN new /\ new[k + 1] = ups[k]
    BY <1>1, <1>2
  <2>3. ASSUME NEW j \in DOMAIN new, j < k + 1
        PROVE  ValueOf(new[j].i, wd) # i
    <3>1. CASE j = 1
      BY <3>1, <1>1, <1>4
    <3>2. CASE j # 1
      <4>1. j - 1 \in DOMAIN ups /\ new[j] = ups[j - 1] /\ j - 1 < k
        BY <3>2, <1>1, <1>2, <2>3
      <4> QED BY <4>1, <2>1
    <3> QED BY <3>1, <3>2
  <2> QED BY <2>1, <2>2, <2>3 DEF Lists, new
<1>5. CASE /\ ValueOf(u.i, wd) # i
           /\ \A k \in DOMAIN ups : ValueOf(ups[k].i, wd) # i
           /\ b = RootByte(root, i, wd)
  BY <1>1, <1>2, <1>5 DEF Lists, new
<1> QED BY <1>3, <1>4, <1>5 DEF Lists

\* Constants of the language.
LEMMA ConstantIs ==
  ASSUME NEW T, LanguageIsSound(T)
  PROVE  /\ \A i \in Position : /\ ConstantExpr(i, Int32) \in Of(T, Int32)
                                /\ IsConstant(ConstantExpr(i, Int32)) /\ ConstantExpr(i, Int32).v = i
                                /\ \A wd \in Worlds : ValueOf(ConstantExpr(i, Int32), wd) = i
         /\ \A b \in Byte : /\ ConstantExpr(b, Int8) \in Of(T, Int8)
                            /\ \A wd \in Worlds : ValueOf(ConstantExpr(b, Int8), wd) = b
BY DEF LanguageIsSound, Closed, ConstantsAreRight, Of

\* An offset as an index, and the index of a byte behind it.
LEMMA NarrowIs ==
  ASSUME NEW T, LanguageIsSound(T), NEW t \in T
  PROVE  /\ Narrow(t) \in Of(T, Int32) /\ (IsConstant(t) => IsConstant(Narrow(t)))
         /\ \A wd \in Worlds : ValueOf(t, wd) \in Position => ValueOf(Narrow(t), wd) = ValueOf(t, wd)
<1>1. Narrow(t) \in Of(T, Int32)
  <2>1. \A u \in T : Narrow(u) \in Of(T, Int32)
    BY Zenon DEF LanguageIsSound, Closed
  <2> QED BY <2>1
<1>2. IsConstant(t) => IsConstant(Narrow(t))
  BY DEF LanguageIsSound, ConstantsAreRight
<1>3. \A wd \in Worlds : ValuesAreRight(T, wd)
  BY DEF LanguageIsSound
<1>4. ASSUME NEW wd \in Worlds, ValueOf(t, wd) \in Position
      PROVE  ValueOf(Narrow(t), wd) = ValueOf(t, wd)
  BY <1>3, <1>4 DEF ValuesAreRight
<1> QED BY <1>1, <1>2, <1>4

LEMMA PlusIs ==
  ASSUME NEW T, LanguageIsSound(T), NEW t \in Of(T, Int32), NEW i \in Position
  PROVE  /\ Plus(t, i) \in Of(T, Int32) /\ (~IsConstant(t) => ~IsConstant(Plus(t, i)))
         /\ \A wd \in Worlds : ValueOf(t, wd) + i \in Position => ValueOf(Plus(t, i), wd) = ValueOf(t, wd) + i
<1>1. Plus(t, i) \in Of(T, Int32)
  BY DEF LanguageIsSound, Closed
<1>2. ~IsConstant(t) => ~IsConstant(Plus(t, i))
  BY DEF LanguageIsSound, ConstantsAreRight
<1>3. \A wd \in Worlds : ValuesAreRight(T, wd)
  BY DEF LanguageIsSound
<1>4. ASSUME NEW wd \in Worlds, ValueOf(t, wd) + i \in Position
      PROVE  ValueOf(Plus(t, i), wd) = ValueOf(t, wd) + i
  BY <1>3, <1>4 DEF ValuesAreRight
<1> QED BY <1>1, <1>2, <1>4

\* The object after a change of its list and of the byte at i in it.
LEMMA FlushOne ==
  ASSUME NEW T, LanguageIsSound(T), NEW os, NEW mem, NEW stale, NEW ws \in SUBSET Worlds,
         Rep(T, os, mem, stale, ws), NEW i \in Position, NEW e \in Of(T, Int8),
         \A wd \in ws : ValueOf(e, wd) = mem[wd][i],
         NEW r, r = [os EXCEPT !.ups = <<[i |-> ConstantExpr(i, Int32), v |-> e]>> \o @,
                              !.unflushed = @ \ {i}]
  PROVE  Rep(T, r, mem, stale, ws)
<1> DEFINE u == [i |-> ConstantExpr(i, Int32), v |-> e]
<1>1. os \in Objects(T) /\ CacheInvariants(os) /\ Represents(os, mem, stale, ws)
  BY DEF Rep
<1>2. /\ u \in Updates(T) /\ u.v = e
      /\ \A wd \in Worlds : ValueOf(u.i, wd) = i
  BY ConstantIs DEF Updates
<1>3. os.ups \in Seq(Updates(T))
  BY <1>1 DEF Objects
<1> HIDE DEF u
<1>4. <<u>> \o os.ups \in Seq(Updates(T))
  BY <1>2, <1>3
<1>5. /\ r = [os EXCEPT !.ups = <<u>> \o os.ups, !.unflushed = os.unflushed \ {i}]
  BY <1>1 DEF u, Objects
<1>6. /\ r.ups = <<u>> \o os.ups /\ r.unflushed = os.unflushed \ {i} /\ r.root = os.root
      /\ r.store = os.store /\ r.concrete = os.concrete /\ r.known = os.known
      /\ r \in Objects(T)
  BY <1>1, <1>4, <1>5 DEF Objects
<1>7. CacheInvariants(r)
  BY <1>1, <1>6 DEF CacheInvariants
<1>8. ASSUME NEW wd \in ws, NEW j \in Position, j \notin r.unflushed \cup stale
      PROVE  Lists(r.root, r.ups, j, wd, mem[wd][j])
  <2>1. CASE j = i
    <3>1. ValueOf(u.i, wd) = j /\ mem[wd][j] = ValueOf(u.v, wd)
      BY <2>1, <1>2
    <3> QED BY <3>1, <1>2, <1>3, <1>6, ListsHead
  <2>2. CASE j # i
    <3>1. ValueOf(u.i, wd) # j
      BY <2>2, <1>2
    <3>2. Lists(os.root, os.ups, j, wd, mem[wd][j])
      BY <2>2, <1>1, <1>6, <1>8 DEF Represents
    <3> QED BY <3>1, <3>2, <1>2, <1>3, <1>6, ListsHead
  <2> QED BY <2>1, <2>2
<1>9. Represents(r, mem, stale, ws)
  BY <1>1, <1>6, <1>8 DEF Represents
<1> QED BY <1>6, <1>7, <1>9 DEF Rep

\* What a flush leaves alone.
SameCaches(r, os) ==
  r.store = os.store /\ r.concrete = os.concrete /\ r.known = os.known /\ r.root = os.root

LEMMA FlushByteKeeps ==
  ASSUME NEW T, LanguageIsSound(T), NEW os, NEW mem, NEW stale, NEW ws \in SUBSET Worlds,
         Rep(T, os, mem, stale, ws), NEW i \in Position
  PROVE  /\ Rep(T, FlushByte(os, i), mem, stale, ws) /\ SameCaches(FlushByte(os, i), os)
         /\ FlushByte(os, i).unflushed = os.unflushed \ {i}
<1> DEFINE r == FlushByte(os, i)
<1>1. os \in Objects(T) /\ CacheInvariants(os) /\ Represents(os, mem, stale, ws)
  BY DEF Rep
<1>2. CASE i \notin os.unflushed
  <2>1. r = os
    BY <1>2 DEF FlushByte, IsByteFlushed
  <2> QED BY <2>1, <1>2 DEF SameCaches
<1>3. ASSUME i \in os.unflushed, NEW e \in Of(T, Int8), \A wd \in ws : ValueOf(e, wd) = mem[wd][i],
             r = MarkByteFlushed(Extend(os, ConstantExpr(i, Int32), e), i)
      PROVE  Rep(T, r, mem, stale, ws) /\ SameCaches(r, os) /\ r.unflushed = os.unflushed \ {i}
  <2>1. r = [os EXCEPT !.ups = <<[i |-> ConstantExpr(i, Int32), v |-> e]>> \o @,
                       !.unflushed = @ \ {i}]
    BY <1>1, <1>3 DEF MarkByteFlushed, Extend, Objects
  <2>2. Rep(T, r, mem, stale, ws)
    BY <2>1, <1>3, FlushOne
  <2>3. SameCaches(r, os) /\ r.unflushed = os.unflushed \ {i}
    BY <2>1, <1>1 DEF SameCaches, Objects
  <2> QED BY <2>2, <2>3
<1>4. CASE i \in os.unflushed /\ i \in os.concrete
  <2>1. r = MarkByteFlushed(Extend(os, ConstantExpr(i, Int32), ConstantExpr(os.store[i], Int8)), i)
    BY <1>4 DEF FlushByte, IsByteFlushed, IsByteConcrete
  <2>2. os.store[i] \in Byte
    BY <1>1 DEF Objects
  <2>3. /\ ConstantExpr(os.store[i], Int8) \in Of(T, Int8)
        /\ \A wd \in ws : ValueOf(ConstantExpr(os.store[i], Int8), wd) = mem[wd][i]
    BY <2>2, <1>1, <1>4, ConstantIs DEF Represents
  <2> QED BY <2>1, <2>3, <1>3, <1>4
<1>5. CASE i \in os.unflushed /\ i \notin os.concrete
  <2>1. i \in DOMAIN os.known
    BY <1>1, <1>5 DEF CacheInvariants
  <2>2. r = MarkByteFlushed(Extend(os, ConstantExpr(i, Int32), os.known[i]), i)
    BY <1>5, <2>1 DEF FlushByte, IsByteFlushed, IsByteConcrete, IsByteKnownSymbolic
  <2>3. os.known[i] \in Of(T, Int8)
    BY <2>1, <1>1, KnownIs DEF Objects
  <2>4. \A wd \in ws : ValueOf(os.known[i], wd) = mem[wd][i]
    BY <2>1, <1>1 DEF Represents
  <2> QED BY <2>2, <2>3, <2>4, <1>3, <1>5
<1> QED BY <1>2, <1>4, <1>5

LEMMA FlushKeeps ==
  ASSUME NEW T, LanguageIsSound(T), NEW os, NEW mem, NEW stale, NEW ws \in SUBSET Worlds,
         Rep(T, os, mem, stale, ws)
  PROVE  /\ Rep(T, FlushRangeForRead(os), mem, stale, ws)
         /\ SameCaches(FlushRangeForRead(os), os)
         /\ FlushRangeForRead(os).unflushed = {}
<1>0. Size \in Nat /\ os.unflushed \subseteq 0..(Size - 1)
  BY ObjectAssumption DEF Rep, Objects, Position
<1>1. PICK f : FlushLoop(os, f, Size) /\ FlushRangeForRead(os) = f[Size]
  BY FlushLoopIs
<1> DEFINE Kept(n) == /\ Rep(T, f[n], mem, stale, ws) /\ SameCaches(f[n], os)
                      /\ f[n].unflushed = os.unflushed \ 0..(n - 1)
           Bad == {n \in 0..Size : ~Kept(n)}
<1>2. f[0] = os /\ \A n \in 0..Size : n # 0 => f[n] = FlushByte(f[n - 1], n - 1)
  BY <1>0, <1>1 DEF FlushLoop
<1>3. Kept(0)
  BY <1>2 DEF SameCaches
<1>4. ASSUME NEW n \in 0..Size, n # 0, Kept(n - 1)
      PROVE  Kept(n)
  <2>0. /\ Rep(T, f[n - 1], mem, stale, ws) /\ SameCaches(f[n - 1], os)
        /\ f[n - 1].unflushed = os.unflushed \ 0..((n - 1) - 1)
    BY <1>4
  <2>1. n - 1 \in Position /\ f[n] = FlushByte(f[n - 1], n - 1)
    BY <1>0, <1>2, <1>4 DEF Position
  <2>2. /\ Rep(T, f[n], mem, stale, ws) /\ SameCaches(f[n], f[n - 1])
        /\ f[n].unflushed = f[n - 1].unflushed \ {n - 1}
    BY <2>1, <1>4, FlushByteKeeps
  <2>3. 0..(n - 1) = 0..((n - 1) - 1) \cup {n - 1}
    BY <1>0, <1>4
  <2>4. f[n].unflushed = os.unflushed \ 0..(n - 1)
    BY <2>2, <2>3, <2>0
  <2>5. SameCaches(f[n], os)
    BY <2>2, <2>0 DEF SameCaches
  <2> QED BY <2>2, <2>4, <2>5
<1> HIDE DEF Kept
<1>5. Bad = {}
  <2> SUFFICES ASSUME Bad # {}
               PROVE  FALSE
    OBVIOUS
  <2>1. PICK m \in Bad : \A n \in Bad : m <= n
    <3>1. Bad \in SUBSET Nat
      BY <1>0
    <3> QED BY <3>1, FirstOf
  <2>2. m # 0
    BY <2>1, <1>3
  <2>3. m - 1 \in 0..Size /\ ~(m <= m - 1)
    BY <2>1, <2>2, <1>0
  <2>4. Kept(m - 1)
    BY <2>1, <2>3
  <2> QED BY <2>1, <2>2, <2>4, <1>4
<1>6. Kept(Size)
  BY <1>5, <1>0
<1>7. os.unflushed \ 0..(Size - 1) = {}
  BY <1>0
<1> QED BY <1>1, <1>6, <1>7 DEF Kept

\* After a flush for a write, the list alone says what the bytes are.
LEMMA FlushForWriteKeeps ==
  ASSUME NEW T, LanguageIsSound(T), NEW os, NEW mem, NEW stale, NEW ws \in SUBSET Worlds,
         Rep(T, os, mem, stale, ws)
  PROVE  /\ Rep(T, FlushRangeForWrite(os), mem, stale, ws)
         /\ FlushRangeForWrite(os).concrete = {} /\ FlushRangeForWrite(os).unflushed = {}
         /\ DOMAIN FlushRangeForWrite(os).known = {}
<1> DEFINE fl == FlushRangeForRead(os)
           none == [j \in DOMAIN fl.known \cap os.concrete |-> fl.known[j]]
           r == FlushRangeForWrite(os)
<1>1. Rep(T, fl, mem, stale, ws) /\ SameCaches(fl, os) /\ fl.unflushed = {}
  BY FlushKeeps
<1>2. os.concrete \cap DOMAIN os.known = {}
  BY DEF Rep, CacheInvariants
<1>3. DOMAIN none = {}
  BY <1>1, <1>2 DEF SameCaches
<1> HIDE DEF fl
<1>4. fl \in Objects(T)
  BY <1>1 DEF Rep
<1>5. r = [fl EXCEPT !.concrete = {}, !.known = none]
  BY <1>4 DEF FlushRangeForWrite, fl, Objects
<1>6. none \in UNION {[D -> Of(T, Int8)] : D \in SUBSET Position}
  <2>1. none = [j \in DOMAIN none |-> none[j]]
    OBVIOUS
  <2> HIDE DEF none
  <2> QED BY <1>3, <2>1, KnownIs
<1> HIDE DEF none, r
<1>7. /\ r \in Objects(T) /\ r.concrete = {} /\ r.unflushed = {} /\ r.known = none
      /\ r.ups = fl.ups /\ r.root = fl.root
  BY <1>1, <1>4, <1>5, <1>6 DEF Objects
<1>8. CacheInvariants(r) /\ Represents(r, mem, stale, ws)
  BY <1>1, <1>3, <1>7 DEF Rep, CacheInvariants, Represents
<1> QED BY <1>3, <1>7, <1>8 DEF Rep, r

LEMMA ConstantArrayIs ==
  ASSUME NEW bytes \in [1..Size -> Byte]
  PROVE  /\ ConstantArray(bytes) \in DOMAIN ConstantValues
         /\ ConstantValues[ConstantArray(bytes)] = bytes
<1>1. \E a \in DOMAIN ConstantValues : ConstantValues[a] = bytes
  BY ArrayAssumption
<1> QED BY <1>1 DEF ConstantArray

\* Constants in a list: the values and the indices of its updates.
LEMMA FixedIs ==
  ASSUME NEW T, LanguageIsSound(T), NEW u \in Updates(T)
  PROVE  /\ IsConstant(u.i) => \A wd \in Worlds : ValueOf(u.i, wd) = u.i.v
         /\ IsConstant(u.v) => u.v.v \in Byte /\ \A wd \in Worlds : ValueOf(u.v, wd) = u.v.v
<1>1. u.i \in T /\ u.v \in T /\ u.v.w = Int8
  BY DEF Updates, Of
<1> QED BY <1>1 DEF LanguageIsSound, ConstantsAreRight

LEMMA GetUpdatesKeeps ==
  ASSUME NEW T, LanguageIsSound(T), NEW os, NEW mem, NEW stale, NEW ws \in SUBSET Worlds,
         Rep(T, os, mem, stale, ws)
  PROVE  /\ Rep(T, GetUpdates(os), mem, stale, ws)
         /\ GetUpdates(os).root \in Roots
         /\ GetUpdates(os).unflushed = os.unflushed
<1>0. os \in Objects(T) /\ CacheInvariants(os) /\ Represents(os, mem, stale, ws)
  BY DEF Rep
<1>1. CASE os.root # NoArray
  BY <1>0, <1>1 DEF GetUpdates, Objects
<1>2. CASE os.root = NoArray
  <2> DEFINE ups == os.ups
             all == DOMAIN ups
             fixed(k) == IsConstant(ups[k].i) /\ IsConstant(ups[k].v)
             K == {n \in {0} \cup all : \A k \in all : k > n => fixed(k)}
             kept == Min(K)
             to(i) == {k \in all : k > kept /\ ups[k].i.v = i}
             byte(i) == IF to(i) = {} THEN 0 ELSE ups[Min(to(i))].v.v
             bytes == [n \in 1..Size |-> byte(n - 1)]
             r == GetUpdates(os)
  <2>1. ups \in Seq(Updates(T)) /\ all = 1..Len(ups) /\ Len(ups) \in Nat
    BY <1>0 DEF Objects
  <2>2. r = [os EXCEPT !.root = ConstantArray(bytes), !.ups = SubSeq(ups, 1, kept)]
    BY <1>0, <1>2 DEF GetUpdates, Objects
  <2>3. kept \in 0..Len(ups) /\ \A k \in all : k > kept => fixed(k)
    <3>1. K \in SUBSET Nat /\ Len(ups) \in K
      BY <2>1
    <3>2. kept \in K
      BY <3>1, LeastIs
    <3> QED BY <3>2, <2>1
  <2>4. ASSUME NEW k \in all, k > kept
        PROVE  /\ ups[k].v.v \in Byte
               /\ \A wd \in Worlds : ValueOf(ups[k].i, wd) = ups[k].i.v /\ ValueOf(ups[k].v, wd) = ups[k].v.v
    <3>1. ups[k] \in Updates(T)
      BY <2>1
    <3>2. fixed(k)
      BY <2>3, <2>4
    <3> QED BY <3>1, <3>2, FixedIs
  <2> HIDE DEF K, kept, ups
  <2>5. ASSUME NEW i \in Position, to(i) # {}
        PROVE  Min(to(i)) \in to(i) /\ \A k \in to(i) : Min(to(i)) <= k
    <3>1. to(i) \in SUBSET Nat
      BY <2>1
    <3> QED BY <3>1, <2>5, LeastIs
  <2>6. ASSUME NEW i \in Position
        PROVE  byte(i) \in Byte
    BY <2>4, <2>5, ByteAssumption
  <2>7. bytes \in [1..Size -> Byte] /\ \A i \in Position : bytes[i + 1] = byte(i)
    <3>1. Size \in Nat
      BY ObjectAssumption
    <3>2. \A n \in 1..Size : n - 1 \in Position
      BY <3>1 DEF Position
    <3>3. \A i \in Position : i + 1 \in 1..Size /\ (i + 1) - 1 = i
      BY <3>1 DEF Position
    <3> HIDE DEF byte
    <3> QED BY <3>2, <3>3, <2>6
  <2> DEFINE a == ConstantArray(bytes)
             new == SubSeq(ups, 1, kept)
  <2>8. a \in DOMAIN ConstantValues /\ ConstantValues[a] = bytes /\ a # NoArray /\ a \in Roots
    BY <2>7, ConstantArrayIs, ArrayAssumption DEF Roots
  <2>9. new \in Seq(Updates(T)) /\ DOMAIN new = 1..kept /\ \A k \in 1..kept : k \in all /\ new[k] = ups[k]
    BY <2>1, <2>3
  <2> HIDE DEF bytes, a, new
  <2>10. /\ r.root = a /\ r.ups = new /\ r.unflushed = os.unflushed /\ r.concrete = os.concrete
         /\ r.known = os.known /\ r.store = os.store /\ r \in Objects(T)
    BY <2>2, <2>8, <2>9, <1>0 DEF Objects, a, new
  <2>11. ASSUME NEW wd \in ws, NEW i \in Position, NEW b, Lists(NoArray, ups, i, wd, b)
         PROVE  Lists(a, new, i, wd, b)
    <3>0. RootByte(a, i, wd) = byte(i)
      BY <2>7, <2>8 DEF RootByte
    <3>1. ASSUME NEW k \in all, ValueOf(ups[k].i, wd) = i, b = ValueOf(ups[k].v, wd),
                 \A j \in all : j < k => ValueOf(ups[j].i, wd) # i
          PROVE  Lists(a, new, i, wd, b)
      <4>2. CASE k <= kept
        <5>1. k \in 1..kept /\ new[k] = ups[k]
          BY <3>1, <4>2, <2>1, <2>3, <2>9
        <5>2. \A j \in 1..kept : j < k => ValueOf(new[j].i, wd) # i
          BY <3>1, <2>9
        <5> QED BY <5>1, <5>2, <3>1, <2>9 DEF Lists
      <4>3. CASE k > kept
        <5>1. k \in to(i)
          BY <3>1, <4>3, <2>4
        <5> DEFINE m == Min(to(i))
        <5>2. m \in to(i) /\ m <= k
          BY <5>1, <2>5
        <5> HIDE DEF m
        <5>3. m \in all /\ ValueOf(ups[m].i, wd) = i
          BY <5>2, <2>4
        <5>4. m = k
          BY <5>2, <5>3, <3>1, <2>1
        <5>5. byte(i) = b
          BY <5>1, <5>4, <3>1, <4>3, <2>4 DEF m
        <5>6. \A j \in DOMAIN new : ValueOf(new[j].i, wd) # i
          BY <3>1, <4>3, <2>1, <2>3, <2>9
        <5> QED BY <3>0, <5>5, <5>6 DEF Lists
      <4> QED BY <4>2, <4>3, <2>1, <2>3
    <3>2. CASE (\A k \in all : ValueOf(ups[k].i, wd) # i) /\ b = RootByte(NoArray, i, wd)
      <4>1. to(i) = {}
        BY <3>2, <2>4
      <4>2. b = byte(i)
        BY <4>1, <3>2 DEF RootByte
      <4>3. \A j \in DOMAIN new : ValueOf(new[j].i, wd) # i
        BY <3>2, <2>9
      <4> QED BY <4>2, <4>3, <3>0 DEF Lists
    <3> QED BY <3>1, <3>2, <2>11 DEF Lists
  <2>12. CacheInvariants(r) /\ Represents(r, mem, stale, ws)
    BY <2>10, <2>11, <1>0, <1>2 DEF CacheInvariants, Represents, ups
  <2> QED BY <2>8, <2>10, <2>12 DEF Rep
<1> QED BY <1>1, <1>2

-----------------------------------------------------------------------------
(* Reading and writing a byte.                                             *)

Bytes(mem, ws) == \A wd \in ws : mem[wd] \in [Position -> Byte]

\* An assertion that holds changes nothing.
LEMMA CheckIs ==
  ASSUME NEW T, NEW os \in Objects(T), NEW cond, cond
  PROVE  Check(os, cond) = os
<1>1. os.failed = FALSE
  BY DEF Objects
<1>2. (os.failed \/ ~cond) = FALSE
  BY <1>1
<1>3. Check(os, cond) = [os EXCEPT !.failed = FALSE]
  BY <1>2, Zenon DEF Check
<1> QED BY <1>1, <1>3 DEF Objects

LEMMA ListedIs ==
  ASSUME NEW T, LanguageIsSound(T), NEW os, NEW mem, NEW stale, NEW ws \in SUBSET Worlds,
         Rep(T, os, mem, stale, ws), Bytes(mem, ws), NEW t \in Of(T, Int32)
  PROVE  /\ Rep(T, Listed(os, t)[1], mem, stale, ws) /\ Listed(os, t)[2] \in Of(T, Int8)
         /\ \A wd \in ws : ValueOf(t, wd) \in Position \ (os.unflushed \cup stale)
              => ValueOf(Listed(os, t)[2], wd) = mem[wd][ValueOf(t, wd)]
<1> DEFINE o == GetUpdates(os)
<1>1. Rep(T, o, mem, stale, ws) /\ o.root \in Roots /\ o.unflushed = os.unflushed
  BY GetUpdatesKeeps
<1> HIDE DEF o
<1>2. Listed(os, t)[1] = o /\ Listed(os, t)[2] = ReadExpr(o.root, o.ups, t, o.ups)
  BY DEF Listed, o
<1>3. o.ups \in Seq(Updates(T))
  BY <1>1 DEF Rep, Objects
<1>4. ReadExpr(o.root, o.ups, t, o.ups) \in Of(T, Int8)
  BY <1>1, <1>3 DEF LanguageIsSound, Closed
<1>5. ASSUME NEW wd \in ws, ValueOf(t, wd) \in Position \ (os.unflushed \cup stale)
      PROVE  ValueOf(ReadExpr(o.root, o.ups, t, o.ups), wd) = mem[wd][ValueOf(t, wd)]
  <2> DEFINE i == ValueOf(t, wd)
             b == mem[wd][i]
  <2>1. Lists(o.root, o.ups, i, wd, b)
    BY <1>1, <1>5 DEF Rep, Represents
  <2>2. b \in Byte
    BY <1>5 DEF Bytes
  <2>3. ReadsAreRight(T, Seq(Updates(T)), wd)
    BY DEF LanguageIsSound
  <2> QED BY <2>1, <2>2, <2>3, <1>1, <1>3, <1>5 DEF ReadsAreRight
<1> QED BY <1>1, <1>2, <1>4, <1>5

LEMMA Read8Is ==
  ASSUME NEW T, LanguageIsSound(T), NEW os, NEW mem, NEW stale, NEW ws \in SUBSET Worlds,
         Rep(T, os, mem, stale, ws), Bytes(mem, ws), NEW i \in Position
  PROVE  /\ Rep(T, Read8(os, i)[1], mem, stale, ws) /\ Read8(os, i)[2] \in Of(T, Int8)
         /\ stale = {} => \A wd \in ws : ValueOf(Read8(os, i)[2], wd) = mem[wd][i]
<1>0. os \in Objects(T) /\ CacheInvariants(os) /\ Represents(os, mem, stale, ws)
  BY DEF Rep
<1>1. CASE i \in os.concrete
  <2>1. Read8(os, i) = <<os, ConstantExpr(os.store[i], Int8)>>
    BY <1>1 DEF Read8, IsByteConcrete
  <2>2. os.store[i] \in Byte /\ \A wd \in ws : os.store[i] = mem[wd][i]
    BY <1>0, <1>1 DEF Objects, Represents
  <2>3. /\ ConstantExpr(os.store[i], Int8) \in Of(T, Int8)
        /\ \A wd \in ws : ValueOf(ConstantExpr(os.store[i], Int8), wd) = mem[wd][i]
    BY <2>2, ConstantIs
  <2> QED BY <2>1, <2>3
<1>2. CASE i \notin os.concrete /\ i \in DOMAIN os.known
  <2>1. Read8(os, i) = <<os, os.known[i]>>
    BY <1>2 DEF Read8, IsByteConcrete, IsByteKnownSymbolic
  <2>2. os.known[i] \in Of(T, Int8) /\ \A wd \in ws : ValueOf(os.known[i], wd) = mem[wd][i]
    BY <1>0, <1>2, KnownIs DEF Objects, Represents
  <2> QED BY <2>1, <2>2
<1>3. CASE i \notin os.concrete /\ i \notin DOMAIN os.known
  <2>1. i \notin os.unflushed
    BY <1>0, <1>3 DEF CacheInvariants
  <2>2. Check(os, IsByteFlushed(os, i)) = os
    BY <2>1, <1>0, CheckIs DEF IsByteFlushed
  <2>3. Read8(os, i) = Listed(os, ConstantExpr(i, Int32))
    BY <1>3, <2>2 DEF Read8, IsByteConcrete, IsByteKnownSymbolic
  <2>4. ConstantExpr(i, Int32) \in Of(T, Int32) /\ \A wd \in ws : ValueOf(ConstantExpr(i, Int32), wd) = i
    BY ConstantIs
  <2> QED BY <2>1, <2>3, <2>4, ListedIs
<1> QED BY <1>1, <1>2, <1>3

LEMMA Read8AtIs ==
  ASSUME NEW T, LanguageIsSound(T), NEW os, NEW mem, NEW stale, NEW ws \in SUBSET Worlds,
         Rep(T, os, mem, stale, ws), Bytes(mem, ws),
         NEW t \in Of(T, Int32), ~IsConstant(t), \A wd \in ws : ValueOf(t, wd) \in Position
  PROVE  /\ Rep(T, Read8At(os, t)[1], mem, stale, ws) /\ Read8At(os, t)[2] \in Of(T, Int8)
         /\ stale = {} => \A wd \in ws : ValueOf(Read8At(os, t)[2], wd) = mem[wd][ValueOf(t, wd)]
<1> DEFINE fl == FlushRangeForRead(os)
<1>1. Check(os, ~IsConstant(t)) = os
  BY CheckIs DEF Rep
<1>2. Rep(T, fl, mem, stale, ws) /\ fl.unflushed = {}
  BY FlushKeeps
<1>3. Read8At(os, t) = Listed(fl, Narrow(t))
  BY <1>1 DEF Read8At, Narrow
<1>4. Narrow(t) \in Of(T, Int32) /\ \A wd \in ws : ValueOf(Narrow(t), wd) = ValueOf(t, wd)
  <2>1. t \in T
    BY DEF Of
  <2> QED BY <2>1, NarrowIs
<1> HIDE DEF fl
<1> QED BY <1>2, <1>3, <1>4, ListedIs

LEMMA Write8Is ==
  ASSUME NEW T, LanguageIsSound(T), NEW os, NEW mem, NEW stale, NEW ws \in SUBSET Worlds,
         Rep(T, os, mem, stale, ws), NEW i \in Position, NEW e \in Of(T, Int8),
         NEW new, \A wd \in ws, j \in Position :
                    new[wd][j] = IF j = i THEN ValueOf(e, wd) ELSE mem[wd][j]
  PROVE  Rep(T, Write8(os, i, e), new, stale \ {i}, ws)
<1> DEFINE r == Write8(os, i, e)
<1>0. os \in Objects(T) /\ CacheInvariants(os) /\ Represents(os, mem, stale, ws)
  BY DEF Rep
<1>1. ASSUME r \in Objects(T), r.unflushed = os.unflushed \cup {i}, r.ups = os.ups, r.root = os.root,
             NEW c \in BOOLEAN,
             r.concrete = IF c THEN os.concrete \cup {i} ELSE os.concrete \ {i},
             DOMAIN r.known = IF c THEN DOMAIN os.known \ {i} ELSE DOMAIN os.known \cup {i},
             \A j \in Position \ {i} : r.store[j] = os.store[j],
             \A j \in DOMAIN os.known \ {i} : r.known[j] = os.known[j],
             c => \A wd \in ws : r.store[i] = ValueOf(e, wd),
             ~c => r.known[i] = e
      PROVE  Rep(T, r, new, stale \ {i}, ws)
  <2> HIDE DEF r
  <2>1. CacheInvariants(r)
    <3>1. CASE c
      BY <3>1, <1>0, <1>1 DEF CacheInvariants
    <3>2. CASE ~c
      BY <3>2, <1>0, <1>1 DEF CacheInvariants
    <3> QED BY <3>1, <3>2
  <2>2. Represents(r, new, stale \ {i}, ws)
    <3> SUFFICES ASSUME NEW wd \in ws, NEW j \in Position
                 PROVE  /\ j \in r.concrete => r.store[j] = new[wd][j]
                        /\ j \in DOMAIN r.known => ValueOf(r.known[j], wd) = new[wd][j]
                        /\ j \notin r.unflushed \cup (stale \ {i}) => Lists(r.root, r.ups, j, wd, new[wd][j])
      BY DEF Represents
    <3>1. CASE j = i
      <4>1. new[wd][j] = ValueOf(e, wd) /\ j \in r.unflushed
        BY <3>1, <1>1
      <4>2. CASE c
        BY <4>1, <4>2, <3>1, <1>1
      <4>3. CASE ~c
        BY <4>1, <4>3, <3>1, <1>1
      <4> QED BY <4>2, <4>3
    <3>2. CASE j # i
      <4>1. new[wd][j] = mem[wd][j]
        BY <3>2
      <4>2. /\ j \in os.concrete => os.store[j] = mem[wd][j]
            /\ j \in DOMAIN os.known => ValueOf(os.known[j], wd) = mem[wd][j]
            /\ j \notin os.unflushed \cup stale => Lists(os.root, os.ups, j, wd, mem[wd][j])
        BY <1>0 DEF Represents
      <4>3. /\ j \in r.concrete => j \in os.concrete
            /\ j \in DOMAIN r.known => j \in DOMAIN os.known \ {i}
        BY <3>2, <1>1
      <4>4. r.store[j] = os.store[j]
        BY <3>2, <1>1
      <4>5. j \in DOMAIN r.known => ValueOf(r.known[j], wd) = new[wd][j]
        BY <4>1, <4>2, <4>3, <1>1
      <4>6. j \notin r.unflushed \cup (stale \ {i}) => Lists(r.root, r.ups, j, wd, new[wd][j])
        BY <4>1, <4>2, <3>2, <1>1
      <4> QED BY <4>1, <4>2, <4>3, <4>4, <4>5, <4>6
    <3> QED BY <3>1, <3>2
  <2> QED BY <2>1, <2>2, <1>1 DEF Rep
<1>2. CASE IsConstant(e)
  <2>1. e.v \in Byte /\ \A wd \in ws : ValueOf(e, wd) = e.v
    BY <1>2 DEF LanguageIsSound, ConstantsAreRight, Of
  <2> DEFINE known == [j \in DOMAIN os.known \ {i} |-> os.known[j]]
  <2>2. r = [os EXCEPT !.store = [os.store EXCEPT ![i] = e.v], !.known = known,
                       !.concrete = os.concrete \cup {i}, !.unflushed = os.unflushed \cup {i}]
    BY <1>0, <1>2 DEF Write8, Forget, MarkByteConcrete, MarkByteUnflushed, Objects
  <2>3. known \in UNION {[D -> Of(T, Int8)] : D \in SUBSET Position}
    <3>1. /\ DOMAIN os.known \subseteq Position
          /\ \A j \in DOMAIN os.known : os.known[j] \in Of(T, Int8)
      BY <1>0, KnownIs DEF Objects
    <3>2. DOMAIN known = DOMAIN os.known \ {i} /\ \A j \in DOMAIN known : known[j] = os.known[j]
      OBVIOUS
    <3>3. known = [j \in DOMAIN known |-> known[j]]
      OBVIOUS
    <3> HIDE DEF known
    <3> QED BY <3>1, <3>2, <3>3, KnownIs
  <2>4. DOMAIN known = DOMAIN os.known \ {i} /\ \A j \in DOMAIN known : known[j] = os.known[j]
    OBVIOUS
  <2> HIDE DEF known, r
  <2>5. /\ r \in Objects(T) /\ r.unflushed = os.unflushed \cup {i} /\ r.ups = os.ups /\ r.root = os.root
        /\ r.known = known /\ r.concrete = os.concrete \cup {i} /\ r.store = [os.store EXCEPT ![i] = e.v]
    BY <2>1, <2>2, <2>3, <1>0 DEF Objects
  <2>6. r.store[i] = e.v /\ \A j \in Position \ {i} : r.store[j] = os.store[j]
    BY <2>5, <1>0 DEF Objects
  <2>7. \A wd \in ws : r.store[i] = ValueOf(e, wd)
    BY <2>1, <2>6
  <2> QED BY <2>4, <2>5, <2>6, <2>7, <1>1 DEF r
<1>3. CASE ~IsConstant(e)
  <2> DEFINE known == [j \in DOMAIN os.known \cup {i} |-> IF j = i THEN e ELSE os.known[j]]
  <2>2. r = [os EXCEPT !.known = known, !.concrete = os.concrete \ {i}, !.unflushed = os.unflushed \cup {i}]
    BY <1>0, <1>3 DEF Write8, SetKnownSymbolic, MarkByteSymbolic, MarkByteUnflushed, Objects
  <2>4. /\ DOMAIN known = DOMAIN os.known \cup {i} /\ known[i] = e
        /\ \A j \in DOMAIN known : j # i => known[j] = os.known[j]
    OBVIOUS
  <2>3. known \in UNION {[D -> Of(T, Int8)] : D \in SUBSET Position}
    <3>1. /\ DOMAIN os.known \subseteq Position
          /\ \A j \in DOMAIN os.known : os.known[j] \in Of(T, Int8)
      BY <1>0, KnownIs DEF Objects
    <3>3. known = [j \in DOMAIN known |-> known[j]]
      OBVIOUS
    <3> HIDE DEF known
    <3> QED BY <3>1, <2>4, <3>3, KnownIs
  <2> HIDE DEF known, r
  <2>5. /\ r \in Objects(T) /\ r.unflushed = os.unflushed \cup {i} /\ r.ups = os.ups /\ r.root = os.root
        /\ r.known = known /\ r.concrete = os.concrete \ {i} /\ r.store = os.store
    BY <2>2, <2>3, <1>0 DEF Objects
  <2> QED BY <2>4, <2>5, <1>1 DEF r
<1> QED BY <1>2, <1>3

LEMMA Write8AtIs ==
  ASSUME NEW T, LanguageIsSound(T), NEW os, NEW mem, NEW stale, NEW ws \in SUBSET Worlds,
         Rep(T, os, mem, stale, ws), NEW t \in Of(T, Int32), ~IsConstant(t),
         \A wd \in ws : ValueOf(t, wd) \in Position, NEW e \in Of(T, Int8),
         NEW new, \A wd \in ws, j \in Position :
                    new[wd][j] = IF j = ValueOf(t, wd) THEN ValueOf(e, wd) ELSE mem[wd][j]
  PROVE  Rep(T, Write8At(os, t, e), new, stale, ws)
<1> DEFINE fw == FlushRangeForWrite(os)
           u == [i |-> Narrow(t), v |-> e]
           r == Write8At(os, t, e)
<1>1. Check(os, ~IsConstant(t)) = os
  BY CheckIs DEF Rep
<1>2. /\ Rep(T, fw, mem, stale, ws) /\ fw.concrete = {} /\ fw.unflushed = {}
      /\ DOMAIN fw.known = {}
  BY FlushForWriteKeeps
<1>3. /\ u \in Updates(T) /\ u.v = e
      /\ \A wd \in ws : ValueOf(u.i, wd) = ValueOf(t, wd)
  <2>1. t \in T
    BY DEF Of
  <2> QED BY <2>1, NarrowIs DEF Updates
<1>4. r = [fw EXCEPT !.ups = <<u>> \o @]
  BY <1>1 DEF Write8At, Extend, Narrow
<1> HIDE DEF fw, u, r
<1>5. fw \in Objects(T) /\ fw.ups \in Seq(Updates(T)) /\ Represents(fw, mem, stale, ws)
  BY <1>2 DEF Rep, Objects
<1>6. <<u>> \o fw.ups \in Seq(Updates(T))
  BY <1>3, <1>5
<1>7. /\ r \in Objects(T) /\ r.ups = <<u>> \o fw.ups /\ r.root = fw.root
      /\ r.concrete = {} /\ r.unflushed = {} /\ r.known = fw.known
  BY <1>2, <1>4, <1>5, <1>6 DEF Objects
<1>8. ASSUME NEW wd \in ws, NEW j \in Position, j \notin stale
      PROVE  Lists(r.root, r.ups, j, wd, new[wd][j])
  <2>1. CASE j = ValueOf(t, wd)
    <3>1. ValueOf(u.i, wd) = j /\ new[wd][j] = ValueOf(u.v, wd)
      BY <2>1, <1>3
    <3> QED BY <3>1, <1>3, <1>5, <1>7, ListsHead
  <2>2. CASE j # ValueOf(t, wd)
    <3>1. ValueOf(u.i, wd) # j /\ new[wd][j] = mem[wd][j]
      BY <2>2, <1>3
    <3>2. Lists(fw.root, fw.ups, j, wd, mem[wd][j])
      BY <1>2, <1>5, <1>8 DEF Represents
    <3> QED BY <3>1, <3>2, <1>3, <1>5, <1>7, ListsHead
  <2> QED BY <2>1, <2>2
<1>9. CacheInvariants(r) /\ Represents(r, new, stale, ws)
  BY <1>2, <1>7, <1>8 DEF CacheInvariants, Represents
<1> QED BY <1>7, <1>9 DEF Rep, r

\* What is stale may be given up.
LEMMA RepWeakens ==
  ASSUME NEW T, NEW os, NEW mem, NEW stale, NEW more, stale \subseteq more, NEW ws,
         NEW vs \in SUBSET ws, Rep(T, os, mem, stale, ws)
  PROVE  Rep(T, os, mem, more, vs)
BY DEF Rep, Represents

-----------------------------------------------------------------------------
(* The bytes of a value, in either order.                                  *)

LEMMA ByteOfIs ==
  ASSUME NEW v \in Nat, NEW i \in 0..Size
  PROVE  ByteOf(v, i) \in Byte
<1> DEFINE p == 2^(i * Int8)
           q == 2^Int8
<1>1. p \in Nat \ {0} /\ q \in Nat \ {0}
  BY ByteAssumption
<1> HIDE DEF p, q
<1>2. v \div p \in Nat
  BY <1>1
<1>3. (v \div p) % q \in 0..(q - 1)
  BY <1>1, <1>2
<1> QED BY <1>3 DEF ByteOf, Byte, p, q

\* The order of the bytes is its own inverse.
LEMMA ByteAtIs ==
  ASSUME NEW n \in Nat, NEW i \in 0..(n - 1)
  PROVE  ByteAt(i, n) \in 0..(n - 1) /\ ByteAt(ByteAt(i, n), n) = i
BY DEF ByteAt

\* A width the program accesses and the object has room for.
Accessed(w) ==
  /\ NumBytes(w) \in 1..Size
  /\ w # BoolWidth => w = NumBytes(w) * Int8

LEMMA SliceIs ==
  ASSUME NEW T, LanguageIsSound(T), NEW e \in T, Accessed(e.w), NEW i \in 0..(NumBytes(e.w) - 1)
  PROVE  /\ SliceOf(e, i) \in Of(T, Int8)
         /\ \A wd \in Worlds : ValueOf(SliceOf(e, i), wd) = ByteOf(ValueOf(e, wd), i)
<1>0. Size \in Nat /\ NumBytes(e.w) \in Nat /\ i \in 0..Size
  BY ObjectAssumption DEF Accessed
<1>1. CASE IsConstant(e) /\ HasWriter(e.w)
  <2>1. e.v \in Nat /\ \A wd \in Worlds : ValueOf(e, wd) = e.v
    BY <1>1 DEF LanguageIsSound, ConstantsAreRight
  <2>2. ByteOf(e.v, i) \in Byte
    BY <1>0, <2>1, ByteOfIs
  <2>3. SliceOf(e, i) = ConstantExpr(ByteOf(e.v, i), Int8)
    BY <1>1 DEF SliceOf, ConstByte
  <2> QED BY <2>1, <2>2, <2>3, ConstantIs
<1>2. CASE ~(IsConstant(e) /\ HasWriter(e.w)) /\ e.w = BoolWidth
  <2>1. SliceOf(e, i) = CastExpr("ZExt", e, Int8)
    BY <1>2 DEF SliceOf
  <2>2. i = 0
    BY <1>2 DEF NumBytes
  <2>3. CastExpr("ZExt", e, Int8) \in Of(T, Int8)
    BY <1>2 DEF LanguageIsSound, Closed
  <2>4. \A wd \in Worlds : ValueOf(CastExpr("ZExt", e, Int8), wd) = ByteOf(ValueOf(e, wd), 0)
    <3>1. e \in Of(T, BoolWidth) /\ \A wd \in Worlds : ValuesAreRight(T, wd)
      BY <1>2 DEF Of, LanguageIsSound
    <3> QED BY <3>1 DEF ValuesAreRight
  <2> QED BY <2>1, <2>2, <2>3, <2>4
<1>3. CASE ~(IsConstant(e) /\ HasWriter(e.w)) /\ e.w # BoolWidth
  <2> DEFINE n == NumBytes(e.w)
             x == ExtractExpr(e, i * Int8, Int8)
  <2>1. SliceOf(e, i) = x
    BY <1>3 DEF SliceOf
  <2>2. n \in 1..Size /\ e \in Of(T, n * Int8) /\ i \in 0..(n - 1)
    BY <1>3 DEF Accessed, Of
  <2> HIDE DEF n
  <2>3. x \in Of(T, Int8)
    BY <2>2 DEF LanguageIsSound, Closed
  <2>4. \A wd \in Worlds : ValueOf(x, wd) = ByteOf(ValueOf(e, wd), i)
    <3>1. \A wd \in Worlds : ValuesAreRight(T, wd)
      BY DEF LanguageIsSound
    <3> QED BY <3>1, <2>2 DEF ValuesAreRight
  <2> QED BY <2>1, <2>3, <2>4
<1> QED BY <1>1, <1>2, <1>3

\* An offset at which n bytes are inside the object, in some world and in all.
Inside(T, off, n, ws) ==
  /\ off \in Of(T, Int32) /\ ws # {} /\ ws \subseteq Worlds
  /\ \A wd \in ws : ValueOf(off, wd) \in 0..(Size - n)

LEMMA InsideIs ==
  ASSUME NEW T, LanguageIsSound(T), NEW off, NEW n \in 1..Size, NEW ws, Inside(T, off, n, ws),
         NEW i \in 0..(n - 1)
  PROVE  /\ i \in Position /\ \A wd \in ws : ValueOf(off, wd) + i \in Position
         /\ IsConstant(off) => off.v + i \in Position /\ \A wd \in ws : ValueOf(off, wd) = off.v
<1>0. Size \in Nat
  BY ObjectAssumption
<1>1. i \in Position /\ \A wd \in ws : ValueOf(off, wd) + i \in Position
  BY <1>0 DEF Inside, Position
<1>2. ASSUME IsConstant(off)
      PROVE  \A wd \in ws : ValueOf(off, wd) = off.v
  BY <1>2 DEF Inside, LanguageIsSound, ConstantsAreRight, Of
<1>3. PICK wd \in ws : TRUE
  BY DEF Inside
<1> QED BY <1>1, <1>2, <1>3

LEMMA ReadByteIs ==
  ASSUME NEW T, LanguageIsSound(T), NEW os, NEW mem, NEW stale, NEW ws,
         Rep(T, os, mem, stale, ws), Bytes(mem, ws),
         NEW off, NEW n \in 1..Size, Inside(T, off, n, ws), NEW i \in 0..(n - 1)
  PROVE  /\ Rep(T, ReadByte(os, off, i)[1], mem, stale, ws)
         /\ ReadByte(os, off, i)[2] \in Of(T, Int8)
         /\ stale = {} =>
              \A wd \in ws : ValueOf(ReadByte(os, off, i)[2], wd) = mem[wd][ValueOf(off, wd) + i]
<1>0. ws \in SUBSET Worlds /\ off \in Of(T, Int32)
  BY DEF Inside
<1>1. CASE IsConstant(off)
  <2>1. off.v + i \in Position /\ \A wd \in ws : ValueOf(off, wd) = off.v
    BY <1>1, InsideIs
  <2>2. ReadByte(os, off, i) = Read8(os, off.v + i)
    BY <1>1 DEF ReadByte
  <2> QED BY <2>1, <2>2, <1>0, Read8Is
<1>2. CASE ~IsConstant(off)
  <2> DEFINE t == Plus(off, i)
  <2>1. i \in Position /\ \A wd \in ws : ValueOf(off, wd) + i \in Position
    BY InsideIs
  <2>2. /\ t \in Of(T, Int32) /\ ~IsConstant(t)
        /\ \A wd \in ws : ValueOf(t, wd) = ValueOf(off, wd) + i
    BY <2>1, <1>0, <1>2, PlusIs
  <2>3. ReadByte(os, off, i) = Read8At(os, t)
    BY <1>2 DEF ReadByte
  <2> HIDE DEF t
  <2>4. \A wd \in ws : ValueOf(t, wd) \in Position
    BY <2>1, <2>2
  <2> QED BY <2>2, <2>3, <2>4, <1>0, Read8AtIs
<1> QED BY <1>1, <1>2

\* The memory after a write of the byte i of e, and what is stale then.
ByteWritten(new, mem, ws, off, idx, e, i) ==
  \A wd \in ws, j \in Position :
    new[wd][j] = IF j = ValueOf(off, wd) + idx THEN ByteOf(ValueOf(e, wd), i) ELSE mem[wd][j]
StaleAfter(off, idx, stale) == IF IsConstant(off) THEN stale \ {off.v + idx} ELSE stale

LEMMA WriteByteIs ==
  ASSUME NEW T, LanguageIsSound(T), NEW os, NEW mem, NEW stale, NEW ws,
         Rep(T, os, mem, stale, ws), NEW e \in T, Accessed(e.w),
         NEW off, Inside(T, off, NumBytes(e.w), ws), NEW i \in 0..(NumBytes(e.w) - 1),
         NEW idx, idx = ByteAt(i, NumBytes(e.w)),
         NEW new, ByteWritten(new, mem, ws, off, idx, e, i)
  PROVE  Rep(T, WriteByte(os, off, e, i), new, StaleAfter(off, idx, stale), ws)
<1> DEFINE n == NumBytes(e.w)
           b == SliceOf(e, i)
<1>0. ws \in SUBSET Worlds /\ off \in Of(T, Int32) /\ n \in 1..Size /\ Size \in Nat
  BY ObjectAssumption DEF Inside, Accessed
<1>1. idx \in 0..(n - 1)
  <2>1. n \in Nat
    BY <1>0
  <2> QED BY <2>1, ByteAtIs
<1>2. b \in Of(T, Int8) /\ \A wd \in ws : ValueOf(b, wd) = ByteOf(ValueOf(e, wd), i)
  BY <1>0, SliceIs
<1> HIDE DEF b
<1>3. CASE IsConstant(off)
  <2>1. off.v + idx \in Position /\ \A wd \in ws : ValueOf(off, wd) = off.v
    BY <1>0, <1>1, <1>3, InsideIs
  <2>2. WriteByte(os, off, e, i) = Write8(os, off.v + idx, b)
    BY <1>3 DEF WriteByte, b
  <2>3. \A wd \in ws, j \in Position : new[wd][j] = IF j = off.v + idx THEN ValueOf(b, wd) ELSE mem[wd][j]
    BY <2>1, <1>2 DEF ByteWritten
  <2> QED BY <2>1, <2>2, <2>3, <1>0, <1>2, <1>3, Write8Is DEF StaleAfter
<1>4. CASE ~IsConstant(off)
  <2> DEFINE t == IF e.w = BoolWidth THEN off ELSE Plus(off, idx)
  <2>1. idx \in Position /\ \A wd \in ws : ValueOf(off, wd) + idx \in Position /\ ValueOf(off, wd) \in Nat
    <3>1. \A wd \in ws : ValueOf(off, wd) \in Nat
      BY DEF Inside
    <3> QED BY <3>1, <1>0, <1>1, InsideIs
  <2>2. /\ t \in Of(T, Int32) /\ ~IsConstant(t)
        /\ \A wd \in ws : ValueOf(t, wd) = ValueOf(off, wd) + idx
    <3>1. CASE e.w = BoolWidth
      <4>1. idx = 0
        BY <3>1, <1>1 DEF NumBytes
      <4> QED BY <4>1, <3>1, <2>1, <1>0, <1>4
    <3>2. CASE e.w # BoolWidth
      BY <3>2, <2>1, <1>0, <1>4, PlusIs
    <3> QED BY <3>1, <3>2
  <2>3. WriteByte(os, off, e, i) = Write8At(os, t, b)
    BY <1>4 DEF WriteByte, b
  <2> HIDE DEF t
  <2>4. /\ \A wd \in ws : ValueOf(t, wd) \in Position
        /\ \A wd \in ws, j \in Position : new[wd][j] = IF j = ValueOf(t, wd) THEN ValueOf(b, wd) ELSE mem[wd][j]
    BY <2>1, <2>2, <1>2 DEF ByteWritten
  <2> QED BY <2>2, <2>3, <2>4, <1>0, <1>2, <1>4, Write8AtIs DEF StaleAfter
<1> QED BY <1>3, <1>4

-----------------------------------------------------------------------------
(* Whole values.                                                           *)

\* The loop of write, as the function of its turns.
WriteLoop(os, off, e, f, n) ==
  f = [k \in 0..n |-> IF k = 0 THEN os ELSE WriteByte(f[k - 1], off, e, k - 1)]

LEMMA WriteLoopIs ==
  ASSUME NEW os, NEW offset, NEW e, NumBytes(e.w) \in Nat
  PROVE  \E f : /\ WriteLoop(os, Narrow(offset), e, f, NumBytes(e.w))
                /\ Write(os, offset, e) = f[NumBytes(e.w)]
<1> DEFINE off == Narrow(offset)
<1> DEFINE Bad == {n \in Nat : ~\E f : WriteLoop(os, off, e, f, n)}
<1>1. Bad = {}
  <2> SUFFICES ASSUME Bad # {}
               PROVE  FALSE
    OBVIOUS
  <2>1. PICK m \in Bad : \A n \in Bad : m <= n
    BY FirstOf
  <2>2. m # 0
    <3>1. WriteLoop(os, off, e, [k \in 0..0 |-> os], 0)
      BY DEF WriteLoop
    <3> QED BY <3>1, <2>1
  <2>3. PICK f : WriteLoop(os, off, e, f, m - 1)
    BY <2>1, <2>2
  <2> DEFINE g == [k \in 0..m |-> IF k = m THEN WriteByte(f[m - 1], off, e, m - 1) ELSE f[k]]
  <2>4. WriteLoop(os, off, e, g, m)
    <3>1. \A k \in 0..(m - 1) : g[k] = f[k]
      BY <2>1
    <3>2. \A k \in 0..(m - 1) : f[k] = IF k = 0 THEN os ELSE WriteByte(f[k - 1], off, e, k - 1)
      BY <2>3 DEF WriteLoop
    <3>3. ASSUME NEW k \in 0..m
          PROVE  g[k] = IF k = 0 THEN os ELSE WriteByte(g[k - 1], off, e, k - 1)
      <4>1. CASE k = m
        <5>1. k - 1 \in 0..(m - 1)
          BY <4>1, <2>2, <2>1
        <5> QED BY <4>1, <3>1, <5>1, <2>2
      <4>2. CASE k # m
        <5>1. k \in 0..(m - 1) /\ (k # 0 => k - 1 \in 0..(m - 1))
          BY <4>2, <2>1
        <5> QED BY <5>1, <3>1, <3>2
      <4> QED BY <4>1, <4>2
    <3> QED BY <3>3 DEF WriteLoop
  <2> QED BY <2>4, <2>1
<1>2. PICK h : WriteLoop(os, off, e, h, NumBytes(e.w))
  BY <1>1
<1> DEFINE F == CHOOSE f : f = [i \in 0..NumBytes(e.w) |->
                                  IF i = 0 THEN os ELSE WriteByte(f[i - 1], off, e, i - 1)]
<1>3. WriteLoop(os, off, e, F, NumBytes(e.w))
  BY <1>2 DEF WriteLoop
<1>4. Write(os, offset, e) = F[NumBytes(e.w)]
  BY DEF Write
<1> QED BY <1>3, <1>4

\* What a store of the first k bytes of e makes of a memory.
Put(mem, ws, off, e, k) ==
  LET n == NumBytes(e.w)
  IN [wd \in ws |-> [j \in Position |->
       IF j - ValueOf(off, wd) \in 0..(n - 1) /\ ByteAt(j - ValueOf(off, wd), n) < k
       THEN ByteOf(ValueOf(e, wd), ByteAt(j - ValueOf(off, wd), n)) ELSE mem[wd][j]]]

LEMMA WriteIs ==
  ASSUME NEW T, LanguageIsSound(T), NEW os, NEW mem, NEW stale, NEW ws,
         Rep(T, os, mem, stale, ws), NEW e \in T, Accessed(e.w),
         NEW offset, Inside(T, Narrow(offset), NumBytes(e.w), ws),
         NEW off, off = Narrow(offset)
  PROVE  Rep(T, Write(os, offset, e), Put(mem, ws, off, e, NumBytes(e.w)),
             IF IsConstant(off) THEN stale \ (off.v)..(off.v + NumBytes(e.w) - 1) ELSE stale, ws)
<1> DEFINE n == NumBytes(e.w)
           left(k) == IF IsConstant(off) THEN stale \ {off.v + ByteAt(i, n) : i \in 0..(k - 1)} ELSE stale
<1>0. n \in 1..Size /\ n \in Nat
  BY ObjectAssumption DEF Accessed
<1>1. PICK f : WriteLoop(os, off, e, f, n) /\ Write(os, offset, e) = f[n]
  BY <1>0, WriteLoopIs
<1>2. f[0] = os /\ \A k \in 0..n : k # 0 => f[k] = WriteByte(f[k - 1], off, e, k - 1)
  BY <1>0, <1>1 DEF WriteLoop
<1> DEFINE Kept(k) == Rep(T, f[k], Put(mem, ws, off, e, k), left(k), ws)
           Bad == {k \in 0..n : ~Kept(k)}
<1>3. \A wd \in ws, j \in Position : j - ValueOf(off, wd) \in Int
  <2>1. \A wd \in ws : ValueOf(off, wd) \in Int
    BY DEF Inside
  <2>2. Position \subseteq Int
    BY ObjectAssumption DEF Position
  <2> QED BY <2>1, <2>2
<1> HIDE DEF n
<1>4. Kept(0)
  <2> DEFINE new == Put(mem, ws, off, e, 0)
  <2>1. \A wd \in ws, j \in Position : new[wd][j] = mem[wd][j]
    <3>1. ASSUME NEW wd \in ws, NEW j \in Position, j - ValueOf(off, wd) \in 0..(n - 1)
          PROVE  ~(ByteAt(j - ValueOf(off, wd), n) < 0)
      <4>1. ByteAt(j - ValueOf(off, wd), n) \in 0..(n - 1)
        BY <1>0, <3>1, ByteAtIs
      <4> QED BY <4>1
    <3> QED BY <3>1 DEF Put, n
  <2>2. left(0) = stale
    OBVIOUS
  <2>3. Represents(os, new, stale, ws)
    BY <2>1 DEF Rep, Represents
  <2> QED BY <1>2, <2>2, <2>3 DEF Rep
<1>5. ASSUME NEW k \in 0..n, k # 0, Kept(k - 1)
      PROVE  Kept(k)
  <2> DEFINE old == Put(mem, ws, off, e, k - 1)
             new == Put(mem, ws, off, e, k)
             idx == ByteAt(k - 1, n)
  <2>1. k - 1 \in 0..(n - 1) /\ f[k] = WriteByte(f[k - 1], off, e, k - 1)
    BY <1>0, <1>2, <1>5
  <2>2. Rep(T, f[k - 1], old, left(k - 1), ws)
    BY <1>5
  <2>3. idx \in 0..(n - 1) /\ ByteAt(idx, n) = k - 1
    BY <2>1, <1>0, ByteAtIs
  <2>4. ASSUME NEW wd \in ws, NEW j \in Position
        PROVE  new[wd][j] = IF j = ValueOf(off, wd) + idx THEN ByteOf(ValueOf(e, wd), k - 1) ELSE old[wd][j]
    <3> DEFINE d == j - ValueOf(off, wd)
    <3>1. /\ new[wd][j] = IF d \in 0..(n - 1) /\ ByteAt(d, n) < k
                          THEN ByteOf(ValueOf(e, wd), ByteAt(d, n)) ELSE mem[wd][j]
          /\ old[wd][j] = IF d \in 0..(n - 1) /\ ByteAt(d, n) < k - 1
                          THEN ByteOf(ValueOf(e, wd), ByteAt(d, n)) ELSE mem[wd][j]
      BY DEF Put, n
    <3>2. d \in Int /\ (j = ValueOf(off, wd) + idx <=> d = idx)
      <4>1. ValueOf(off, wd) \in Int /\ j \in Int
        BY ObjectAssumption DEF Inside, Position
      <4> QED BY <4>1, <2>3, <1>0
    <3> HIDE DEF d, new, old, idx
    <3>3. CASE d = idx
      BY <3>1, <3>2, <3>3, <2>1, <2>3, <1>0
    <3>4. CASE d # idx /\ d \in 0..(n - 1)
      <4>1. ByteAt(d, n) \in 0..(n - 1) /\ ByteAt(ByteAt(d, n), n) = d
        BY <3>4, <1>0, ByteAtIs
      <4>2. ByteAt(d, n) # k - 1
        BY <4>1, <3>4 DEF idx
      <4>3. ByteAt(d, n) < k <=> ByteAt(d, n) < k - 1
        BY <4>1, <4>2, <1>0
      <4> QED BY <4>3, <3>1, <3>2, <3>4
    <3>5. CASE d \notin 0..(n - 1)
      BY <3>1, <3>2, <3>5, <2>3
    <3> QED BY <3>3, <3>4, <3>5
  <2> HIDE DEF old, new, idx, left
  <2>5. Rep(T, f[k], new, StaleAfter(off, idx, left(k - 1)), ws)
    <3> DEFINE i == k - 1
               prev == f[k - 1]
               st == left(k - 1)
    <3>1. i \in 0..(NumBytes(e.w) - 1) /\ idx = ByteAt(i, NumBytes(e.w))
      BY <2>1 DEF n, idx
    <3>2. Rep(T, prev, old, st, ws)
      BY <2>2
    <3>3. ByteWritten(new, old, ws, off, idx, e, i)
      BY <2>4 DEF ByteWritten
    <3>4. f[k] = WriteByte(prev, off, e, i)
      BY <2>1
    <3>5. Inside(T, off, NumBytes(e.w), ws)
      OBVIOUS
    <3> HIDE DEF i, prev, st
    <3>6. Rep(T, WriteByte(prev, off, e, i), new, StaleAfter(off, idx, st), ws)
      BY <3>1, <3>2, <3>3, <3>5, WriteByteIs
    <3> QED BY <3>4, <3>6 DEF st
  <2>6. StaleAfter(off, idx, left(k - 1)) = left(k)
    <3>1. 0..(k - 1) = 0..((k - 1) - 1) \cup {k - 1}
      BY <1>0, <1>5
    <3> QED BY <3>1 DEF left, idx, StaleAfter
  <2> QED BY <2>5, <2>6 DEF new
<1> HIDE DEF Kept
<1>6. Bad = {}
  <2> SUFFICES ASSUME Bad # {}
               PROVE  FALSE
    OBVIOUS
  <2>1. PICK m \in Bad : \A k \in Bad : m <= k
    <3>1. Bad \in SUBSET Nat
      BY <1>0
    <3> QED BY <3>1, FirstOf
  <2>2. m # 0
    BY <2>1, <1>4
  <2>3. m - 1 \in 0..n /\ ~(m <= m - 1)
    BY <2>1, <2>2, <1>0
  <2>4. Kept(m - 1)
    BY <2>1, <2>3
  <2> QED BY <2>1, <2>2, <2>4, <1>5
<1>7. Rep(T, Write(os, offset, e), Put(mem, ws, off, e, n), left(n), ws)
  <2>1. Kept(n)
    BY <1>6, <1>0
  <2> QED BY <2>1, <1>1 DEF Kept
<1>8. ASSUME IsConstant(off)
      PROVE  {off.v + ByteAt(i, n) : i \in 0..(n - 1)} = (off.v)..(off.v + n - 1)
  <2>1. off.v \in Nat
    BY <1>8 DEF Inside, LanguageIsSound, ConstantsAreRight, Of
  <2>2. ASSUME NEW i \in 0..(n - 1)
        PROVE  off.v + ByteAt(i, n) \in (off.v)..(off.v + n - 1)
    <3>1. ByteAt(i, n) \in 0..(n - 1)
      BY <1>0, ByteAtIs
    <3> QED BY <3>1, <2>1, <1>0
  <2>3. ASSUME NEW j \in (off.v)..(off.v + n - 1)
        PROVE  \E i \in 0..(n - 1) : j = off.v + ByteAt(i, n)
    <3> DEFINE d == j - off.v
    <3>1. d \in 0..(n - 1) /\ j = off.v + d
      BY <2>1, <1>0
    <3> HIDE DEF d
    <3>2. ByteAt(d, n) \in 0..(n - 1) /\ ByteAt(ByteAt(d, n), n) = d
      BY <3>1, <1>0, ByteAtIs
    <3> QED BY <3>1, <3>2
  <2> QED BY <2>2, <2>3
<1> QED BY <1>7, <1>8 DEF n

\* The loop of read.
NextByte(os, off, n, got, k) ==
  LET byte == ReadByte(got[1], off, ByteAt(k, n))
  IN <<byte[1], ConcatExpr(byte[2], got[2])>>
ReadLoop(os, off, n, f, m) ==
  f = [k \in 0..m |-> IF k = 0 THEN ReadByte(os, off, ByteAt(0, n))
                      ELSE NextByte(os, off, n, f[k - 1], k)]

LEMMA ReadLoopIs ==
  ASSUME NEW os, NEW offset, NEW w, NEW n \in Nat \ {0}, n = NumBytes(w)
  PROVE  \E f : /\ ReadLoop(os, Narrow(offset), n, f, n - 1)
                /\ Read(os, offset, w) = IF w = BoolWidth
                                         THEN <<f[0][1], ExtractExpr(f[0][2], 0, BoolWidth)>>
                                         ELSE f[n - 1]
<1> DEFINE off == Narrow(offset)
           Bad == {m \in Nat : ~\E f : ReadLoop(os, off, n, f, m)}
           byte0 == ReadByte(os, off, ByteAt(0, n))
<1>1. Bad = {}
  <2> SUFFICES ASSUME Bad # {}
               PROVE  FALSE
    OBVIOUS
  <2>1. PICK m \in Bad : \A k \in Bad : m <= k
    BY FirstOf
  <2>2. m # 0
    <3>1. ReadLoop(os, off, n, [k \in 0..0 |-> byte0], 0)
      BY DEF ReadLoop
    <3> QED BY <3>1, <2>1
  <2>3. PICK f : ReadLoop(os, off, n, f, m - 1)
    BY <2>1, <2>2
  <2> DEFINE g == [k \in 0..m |-> IF k = m THEN NextByte(os, off, n, f[m - 1], m) ELSE f[k]]
  <2>4. ReadLoop(os, off, n, g, m)
    <3>1. \A k \in 0..(m - 1) : g[k] = f[k]
      BY <2>1
    <3>2. \A k \in 0..(m - 1) : f[k] = IF k = 0 THEN byte0 ELSE NextByte(os, off, n, f[k - 1], k)
      BY <2>3 DEF ReadLoop
    <3>3. ASSUME NEW k \in 0..m
          PROVE  g[k] = IF k = 0 THEN byte0 ELSE NextByte(os, off, n, g[k - 1], k)
      <4>1. CASE k = m
        <5>1. k - 1 \in 0..(m - 1)
          BY <4>1, <2>2, <2>1
        <5> QED BY <4>1, <3>1, <5>1, <2>2
      <4>2. CASE k # m
        <5>1. k \in 0..(m - 1) /\ (k # 0 => k - 1 \in 0..(m - 1))
          BY <4>2, <2>1
        <5> QED BY <5>1, <3>1, <3>2
      <4> QED BY <4>1, <4>2
    <3> QED BY <3>3 DEF ReadLoop
  <2> QED BY <2>4, <2>1
<1>2. PICK h : ReadLoop(os, off, n, h, n - 1)
  BY <1>1
<1> DEFINE F == CHOOSE f : f = [i \in 0..(n - 1) |->
                  IF i = 0 THEN ReadByte(os, off, ByteAt(0, n))
                  ELSE LET byte == ReadByte(f[i - 1][1], off, ByteAt(i, n))
                       IN <<byte[1], ConcatExpr(byte[2], f[i - 1][2])>>]
<1>3. ReadLoop(os, off, n, F, n - 1)
  BY <1>2 DEF ReadLoop, NextByte
<1>4. Read(os, offset, w) = IF w = BoolWidth THEN <<F[0][1], ExtractExpr(F[0][2], 0, BoolWidth)>> ELSE F[n - 1]
  BY DEF Read
<1> QED BY <1>3, <1>4

\* A byte as a value, and the value with one byte more.
LEMMA ByteIs ==
  ASSUME NEW T, LanguageIsSound(T), NEW b \in Of(T, Int8), NEW wd \in Worlds
  PROVE  /\ ByteOf(ValueOf(b, wd), 0) = ValueOf(b, wd)
         /\ ByteOf(ValueOf(ExtractExpr(b, 0, BoolWidth), wd), 0) = ValueOf(b, wd) % 2
<1>1. ValuesAreRight(T, wd)
  BY DEF LanguageIsSound
<1> QED BY <1>1 DEF ValuesAreRight

LEMMA ConcatIs ==
  ASSUME NEW T, LanguageIsSound(T), NEW n \in 1..Size,
         NEW t \in Of(T, n * Int8), NEW b \in Of(T, Int8)
  PROVE  /\ ConcatExpr(b, t) \in Of(T, (n + 1) * Int8)
         /\ \A wd \in Worlds : /\ ByteOf(ValueOf(ConcatExpr(b, t), wd), n) = ValueOf(b, wd)
                               /\ \A i \in 0..(n - 1) :
                                     ByteOf(ValueOf(ConcatExpr(b, t), wd), i) = ByteOf(ValueOf(t, wd), i)
<1>1. ConcatExpr(b, t) \in Of(T, (n + 1) * Int8)
  BY DEF LanguageIsSound, Closed
<1>2. ASSUME NEW wd \in Worlds, NEW i \in 0..(n - 1)
      PROVE  /\ ByteOf(ValueOf(ConcatExpr(b, t), wd), n) = ValueOf(b, wd)
             /\ ByteOf(ValueOf(ConcatExpr(b, t), wd), i) = ByteOf(ValueOf(t, wd), i)
  <2>1. ValuesAreRight(T, wd)
    BY DEF LanguageIsSound
  <2> QED BY <2>1 DEF ValuesAreRight
<1>3. 0 \in 0..(n - 1)
  BY ObjectAssumption
<1> QED BY <1>1, <1>2, <1>3

\* After the turn k of the loop: an object, and the value of k + 1 bytes.
LEMMA ReadIs ==
  ASSUME NEW T, LanguageIsSound(T), NEW os, NEW mem, NEW stale, NEW ws,
         Rep(T, os, mem, stale, ws), Bytes(mem, ws), NEW w, Accessed(w),
         NEW offset, NEW off, off = Narrow(offset), Inside(T, off, NumBytes(w), ws)
  PROVE  /\ Rep(T, Read(os, offset, w)[1], mem, stale, ws)
         /\ stale = {} => \A wd \in ws, i \in 0..(NumBytes(w) - 1) :
              ByteOf(ValueOf(Read(os, offset, w)[2], wd), i)
                = Seen(mem[wd][ValueOf(off, wd) + ByteAt(i, NumBytes(w))], w)
<1> DEFINE n == NumBytes(w)
<1>0. n \in 1..Size /\ n \in Nat \ {0} /\ Size \in Nat /\ Int8 \in Nat
  BY ObjectAssumption DEF Accessed
<1>1. PICK f : /\ ReadLoop(os, off, n, f, n - 1)
               /\ Read(os, offset, w) = IF w = BoolWidth THEN <<f[0][1], ExtractExpr(f[0][2], 0, BoolWidth)>>
                                                    ELSE f[n - 1]
  BY <1>0, ReadLoopIs
<1> HIDE DEF n
<1>2. /\ f[0] = ReadByte(os, off, ByteAt(0, n))
      /\ \A k \in 0..(n - 1) : k # 0 => f[k] = NextByte(os, off, n, f[k - 1], k)
  BY <1>0, <1>1 DEF ReadLoop
<1> DEFINE Right(v, k) == stale = {} => \A wd \in ws, i \in 0..k :
                            ByteOf(ValueOf(v, wd), i) = mem[wd][ValueOf(off, wd) + ByteAt(i, n)]
           Kept(k) == /\ Rep(T, f[k][1], mem, stale, ws)
                      /\ f[k][2] \in Of(T, (k + 1) * Int8) /\ Right(f[k][2], k)
           Bad == {k \in 0..(n - 1) : ~Kept(k)}
<1>3. ws \subseteq Worlds /\ Inside(T, off, n, ws)
  BY DEF Inside, n
<1>4. ASSUME NEW k \in 0..(n - 1), NEW os2, Rep(T, os2, mem, stale, ws),
             NEW got, got = ReadByte(os2, off, ByteAt(k, n))
      PROVE  /\ Rep(T, got[1], mem, stale, ws) /\ got[2] \in Of(T, Int8)
             /\ stale = {} => \A wd \in ws : ValueOf(got[2], wd) = mem[wd][ValueOf(off, wd) + ByteAt(k, n)]
  <2>1. ByteAt(k, n) \in 0..(n - 1)
    BY <1>0, ByteAtIs
  <2> QED BY <2>1, <1>0, <1>3, <1>4, ReadByteIs
<1>5. Kept(0)
  <2>1. /\ Rep(T, f[0][1], mem, stale, ws) /\ f[0][2] \in Of(T, Int8)
        /\ stale = {} => \A wd \in ws : ValueOf(f[0][2], wd) = mem[wd][ValueOf(off, wd) + ByteAt(0, n)]
    <3>1. 0 \in 0..(n - 1)
      BY <1>0
    <3> QED BY <3>1, <1>2, <1>4
  <2>2. (0 + 1) * Int8 = Int8
    BY <1>0
  <2>3. Right(f[0][2], 0)
    <3>1. ASSUME stale = {}, NEW wd \in ws, NEW i \in 0..0
          PROVE  ByteOf(ValueOf(f[0][2], wd), i) = mem[wd][ValueOf(off, wd) + ByteAt(i, n)]
      <4>1. i = 0
        OBVIOUS
      <4>2. ByteOf(ValueOf(f[0][2], wd), 0) = ValueOf(f[0][2], wd)
        BY <2>1, <1>3, ByteIs
      <4> QED BY <4>1, <4>2, <3>1, <2>1
    <3> QED BY <3>1
  <2> QED BY <2>1, <2>2, <2>3
<1>6. ASSUME NEW k \in 0..(n - 1), k # 0, Kept(k - 1)
      PROVE  Kept(k)
  <2> DEFINE prev == f[k - 1]
             byte == ReadByte(prev[1], off, ByteAt(k, n))
             b == byte[2]
             t == prev[2]
  <2>1. f[k] = <<byte[1], ConcatExpr(b, t)>>
    BY <1>2, <1>6 DEF NextByte
  <2>2. k \in 1..Size /\ k + 1 \in Nat /\ k - 1 + 1 = k
    BY <1>0, <1>6
  <2>3. Rep(T, prev[1], mem, stale, ws) /\ t \in Of(T, k * Int8) /\ Right(t, k - 1)
    BY <2>2, <1>6
  <2>4. /\ Rep(T, byte[1], mem, stale, ws) /\ b \in Of(T, Int8)
        /\ stale = {} => \A wd \in ws : ValueOf(b, wd) = mem[wd][ValueOf(off, wd) + ByteAt(k, n)]
    BY <2>3, <1>4
  <2> HIDE DEF prev, byte, b, t
  <2>5. /\ ConcatExpr(b, t) \in Of(T, (k + 1) * Int8)
        /\ \A wd \in Worlds : /\ ByteOf(ValueOf(ConcatExpr(b, t), wd), k) = ValueOf(b, wd)
                               /\ \A i \in 0..(k - 1) :
                                    ByteOf(ValueOf(ConcatExpr(b, t), wd), i) = ByteOf(ValueOf(t, wd), i)
    BY <2>2, <2>3, <2>4, ConcatIs
  <2>6. Right(ConcatExpr(b, t), k)
    <3>1. ASSUME stale = {}, NEW wd \in ws, NEW i \in 0..k
          PROVE  ByteOf(ValueOf(ConcatExpr(b, t), wd), i) = mem[wd][ValueOf(off, wd) + ByteAt(i, n)]
      <4>1. CASE i = k
        BY <4>1, <3>1, <2>4, <2>5, <1>3
      <4>2. CASE i # k
        <5>1. i \in 0..(k - 1)
          BY <4>2, <2>2
        <5> QED BY <5>1, <3>1, <2>3, <2>5, <1>3
      <4> QED BY <4>1, <4>2
    <3> QED BY <3>1
  <2>7. f[k][1] = byte[1] /\ f[k][2] = ConcatExpr(b, t)
    BY <2>1
  <2> QED BY <2>4, <2>5, <2>6, <2>7
<1> HIDE DEF Kept
<1>7. Bad = {}
  <2> SUFFICES ASSUME Bad # {}
               PROVE  FALSE
    OBVIOUS
  <2>1. PICK m \in Bad : \A k \in Bad : m <= k
    <3>1. Bad \in SUBSET Nat
      BY <1>0
    <3> QED BY <3>1, FirstOf
  <2>2. m # 0
    BY <2>1, <1>5
  <2>3. m - 1 \in 0..(n - 1) /\ ~(m <= m - 1)
    BY <2>1, <2>2, <1>0
  <2>4. Kept(m - 1)
    BY <2>1, <2>3
  <2> QED BY <2>1, <2>2, <2>4, <1>6
<1>8. n - 1 \in 0..(n - 1) /\ 0 \in 0..(n - 1)
  BY <1>0
<1>9. CASE w = BoolWidth
  <2>1. n = 1 /\ Kept(0)
    BY <1>7, <1>8, <1>9 DEF n, NumBytes
  <2>2. /\ Rep(T, f[0][1], mem, stale, ws) /\ f[0][2] \in Of(T, (0 + 1) * Int8) /\ Right(f[0][2], 0)
    BY <2>1 DEF Kept
  <2>3. f[0][2] \in Of(T, Int8)
    <3>1. (0 + 1) * Int8 = Int8
      BY <1>0
    <3> QED BY <3>1, <2>2
  <2>4. /\ Read(os, offset, w)[1] = f[0][1]
        /\ Read(os, offset, w)[2] = ExtractExpr(f[0][2], 0, BoolWidth)
    BY <1>1, <1>9
  <2>5. ASSUME stale = {}, NEW wd \in ws, NEW i \in 0..(n - 1)
        PROVE  ByteOf(ValueOf(Read(os, offset, w)[2], wd), i) = Seen(mem[wd][ValueOf(off, wd) + ByteAt(i, n)], w)
    <3>1. i = 0
      BY <2>1
    <3>2. /\ ByteOf(ValueOf(f[0][2], wd), 0) = ValueOf(f[0][2], wd)
          /\ ByteOf(ValueOf(ExtractExpr(f[0][2], 0, BoolWidth), wd), 0) = ValueOf(f[0][2], wd) % 2
      BY <2>3, <1>3, ByteIs
    <3>3. ByteOf(ValueOf(f[0][2], wd), 0) = mem[wd][ValueOf(off, wd) + ByteAt(0, n)]
      BY <2>2, <2>5
    <3> QED BY <3>1, <3>2, <3>3, <2>4, <1>9 DEF Seen
  <2> QED BY <2>2, <2>4, <2>5 DEF n
<1>10. CASE w # BoolWidth
  <2>1. Rep(T, f[n - 1][1], mem, stale, ws) /\ Right(f[n - 1][2], n - 1)
    BY <1>7, <1>8 DEF Kept
  <2>2. Read(os, offset, w) = f[n - 1]
    BY <1>1, <1>10
  <2> QED BY <2>1, <2>2, <1>10 DEF n, Seen
<1> QED BY <1>9, <1>10

-----------------------------------------------------------------------------
(* The steps.                                                              *)

Memories == UNION {[D -> [Position -> Byte]] : D \in SUBSET Worlds}

Lengths == Len(contents) = Len(objects) /\ Len(outdated) = Len(objects)

\* The invariant behind ReadsSeeWrites.
RepInv(T) ==
  /\ path \in SUBSET Worlds
  /\ objects \in Seq(Objects(T)) /\ contents \in Seq(Memories) /\ outdated \in Seq(SUBSET Position)
  /\ Lengths
  /\ \A o \in DOMAIN objects :
       path \subseteq DOMAIN contents[o] /\ Rep(T, objects[o], contents[o], outdated[o], path)

\* The terms of the program are terms of the language.
Terms(T) == LanguageIsSound(T) /\ Offsets \subseteq T /\ Values \subseteq T

LEMMA MemoryIs ==
  ASSUME NEW m
  PROVE  /\ m \in Memories => /\ DOMAIN m \subseteq Worlds
                             /\ \A wd \in DOMAIN m : m[wd] \in [Position -> Byte]
         /\ \A D \in SUBSET Worlds : m \in [D -> [Position -> Byte]] => m \in Memories
<1>1. ASSUME m \in Memories
      PROVE  DOMAIN m \subseteq Worlds /\ \A wd \in DOMAIN m : m[wd] \in [Position -> Byte]
  <2>1. PICK D \in SUBSET Worlds : m \in [D -> [Position -> Byte]]
    BY <1>1 DEF Memories
  <2> QED BY <2>1
<1> QED BY <1>1 DEF Memories

LEMMA InBoundsIs ==
  ASSUME NEW T, Terms(T), path \in SUBSET Worlds, NEW off \in Offsets,
         NEW n \in Nat \ {0}, NEW inside, inside = InBounds(off, n), inside # {}
  PROVE  /\ n \in 1..Size /\ inside \in SUBSET path /\ Inside(T, Narrow(off), n, inside)
         /\ \A wd \in inside : ValueOf(Narrow(off), wd) = ValueOf(off, wd)
         /\ IsConstant(off) => IsConstant(Narrow(off)) /\ Narrow(off).v = off.v
<1>0. Size \in Nat \ {0} /\ off \in T /\ LanguageIsSound(T)
  BY ObjectAssumption DEF Terms
<1>1. inside \in SUBSET path /\ inside \in SUBSET Worlds
      /\ \A wd \in inside : ValueOf(BoundsCheck(off, n), wd) = 1
  BY DEF InBounds
<1>2. n <= Size
  <2> SUFFICES ASSUME ~(n <= Size)
               PROVE  FALSE
    OBVIOUS
  <2>1. BoundsCheck(off, n) = ConstantExpr(0, BoolWidth)
    BY DEF BoundsCheck
  <2> QED BY <2>1, <1>1, BoundsAssumption
<1>3. n \in 1..Size
  BY <1>0, <1>2
<1>4. \A wd \in inside : ValueOf(off, wd) \in 0..(Size - n)
  BY <1>1, <1>3, BoundsAssumption
<1>5. \A wd \in inside : ValueOf(off, wd) \in Position
  BY <1>0, <1>3, <1>4 DEF Position
<1>6. /\ Narrow(off) \in Of(T, Int32) /\ (IsConstant(off) => IsConstant(Narrow(off)))
      /\ \A wd \in inside : ValueOf(Narrow(off), wd) = ValueOf(off, wd)
  BY <1>0, <1>1, <1>5, NarrowIs
<1>7. Inside(T, Narrow(off), n, inside)
  BY <1>1, <1>4, <1>6 DEF Inside
<1>8. ASSUME IsConstant(off)
      PROVE  Narrow(off).v = off.v
  <2>1. PICK wd \in inside : TRUE
    OBVIOUS
  <2>2. Narrow(off) \in T /\ IsConstant(Narrow(off)) /\ wd \in Worlds
    BY <1>1, <1>6, <1>8 DEF Of
  <2>3. ValueOf(off, wd) = off.v /\ ValueOf(Narrow(off), wd) = Narrow(off).v
    BY <2>2, <1>0, <1>8 DEF LanguageIsSound, ConstantsAreRight
  <2> QED BY <2>3, <1>6
<1> QED BY <1>1, <1>3, <1>6, <1>7, <1>8

\* Only the bytes of a memory in the worlds of the path count.
LEMMA RepSame ==
  ASSUME NEW T, NEW os, NEW mem, NEW new, NEW stale, NEW ws,
         Rep(T, os, mem, stale, ws), \A wd \in ws, j \in Position : new[wd][j] = mem[wd][j]
  PROVE  Rep(T, os, new, stale, ws)
BY DEF Rep, Represents

LEMMA RepInvInit ==
  ASSUME NEW T, Terms(T), Init
  PROVE  RepInv(T)
<1>0. path \in SUBSET Worlds
  BY DEF Init
<1>1. ASSUME NEW os \in Objects(T), NEW mem \in [path -> [Position -> Byte]],
             objects = <<os>>, contents = <<mem>>, outdated = <<{}>>,
             CacheInvariants(os), Represents(os, mem, {}, path)
      PROVE  RepInv(T)
  <2>1. mem \in Memories
    BY <1>0, MemoryIs
  <2>2. /\ objects \in Seq(Objects(T)) /\ contents \in Seq(Memories) /\ outdated \in Seq(SUBSET Position)
        /\ Lengths /\ DOMAIN objects = {1}
    BY <1>1, <2>1 DEF Lengths
  <2>3. /\ objects[1] = os /\ contents[1] = mem /\ outdated[1] = {}
    BY <1>1
  <2> QED BY <1>0, <1>1, <2>2, <2>3 DEF RepInv, Rep
<1>2. NoneKnown \in UNION {[D -> Of(T, Int8)] : D \in SUBSET Position} /\ DOMAIN NoneKnown = {}
  <2>1. DOMAIN NoneKnown = {} /\ NoneKnown = [j \in DOMAIN NoneKnown |-> NoneKnown[j]]
    BY DEF NoneKnown
  <2> QED BY <2>1, KnownIs
<1>3. ASSUME NEW byte \in {0, 2}, objects = <<ConcreteObject(byte)>>,
             contents = <<[wd \in path |-> [i \in Position |-> byte]]>>
      PROVE  RepInv(T)
  <2> DEFINE os == ConcreteObject(byte)
             root == IF UseConstantArrays THEN NoArray ELSE TmpArray
             mem == [wd \in path |-> [i \in Position |-> byte]]
  <2>1. byte \in Byte /\ root \in Roots \cup {NoArray}
    BY ByteAssumption DEF Roots
  <2> DEFINE first == NewObject(root)
  <2>2. <<>> \in Seq(Updates(T)) /\ 0 \in Byte
    BY ByteAssumption
  <2>3. /\ first \in Objects(T) /\ first.known = NoneKnown
    BY <2>1, <2>2, <1>2 DEF NewObject, Objects
  <2>4. os = [MakeConcrete(first) EXCEPT !.store = [i \in Position |-> byte]]
    BY DEF ConcreteObject
  <2> HIDE DEF os, first
  <2>5. /\ os \in Objects(T) /\ os.store = [i \in Position |-> byte] /\ os.known = NoneKnown
        /\ os.concrete = Position /\ os.unflushed = Position
    BY <2>1, <2>3, <2>4, <1>2 DEF MakeConcrete, Objects
  <2>7. CacheInvariants(os) /\ Represents(os, mem, {}, path)
    BY <2>5, <1>2 DEF CacheInvariants, Represents
  <2>6. mem \in [path -> [Position -> Byte]] /\ outdated = <<{}>>
    BY <2>1 DEF Init
  <2> QED BY <2>5, <2>6, <2>7, <1>1, <1>3 DEF os
<1>4. ASSUME objects = <<SymbolicObject>>, contents = <<[wd \in path |-> wd[SymbolicArray]]>>
      PROVE  RepInv(T)
  <2> DEFINE new == NewObject(SymbolicArray)
             os == SymbolicObject
             mem == [wd \in path |-> wd[SymbolicArray]]
  <2>1. <<>> \in Seq(Updates(T)) /\ 0 \in Byte /\ SymbolicArray \in Roots
    BY ByteAssumption DEF Roots
  <2>2. new \in Objects(T) /\ new.ups = <<>>
    BY <2>1, <1>2 DEF NewObject, Objects
  <2>3. Check(new, new.ups = <<>>) = new
    BY <2>2, CheckIs
  <2>4. os = [new EXCEPT !.concrete = {}, !.unflushed = {}, !.known = NoneKnown]
    BY <2>3 DEF SymbolicObject, MakeSymbolic
  <2>5. /\ os.concrete = {} /\ os.unflushed = {} /\ os.known = NoneKnown /\ os.ups = <<>>
        /\ os.root = SymbolicArray /\ os \in Objects(T)
    BY <2>2, <2>4, <1>2 DEF Objects, NewObject
  <2> HIDE DEF os
  <2>6. mem \in [path -> [Position -> Byte]] /\ outdated = <<{}>>
    BY <1>0, ArrayAssumption DEF Init
  <2>7. ASSUME NEW wd \in path, NEW i \in Position
        PROVE  Lists(os.root, os.ups, i, wd, mem[wd][i])
    <3>1. RootByte(os.root, i, wd) = mem[wd][i]
      BY <2>5, ArrayAssumption DEF RootByte, Roots
    <3>2. DOMAIN os.ups = {}
      BY <2>5
    <3> QED BY <3>1, <3>2 DEF Lists
  <2>8. CacheInvariants(os) /\ Represents(os, mem, {}, path)
    BY <2>5, <2>7, <1>2 DEF CacheInvariants, Represents
  <2> QED BY <2>5, <2>6, <2>8, <1>1, <1>4 DEF os
<1> QED BY <1>3, <1>4 DEF Init

\* One object and its memory change, in some of the worlds; the others stay.
LEMMA OneChanges ==
  ASSUME NEW T, RepInv(T), NEW o \in DOMAIN objects, NEW ws \in SUBSET path, path' = ws,
         NEW os, NEW mem \in Memories, NEW stale \in SUBSET Position,
         objects' = [objects EXCEPT ![o] = os], contents' = [contents EXCEPT ![o] = mem],
         outdated' = [outdated EXCEPT ![o] = stale],
         ws \subseteq DOMAIN mem, Rep(T, os, mem, stale, ws)
  PROVE  RepInv(T)'
<1>1. /\ objects \in Seq(Objects(T)) /\ contents \in Seq(Memories) /\ outdated \in Seq(SUBSET Position)
      /\ Lengths
  BY DEF RepInv
<1>2. DOMAIN objects = 1..Len(objects) /\ DOMAIN contents = DOMAIN objects /\ DOMAIN outdated = DOMAIN objects
  BY <1>1 DEF Lengths
<1>3. os \in Objects(T)
  BY DEF Rep
<1>4. /\ objects' \in Seq(Objects(T)) /\ contents' \in Seq(Memories) /\ outdated' \in Seq(SUBSET Position)
      /\ Lengths' /\ DOMAIN objects' = DOMAIN objects
  BY <1>1, <1>2, <1>3 DEF Lengths
<1>5. ASSUME NEW p \in DOMAIN objects
      PROVE  path' \subseteq DOMAIN contents'[p] /\ Rep(T, objects'[p], contents'[p], outdated'[p], path')
  <2>1. CASE p = o
    <3>1. objects'[p] = os /\ contents'[p] = mem /\ outdated'[p] = stale
      BY <2>1, <1>2
    <3> QED BY <3>1
  <2>2. CASE p # o
    <3>1. objects'[p] = objects[p] /\ contents'[p] = contents[p] /\ outdated'[p] = outdated[p]
      BY <2>2, <1>2
    <3>2. path \subseteq DOMAIN contents[p] /\ Rep(T, objects[p], contents[p], outdated[p], path)
      BY DEF RepInv
    <3> QED BY <3>1, <3>2, RepWeakens
  <2> QED BY <2>1, <2>2
<1>6. path' \in SUBSET Worlds
  BY DEF RepInv
<1> QED BY <1>4, <1>5, <1>6 DEF RepInv

LEMMA ObjectIs ==
  ASSUME NEW T, RepInv(T), NEW o \in DOMAIN objects
  PROVE  /\ contents[o] \in Memories /\ outdated[o] \in SUBSET Position /\ path \in SUBSET Worlds
         /\ Rep(T, objects[o], contents[o], outdated[o], path)
         /\ path \subseteq DOMAIN contents[o] /\ Bytes(contents[o], path)
         /\ DOMAIN contents = DOMAIN objects /\ DOMAIN outdated = DOMAIN objects
<1>1. /\ objects \in Seq(Objects(T)) /\ contents \in Seq(Memories) /\ outdated \in Seq(SUBSET Position)
      /\ Lengths
  BY DEF RepInv
<1>2. DOMAIN contents = DOMAIN objects /\ DOMAIN outdated = DOMAIN objects
  BY <1>1 DEF Lengths
<1>3. contents[o] \in Memories /\ outdated[o] \in SUBSET Position
  BY <1>1, <1>2
<1>4. path \subseteq DOMAIN contents[o]
  BY DEF RepInv
<1>5. Bytes(contents[o], path)
  BY <1>3, <1>4, MemoryIs DEF Bytes
<1> QED BY <1>2, <1>3, <1>4, <1>5 DEF RepInv

LEMMA WidthIs ==
  ASSUME NEW w, w \in Widths \/ \E e \in Values : w = e.w
  PROVE  NumBytes(w) \in Nat \ {0} /\ (w # BoolWidth => w = NumBytes(w) * Int8)
BY WidthAssumption

LEMMA StoreKeeps ==
  ASSUME NEW T, Terms(T), RepInv(T), NEW o \in DOMAIN objects,
         NEW off \in Offsets, NEW e \in Values, Store(o, off, e)
  PROVE  RepInv(T)'
<1> DEFINE n == NumBytes(e.w)
           inside == InBounds(off, n)
           t == Narrow(off)
           os == Write(objects[o], off, e)
           mem == contents'[o]
           stale == IF IsConstant(off) THEN outdated[o] \ (off.v)..(off.v + n - 1) ELSE outdated[o]
<1>0. e \in T /\ LanguageIsSound(T) /\ n \in Nat \ {0} /\ path \in SUBSET Worlds
  BY WidthIs DEF Terms, RepInv
<1>1. /\ inside # {} /\ path' = inside
      /\ objects' = [objects EXCEPT ![o] = os] /\ outdated' = [outdated EXCEPT ![o] = stale]
  <2>1. DOMAIN objects = DOMAIN outdated
    BY ObjectIs
  <2> QED BY <2>1 DEF Store, Step
<1>2. /\ contents' = [contents EXCEPT ![o] = mem]
      /\ DOMAIN mem = inside /\ mem = [wd \in inside |-> mem[wd]]
      /\ \A wd \in inside : mem[wd] =
           [i \in Position |-> IF i \notin ValueOf(off, wd)..(ValueOf(off, wd) + n - 1) THEN contents[o][wd][i]
                           ELSE ByteOf(ValueOf(e, wd), ByteAt(i - ValueOf(off, wd), n))]
  <2>1. DOMAIN contents = DOMAIN objects
    BY ObjectIs
  <2> QED BY <2>1 DEF Store
<1>3. /\ n \in 1..Size /\ inside \in SUBSET path /\ Inside(T, t, n, inside)
      /\ \A wd \in inside : ValueOf(t, wd) = ValueOf(off, wd)
      /\ IsConstant(off) => IsConstant(t) /\ t.v = off.v
  BY <1>0, <1>1, InBoundsIs
<1>4. /\ Rep(T, objects[o], contents[o], outdated[o], inside) /\ Bytes(contents[o], inside)
      /\ outdated[o] \in SUBSET Position
  <2>1. /\ Rep(T, objects[o], contents[o], outdated[o], path) /\ Bytes(contents[o], path)
        /\ outdated[o] \in SUBSET Position
    BY ObjectIs
  <2>2. Rep(T, objects[o], contents[o], outdated[o], inside)
    BY <2>1, <1>3, RepWeakens
  <2>3. Bytes(contents[o], inside)
    BY <2>1, <1>3 DEF Bytes
  <2> QED BY <2>1, <2>2, <2>3
<1> DEFINE put == Put(contents[o], inside, t, e, n)
           less == IF IsConstant(t) THEN outdated[o] \ (t.v)..(t.v + n - 1) ELSE outdated[o]
<1>5. Rep(T, os, put, less, inside)
  <2>1. Accessed(e.w)
    BY <1>0, <1>3, WidthIs DEF Accessed
  <2> QED BY <2>1, <1>0, <1>3, <1>4, WriteIs
<1>6. Size \in Nat /\ Position = 0..(Size - 1) /\ \A wd \in inside : ValueOf(t, wd) \in Nat
  BY <1>3, ObjectAssumption DEF Inside, Position
<1>7. ASSUME NEW wd \in inside, NEW j \in Position
      PROVE  mem[wd][j] = put[wd][j] /\ mem[wd][j] \in Byte
  <2> DEFINE d == j - ValueOf(t, wd)
             v == ValueOf(e, wd)
  <2>1. /\ mem[wd][j] = IF j \notin ValueOf(t, wd)..(ValueOf(t, wd) + n - 1) THEN contents[o][wd][j]
                        ELSE ByteOf(v, ByteAt(d, n))
        /\ put[wd][j] = IF d \in 0..(n - 1) /\ ByteAt(d, n) < n THEN ByteOf(v, ByteAt(d, n))
                        ELSE contents[o][wd][j]
    <3> HIDE DEF n, inside, t
    <3>1. put[wd][j] = IF d \in 0..(n - 1) /\ ByteAt(d, n) < n THEN ByteOf(v, ByteAt(d, n))
                       ELSE contents[o][wd][j]
      BY DEF Put, n
    <3>2. ValueOf(t, wd) = ValueOf(off, wd)
      BY <1>3
    <3> HIDE DEF mem, put
    <3>3. mem[wd][j] = IF j \notin ValueOf(t, wd)..(ValueOf(t, wd) + n - 1) THEN contents[o][wd][j]
                       ELSE ByteOf(v, ByteAt(d, n))
      BY <1>2, <3>2
    <3> QED BY <3>1, <3>3
  <2>2. d \in Int /\ (d \in 0..(n - 1) <=> j \in ValueOf(t, wd)..(ValueOf(t, wd) + n - 1))
    BY <1>0, <1>6
  <2>3. v \in Nat
    BY <1>0, <1>3 DEF LanguageIsSound, ValuesAreRight
  <2>4. contents[o][wd][j] \in Byte
    BY <1>4 DEF Bytes
  <2> HIDE DEF d, v, mem, put, n, inside, t
  <2>5. CASE d \in 0..(n - 1)
    <3>1. ByteAt(d, n) \in 0..(n - 1)
      BY <2>5, <1>0, ByteAtIs
    <3>2. ByteAt(d, n) < n /\ ByteAt(d, n) \in 0..Size
      BY <3>1, <1>0, <1>3, <1>6
    <3>3. ByteOf(v, ByteAt(d, n)) \in Byte
      BY <3>2, <2>3, ByteOfIs
    <3> QED BY <3>2, <3>3, <2>1, <2>2, <2>5
  <2>6. CASE d \notin 0..(n - 1)
    BY <2>6, <2>1, <2>2, <2>4
  <2> QED BY <2>5, <2>6
<1>8. mem \in Memories
  <2>1. mem = [wd \in inside |-> mem[wd]]
    BY <1>2
  <2>2. \A wd \in inside : mem[wd] \in [Position -> Byte]
    BY <1>2, <1>7
  <2>3. inside \in SUBSET Worlds
    BY <1>0, <1>3
  <2> HIDE DEF mem, inside
  <2>4. mem \in [inside -> [Position -> Byte]]
    BY <2>1, <2>2
  <2> QED BY <2>3, <2>4, MemoryIs
<1>9. Rep(T, os, mem, stale, inside) /\ stale \in SUBSET Position
  <2>1. less \subseteq stale
    BY <1>3
  <2>2. \A wd \in inside, j \in Position : mem[wd][j] = put[wd][j]
    BY <1>7
  <2> HIDE DEF less, put, mem, os, inside
  <2>3. Rep(T, os, mem, less, inside)
    BY <2>2, <1>5, RepSame
  <2>4. Rep(T, os, mem, stale, inside)
    BY <2>1, <2>3, RepWeakens
  <2> QED BY <2>4, <1>4
<1> HIDE DEF inside, os, mem, stale
<1> QED BY <1>1, <1>2, <1>3, <1>8, <1>9, OneChanges

\* What a read in bounds leaves and gives, in the worlds in which it is.
LEMMA LoadIs ==
  ASSUME NEW T, Terms(T), RepInv(T), NEW o \in DOMAIN objects, NEW off \in Offsets, NEW w \in Widths,
         NEW inside, inside = InBounds(off, NumBytes(w)), inside # {}
  PROVE  /\ inside \in SUBSET path
         /\ Rep(T, Read(objects[o], off, w)[1], contents[o], outdated[o], inside)
         /\ outdated[o] = {} => \A wd \in inside, i \in 0..(NumBytes(w) - 1) :
              ByteOf(ValueOf(Read(objects[o], off, w)[2], wd), i)
                = Seen(contents[o][wd][ValueOf(off, wd) + ByteAt(i, NumBytes(w))], w)
<1> DEFINE n == NumBytes(w)
           t == Narrow(off)
<1>0. LanguageIsSound(T) /\ n \in Nat \ {0} /\ path \in SUBSET Worlds
  BY WidthIs DEF Terms, RepInv
<1>1. /\ n \in 1..Size /\ inside \in SUBSET path /\ Inside(T, t, n, inside)
      /\ \A wd \in inside : ValueOf(t, wd) = ValueOf(off, wd)
  BY <1>0, InBoundsIs
<1>2. /\ Rep(T, objects[o], contents[o], outdated[o], path) /\ Bytes(contents[o], path)
  BY ObjectIs
<1>3. Rep(T, objects[o], contents[o], outdated[o], inside) /\ Bytes(contents[o], inside)
  <2>1. Rep(T, objects[o], contents[o], outdated[o], inside)
    BY <1>1, <1>2, RepWeakens
  <2>2. Bytes(contents[o], inside)
    BY <1>1, <1>2 DEF Bytes
  <2> QED BY <2>1, <2>2
<1>4. Accessed(w)
  BY <1>1, WidthIs DEF Accessed
<1>5. /\ Rep(T, Read(objects[o], off, w)[1], contents[o], outdated[o], inside)
      /\ outdated[o] = {} => \A wd \in inside, i \in 0..(NumBytes(w) - 1) :
           ByteOf(ValueOf(Read(objects[o], off, w)[2], wd), i)
             = Seen(contents[o][wd][ValueOf(t, wd) + ByteAt(i, NumBytes(w))], w)
  BY <1>0, <1>1, <1>3, <1>4, ReadIs
<1> HIDE DEF t
<1> QED BY <1>1, <1>5

LEMMA LoadKeeps ==
  ASSUME NEW T, Terms(T), RepInv(T), NEW o \in DOMAIN objects,
         NEW off \in Offsets, NEW w \in Widths, Load(o, off, w)
  PROVE  RepInv(T)'
<1> DEFINE inside == InBounds(off, NumBytes(w))
           os == Read(objects[o], off, w)[1]
           mem == contents[o]
           stale == outdated[o]
<1>1. /\ inside # {} /\ path' = inside /\ objects' = [objects EXCEPT ![o] = os]
      /\ contents' = contents /\ outdated' = outdated
  BY DEF Load
<1>2. inside \in SUBSET path /\ Rep(T, os, mem, stale, inside)
  BY <1>1, LoadIs
<1>3. /\ mem \in Memories /\ stale \in SUBSET Position /\ path \subseteq DOMAIN mem
      /\ DOMAIN contents = DOMAIN objects /\ DOMAIN outdated = DOMAIN objects
  BY ObjectIs
<1>4. contents' = [contents EXCEPT ![o] = mem] /\ outdated' = [outdated EXCEPT ![o] = stale]
  <2>1. contents \in Seq(Memories) /\ outdated \in Seq(SUBSET Position)
    BY DEF RepInv
  <2> QED BY <2>1, <1>1, <1>3
<1>5. inside \subseteq DOMAIN mem
  BY <1>2, <1>3
<1> HIDE DEF inside, os, mem, stale
<1> QED BY <1>1, <1>2, <1>3, <1>4, <1>5, OneChanges

LEMMA CopyKeeps ==
  ASSUME NEW T, RepInv(T), NEW o \in DOMAIN objects, Copy(o)
  PROVE  RepInv(T)'
<1>1. /\ objects \in Seq(Objects(T)) /\ contents \in Seq(Memories) /\ outdated \in Seq(SUBSET Position)
      /\ Lengths /\ path \in SUBSET Worlds
  BY DEF RepInv
<1>2. /\ DOMAIN contents = DOMAIN objects /\ DOMAIN outdated = DOMAIN objects
      /\ contents[o] \in Memories /\ outdated[o] \in SUBSET Position /\ objects[o] \in Objects(T)
  BY <1>1, ObjectIs
<1>3. /\ objects' = Append(objects, objects[o]) /\ contents' = Append(contents, contents[o])
      /\ outdated' = Append(outdated, outdated[o]) /\ path' = path
  BY DEF Copy
<1>4. /\ objects' \in Seq(Objects(T)) /\ contents' \in Seq(Memories) /\ outdated' \in Seq(SUBSET Position)
      /\ Lengths'
  BY <1>1, <1>2, <1>3 DEF Lengths
<1>5. ASSUME NEW p \in DOMAIN objects'
      PROVE  \E q \in DOMAIN objects : /\ objects'[p] = objects[q] /\ contents'[p] = contents[q]
                                       /\ outdated'[p] = outdated[q]
  <2>1. DOMAIN objects = 1..Len(objects) /\ DOMAIN objects' = 1..(Len(objects) + 1) /\ Len(objects) \in Nat
    BY <1>1, <1>2, <1>3
  <2>2. CASE p = Len(objects) + 1
    <3>1. objects'[p] = objects[o] /\ contents'[p] = contents[o] /\ outdated'[p] = outdated[o]
      BY <2>2, <1>1, <1>2, <1>3 DEF Lengths
    <3> QED BY <3>1
  <2>3. CASE p # Len(objects) + 1
    <3>1. p \in DOMAIN objects
      BY <2>1, <2>3
    <3>2. objects'[p] = objects[p] /\ contents'[p] = contents[p] /\ outdated'[p] = outdated[p]
      BY <3>1, <1>1, <1>2, <1>3 DEF Lengths
    <3> QED BY <3>1, <3>2
  <2> QED BY <2>2, <2>3
<1>6. ASSUME NEW p \in DOMAIN objects'
      PROVE  path' \subseteq DOMAIN contents'[p] /\ Rep(T, objects'[p], contents'[p], outdated'[p], path')
  BY <1>3, <1>5, <1>6 DEF RepInv
<1> QED BY <1>1, <1>3, <1>4, <1>6 DEF RepInv

LEMMA CallExternalKeeps ==
  ASSUME NEW T, RepInv(T), NEW o \in DOMAIN objects, NEW i \in Position,
         NEW byte \in ExternalBytes, CallExternal(o, i, byte)
  PROVE  RepInv(T)'
<1> DEFINE old == objects[o]
           os == StoredOutside(old, i, byte)
           here == IsByteConcrete(old, i)
           mem == IF here THEN [wd \in DOMAIN contents[o] |-> [contents[o][wd] EXCEPT ![i] = byte]]
                  ELSE contents[o]
           stale == IF here /\ IsByteFlushed(old, i) THEN outdated[o] \cup {i} ELSE outdated[o]
<1>0. byte \in Byte
  BY ByteAssumption
<1>1. /\ contents[o] \in Memories /\ outdated[o] \in SUBSET Position /\ path \in SUBSET Worlds
      /\ Rep(T, old, contents[o], outdated[o], path) /\ path \subseteq DOMAIN contents[o]
      /\ DOMAIN contents = DOMAIN objects /\ DOMAIN outdated = DOMAIN objects
  BY ObjectIs
<1>2. contents \in Seq(Memories) /\ outdated \in Seq(SUBSET Position)
  BY DEF RepInv
<1>3. /\ path' = path /\ objects' = [objects EXCEPT ![o] = os]
      /\ contents' = [contents EXCEPT ![o] = mem] /\ outdated' = [outdated EXCEPT ![o] = stale]
  <2>1. path' = path /\ objects' = [objects EXCEPT ![o] = os]
    BY DEF CallExternal
  <2>2. contents' = [contents EXCEPT ![o] = mem]
    <3>1. CASE here
      <4>1. contents' = [contents EXCEPT ![o] = [wd \in DOMAIN contents[o] |-> [contents[o][wd] EXCEPT ![i] = byte]]]
        BY <3>1 DEF CallExternal
      <4> QED BY <3>1, <4>1
    <3>2. CASE ~here
      <4>1. contents' = contents /\ mem = contents[o]
        BY <3>2 DEF CallExternal
      <4>2. contents = [contents EXCEPT ![o] = contents[o]]
        <5> HIDE DEF old, os, here, mem, stale
        <5> QED BY <1>1, <1>2
      <4> HIDE DEF old, os, here, mem, stale
      <4> QED BY <4>1, <4>2
    <3> QED BY <3>1, <3>2
  <2>3. outdated' = [outdated EXCEPT ![o] = stale]
    <3>1. CASE here /\ IsByteFlushed(old, i)
      <4>1. outdated' = [outdated EXCEPT ![o] = outdated[o] \cup {i}]
        BY <3>1 DEF CallExternal
      <4> QED BY <3>1, <4>1
    <3>2. CASE ~(here /\ IsByteFlushed(old, i))
      <4>1. outdated' = outdated /\ stale = outdated[o]
        BY <3>2 DEF CallExternal
      <4>2. outdated = [outdated EXCEPT ![o] = outdated[o]]
        <5> HIDE DEF old, os, here, mem, stale
        <5> QED BY <1>1, <1>2
      <4> HIDE DEF old, os, here, mem, stale
      <4> QED BY <4>1, <4>2
    <3> QED BY <3>1, <3>2
  <2> QED BY <2>1, <2>2, <2>3
<1>4. DOMAIN contents[o] \in SUBSET Worlds /\ \A wd \in DOMAIN contents[o] : contents[o][wd] \in [Position -> Byte]
  BY <1>1, MemoryIs
<1>5. mem \in Memories /\ DOMAIN mem = DOMAIN contents[o]
  <2> DEFINE new == [wd \in DOMAIN contents[o] |-> [contents[o][wd] EXCEPT ![i] = byte]]
  <2>1. new \in [DOMAIN contents[o] -> [Position -> Byte]]
    BY <1>0, <1>4
  <2>2. new \in Memories
    BY <2>1, <1>4, MemoryIs
  <2> QED BY <2>2, <1>1
<1>6. stale \in SUBSET Position
  BY <1>1
<1>7. /\ os.store = [old.store EXCEPT ![i] = byte] /\ os.concrete = old.concrete
      /\ os.unflushed = old.unflushed /\ os.known = old.known /\ os.ups = old.ups /\ os.root = old.root
      /\ os \in Objects(T) /\ old \in Objects(T)
  BY <1>0, <1>1 DEF StoredOutside, Rep, Objects
<1>8. /\ CacheInvariants(old) /\ Represents(old, contents[o], outdated[o], path)
  BY <1>1 DEF Rep
<1>9. ASSUME NEW wd \in path, NEW j \in Position
      PROVE  mem[wd][j] = IF here /\ j = i THEN byte ELSE contents[o][wd][j]
  <2>1. contents[o][wd] \in [Position -> Byte] /\ wd \in DOMAIN contents[o]
    BY <1>1, <1>4
  <2> QED BY <2>1
<1>10. Represents(os, mem, stale, path)
  <2> HIDE DEF os, old, mem
  <2> SUFFICES ASSUME NEW wd \in path, NEW j \in Position
               PROVE  /\ j \in os.concrete => os.store[j] = mem[wd][j]
                      /\ j \in DOMAIN os.known => ValueOf(os.known[j], wd) = mem[wd][j]
                      /\ j \notin os.unflushed \cup stale => Lists(os.root, os.ups, j, wd, mem[wd][j])
    BY DEF Represents
  <2>1. /\ j \in old.concrete => old.store[j] = contents[o][wd][j]
        /\ j \in DOMAIN old.known => ValueOf(old.known[j], wd) = contents[o][wd][j]
        /\ j \notin old.unflushed \cup outdated[o] => Lists(old.root, old.ups, j, wd, contents[o][wd][j])
    BY <1>8 DEF Represents
  <2>2. CASE j # i
    <3>1. mem[wd][j] = contents[o][wd][j] /\ os.store[j] = old.store[j]
      BY <2>2, <1>7, <1>9 DEF Objects
    <3> QED BY <3>1, <2>1, <2>2, <1>7
  <2>3. CASE j = i /\ i \in old.concrete
    <3>1. mem[wd][j] = byte /\ os.store[j] = byte
      BY <2>3, <1>7, <1>9 DEF Objects, IsByteConcrete
    <3>2. j \notin DOMAIN os.known
      BY <2>3, <1>7, <1>8 DEF CacheInvariants
    <3>3. j \in os.unflushed \cup stale
      BY <2>3, <1>7 DEF IsByteConcrete, IsByteFlushed
    <3> QED BY <3>1, <3>2, <3>3
  <2>4. CASE j = i /\ i \notin old.concrete
    <3>1. mem[wd][j] = contents[o][wd][j] /\ stale = outdated[o] /\ j \notin os.concrete
      BY <2>4, <1>7, <1>9 DEF IsByteConcrete
    <3> QED BY <3>1, <2>1, <1>7
  <2> QED BY <2>2, <2>3, <2>4
<1>11. Rep(T, os, mem, stale, path)
  BY <1>7, <1>8, <1>10 DEF Rep, CacheInvariants
<1> HIDE DEF old, os, mem, stale
<1> QED BY <1>1, <1>3, <1>5, <1>6, <1>11, OneChanges

\* The caches of an object are right in every behaviour: "Cache Invariants" of
\* Memory.cpp, and what is cached or listed of a byte is the byte.
THEOREM ObjectsInductive ==
  ASSUME NEW CONSTANT T, Terms(T)
  PROVE  Spec => []RepInv(T)
<1>1. Init => RepInv(T)
  BY RepInvInit
<1>2. RepInv(T) /\ [Next]_vars => RepInv(T)'
  <2> SUFFICES ASSUME RepInv(T), [Next]_vars
               PROVE  RepInv(T)'
    OBVIOUS
  <2>1. ASSUME NEW o \in DOMAIN objects, NEW off \in Offsets, NEW e \in Values, Store(o, off, e)
        PROVE  RepInv(T)'
    BY <2>1, StoreKeeps
  <2>2. ASSUME NEW o \in DOMAIN objects, NEW off \in Offsets, NEW w \in Widths, Load(o, off, w)
        PROVE  RepInv(T)'
    BY <2>2, LoadKeeps
  <2>3. ASSUME NEW o \in DOMAIN objects, Copy(o)
        PROVE  RepInv(T)'
    BY <2>3, CopyKeeps
  <2>4. ASSUME NEW o \in DOMAIN objects, NEW i \in Position, NEW byte \in ExternalBytes, CallExternal(o, i, byte)
        PROVE  RepInv(T)'
    BY <2>4, CallExternalKeeps
  <2>5. ASSUME UNCHANGED vars
        PROVE  RepInv(T)'
    BY <2>5 DEF vars, RepInv, Lengths
  <2> QED BY <2>1, <2>2, <2>3, <2>4, <2>5 DEF Next
<1> QED BY <1>1, <1>2, PTL DEF Spec

\* Every read gives what was last written, in every world of the path, and no
\* assertion on the caches fails.
THEOREM ReadsAlwaysSeeWrites ==
  ASSUME NEW CONSTANT T, Terms(T)
  PROVE  Spec => []ReadsSeeWrites
<1>1. RepInv(T) => ReadsSeeWrites
  <2> SUFFICES ASSUME RepInv(T), NEW o \in DOMAIN objects
               PROVE  /\ ~objects[o].failed
                      /\ outdated[o] = {} =>
                           \A off \in Offsets, w \in Widths :
                             \A inside \in {InBounds(off, NumBytes(w))} \ {{}}, got \in {Read(objects[o], off, w)} :
                               /\ ~got[1].failed
                               /\ \A wd \in inside, i \in 0..(NumBytes(w) - 1) :
                                    ByteOf(ValueOf(got[2], wd), i)
                                      = Seen(contents[o][wd][ValueOf(off, wd) + ByteAt(i, NumBytes(w))], w)
    BY DEF ReadsSeeWrites
  <2>1. ~objects[o].failed
    <3>1. objects[o] \in Objects(T)
      BY ObjectIs DEF Rep
    <3> QED BY <3>1 DEF Objects
  <2>2. ASSUME outdated[o] = {}, NEW off \in Offsets, NEW w \in Widths,
               NEW inside \in {InBounds(off, NumBytes(w))} \ {{}}, NEW got \in {Read(objects[o], off, w)}
        PROVE  /\ ~got[1].failed
               /\ \A wd \in inside, i \in 0..(NumBytes(w) - 1) :
                    ByteOf(ValueOf(got[2], wd), i)
                      = Seen(contents[o][wd][ValueOf(off, wd) + ByteAt(i, NumBytes(w))], w)
    <3>1. inside = InBounds(off, NumBytes(w)) /\ inside # {} /\ got = Read(objects[o], off, w)
      OBVIOUS
    <3>2. /\ Rep(T, got[1], contents[o], outdated[o], inside)
          /\ \A wd \in inside, i \in 0..(NumBytes(w) - 1) :
               ByteOf(ValueOf(got[2], wd), i)
                 = Seen(contents[o][wd][ValueOf(off, wd) + ByteAt(i, NumBytes(w))], w)
      <4>1. inside \in SUBSET path /\ Rep(T, Read(objects[o], off, w)[1], contents[o], outdated[o], inside)
        BY <3>1, LoadIs
      <4>2. \A wd \in inside, i \in 0..(NumBytes(w) - 1) :
              ByteOf(ValueOf(Read(objects[o], off, w)[2], wd), i)
                = Seen(contents[o][wd][ValueOf(off, wd) + ByteAt(i, NumBytes(w))], w)
        BY <3>1, <2>2, LoadIs
      <4> QED BY <3>1, <4>1, <4>2
    <3>3. got[1] \in Objects(T)
      BY <3>2 DEF Rep
    <3> QED BY <3>2, <3>3 DEF Objects
  <2> QED BY <2>1, <2>2
<1> QED BY <1>1, ObjectsInductive, PTL
=============================================================================
