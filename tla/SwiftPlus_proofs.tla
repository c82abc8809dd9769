-------------------------- MODULE SwiftPlus_proofs --------------------------
(***************************************************************************)
(* Proofs about SwiftPlus, for any number of handlers, any tree of paths,  *)
(* any bounds, and whether or not calls on one file may overlap.           *)
(*                                                                         *)
(* The parts of the inductive invariant speak of one row, one object, one  *)
(* handler or the table of segments.  They are stated for given values of  *)
(* the counters and of the set "written", which only grow, so that what is *)
(* known of the handlers that a step leaves alone follows from             *)
(* monotonicity.                                                           *)
(*                                                                         *)
(* Facts about numbers and sequences come first: induction over the        *)
(* natural numbers for a set, and what FlattenSeq and SetToSeqs return.    *)
(***************************************************************************)
EXTENDS SwiftPlus, SequenceTheorems, FiniteSetTheorems, WellFoundedInduction,
        TLAPS

-----------------------------------------------------------------------------
(* Induction. *)

(* A set of natural numbers that is not empty has a least element. *)
LEMMA LeastNat ==
    ASSUME NEW T \in SUBSET Nat, T # {}
    PROVE  \E m \in T : \A n \in T : m <= n
<1> DEFINE R == {ss \in Nat \X Nat : ss[1] < ss[2]}
<1>1. IsWellFoundedOn(R, Nat)
  BY NatLessThanWellFounded DEF OpToRel
<1>2. PICK x \in T : \A y \in T : ~(<<y, x>> \in R)
  <2> HIDE DEF R
  <2> QED BY <1>1, WFMin
<1>3. ASSUME NEW y \in T PROVE x <= y
  <2>1. ~(<<y, x>> \in R)
    BY <1>2
  <2>2. <<y, x>> \in Nat \X Nat /\ <<y, x>>[1] = y /\ <<y, x>>[2] = x
    OBVIOUS
  <2>3. ~(y < x)
    BY <2>1, <2>2
  <2> QED BY <2>3
<1> QED BY <1>3

(* A set that holds 0, and with a number the next one, holds them all. *)
LEMMA SetInduction ==
    ASSUME NEW T, 0 \in T, \A n \in Nat : n \in T => n + 1 \in T
    PROVE  \A n \in Nat : n \in T
<1> SUFFICES ASSUME Nat \ T # {} PROVE FALSE
  OBVIOUS
<1>1. PICK m \in Nat \ T : \A n \in Nat \ T : m <= n
  BY LeastNat
<1>2. m # 0 /\ m - 1 \in Nat
  BY <1>1
<1>3. m - 1 \in T
  BY <1>1, <1>2
<1> QED BY <1>1, <1>2, <1>3

-----------------------------------------------------------------------------
(* FlattenSeq. *)

(* The function by which FlattenSeq is defined: i |-> the first i ones. *)
IsFlatten(f, s) ==
    f = [i \in 1..Len(s) |-> IF i = 1 THEN s[i] ELSE f[i-1] \o s[i]]

(* The recursion that defines it has a solution. *)
LEMMA FlattenExists ==
    ASSUME NEW s, Len(s) \in Nat
    PROVE  \E f : IsFlatten(f, s)
<1> DEFINE Sol(f, n) == f = [i \in 1..n |-> IF i = 1 THEN s[i]
                                            ELSE f[i-1] \o s[i]]
           T == {n \in Nat : \E f : Sol(f, n)}
<1>1. 0 \in T
  <2>1. Sol([i \in 1..0 |-> 0], 0)
    OBVIOUS
  <2> QED BY <2>1
<1>2. ASSUME NEW n \in Nat, n \in T PROVE n + 1 \in T
  <2>1. PICK f : Sol(f, n)
    BY <1>2
  <2> DEFINE g == [i \in 1..(n+1) |-> IF i <= n THEN f[i]
                                      ELSE IF i = 1 THEN s[i]
                                      ELSE f[n] \o s[i]]
  <2>2. ASSUME NEW i \in 1..(n+1)
        PROVE  g[i] = IF i = 1 THEN s[i] ELSE g[i-1] \o s[i]
    <3>1. CASE i <= n
      <4>1. i \in 1..n /\ (i # 1 => i - 1 \in 1..n)
        BY <3>1
      <4>2. f[i] = IF i = 1 THEN s[i] ELSE f[i-1] \o s[i]
        BY <2>1, <4>1
      <4>3. g[i] = f[i] /\ (i # 1 => g[i-1] = f[i-1])
        BY <3>1, <4>1
      <4> QED BY <4>2, <4>3
    <3>2. CASE i = n + 1 /\ i # 1
      <4>1. i - 1 = n /\ n \in 1..(n+1) /\ ~(i <= n)
        BY <3>2
      <4>2. g[n] = f[n]
        BY <4>1
      <4>3. g[i] = f[n] \o s[i]
        BY <4>1, <3>2
      <4> QED BY <4>1, <4>2, <4>3, <3>2
    <3>3. CASE i = n + 1 /\ i = 1
      BY <3>3
    <3> QED BY <3>1, <3>2, <3>3
  <2>3. Sol(g, n + 1)
    BY <2>2
  <2>4. \E h : Sol(h, n + 1)
    BY <2>3
  <2> HIDE DEF Sol
  <2> QED BY <2>4
<1>3. Len(s) \in T
  <2> HIDE DEF T
  <2> QED BY <1>1, <1>2, SetInduction
<1> QED BY <1>3 DEF IsFlatten

(* FlattenSeq is the last value of that function. *)
LEMMA FlattenUnfold ==
    ASSUME NEW s, Len(s) \in Nat, Len(s) # 0
    PROVE  \E f : IsFlatten(f, s) /\ FlattenSeq(s) = f[Len(s)]
<1> DEFINE f == CHOOSE g : IsFlatten(g, s)
<1>1. IsFlatten(f, s)
  <2> HIDE DEF IsFlatten
  <2> QED BY FlattenExists
<1>2. FlattenSeq(s) = f[Len(s)]
  BY DEF FlattenSeq, IsFlatten
<1> HIDE DEF f
<1> QED BY <1>1, <1>2

(* b is a block of q that begins after the first i elements. *)
Block(q, i, b) ==
    /\ i \in Nat
    /\ i + Len(b) <= Len(q)
    /\ \A j \in 1..Len(b) : q[i + j] = b[j]

(* A block of q is a block of q \o r. *)
LEMMA BlockOfLeft ==
    ASSUME NEW S, NEW q \in Seq(S), NEW r \in Seq(S), NEW b \in Seq(S),
           NEW i, Block(q, i, b)
    PROVE  Block(q \o r, i, b)
  BY DEF Block

LEMMA BlockOfRight ==
    ASSUME NEW S, NEW q \in Seq(S), NEW r \in Seq(S)
    PROVE  Block(q \o r, Len(q), r)
  BY DEF Block

(* FlattenSeq(s) is a sequence in which every element of s is a block, and  *)
(* every position is in such a block.                                       *)
LEMMA FlattenBlocks ==
    ASSUME NEW S, NEW s \in Seq(Seq(S))
    PROVE  /\ FlattenSeq(s) \in Seq(S)
           /\ \A k \in 1..Len(s) : \E i : Block(FlattenSeq(s), i, s[k])
           /\ \A n \in 1..Len(FlattenSeq(s)) : \E k \in 1..Len(s), i \in Nat :
                /\ Block(FlattenSeq(s), i, s[k])
                /\ n - i \in 1..Len(s[k])
<1>1. CASE Len(s) = 0
  <2>1. FlattenSeq(s) = s
    BY <1>1 DEF FlattenSeq
  <2>2. s = <<>>
    BY <1>1
  <2>3. FlattenSeq(s) = <<>>
    BY <2>1, <2>2
  <2>4. 1..Len(s) = {} /\ 1..Len(FlattenSeq(s)) = {}
    BY <2>2, <2>3
  <2>5. FlattenSeq(s) \in Seq(S)
    BY <2>3
  <2> QED BY <2>4, <2>5
<1>2. CASE Len(s) # 0
  <2>1. PICK f : IsFlatten(f, s) /\ FlattenSeq(s) = f[Len(s)]
    BY <1>2, FlattenUnfold
  <2> DEFINE Good(q, m) ==
               /\ q \in Seq(S)
               /\ \A k \in 1..m : \E i : Block(q, i, s[k])
               /\ \A n \in 1..Len(q) : \E k \in 1..m, i \in Nat :
                    Block(q, i, s[k]) /\ n - i \in 1..Len(s[k])
             T == {m \in Nat : m + 1 \in 1..Len(s) => Good(f[m+1], m+1)}
  <2>2. 0 \in T
    <3>1. f[1] = s[1] /\ s[1] \in Seq(S)
      BY <1>2, <2>1 DEF IsFlatten
    <3>2. Block(s[1], 0, s[1])
      BY <3>1 DEF Block
    <3>3. Good(f[1], 1)
      <4>1. ASSUME NEW n \in 1..Len(s[1])
            PROVE  \E k \in 1..1, i \in Nat :
                       Block(s[1], i, s[k]) /\ n - i \in 1..Len(s[k])
        <5>1. 1 \in 1..1 /\ 0 \in Nat /\ n - 0 \in 1..Len(s[1])
          BY <3>1
        <5> QED BY <5>1, <3>2
      <4>2. ASSUME NEW k \in 1..1 PROVE \E i : Block(s[1], i, s[k])
        BY <3>2
      <4> HIDE DEF Block
      <4> QED BY <3>1, <4>1, <4>2
    <3> HIDE DEF Good
    <3> QED BY <3>3
  <2>3. ASSUME NEW m \in Nat, m \in T PROVE m + 1 \in T
    <3> SUFFICES ASSUME m + 2 \in 1..Len(s) PROVE Good(f[m+2], m+2)
      <4> HIDE DEF Good
      <4> QED OBVIOUS
    <3> DEFINE q == f[m+1]
               r == s[m+2]
    <3>1. m + 1 \in 1..Len(s) /\ m + 1 \in 1..(m+2)
      OBVIOUS
    <3>2. Good(q, m + 1)
      <4> HIDE DEF Good
      <4> QED BY <2>3, <3>1
    <3>3. f[m+2] = q \o r /\ r \in Seq(S)
      <4>1. m + 2 # 1 /\ (m + 2) - 1 = m + 1
        OBVIOUS
      <4>2. f[m+2] = IF m + 2 = 1 THEN s[m+2] ELSE f[(m+2)-1] \o s[m+2]
        BY <2>1 DEF IsFlatten
      <4>3. s[m+2] \in Seq(S)
        OBVIOUS
      <4>4. f[m+2] = f[m+1] \o s[m+2]
        BY <4>1, <4>2
      <4> QED BY <4>3, <4>4
    <3>3a. \A k \in 1..(m+2) : s[k] \in Seq(S) /\ (k \in 1..(m+1) \/ k = m + 2)
      OBVIOUS
    <3> HIDE DEF q, r
    <3>4. \A i, k : k \in 1..(m+2) /\ Block(q, i, s[k]) => Block(q \o r, i, s[k])
      BY <3>2, <3>3, <3>3a, BlockOfLeft
    <3>5. Block(q \o r, Len(q), s[m+2])
      BY <3>2, <3>3, BlockOfRight DEF r
    <3>6. ASSUME NEW k \in 1..(m+2) PROVE \E i : Block(q \o r, i, s[k])
      BY <3>2, <3>3a, <3>4, <3>5
    <3>7. ASSUME NEW n \in 1..Len(q \o r)
          PROVE  \E k \in 1..(m+2), i \in Nat :
                     Block(q \o r, i, s[k]) /\ n - i \in 1..Len(s[k])
      <4>1. CASE n \in 1..Len(q)
        <5>1. PICK k \in 1..(m+1), i \in Nat :
                     Block(q, i, s[k]) /\ n - i \in 1..Len(s[k])
          BY <4>1, <3>2
        <5>2. k \in 1..(m+2)
          OBVIOUS
        <5> QED BY <5>1, <5>2, <3>4
      <4>2. CASE n \notin 1..Len(q)
        <5>1. n - Len(q) \in 1..Len(s[m+2]) /\ Len(q) \in Nat
          BY <4>2, <3>2, <3>3 DEF r
        <5> QED BY <5>1, <3>5
      <4> QED BY <4>1, <4>2
    <3>8. q \o r \in Seq(S)
      BY <3>2, <3>3
    <3> HIDE DEF Block
    <3> QED BY <3>3, <3>6, <3>7, <3>8
  <2>4. Len(s) - 1 \in T
    <3> HIDE DEF T
    <3>1. \A n \in Nat : n \in T
      BY <2>2, <2>3, SetInduction
    <3> QED BY <3>1, <1>2
  <2>5. Good(f[Len(s)], Len(s))
    <3> HIDE DEF Good
    <3>1. Len(s) - 1 + 1 = Len(s) /\ Len(s) \in 1..Len(s)
      BY <1>2
    <3> QED BY <2>4, <3>1
  <2> HIDE DEF Block
  <2> QED BY <2>1, <2>5
<1> QED BY <1>1, <1>2

(* Flattening a sequence of one-element sequences. *)
LEMMA FlattenSingletons ==
    ASSUME NEW S, NEW u \in Seq(S)
    PROVE  FlattenSeq([i \in 1..Len(u) |-> <<u[i]>>]) = u
<1> DEFINE s == [i \in 1..Len(u) |-> <<u[i]>>]
<1>0. s \in Seq(Seq(S)) /\ Len(s) = Len(u)
  OBVIOUS
<1>a. \A i \in 1..Len(u) : s[i] = <<u[i]>>
  OBVIOUS
<1> HIDE DEF s
<1>1. CASE Len(u) = 0
  <2>1. FlattenSeq(s) = s /\ s = <<>> /\ u = <<>>
    BY <1>0, <1>1 DEF FlattenSeq
  <2> QED BY <2>1 DEF s
<1>2. CASE Len(u) # 0
  <2>1. PICK f : IsFlatten(f, s) /\ FlattenSeq(s) = f[Len(s)]
    BY <1>0, <1>2, FlattenUnfold
  <2> DEFINE T == {m \in Nat : m + 1 \in 1..Len(u) =>
                                 f[m+1] = SubSeq(u, 1, m+1)}
  <2>2. 0 \in T
    <3>1. f[1] = <<u[1]>>
      <4>1. 1 \in 1..Len(u)
        BY <1>2
      <4>2. f[1] = IF 1 = 1 THEN s[1] ELSE f[1-1] \o s[1]
        BY <1>0, <2>1, <4>1 DEF IsFlatten
      <4> QED BY <1>a, <4>1, <4>2
    <3>2. SubSeq(u, 1, 1) = <<u[1]>>
      <4>1. 1 \in 1..Len(u) /\ 1 \in 1..1
        BY <1>2
      <4>2. SubSeq(u, 1, 1) = SubSeq(u, 1, 1-1) \o <<u[1]>>
        BY <4>1, SubSeqRecursiveSecond
      <4>3. SubSeq(u, 1, 1-1) = <<>>
        BY SubSeqEmpty
      <4>4. <<u[1]>> \in Seq(S)
        BY <4>1
      <4>5. <<>> \o <<u[1]>> = <<u[1]>>
        BY <4>4, ConcatEmptySeq
      <4> QED BY <4>2, <4>3, <4>5
    <3> QED BY <3>1, <3>2
  <2>3. ASSUME NEW m \in Nat, m \in T PROVE m + 1 \in T
    <3> SUFFICES ASSUME m + 2 \in 1..Len(u) PROVE f[m+2] = SubSeq(u, 1, m+2)
      OBVIOUS
    <3>1. f[m+1] = SubSeq(u, 1, m+1)
      BY <2>3
    <3>2. f[m+2] = f[m+1] \o <<u[m+2]>>
      <4>1. m + 2 # 1 /\ (m + 2) - 1 = m + 1
        OBVIOUS
      <4>2. f[m+2] = IF m + 2 = 1 THEN s[m+2] ELSE f[(m+2)-1] \o s[m+2]
        BY <1>0, <2>1 DEF IsFlatten
      <4> QED BY <1>a, <4>1, <4>2
    <3>3. SubSeq(u, 1, m+2) = SubSeq(u, 1, m+1) \o <<u[m+2]>>
      BY SubSeqRecursiveSecond, 1 \in 1..Len(u), m + 2 \in 1..Len(u),
         m + 2 - 1 = m + 1
    <3> QED BY <3>1, <3>2, <3>3
  <2>4. Len(u) - 1 \in T
    <3> HIDE DEF T
    <3>1. \A n \in Nat : n \in T
      BY <2>2, <2>3, SetInduction
    <3> QED BY <3>1, <1>2
  <2>5. f[Len(u)] = SubSeq(u, 1, Len(u))
    <3>1. Len(u) - 1 + 1 = Len(u) /\ Len(u) \in 1..Len(u)
      BY <1>2
    <3> QED BY <2>4, <3>1
  <2> QED BY <1>0, <2>1, <2>5, SubSeqFull DEF s
<1> QED BY <1>1, <1>2

-----------------------------------------------------------------------------
(* Enumerations of finite sets. *)

(* An element of SetToSeqs(S) has every element of S exactly once. *)
LEMMA Enumeration ==
    ASSUME NEW S, IsFiniteSet(S), NEW q \in SetToSeqs(S)
    PROVE  /\ q \in Seq(S)
           /\ Len(q) = Cardinality(S)
           /\ DOMAIN q = 1..Len(q)
           /\ \A i, j \in 1..Len(q) : i # j => q[i] # q[j]
           /\ \A x \in S : \E i \in 1..Len(q) : q[i] = x
<1> DEFINE n == Cardinality(S)
<1>1. n \in Nat
  BY FS_CardinalityType
<1>2. q \in [1..n -> S] /\ \A i, j \in 1..n : i # j => q[i] # q[j]
  BY DEF SetToSeqs
<1>3. IsFiniteSet(1..n) /\ Cardinality(1..n) = n
  BY <1>1, FS_Interval
<1>4. q \in Injection(1..n, S)
  BY <1>2 DEF Injection, IsInjective
<1>5. q \in Surjection(1..n, S)
  <2> HIDE DEF n
  <2> QED BY <1>3, <1>4, FS_Injection DEF n
<1>6. q \in Seq(S) /\ Len(q) = n /\ DOMAIN q = 1..n
  <2> HIDE DEF n
  <2> QED BY <1>1, <1>2
<1> QED BY <1>2, <1>5, <1>6 DEF Surjection

(* Records with unique numbers, without a gap from 1 on. *)
Gapless(R, bound) ==
    /\ \A r \in R : r.num \in 1..bound
    /\ \A r, t \in R : r.num = t.num => r = t
    /\ \A r \in R : \A n \in 1..(r.num - 1) : \E t \in R : t.num = n

LEMMA GaplessCount ==
    ASSUME NEW R, NEW bound \in Nat, Gapless(R, bound)
    PROVE  /\ IsFiniteSet(R)
           /\ \E q \in SetToSeqs(R) : \A i \in DOMAIN q : q[i].num = i
<1> DEFINE T == {n \in Nat : n >= 1 /\ \A r \in R : r.num # n}
<1>1. bound + 1 \in T
  BY DEF Gapless
<1>2. PICK m \in T : \A n \in T : m <= n
  BY <1>1, LeastNat
<1> DEFINE k == m - 1
<1>3. k \in Nat
  BY <1>2
<1>4. \A n \in 1..k : \E r \in R : r.num = n
  BY <1>2
<1>5. \A r \in R : r.num \in 1..k
  BY <1>2 DEF Gapless
<1> HIDE DEF k
<1> DEFINE q == [i \in 1..k |-> CHOOSE r \in R : r.num = i]
<1>6. \A i \in 1..k : q[i] \in R /\ q[i].num = i
  BY <1>4
<1>7. q \in [1..k -> R]
  BY <1>6
<1> HIDE DEF q
<1>8. q \in Bijection(1..k, R)
  BY <1>5, <1>6, <1>7 DEF Bijection, Injection, IsInjective, Surjection, Gapless
<1>9. IsFiniteSet(R) /\ Cardinality(R) = k
  <2>1. ExistsBijection(1..k, R)
    BY <1>8 DEF ExistsBijection
  <2> QED BY <1>3, <2>1, FS_NatBijection, FS_CountingElements
<1>10. q \in SetToSeqs(R) /\ DOMAIN q = 1..k
  BY <1>6, <1>7, <1>9 DEF SetToSeqs
<1> QED BY <1>6, <1>9, <1>10

(* In increasing order, such records are numbered by their positions. *)
LEMMA GaplessSorted ==
    ASSUME NEW R, NEW bound \in Nat, Gapless(R, bound),
           NEW q \in SetToSeqs(R),
           \A i, j \in DOMAIN q : i < j => q[i].num < q[j].num
    PROVE  \A i \in 1..Len(q) : q[i].num = i
<1> DEFINE n == Len(q)
           T == {i \in 1..n : q[i].num # i}
<1>0. IsFiniteSet(R)
  BY GaplessCount
<1>1. /\ q \in Seq(R) /\ DOMAIN q = 1..n /\ n \in Nat
      /\ \A x \in R : \E i \in 1..n : q[i] = x
  BY <1>0, Enumeration
<1> SUFFICES ASSUME T # {} PROVE FALSE
  OBVIOUS
<1>2. PICK m \in T : \A i \in T : m <= i
  <2>1. T \in SUBSET Nat
    BY <1>1
  <2> HIDE DEF T
  <2> QED BY <2>1, LeastNat
<1>3. m \in 1..n /\ q[m].num # m /\ \A i \in 1..(m-1) : q[i].num = i
  BY <1>1, <1>2
<1>4. \A i \in 1..n : q[i] \in R /\ q[i].num \in 1..bound
  BY <1>1 DEF Gapless
<1> HIDE DEF T, n
<1>5. q[m].num > m
  <2>1. CASE m = 1
    BY <1>3, <1>4, <2>1
  <2>2. CASE m # 1
    <3>1. m - 1 \in 1..n /\ q[m-1].num = m - 1 /\ q[m-1].num < q[m].num
      BY <1>1, <1>3, <2>2
    <3> QED BY <1>3, <1>4, <3>1
  <2> QED BY <2>1, <2>2
<1>6. PICK t \in R : t.num = m
  <2>1. m \in 1..(q[m].num - 1) /\ q[m] \in R
    BY <1>3, <1>4, <1>5
  <2> QED BY <2>1 DEF Gapless
<1>7. PICK j \in 1..n : q[j] = t
  BY <1>1
<1>8. j < m => q[j].num = j
  BY <1>3
<1>9. j >= m => q[j].num > m
  <2>1. j > m => q[j].num > q[m].num
    BY <1>1, <1>3
  <2>2. j \in Int /\ m \in Int /\ q[j].num \in Int /\ q[m].num \in Int
    BY <1>3, <1>4
  <2> QED BY <2>1, <2>2, <1>5
<1> QED BY <1>3, <1>6, <1>7, <1>8, <1>9

-----------------------------------------------------------------------------
(* The inductive invariant. *)

Value == Contentses \cup {Absent, Unknown}
Ops == {"idle", "put", "move", "delete", "create", "append", "write",
        "commit", "close", "cancel"}

WriterOps == {"create", "append", "write", "commit", "close", "cancel"}

(* Rows and tasks, whatever they mean. *)
Row      == [size : Int, data : Contentses, loc : Nat]
Kinds == {"list", "children", "unlink", "upsert", "mkdir", "upload", "target",
          "rename", "readsegments", "putsegment", "recordsegment", "manifest",
          "delete", "return"}
SqlTask  == [do : Kinds, path : Paths \cup {Root}, loc : Nat,
             row : Row \cup {NoRow}]
BulkTask == [do : {"bulkdelete"}, loc : Nat, nums : SUBSET Nat]

(* The row of a file, for nl locations chosen and wn written so far: the    *)
(* contents that it keeps, or says to be empty, were asked for.             *)
FileRow(nl, wn) ==
    {r \in Row : /\ r.size \in 0..MaxUnits
                 /\ r.loc \in 0..nl
                 /\ r.data # <<>> => r.loc = NoLoc /\ r.data \in wn
                 /\ r.size = 0 => <<>> \in wn}

RowsOK(fs, nl, wn) ==
    fs \in [Paths -> Row \cup {NoRow}]
    /\ \A p \in Paths : fs[p] # NoRow =>
         IF p \in Files THEN fs[p] \in FileRow(nl, wn) ELSE fs[p] = DirRow

FlushTasks  == {"putsegment", "recordsegment"}
WriterTasks == {"readsegments", "manifest", "delete"}

(* The tasks of a call op, with a writer at location wl if wl # NoLoc, but  *)
(* for the two of a flush.                                                  *)
TaskSet(op, wl, nl, wn) ==
    {t \in SqlTask \cup BulkTask :
        /\ t.do \notin FlushTasks
        /\ t.loc \in 0..nl
        /\ t.do \in {"list", "bulkdelete", "upload"} => t.loc # NoLoc
        /\ t.do \in {"children", "mkdir"} => t.path \in Dirs
        /\ t.do = "unlink" => t.path \in Paths
        /\ t.do = "upsert" => t.path \in Files /\ t.row \in FileRow(nl, wn)
        /\ t.do = "upload" => op = "put"
        /\ t.do \in {"target", "rename"} => op = "move"
        /\ t.do = "target" => t.path \in Blobs
        /\ t.do = "rename" => t.path \in Uploads
        /\ t.do \in WriterTasks => wl # NoLoc
        /\ t.do = "readsegments" => op = "append" /\ t.loc = wl
        /\ t.do = "delete" => t.path \in Uploads}

Part == [num : Nat, unit : Nat]
WriterRec == [path : Uploads, loc : Loc, segs : Seq(Part), buf : Nat,
              err : BOOLEAN, committed : BOOLEAN, lost : BOOLEAN,
              base : Value]
HandlerRec == [op : Ops, path : Paths \cup {Root}, dest : Paths \cup {Root},
               val : Value, todo : Seq(SqlTask \cup BulkTask),
               wr : WriterRec \cup {NoWriter}]

PutTask(wl)    == Task("putsegment", Root, wl, NoRow)
RecordTask(wl) == Task("recordsegment", Root, wl, NoRow)

(* A segment was uploaded and not yet recorded. *)
Pending(m) == m.todo # <<>> /\ Head(m.todo) = RecordTask(m.wr.loc)

(* A flush, or the second half of one, is at the head of the list of tasks, *)
(* and only there.                                                          *)
Flushing(todo, wl, S) ==
    /\ wl # NoLoc
    /\ todo # <<>>
    /\ \/ Head(todo) = RecordTask(wl) /\ Tail(todo) \in Seq(S)
       \/ /\ Head(todo) = PutTask(wl)
          /\ Tail(todo) # <<>>
          /\ Head(Tail(todo)) = RecordTask(wl)
          /\ Tail(Tail(todo)) \in Seq(S)

(* The segments of writer w are numbered from 1 on, the units increase, and *)
(* all of them are in the table tb, but for one that is being recorded or   *)
(* could not be.                                                            *)
Numbered(m, nu, tb) ==
    LET w == m.wr
        n == Len(w.segs)
    IN  /\ \A i \in 1..n : w.segs[i].num = i /\ w.segs[i].unit \in i..nu
        /\ \A i, j \in 1..n : i < j => w.segs[i].unit < w.segs[j].unit
        /\ w.buf \in 0..nu
        /\ Pending(m) => n >= 1 /\ w.buf = w.segs[n].unit
        /\ w.buf # NoUnit /\ ~Pending(m) /\ ~w.err =>
             \A i \in 1..n : w.segs[i].unit < w.buf
        /\ \A i \in 1..n : i < n \/ ~(Pending(m) \/ w.err) =>
             [loc |-> w.loc, num |-> i, unit |-> w.segs[i].unit] \in tb

(* A handler, its call and its writer. *)
HandlerOK(m, nl, nu, wn, tb) ==
    /\ m \in HandlerRec
    /\ m.op = "idle" => m.todo = <<>>
    /\ m.op = "put" => m.val \in wn
    /\ m.op = "move" => m.path \in Uploads /\ m.dest \in Blobs
    /\ \/ m.todo \in Seq(TaskSet(m.op, m.wr.loc, nl, wn))
       \/ Flushing(m.todo, m.wr.loc, TaskSet(m.op, m.wr.loc, nl, wn))
    /\ m.op \in WriterOps => m.wr # NoWriter
    /\ m.wr # NoWriter =>
         /\ m.wr.loc \in 1..nl
         /\ m.op # "idle" => ~m.wr.err
         /\ m.op \in {"create", "append"} => m.wr.buf = NoUnit
         /\ m.todo # <<>> /\ Head(m.todo).do \in FlushTasks =>
              m.wr.buf # NoUnit
         /\ Numbered(m, nu, tb)
         /\ m.op = "write" =>
              \E u \in 1..nu : /\ m.val = <<u>>
                               /\ m.wr.buf < u
                               /\ \A i \in 1..Len(m.wr.segs) :
                                    m.wr.segs[i].unit < u

(* The table of segments: at every location the numbers are unique and      *)
(* without gaps, and the units increase with them.                          *)
TableOK(tb, nl, nu) ==
    /\ tb \subseteq [loc : 1..nl, num : 1..nu, unit : 1..nu]
    /\ \A s, t \in tb : s.loc = t.loc =>
         /\ s.num = t.num => s = t
         /\ s.num < t.num => s.unit < t.unit
    /\ \A s \in tb : \A n \in 1..(s.num - 1) :
         \E t \in tb : t.loc = s.loc /\ t.num = n

(* The objects: one per name; what <location>/content holds, or names in a  *)
(* manifest, was asked for.                                                 *)
ObjectRec == [loc : Loc, num : 0..MaxUnits, data : Contentses, slo : BOOLEAN,
              parts : Seq(Part)]
Units(parts) == [i \in 1..Len(parts) |-> parts[i].unit]
ObjectsOK(os, nl, wn) ==
    /\ os \subseteq ObjectRec
    /\ \A o, x \in os : o.loc = x.loc /\ o.num = x.num => o = x
    /\ \A o \in os : /\ o.loc \in 1..nl
                     /\ o.num = 0 /\ ~o.slo => o.data \in wn
                     /\ ~o.slo => o.parts = <<>>
                     /\ o.slo => /\ o.num = 0 /\ o.data = <<>>
                                 /\ Units(o.parts) \in wn

CountersOK ==
    /\ nextLoc \in 0..MaxLocs
    /\ nextUnit \in 0..MaxUnits
    /\ faults \in 0..MaxFaults
    /\ acked \in [Files -> Value]
    /\ written \subseteq Contentses
    /\ cancelled \subseteq Loc

(* The inductive invariant. *)
StoreInv ==
    /\ CountersOK
    /\ RowsOK(files, nextLoc, written)
    /\ TableOK(segments, nextLoc, nextUnit)
    /\ ObjectsOK(objects, nextLoc, written)
    /\ handler \in [Handlers -> HandlerRec]
    /\ \A h \in Handlers :
         HandlerOK(handler[h], nextLoc, nextUnit, written, segments)

-----------------------------------------------------------------------------
(* Monotonicity. *)

LEMMA FileRowMono ==
    ASSUME NEW nl \in Nat, NEW wn, NEW nm \in Nat, NEW wm,
           nl <= nm, wn \subseteq wm
    PROVE  FileRow(nl, wn) \subseteq FileRow(nm, wm)
  BY DEF FileRow

LEMMA TaskSetMono ==
    ASSUME NEW nl \in Nat, NEW wn, NEW nm \in Nat, NEW wm,
           nl <= nm, wn \subseteq wm, NEW op, NEW wl
    PROVE  TaskSet(op, wl, nl, wn) \subseteq TaskSet(op, wl, nm, wm)
<1> SUFFICES ASSUME NEW t \in TaskSet(op, wl, nl, wn)
             PROVE  t \in TaskSet(op, wl, nm, wm)
  OBVIOUS
<1>1. FileRow(nl, wn) \subseteq FileRow(nm, wm)
  BY FileRowMono
<1>2. t.loc \in 0..nm
  BY DEF TaskSet
<1> QED BY <1>1, <1>2 DEF TaskSet

LEMMA RowsMono ==
    ASSUME NEW nl \in Nat, NEW wn, NEW nm \in Nat, NEW wm,
           nl <= nm, wn \subseteq wm, NEW fs, RowsOK(fs, nl, wn)
    PROVE  RowsOK(fs, nm, wm)
  BY FileRowMono DEF RowsOK

LEMMA ObjectsMono ==
    ASSUME NEW nl \in Nat, NEW wn, NEW nm \in Nat, NEW wm,
           nl <= nm, wn \subseteq wm, NEW os, ObjectsOK(os, nl, wn)
    PROVE  ObjectsOK(os, nm, wm)
  BY DEF ObjectsOK

LEMMA TableMono ==
    ASSUME NEW nl \in Nat, NEW nu \in Nat, NEW nm \in Nat, NEW nv \in Nat,
           nl <= nm, nu <= nv, NEW tb, TableOK(tb, nl, nu)
    PROVE  TableOK(tb, nm, nv)
<1>1. [loc : 1..nl, num : 1..nu, unit : 1..nu] \subseteq
      [loc : 1..nm, num : 1..nv, unit : 1..nv]
  OBVIOUS
<1> QED BY <1>1 DEF TableOK

LEMMA NumberedMono ==
    ASSUME NEW nu \in Nat, NEW nv \in Nat, nu <= nv, NEW tb, NEW tc,
           tb \subseteq tc, NEW m \in HandlerRec, m.wr # NoWriter,
           Numbered(m, nu, tb)
    PROVE  Numbered(m, nv, tc)
<1>1. Len(m.wr.segs) \in Nat
  BY DEF HandlerRec, WriterRec
<1> QED BY <1>1 DEF Numbered

LEMMA HandlerMono ==
    ASSUME NEW nl \in Nat, NEW nu \in Nat, NEW wn, NEW tb,
           NEW nm \in Nat, NEW nv \in Nat, NEW wm, NEW tc,
           nl <= nm, nu <= nv, wn \subseteq wm, tb \subseteq tc,
           NEW m, HandlerOK(m, nl, nu, wn, tb)
    PROVE  HandlerOK(m, nm, nv, wm, tc)
<1>1. m \in HandlerRec
  BY DEF HandlerOK
<1>2. \/ m.todo \in Seq(TaskSet(m.op, m.wr.loc, nm, wm))
      \/ Flushing(m.todo, m.wr.loc, TaskSet(m.op, m.wr.loc, nm, wm))
  BY TaskSetMono, SeqMonotonic DEF HandlerOK, Flushing
<1>3. m.wr # NoWriter => Numbered(m, nv, tc)
  BY <1>1, NumberedMono DEF HandlerOK
<1>4. m.wr # NoWriter => m.wr.loc \in 1..nm
  BY DEF HandlerOK
<1>5. m.wr # NoWriter /\ m.op = "write" =>
        \E u \in 1..nv : /\ m.val = <<u>>
                         /\ m.wr.buf < u
                         /\ \A i \in 1..Len(m.wr.segs) : m.wr.segs[i].unit < u
  BY DEF HandlerOK
<1> QED BY <1>1, <1>2, <1>3, <1>4, <1>5 DEF HandlerOK

-----------------------------------------------------------------------------
(* The lists of tasks that calls and steps begin with. *)

LEMMA OneTask ==
    ASSUME NEW op, NEW wl, NEW nl \in Nat, NEW wn,
           NEW t \in TaskSet(op, wl, nl, wn)
    PROVE  <<t>> \in Seq(TaskSet(op, wl, nl, wn))
  OBVIOUS

LEMMA SimpleTasks ==
    ASSUME NEW op, NEW wl, NEW nl \in Nat, NEW wn
    PROVE  /\ Return \in TaskSet(op, wl, nl, wn)
           /\ \A p \in Paths :
                Task("unlink", p, NoLoc, NoRow) \in TaskSet(op, wl, nl, wn)
           /\ \A p \in Dirs :
                /\ Task("mkdir", p, NoLoc, NoRow) \in TaskSet(op, wl, nl, wn)
                /\ Task("children", p, NoLoc, NoRow) \in TaskSet(op, wl, nl, wn)
           /\ \A l \in 1..nl :
                Task("list", Root, l, NoRow) \in TaskSet(op, wl, nl, wn)
<1> USE DEF Task, NoLoc, FlushTasks, WriterTasks
<1>1. Return \in SqlTask
  BY DEF SqlTask, Kinds, Return
<1>2. Return \in TaskSet(op, wl, nl, wn)
  BY <1>1 DEF TaskSet, Return
<1>3. ASSUME NEW p \in Paths
      PROVE  Task("unlink", p, NoLoc, NoRow) \in TaskSet(op, wl, nl, wn)
  <2>1. Task("unlink", p, NoLoc, NoRow) \in SqlTask
    BY DEF SqlTask, Kinds
  <2> QED BY <2>1 DEF TaskSet
<1>4. ASSUME NEW p \in Dirs
      PROVE  /\ Task("mkdir", p, NoLoc, NoRow) \in TaskSet(op, wl, nl, wn)
             /\ Task("children", p, NoLoc, NoRow) \in TaskSet(op, wl, nl, wn)
  <2>1. /\ Task("mkdir", p, NoLoc, NoRow) \in SqlTask
        /\ Task("children", p, NoLoc, NoRow) \in SqlTask
    BY DEF SqlTask, Kinds, Dirs
  <2> QED BY <2>1 DEF TaskSet
<1>5. ASSUME NEW l \in 1..nl
      PROVE  Task("list", Root, l, NoRow) \in TaskSet(op, wl, nl, wn)
  <2>1. Task("list", Root, l, NoRow) \in SqlTask
    BY DEF SqlTask, Kinds
  <2> QED BY <2>1 DEF TaskSet
<1> QED BY <1>2, <1>3, <1>4, <1>5

LEMMA DeleteBlobsTasks ==
    ASSUME NEW op, NEW wl, NEW nl \in Nat, NEW wn, NEW l \in 0..nl
    PROVE  deleteBlobs(l) \in Seq(TaskSet(op, wl, nl, wn))
<1>1. CASE l = NoLoc
  BY <1>1 DEF deleteBlobs
<1>2. CASE l # NoLoc
  <2>1. l \in 1..nl
    BY <1>2 DEF NoLoc
  <2> QED BY <1>2, <2>1, SimpleTasks, OneTask DEF deleteBlobs
<1> QED BY <1>1, <1>2

(* The row of p is one that RowsOK allows for p. *)
RowFor(p, fi, nl, wn) ==
    IF p \in Files THEN fi \in FileRow(nl, wn) ELSE fi = DirRow

LEMMA DeleteDownwardsTasks ==
    ASSUME NEW op, NEW wl, NEW nl \in Nat, NEW wn, NEW p \in Paths, NEW fi,
           RowFor(p, fi, nl, wn)
    PROVE  deleteDownwards(p, fi) \in Seq(TaskSet(op, wl, nl, wn))
<1> DEFINE S == TaskSet(op, wl, nl, wn)
<1>1. fi.loc \in 0..nl
  BY DEF RowFor, FileRow, DirRow, NoLoc
<1>2. deleteBlobs(fi.loc) \in Seq(S)
  BY <1>1, DeleteBlobsTasks
<1>3. <<Task("unlink", p, NoLoc, NoRow)>> \in Seq(S)
  BY SimpleTasks, OneTask
<1>4. fi.size < 0 => p \in Dirs
  BY DEF RowFor, FileRow, Dirs
<1>5. (IF fi.size < 0 THEN <<Task("children", p, NoLoc, NoRow)>> ELSE <<>>)
         \in Seq(S)
  BY <1>4, SimpleTasks, OneTask
<1> QED BY <1>2, <1>3, <1>5, ConcatProperties DEF deleteDownwards

LEMMA MkdirAllTasks ==
    ASSUME NEW op, NEW wl, NEW nl \in Nat, NEW wn, NEW p \in Dirs \cup {Root}
    PROVE  mkdirAll(p) \in Seq(TaskSet(op, wl, nl, wn))
  BY SimpleTasks, OneTask DEF mkdirAll

LEMMA WriteFileInfoTasks ==
    ASSUME NEW op, NEW wl, NEW nl \in Nat, NEW wn, NEW p \in Files,
           NEW fi \in FileRow(nl, wn)
    PROVE  writeFileInfo(p, fi) \in Seq(TaskSet(op, wl, nl, wn))
<1> DEFINE S == TaskSet(op, wl, nl, wn)
<1>1. Task("upsert", p, NoLoc, fi) \in S
  <2>1. Task("upsert", p, NoLoc, fi) \in SqlTask
    BY SwiftPlusAssumption DEF SqlTask, Kinds, Task, NoLoc, FileRow
  <2> QED BY <2>1 DEF TaskSet, Task, NoLoc, FlushTasks, WriterTasks
<1>2. Parent[p] \in Dirs \cup {Root}
  BY SwiftPlusAssumption
<1>3. mkdirAll(Parent[p]) \in Seq(S)
  BY <1>2, MkdirAllTasks
<1> QED BY <1>1, <1>3, ConcatProperties DEF writeFileInfo

-----------------------------------------------------------------------------
(* How a step changes one handler. *)

(* In a call that is not flushing. *)
LEMMA PlainTodo ==
    ASSUME NEW nl \in Nat, NEW nu \in Nat, NEW wn, NEW tb,
           NEW m, HandlerOK(m, nl, nu, wn, tb),
           m.todo # <<>>, Head(m.todo).do \notin FlushTasks
    PROVE  /\ m \in HandlerRec
           /\ m.op # "idle"
           /\ ~Pending(m)
           /\ m.todo \in Seq(TaskSet(m.op, m.wr.loc, nl, wn))
           /\ Head(m.todo) \in TaskSet(m.op, m.wr.loc, nl, wn)
           /\ Tail(m.todo) \in Seq(TaskSet(m.op, m.wr.loc, nl, wn))
<1>1. m \in HandlerRec /\ m.op # "idle"
  BY DEF HandlerOK
<1>2. ~Pending(m) /\ ~Flushing(m.todo, m.wr.loc, TaskSet(m.op, m.wr.loc, nl, wn))
  BY DEF Pending, Flushing, PutTask, RecordTask, Task, FlushTasks
<1>3. m.todo \in Seq(TaskSet(m.op, m.wr.loc, nl, wn))
  BY <1>2 DEF HandlerOK
<1> QED BY <1>1, <1>2, <1>3, HeadTailProperties

(* No task of a plain list is that of a flush. *)
LEMMA PlainNotPending ==
    ASSUME NEW op, NEW wl, NEW nl \in Nat, NEW wn,
           NEW q \in Seq(TaskSet(op, wl, nl, wn)), q # <<>>
    PROVE  Head(q).do \notin FlushTasks /\ Head(q) # RecordTask(wl)
<1>1. Head(q) \in TaskSet(op, wl, nl, wn)
  BY HeadTailProperties
<1>2. RecordTask(wl).do \in FlushTasks
  BY DEF RecordTask, Task, FlushTasks
<1> QED BY <1>1, <1>2 DEF TaskSet

(* The head of the list is replaced by other tasks. *)
LEMMA ThenOK ==
    ASSUME NEW nl \in Nat, NEW nu \in Nat, NEW wn, NEW tb,
           NEW m, HandlerOK(m, nl, nu, wn, tb),
           m.todo # <<>>, Head(m.todo).do \notin FlushTasks,
           NEW tasks \in Seq(TaskSet(m.op, m.wr.loc, nl, wn))
    PROVE  HandlerOK([m EXCEPT !.todo = tasks \o Tail(m.todo)],
                     nl, nu, wn, tb)
<1> DEFINE q == tasks \o Tail(m.todo)
           k == [m EXCEPT !.todo = q]
           S == TaskSet(m.op, m.wr.loc, nl, wn)
<1>1. m \in HandlerRec /\ m.op # "idle" /\ ~Pending(m) /\ q \in Seq(S)
  BY PlainTodo, ConcatProperties
<1>2. S \subseteq SqlTask \cup BulkTask
  BY DEF TaskSet
<1>3. q \in Seq(SqlTask \cup BulkTask)
  BY <1>1, <1>2, SeqMonotonic
<1> HIDE DEF q
<1>4. /\ k \in HandlerRec /\ k.todo = q /\ k.op = m.op /\ k.path = m.path
      /\ k.dest = m.dest /\ k.val = m.val /\ k.wr = m.wr
  BY <1>1, <1>3 DEF HandlerRec
<1>5. q # <<>> => Head(q).do \notin FlushTasks /\ Head(q) # RecordTask(m.wr.loc)
  BY <1>1, PlainNotPending
<1>6. ~Pending(k)
  BY <1>4, <1>5 DEF Pending
<1> HIDE DEF k
<1>7. m.wr # NoWriter => Numbered(k, nu, tb)
  BY <1>1, <1>4, <1>6 DEF HandlerOK, Numbered
<1> HIDE DEF S
<1>8. HandlerOK(k, nl, nu, wn, tb)
  BY <1>1, <1>4, <1>5, <1>7 DEF HandlerOK, S
<1> QED BY <1>8 DEF k, q

(* The tasks of a call are followed by its return. *)
LEMMA WithReturn ==
    ASSUME NEW op, NEW wl, NEW nl \in Nat, NEW wn,
           NEW tasks \in Seq(TaskSet(op, wl, nl, wn))
    PROVE  tasks \o <<Return>> \in Seq(TaskSet(op, wl, nl, wn))
<1>1. <<Return>> \in Seq(TaskSet(op, wl, nl, wn))
  BY SimpleTasks, OneTask
<1> QED BY <1>1, ConcatProperties

(* A call that begins with a flush. *)
LEMMA FlushTodo ==
    ASSUME NEW op, NEW nl \in Nat, NEW wn,
           NEW w, w.loc \in Nat \ {NoLoc}, w.buf # NoUnit,
           NEW rest \in Seq(TaskSet(op, w.loc, nl, wn)),
           NEW q, q = (Flush(w) \o rest) \o <<Return>>
    PROVE  /\ q \in Seq(SqlTask \cup BulkTask)
           /\ q # <<>>
           /\ Head(q) # RecordTask(w.loc)
           /\ Flushing(q, w.loc, TaskSet(op, w.loc, nl, wn))
<1> DEFINE S == TaskSet(op, w.loc, nl, wn)
           A == SqlTask \cup BulkTask
           r == rest \o <<Return>>
           f == <<PutTask(w.loc), RecordTask(w.loc)>>
<1>0. S \subseteq A
  BY DEF TaskSet
<1>1. r \in Seq(S) /\ S \subseteq A
  BY <1>0, WithReturn
<1>2. r \in Seq(A) /\ rest \in Seq(A)
  BY <1>1, SeqMonotonic
<1>3. Return \in A
  BY SimpleTasks, <1>1
<1>4. PutTask(w.loc) \in A /\ RecordTask(w.loc) \in A
  BY DEF PutTask, RecordTask, Task, SqlTask, Kinds
<1>5. Flush(w) = f /\ f \in Seq(A)
  BY <1>4 DEF Flush, PutTask, RecordTask
<1>6. q = f \o r
  BY <1>2, <1>3, <1>5, ConcatAssociative
<1> HIDE DEF r, S, A
<1>7. /\ f \o r \in Seq(A)
      /\ f \o r # <<>>
      /\ Head(f \o r) = PutTask(w.loc)
      /\ Tail(f \o r) = <<RecordTask(w.loc)>> \o r
  BY <1>2, <1>4, <1>5
<1>8. /\ <<RecordTask(w.loc)>> \o r # <<>>
      /\ Head(<<RecordTask(w.loc)>> \o r) = RecordTask(w.loc)
      /\ Tail(<<RecordTask(w.loc)>> \o r) = r
  BY <1>2, <1>4
<1>9. Flushing(f \o r, w.loc, S)
  BY <1>1, <1>7, <1>8 DEF Flushing
<1>10. PutTask(w.loc) # RecordTask(w.loc)
  BY DEF PutTask, RecordTask, Task
<1> QED BY <1>6, <1>7, <1>9, <1>10 DEF S, A

(* An idle handler enters a call. *)
LEMMA EnterOK ==
    ASSUME NEW nl \in Nat, NEW nu \in Nat, NEW wn, NEW tb,
           NEW m, HandlerOK(m, nl, nu, wn, tb),
           m.op = "idle", m.wr = NoWriter \/ ~m.wr.err,
           NEW op \in Ops \ {"idle", "create", "append"},
           NEW p \in Paths \cup {Root}, NEW d \in Paths \cup {Root},
           NEW v \in Value, NEW q \in Seq(SqlTask \cup BulkTask),
           q # <<>> => Head(q) # RecordTask(m.wr.loc),
           \/ q \in Seq(TaskSet(op, m.wr.loc, nl, wn))
           \/ /\ Flushing(q, m.wr.loc, TaskSet(op, m.wr.loc, nl, wn))
              /\ m.wr # NoWriter => m.wr.buf # NoUnit,
           op = "put" => v \in wn,
           op = "move" => p \in Uploads /\ d \in Blobs,
           op \in WriterOps => m.wr # NoWriter,
           op = "write" =>
              \E u \in 1..nu : /\ v = <<u>>
                               /\ m.wr.buf < u
                               /\ \A i \in 1..Len(m.wr.segs) :
                                    m.wr.segs[i].unit < u
    PROVE  HandlerOK([m EXCEPT !.op = op, !.path = p, !.dest = d, !.val = v,
                               !.todo = q], nl, nu, wn, tb)
<1> DEFINE k == [m EXCEPT !.op = op, !.path = p, !.dest = d, !.val = v,
                          !.todo = q]
<1>1. m \in HandlerRec /\ m.todo = <<>>
  BY DEF HandlerOK
<1>2. /\ k \in HandlerRec /\ k.todo = q /\ k.op = op /\ k.path = p
      /\ k.dest = d /\ k.val = v /\ k.wr = m.wr
  BY <1>1 DEF HandlerRec
<1> HIDE DEF k
<1>3. ~Pending(k) /\ ~Pending(m)
  BY <1>1, <1>2 DEF Pending
<1>4. m.wr # NoWriter => Numbered(k, nu, tb)
  BY <1>2, <1>3 DEF HandlerOK, Numbered
<1>5. q \in Seq(TaskSet(op, m.wr.loc, nl, wn)) /\ q # <<>> =>
        Head(q).do \notin FlushTasks
  BY PlainNotPending
<1>6. HandlerOK(k, nl, nu, wn, tb)
  BY <1>1, <1>2, <1>4, <1>5 DEF HandlerOK
<1> QED BY <1>6 DEF k

(* A handler without a call. *)
LEMMA IdleOK ==
    ASSUME NEW nl \in Nat, NEW nu \in Nat, NEW wn, NEW tb
    PROVE  HandlerOK(IdleHandler, nl, nu, wn, tb)
<1>1. IdleHandler \in HandlerRec
  BY DEF IdleHandler, HandlerRec, Ops, Value
<1> QED BY <1>1 DEF HandlerOK, IdleHandler, WriterOps

(* The call ends and its writer, possibly changed, stays. *)
LEMMA IdleWriterOK ==
    ASSUME NEW nl \in Nat, NEW nu \in Nat, NEW wn, NEW tb,
           NEW w \in WriterRec, w.loc \in 1..nl,
           Numbered([IdleHandler EXCEPT !.wr = w], nu, tb)
    PROVE  HandlerOK([IdleHandler EXCEPT !.wr = w], nl, nu, wn, tb)
<1> DEFINE k == [IdleHandler EXCEPT !.wr = w]
<1>1. IdleHandler \in HandlerRec
  BY DEF IdleHandler, HandlerRec, Ops, Value
<1>2. k \in HandlerRec /\ k.op = "idle" /\ k.todo = <<>> /\ k.wr = w
  BY <1>1 DEF IdleHandler, HandlerRec
<1>3. Numbered(k, nu, tb)
  OBVIOUS
<1> HIDE DEF k
<1>4. <<>> \in Seq(TaskSet(k.op, k.wr.loc, nl, wn))
  OBVIOUS
<1>5. HandlerOK(k, nl, nu, wn, tb)
  BY <1>2, <1>3, <1>4 DEF HandlerOK, WriterOps
<1> QED BY <1>5 DEF k

-----------------------------------------------------------------------------
(* Steps and the invariant. *)

LEMMA BoundsNat ==
    ASSUME StoreInv
    PROVE  /\ nextLoc \in Nat /\ nextLoc <= MaxLocs /\ MaxLocs \in Nat
           /\ nextUnit \in Nat /\ nextUnit <= MaxUnits /\ MaxUnits \in Nat
  BY SwiftPlusAssumption DEF StoreInv, CountersOK

(* What grows in a step. *)
Grows ==
    /\ nextLoc' \in Nat /\ nextLoc <= nextLoc'
    /\ nextUnit' \in Nat /\ nextUnit <= nextUnit'
    /\ written \subseteq written'
    /\ segments \subseteq segments'

LEMMA KeptHandler ==
    ASSUME StoreInv, Grows, NEW h \in Handlers
    PROVE  HandlerOK(handler[h], nextLoc', nextUnit', written', segments')
  BY BoundsNat, HandlerMono DEF StoreInv, Grows

LEMMA OneHandler ==
    ASSUME StoreInv, Grows, NEW h \in Handlers, NEW m,
           HandlerOK(m, nextLoc', nextUnit', written', segments'),
           handler' = [handler EXCEPT ![h] = m]
    PROVE  /\ handler' \in [Handlers -> HandlerRec]
           /\ \A g \in Handlers :
                HandlerOK(handler'[g], nextLoc', nextUnit', written', segments')
<1>1. \A g \in Handlers :
        /\ handler[g] \in HandlerRec
        /\ HandlerOK(handler[g], nextLoc', nextUnit', written', segments')
  BY KeptHandler DEF StoreInv
<1>2. m \in HandlerRec
  BY DEF HandlerOK
<1>3. handler \in [Handlers -> HandlerRec]
  BY DEF StoreInv
<1> QED BY <1>1, <1>2, <1>3

(* A step of h that changes neither rows nor segments nor objects. *)
LEMMA QuietStep ==
    ASSUME StoreInv, Grows, CountersOK', NEW h \in Handlers, NEW m,
           HandlerOK(m, nextLoc', nextUnit', written', segments'),
           handler' = [handler EXCEPT ![h] = m],
           UNCHANGED <<files, segments, objects>>
    PROVE  StoreInv'
<1>1. RowsOK(files, nextLoc', written')
  BY BoundsNat, RowsMono DEF StoreInv, Grows
<1>2. TableOK(segments, nextLoc', nextUnit')
  BY BoundsNat, TableMono DEF StoreInv, Grows
<1>3. ObjectsOK(objects, nextLoc', written')
  BY BoundsNat, ObjectsMono DEF StoreInv, Grows
<1> QED BY <1>1, <1>2, <1>3, OneHandler DEF StoreInv

LEMMA ForgetType ==
    ASSUME StoreInv, NEW ps
    PROVE  Forget(ps) \in [Files -> Value]
  BY DEF Forget, StoreInv, CountersOK, Value

(* One more unit of data. *)
LEMMA NewUnit ==
    ASSUME StoreInv, nextUnit < MaxUnits
    PROVE  /\ nextUnit + 1 \in Unit
           /\ <<nextUnit + 1>> \in Contentses
           /\ <<nextUnit + 1>> \in Value
<1>1. nextUnit + 1 \in 1..MaxUnits /\ 1 \in 0..MaxUnits
  BY BoundsNat
<1>2. <<nextUnit + 1>> \in [1..1 -> Unit]
  BY <1>1 DEF Unit
<1> QED BY <1>1, <1>2 DEF Contentses, Value, Unit

LEMMA RowForPath ==
    ASSUME StoreInv, NEW p \in Paths, files[p] # NoRow
    PROVE  RowFor(p, files[p], nextLoc, written) /\ files[p].loc \in 0..nextLoc
<1>1. RowFor(p, files[p], nextLoc, written)
  BY DEF StoreInv, RowsOK, RowFor
<1> QED BY <1>1, BoundsNat DEF RowFor, FileRow, DirRow, NoLoc

LEMMA PutContentStep ==
    ASSUME StoreInv, NEW h \in Handlers, NEW p \in Blobs, NEW large \in BOOLEAN,
           PutContent(h, p, large)
    PROVE  StoreInv'
<1> DEFINE old == IF files[p] = NoRow THEN <<>> ELSE deleteBlobs(files[p].loc)
           contents == <<nextUnit + 1>>
           inline == [size |-> 1, data |-> contents, loc |-> NoLoc]
           row == [size |-> 1, data |-> <<>>, loc |-> nextLoc + 1]
           up == Task("upload", Root, nextLoc + 1, row)
           S(n) == TaskSet("put", NoLoc, n, written')
           m == handler[h]
<1>1. /\ m.op = "idle" /\ m.wr.loc = NoLoc
      /\ nextUnit < MaxUnits /\ nextUnit' = nextUnit + 1
      /\ written' = written \cup {contents}
      /\ acked' = Forget({p})
      /\ UNCHANGED <<files, segments, objects, faults, cancelled>>
  BY DEF PutContent, MayCall, HasWriter
<1>2. nextLoc' \in nextLoc..MaxLocs
  BY BoundsNat DEF PutContent
<1>3. Grows /\ CountersOK'
  BY <1>1, <1>2, BoundsNat, NewUnit, ForgetType DEF Grows, StoreInv, CountersOK
<1>4. p \in Files /\ p \in Paths
  BY SwiftPlusAssumption DEF Files
<1>5. old \in Seq(S(nextLoc'))
  <2>1. files[p] # NoRow => files[p].loc \in 0..nextLoc'
    BY <1>2, <1>4, RowForPath, BoundsNat
  <2> QED BY <1>3, <2>1, DeleteBlobsTasks DEF Grows
<1>6. HandlerOK(m, nextLoc', nextUnit', written', segments')
  BY <1>3, KeptHandler
<1>7. m \in HandlerRec /\ m.wr = NoWriter
  BY <1>1, <1>6 DEF HandlerOK, HandlerRec, WriterRec, Loc, NoLoc
<1>8. ASSUME NEW tasks \in Seq(S(nextLoc')),
             handler' = [handler EXCEPT ![h] =
                           Enter(h, "put", p, Root, contents, tasks)]
      PROVE  StoreInv'
  <2> DEFINE q == tasks \o <<Return>>
  <2>1. q \in Seq(S(nextLoc'))
    BY <1>3, WithReturn DEF Grows
  <2>2. q \in Seq(SqlTask \cup BulkTask)
    BY <2>1, SeqMonotonic DEF TaskSet
  <2>3. q # <<>> => Head(q) # RecordTask(NoLoc)
    BY <1>3, <2>1, PlainNotPending DEF Grows
  <2>4. contents \in Value /\ contents \in written'
    BY <1>1, NewUnit
  <2>5. "put" \in Ops \ {"idle", "create", "append"} /\ "put" \notin WriterOps
    BY DEF Ops, WriterOps
  <2> HIDE DEF q
  <2>6. HandlerOK([m EXCEPT !.op = "put", !.path = p, !.dest = Root,
                            !.val = contents, !.todo = q],
                  nextLoc', nextUnit', written', segments')
    BY <1>1, <1>3, <1>4, <1>6, <1>7, <2>1, <2>2, <2>3, <2>4, <2>5, EnterOK
       DEF Grows
  <2> QED BY <1>1, <1>3, <1>8, <2>6, QuietStep DEF Enter, q
<1>9. CASE ~large
  <2>1. inline \in FileRow(nextLoc', written')
    BY <1>1, <1>2, BoundsNat, NewUnit DEF FileRow, Row, NoLoc
  <2>2. old \o writeFileInfo(p, inline) \in Seq(S(nextLoc'))
    BY <1>3, <1>4, <1>5, <2>1, WriteFileInfoTasks, ConcatProperties DEF Grows
  <2> QED BY <1>1, <1>9, <2>2, <1>8 DEF PutContent
<1>10. CASE large
  <2>1. nextLoc' = nextLoc + 1
    BY <1>10 DEF PutContent
  <2>2. row \in FileRow(nextLoc', written')
    BY <1>1, <1>2, <2>1, BoundsNat, NewUnit DEF FileRow, Row, NoLoc, Contentses
  <2>3. up \in S(nextLoc')
    <3>1. up \in SqlTask
      BY <2>2, <2>1, BoundsNat DEF Task, SqlTask, Kinds, FileRow
    <3> QED BY <3>1, <2>1, BoundsNat DEF TaskSet, Task, FlushTasks, WriterTasks, NoLoc
  <2>4. (old \o writeFileInfo(p, row)) \o <<up>> \in Seq(S(nextLoc'))
    BY <1>3, <1>4, <1>5, <2>2, <2>3, WriteFileInfoTasks, ConcatProperties, OneTask
       DEF Grows
  <2> QED BY <1>1, <1>10, <2>1, <2>4, <1>8 DEF PutContent
<1> QED BY <1>9, <1>10

(* Handler h enters a call of which the first statement changes nothing. *)
LEMMA CallStep ==
    ASSUME StoreInv, Grows, CountersOK', NEW h \in Handlers,
           handler[h].op = "idle", ~HasWriter(h) \/ ~handler[h].wr.err,
           NEW op \in Ops \ {"idle", "put", "write", "create", "append"},
           NEW p \in Paths \cup {Root}, NEW d \in Paths \cup {Root},
           NEW v \in Value,
           op = "move" => p \in Uploads /\ d \in Blobs,
           op \in WriterOps => HasWriter(h),
           NEW tasks,
           handler' = [handler EXCEPT ![h] = Enter(h, op, p, d, v, tasks)],
           UNCHANGED <<files, segments, objects>>,
           \/ tasks \in Seq(TaskSet(op, handler[h].wr.loc, nextLoc', written'))
           \/ /\ HasWriter(h) /\ handler[h].wr.buf # NoUnit
              /\ \E rest \in Seq(TaskSet(op, handler[h].wr.loc, nextLoc',
                                         written')) :
                   tasks = Flush(handler[h].wr) \o rest
    PROVE  StoreInv'
<1> DEFINE m == handler[h]
           q == tasks \o <<Return>>
           S == TaskSet(op, m.wr.loc, nextLoc', written')
<1>1. HandlerOK(m, nextLoc', nextUnit', written', segments')
  BY KeptHandler
<1>2. m \in HandlerRec /\ (HasWriter(h) <=> m.wr # NoWriter) /\ m.wr.loc \in Nat
  BY <1>1 DEF HandlerOK, HandlerRec, WriterRec, HasWriter, NoWriter, Loc, NoLoc
<1>3. /\ q \in Seq(SqlTask \cup BulkTask)
      /\ q # <<>> => Head(q) # RecordTask(m.wr.loc)
      /\ \/ q \in Seq(S)
         \/ Flushing(q, m.wr.loc, S) /\ (m.wr # NoWriter => m.wr.buf # NoUnit)
  <2>1. CASE tasks \in Seq(S)
    <3>1. q \in Seq(S)
      BY <2>1, WithReturn DEF Grows
    <3>2. S \subseteq SqlTask \cup BulkTask
      BY DEF TaskSet
    <3> QED BY <3>1, <3>2, SeqMonotonic, PlainNotPending DEF Grows
  <2>2. CASE tasks \notin Seq(S)
    <3>1. HasWriter(h) /\ m.wr.buf # NoUnit
      BY <2>2
    <3>2. PICK rest \in Seq(S) : tasks = Flush(m.wr) \o rest
      BY <2>2
    <3>3. m.wr.loc \in Nat \ {NoLoc}
      BY <1>2, <3>1 DEF HasWriter
    <3>4. /\ q \in Seq(SqlTask \cup BulkTask)
          /\ Head(q) # RecordTask(m.wr.loc)
          /\ Flushing(q, m.wr.loc, S)
      <4>1. q = (Flush(m.wr) \o rest) \o <<Return>> /\ nextLoc' \in Nat
        BY <3>2 DEF Grows
      <4> HIDE DEF q
      <4> QED BY <3>1, <3>3, <4>1, FlushTodo
    <3> QED BY <3>1, <3>4
  <2> QED BY <2>1, <2>2
<1> HIDE DEF q
<1>4. HandlerOK([m EXCEPT !.op = op, !.path = p, !.dest = d, !.val = v,
                          !.todo = q], nextLoc', nextUnit', written', segments')
  <2>1. op \in Ops \ {"idle", "create", "append"} /\ op # "put" /\ op # "write"
    OBVIOUS
  <2>2. op \in WriterOps => m.wr # NoWriter
    BY <1>2
  <2>3. m.op = "idle" /\ (m.wr = NoWriter \/ ~m.wr.err)
    BY <1>2
  <2> QED BY <1>1, <1>3, <2>1, <2>2, <2>3, EnterOK DEF Grows
<1> QED BY <1>4, QuietStep DEF Enter, q

LEMMA MoveStep ==
    ASSUME StoreInv, NEW h \in Handlers, NEW s \in Uploads, NEW d \in Blobs,
           Move(h, s, d)
    PROVE  StoreInv'
<1> DEFINE S == TaskSet("move", handler[h].wr.loc, nextLoc', written')
           t1 == Task("target", d, NoLoc, NoRow)
           t2 == Task("rename", s, NoLoc, NoRow)
           tasks == <<t1, t2>> \o mkdirAll(Parent[d])
<1>1. /\ handler[h].op = "idle" /\ ~HasWriter(h)
      /\ acked' = Forget({s, d})
      /\ handler' = [handler EXCEPT ![h] = Enter(h, "move", s, d, acked[s], tasks)]
      /\ UNCHANGED <<files, segments, objects, nextLoc, nextUnit, written,
                     cancelled>>
  BY DEF Move, MayCall
<1>2. faults' \in 0..MaxFaults
  BY SwiftPlusAssumption DEF Move, StoreInv, CountersOK
<1>3. Grows /\ CountersOK'
  BY <1>1, <1>2, BoundsNat, ForgetType DEF Grows, StoreInv, CountersOK
<1>4. s \in Files /\ s \in Paths /\ d \in Paths
  BY SwiftPlusAssumption DEF Files
<1>5. acked[s] \in Value
  BY <1>4 DEF StoreInv, CountersOK
<1>6. t1 \in S /\ t2 \in S
  <2>1. t1 \in SqlTask /\ t2 \in SqlTask
    BY <1>4 DEF SqlTask, Kinds, Task, NoLoc
  <2> QED BY <2>1, <1>3 DEF TaskSet, Task, FlushTasks, WriterTasks, NoLoc, Grows
<1>7. mkdirAll(Parent[d]) \in Seq(S)
  <2>1. Parent[d] \in Dirs \cup {Root}
    BY <1>4, SwiftPlusAssumption
  <2> QED BY <1>3, <2>1, MkdirAllTasks DEF Grows
<1>8. tasks \in Seq(S)
  BY <1>6, <1>7, ConcatProperties
<1>9. /\ "move" \in Ops \ {"idle", "put", "write", "create", "append"}
      /\ "move" \notin WriterOps
  BY DEF Ops, WriterOps
<1> HIDE DEF tasks
<1> QED BY <1>1, <1>3, <1>4, <1>5, <1>8, <1>9, CallStep

LEMMA DeleteStep ==
    ASSUME StoreInv, NEW h \in Handlers, NEW p \in Files \cup UploadDirs,
           Delete(h, p)
    PROVE  StoreInv'
<1> DEFINE S == TaskSet("delete", handler[h].wr.loc, nextLoc', written')
           tasks == deleteDownwards(p, files[p])
<1>1. /\ handler[h].op = "idle" /\ ~HasWriter(h) /\ files[p] # NoRow
      /\ acked' = Forget(Below(p))
      /\ handler' = [handler EXCEPT ![h] = Enter(h, "delete", p, Root, Absent, tasks)]
      /\ UNCHANGED <<files, segments, objects, nextLoc, nextUnit, faults,
                     written, cancelled>>
  BY DEF Delete, MayCall
<1>2. Grows /\ CountersOK'
  BY <1>1, BoundsNat, ForgetType DEF Grows, StoreInv, CountersOK
<1>3. p \in Paths
  BY SwiftPlusAssumption DEF Dirs
<1>4. tasks \in Seq(S)
  BY <1>1, <1>3, RowForPath, BoundsNat, DeleteDownwardsTasks
<1>5. /\ "delete" \in Ops \ {"idle", "put", "write", "create", "append"}
      /\ "delete" \notin WriterOps
      /\ Absent \in Value
  BY DEF Ops, Value, WriterOps
<1> HIDE DEF tasks
<1> QED BY <1>1, <1>2, <1>3, <1>4, <1>5, CallStep

LEMMA CommitStep ==
    ASSUME StoreInv, NEW h \in Handlers, NEW op \in {"commit", "close"},
           Commit(h, op)
    PROVE  StoreInv'
<1> DEFINE S == TaskSet(op, handler[h].wr.loc, nextLoc', written')
           w == handler[h].wr
           rest == <<Task("manifest", w.path, w.loc, NoRow)>>
           tasks == Flush(w) \o rest
<1>1. /\ handler[h].op = "idle" /\ HasWriter(h) /\ ~handler[h].wr.err
      /\ acked' = Forget({w.path})
      /\ handler' = [handler EXCEPT ![h] = Enter(h, op, Root, Root, Absent, tasks)]
      /\ UNCHANGED <<files, segments, objects, nextLoc, nextUnit, faults,
                     written, cancelled>>
  BY DEF Commit, MayUse
<1>2. Grows /\ CountersOK'
  BY <1>1, BoundsNat, ForgetType DEF Grows, StoreInv, CountersOK
<1>3. w \in WriterRec /\ w.loc \in 1..nextLoc
  BY <1>1 DEF HasWriter, StoreInv, HandlerOK, HandlerRec, NoWriter
<1>4. rest \in Seq(S)
  <2>1. Task("manifest", w.path, w.loc, NoRow) \in SqlTask
    BY <1>3, SwiftPlusAssumption, BoundsNat
       DEF SqlTask, Kinds, Task, WriterRec, Files
  <2>2. Task("manifest", w.path, w.loc, NoRow) \in S
    BY <1>1, <1>3, <2>1, BoundsNat DEF TaskSet, Task, FlushTasks, WriterTasks, NoLoc
  <2> QED BY <2>2
<1>5. op \in Ops \ {"idle", "put", "write", "create", "append"} /\ Absent \in Value
  BY DEF Ops, Value
<1>6. \/ tasks \in Seq(S)
      \/ /\ HasWriter(h) /\ w.buf # NoUnit
         /\ \E r \in Seq(S) : tasks = Flush(w) \o r
  <2>1. CASE w.buf = NoUnit
    BY <2>1, <1>4, ConcatProperties DEF Flush
  <2>2. CASE w.buf # NoUnit
    BY <2>2, <1>1, <1>4
  <2> QED BY <2>1, <2>2
<1> HIDE DEF tasks, rest
<1> QED BY <1>1, <1>2, <1>5, <1>6, CallStep

LEMMA CancelStep ==
    ASSUME StoreInv, NEW h \in Handlers, Cancel(h)
    PROVE  StoreInv'
<1> DEFINE S == TaskSet("cancel", handler[h].wr.loc, nextLoc', written')
           w == handler[h].wr
           rest == <<Task("delete", w.path, NoLoc, NoRow)>>
           tasks == Flush(w) \o rest
<1>1. /\ handler[h].op = "idle" /\ HasWriter(h) /\ ~handler[h].wr.err
      /\ acked' = Forget({w.path})
      /\ handler' = [handler EXCEPT ![h] =
                       Enter(h, "cancel", Root, Root, Absent, tasks)]
      /\ UNCHANGED <<files, segments, objects, nextLoc, nextUnit, faults,
                     written, cancelled>>
  BY DEF Cancel, MayUse
<1>2. Grows /\ CountersOK'
  BY <1>1, BoundsNat, ForgetType DEF Grows, StoreInv, CountersOK
<1>3. w \in WriterRec
  BY <1>1 DEF HasWriter, StoreInv, HandlerOK, HandlerRec, NoWriter
<1>4. rest \in Seq(S)
  <2>1. Task("delete", w.path, NoLoc, NoRow) \in SqlTask
    BY <1>3, SwiftPlusAssumption, BoundsNat
       DEF SqlTask, Kinds, Task, WriterRec, Files, NoLoc
  <2>2. Task("delete", w.path, NoLoc, NoRow) \in S
    BY <1>1, <1>3, <2>1, BoundsNat
       DEF TaskSet, Task, FlushTasks, WriterTasks, NoLoc, HasWriter, WriterRec
  <2> QED BY <2>2
<1>5. "cancel" \in Ops \ {"idle", "put", "write", "create", "append"} /\ Absent \in Value
  BY DEF Ops, Value
<1>6. \/ tasks \in Seq(S)
      \/ /\ HasWriter(h) /\ w.buf # NoUnit
         /\ \E r \in Seq(S) : tasks = Flush(w) \o r
  <2>1. CASE w.buf = NoUnit
    BY <2>1, <1>4, ConcatProperties DEF Flush
  <2>2. CASE w.buf # NoUnit
    BY <2>2, <1>1, <1>4
  <2> QED BY <2>1, <2>2
<1> HIDE DEF tasks, rest
<1> QED BY <1>1, <1>2, <1>5, <1>6, CallStep

LEMMA LeaveStep ==
    ASSUME StoreInv, NEW h \in Handlers, Close(h) \/ GiveUp(h)
    PROVE  StoreInv'
<1>1. /\ handler' = [handler EXCEPT ![h] = IdleHandler]
      /\ UNCHANGED <<files, segments, objects, nextLoc, nextUnit, faults,
                     acked, written, cancelled>>
  BY DEF Close, GiveUp
<1>2. Grows /\ CountersOK'
  BY <1>1, BoundsNat DEF Grows, StoreInv, CountersOK
<1> QED BY <1>1, <1>2, IdleOK, QuietStep DEF Grows

LEMMA WriteStep ==
    ASSUME StoreInv, NEW h \in Handlers, Write(h)
    PROVE  StoreInv'
<1> DEFINE m == handler[h]
           w == m.wr
           u == nextUnit + 1
           S == TaskSet("write", w.loc, nextLoc', written')
           q == Flush(w) \o <<Return>>
<1>1. /\ m.op = "idle" /\ HasWriter(h) /\ ~w.err
      /\ nextUnit < MaxUnits /\ nextUnit' = u
      /\ handler' = [handler EXCEPT ![h] =
                       Enter(h, "write", Root, Root, <<u>>, Flush(w))]
      /\ UNCHANGED <<files, segments, objects, nextLoc, faults, acked, written,
                     cancelled>>
  BY DEF Write, MayUse
<1>2. Grows /\ CountersOK'
  BY <1>1, BoundsNat DEF Grows, StoreInv, CountersOK
<1>3. HandlerOK(m, nextLoc', nextUnit', written', segments')
  BY <1>2, KeptHandler
<1>4. w \in WriterRec /\ w # NoWriter /\ w.loc \in Nat \ {NoLoc}
  BY <1>1, <1>3 DEF HasWriter, HandlerOK, HandlerRec, NoWriter, WriterRec, Loc, NoLoc
<1>5. /\ q \in Seq(SqlTask \cup BulkTask)
      /\ q # <<>> => Head(q) # RecordTask(w.loc)
      /\ q \in Seq(S) \/ (Flushing(q, w.loc, S) /\ w.buf # NoUnit)
  <2>1. CASE w.buf = NoUnit
    <3>1. Flush(w) \in Seq(S)
      BY <2>1 DEF Flush
    <3>2. q \in Seq(S)
      BY <1>2, <3>1, WithReturn DEF Grows
    <3>3. S \subseteq SqlTask \cup BulkTask
      BY DEF TaskSet
    <3> QED BY <1>2, <3>2, <3>3, SeqMonotonic, PlainNotPending DEF Grows
  <2>2. CASE w.buf # NoUnit
    <3>1. <<>> \in Seq(S)
      OBVIOUS
    <3>2. q = (Flush(w) \o <<>>) \o <<Return>>
      BY <2>2 DEF Flush
    <3> HIDE DEF q
    <3> QED BY <1>2, <1>4, <2>2, <3>1, <3>2, FlushTodo DEF Grows
  <2> QED BY <2>1, <2>2
<1>6. u \in 1..nextUnit' /\ <<u>> \in Value
  BY <1>1, BoundsNat, NewUnit
<1>7. w.buf < u /\ \A i \in 1..Len(w.segs) : w.segs[i].unit < u
  <2>1. Numbered(m, nextUnit, segments)
    BY <1>4 DEF StoreInv, HandlerOK
  <2>2. w.buf \in 0..nextUnit
    BY <2>1 DEF Numbered
  <2>3. \A i \in 1..Len(w.segs) : w.segs[i].unit \in i..nextUnit
    BY <2>1 DEF Numbered
  <2>4. Len(w.segs) \in Nat
    BY <1>4 DEF WriterRec
  <2> QED BY <2>2, <2>3, <2>4, BoundsNat
<1>8. "write" \in Ops \ {"idle", "create", "append"}
  BY DEF Ops
<1> HIDE DEF q
<1>9. HandlerOK([m EXCEPT !.op = "write", !.path = Root, !.dest = Root,
                          !.val = <<u>>, !.todo = q],
                nextLoc', nextUnit', written', segments')
  BY <1>1, <1>2, <1>3, <1>4, <1>5, <1>6, <1>7, <1>8, EnterOK DEF Grows
<1> QED BY <1>1, <1>2, <1>9, QuietStep DEF Enter, q

LEMMA WriterStep ==
    ASSUME StoreInv, NEW h \in Handlers, NEW p \in Uploads,
           NEW append \in BOOLEAN, Writer(h, p, append)
    PROVE  StoreInv'
<1> DEFINE fi == files[p]
           exists == append /\ fi # NoRow
           fresh == ~exists \/ fi.loc = NoLoc
           location == IF fresh THEN nextLoc + 1 ELSE fi.loc
           del == IF ~append /\ fi # NoRow THEN deleteDownwards(p, fi) ELSE <<>>
           rd == IF exists THEN <<Task("readsegments", Root, location, NoRow)>>
                 ELSE <<>>
           w == [path |-> p, loc |-> location, segs |-> <<>>, buf |-> NoUnit,
                 err |-> FALSE, committed |-> FALSE, lost |-> FALSE,
                 base |-> IF append THEN acked[p] ELSE Absent]
           op == IF append THEN "append" ELSE "create"
           S == TaskSet(op, location, nextLoc', written')
           q == (del \o rd) \o <<Return>>
           m == handler[h]
           k == [m EXCEPT !.op = op, !.path = p, !.dest = Root,
                          !.val = Absent, !.todo = q, !.wr = w]
<1>1. /\ m.op = "idle"
      /\ fresh => nextLoc < MaxLocs
      /\ nextLoc' = IF fresh THEN nextLoc + 1 ELSE nextLoc
      /\ handler' = [handler EXCEPT ![h] =
                       [Enter(h, op, p, Root, Absent, del \o rd) EXCEPT !.wr = w]]
      /\ acked' = IF append THEN acked ELSE Forget({p})
      /\ UNCHANGED <<files, segments, objects, nextUnit, faults, written,
                     cancelled>>
  BY DEF Writer, MayCall
<1>2. Grows /\ CountersOK'
  BY <1>1, BoundsNat, ForgetType DEF Grows, StoreInv, CountersOK
<1>3. p \in Files /\ p \in Paths
  BY SwiftPlusAssumption DEF Files
<1>4. fi # NoRow => RowFor(p, fi, nextLoc', written') /\ fi.loc \in 0..nextLoc
  <2>1. fi # NoRow => RowFor(p, fi, nextLoc, written) /\ fi.loc \in 0..nextLoc
    BY <1>3, RowForPath
  <2> QED BY <1>2, <1>3, <2>1, BoundsNat, FileRowMono DEF RowFor, Grows
<1>5. location \in 1..nextLoc' /\ nextLoc' <= MaxLocs
  BY <1>1, <1>4, BoundsNat DEF NoLoc
<1>6. w \in WriterRec /\ w.loc = location /\ w.segs = <<>> /\ w.buf = NoUnit
      /\ ~w.err /\ w # NoWriter
  <2>1. w.base \in Value
    BY <1>3 DEF StoreInv, CountersOK, Value
  <2>2. location \in Loc
    <3> HIDE DEF location
    <3> QED BY <1>2, <1>5, BoundsNat DEF Loc, Grows
  <2>3. w # NoWriter
    BY <2>2 DEF NoWriter, Loc, NoLoc
  <2> QED BY <2>1, <2>2, <2>3 DEF WriterRec, NoUnit
<1> HIDE DEF w, location, fresh
<1>7. q \in Seq(S)
  <2>1. del \in Seq(S)
    <3>1. CASE ~append /\ fi # NoRow
      <4>1. deleteDownwards(p, fi) \in Seq(S)
        BY <1>2, <1>3, <1>4, <3>1, DeleteDownwardsTasks DEF Grows
      <4> HIDE DEF S, fi
      <4> QED BY <3>1, <4>1
    <3>2. CASE ~(~append /\ fi # NoRow)
      <4> HIDE DEF S, fi
      <4> QED BY <3>2
    <3> QED BY <3>1, <3>2
  <2>2. rd \in Seq(S)
    <3>1. CASE exists
      <4> DEFINE t == Task("readsegments", Root, location, NoRow)
      <4>1. t \in SqlTask
        BY <1>5, <1>2 DEF Task, SqlTask, Kinds, Grows
      <4>2. op = "append"
        BY <3>1
      <4> HIDE DEF op
      <4>3. t \in S
        BY <1>5, <1>2, <4>1, <4>2
           DEF TaskSet, Task, FlushTasks, WriterTasks, NoLoc, Grows
      <4>4. <<t>> \in Seq(S)
        BY <4>3
      <4> HIDE DEF S, exists
      <4> QED BY <3>1, <4>4
    <3>2. CASE ~exists
      <4> HIDE DEF S, exists
      <4> QED BY <3>2
    <3> QED BY <3>1, <3>2
  <2>3. del \o rd \in Seq(S)
    BY <2>1, <2>2, ConcatProperties
  <2> QED BY <1>2, <2>3, WithReturn DEF Grows
<1>8. S \subseteq SqlTask \cup BulkTask
  BY DEF TaskSet
<1>9. q \in Seq(SqlTask \cup BulkTask)
  BY <1>7, <1>8, SeqMonotonic
<1>10. q # <<>> => Head(q).do \notin FlushTasks /\ Head(q) # RecordTask(location)
  BY <1>2, <1>7, PlainNotPending DEF Grows
<1>11. m \in HandlerRec
  BY DEF StoreInv
<1> HIDE DEF q
<1>12. /\ k \in HandlerRec /\ k.todo = q /\ k.op = op /\ k.path = p
       /\ k.dest = Root /\ k.val = Absent /\ k.wr = w
  BY <1>3, <1>6, <1>9, <1>11 DEF HandlerRec, Ops, Value
<1> HIDE DEF k
<1>13. ~Pending(k)
  BY <1>6, <1>10, <1>12 DEF Pending
<1>14. Numbered(k, nextUnit', segments')
  BY <1>2, <1>6, <1>12, <1>13 DEF Numbered, NoUnit, Grows
<1>15. HandlerOK(k, nextLoc', nextUnit', written', segments')
  BY <1>5, <1>6, <1>7, <1>10, <1>12, <1>14 DEF HandlerOK
<1>16. handler' = [handler EXCEPT ![h] = k]
  BY <1>1, <1>11 DEF Enter, k, q, HandlerRec
<1> QED BY <1>1, <1>2, <1>15, <1>16, QuietStep

-----------------------------------------------------------------------------
(* Steps within a call. *)

LEMMA NoCounters ==
    ASSUME StoreInv, UNCHANGED <<bounds, ghosts>>, segments \subseteq segments'
    PROVE  Grows /\ CountersOK'
  BY BoundsNat DEF Grows, StoreInv, CountersOK, bounds, ghosts

(* The task at hand is one that the invariant allows. *)
LEMMA AtTask ==
    ASSUME StoreInv, NEW h \in Handlers, handler[h].todo # <<>>,
           Now(h).do \notin FlushTasks
    PROVE  Now(h) \in TaskSet(handler[h].op, handler[h].wr.loc, nextLoc, written)
<1>1. HandlerOK(handler[h], nextLoc, nextUnit, written, segments)
  BY DEF StoreInv
<1> QED BY <1>1, BoundsNat, PlainTodo DEF Now

(* The task at hand is done. *)
LEMMA ContinueStep ==
    ASSUME StoreInv, Grows, CountersOK', NEW h \in Handlers,
           handler[h].todo # <<>>, Now(h).do \notin FlushTasks,
           NEW tasks \in Seq(TaskSet(handler[h].op, handler[h].wr.loc,
                                     nextLoc', written')),
           Continue(h, tasks),
           RowsOK(files', nextLoc', written'),
           TableOK(segments', nextLoc', nextUnit'),
           ObjectsOK(objects', nextLoc', written')
    PROVE  StoreInv'
<1> DEFINE m == handler[h]
           k == Then(h, tasks)
<1>1. HandlerOK(m, nextLoc', nextUnit', written', segments')
  BY KeptHandler
<1>2. HandlerOK(k, nextLoc', nextUnit', written', segments')
  BY <1>1, ThenOK DEF Grows, Then, Now
<1>3. handler' = [handler EXCEPT ![h] = k]
  BY DEF Continue
<1> HIDE DEF k
<1> QED BY <1>2, <1>3, OneHandler DEF StoreInv

LEMMA ListObjectsStep ==
    ASSUME StoreInv, NEW h \in Handlers, ListObjects(h)
    PROVE  StoreInv'
<1> DEFINE l == Now(h).loc
           ns == {o.num : o \in {x \in objects : x.loc = l}}
           t == [do |-> "bulkdelete", loc |-> l, nums |-> ns]
           S == TaskSet(handler[h].op, handler[h].wr.loc, nextLoc', written')
<1>1. /\ handler[h].todo # <<>> /\ Now(h).do = "list"
      /\ Continue(h, <<t>>)
      /\ UNCHANGED <<files, segments, objects, bounds, ghosts>>
  BY DEF ListObjects, At, Now
<1>2. Grows /\ CountersOK' /\ nextLoc' = nextLoc /\ nextUnit' = nextUnit
      /\ written' = written
  BY <1>1, NoCounters DEF bounds, ghosts
<1>3. l \in 1..nextLoc
  BY <1>1, AtTask, BoundsNat DEF TaskSet, FlushTasks, NoLoc
<1>4. ns \in SUBSET Nat
  BY SwiftPlusAssumption DEF StoreInv, ObjectsOK, ObjectRec
<1>5. t \in S
  <2> HIDE DEF l, ns
  <2>1. t \in BulkTask
    BY <1>3, <1>4, BoundsNat DEF BulkTask
  <2> QED BY <2>1, <1>2, <1>3, BoundsNat DEF TaskSet, FlushTasks, WriterTasks, NoLoc
<1>6. <<t>> \in Seq(S) /\ Now(h).do \notin FlushTasks
  BY <1>1, <1>5 DEF FlushTasks
<1> HIDE DEF t
<1> QED BY <1>1, <1>2, <1>6, ContinueStep DEF StoreInv

LEMMA FewerObjects ==
    ASSUME NEW os, NEW nl, NEW wn, ObjectsOK(os, nl, wn), NEW ps \in SUBSET os
    PROVE  ObjectsOK(ps, nl, wn)
  BY DEF ObjectsOK

LEMMA EmptyTasks ==
    ASSUME NEW S
    PROVE  <<>> \in Seq(S)
  OBVIOUS

LEMMA BulkDeleteStep ==
    ASSUME StoreInv, NEW h \in Handlers, BulkDelete(h)
    PROVE  StoreInv'
<1>1. /\ handler[h].todo # <<>> /\ Now(h).do = "bulkdelete"
      /\ Continue(h, <<>>)
      /\ objects' \subseteq objects
      /\ UNCHANGED <<files, segments, bounds, ghosts>>
  BY DEF BulkDelete, At, Now
<1>2. Grows /\ CountersOK' /\ nextLoc' = nextLoc /\ nextUnit' = nextUnit
      /\ written' = written
  BY <1>1, NoCounters DEF bounds, ghosts
<1>3. Now(h).do \notin FlushTasks
  BY <1>1 DEF FlushTasks
<1>4. ObjectsOK(objects', nextLoc', written')
  BY <1>1, <1>2, FewerObjects DEF StoreInv
<1> QED BY <1>1, <1>2, <1>3, <1>4, EmptyTasks, ContinueStep DEF StoreInv

LEMMA DeleteRowStep ==
    ASSUME StoreInv, NEW h \in Handlers, DeleteRow(h)
    PROVE  StoreInv'
<1>1. /\ handler[h].todo # <<>> /\ Now(h).do = "unlink"
      /\ Continue(h, <<>>)
      /\ files' = [files EXCEPT ![Now(h).path] = NoRow]
      /\ UNCHANGED <<segments, objects, bounds, ghosts>>
  BY DEF DeleteRow, At, Now
<1>2. Grows /\ CountersOK' /\ nextLoc' = nextLoc /\ nextUnit' = nextUnit
      /\ written' = written
  BY <1>1, NoCounters DEF bounds, ghosts
<1>3. Now(h).do \notin FlushTasks
  BY <1>1 DEF FlushTasks
<1>4. RowsOK(files', nextLoc', written')
  BY <1>1, <1>2 DEF StoreInv, RowsOK
<1> QED BY <1>1, <1>2, <1>3, <1>4, EmptyTasks, ContinueStep DEF StoreInv

LEMMA UpsertRowStep ==
    ASSUME StoreInv, NEW h \in Handlers, UpsertRow(h)
    PROVE  StoreInv'
<1>1. /\ handler[h].todo # <<>> /\ Now(h).do = "upsert"
      /\ Continue(h, <<>>)
      /\ files' = [files EXCEPT ![Now(h).path] = Now(h).row]
      /\ UNCHANGED <<segments, objects, bounds, ghosts>>
  BY DEF UpsertRow, At, Now
<1>2. Grows /\ CountersOK' /\ nextLoc' = nextLoc /\ nextUnit' = nextUnit
      /\ written' = written
  BY <1>1, NoCounters DEF bounds, ghosts
<1>3. Now(h).do \notin FlushTasks
  BY <1>1 DEF FlushTasks
<1>4. Now(h).path \in Files /\ Now(h).row \in FileRow(nextLoc, written)
  BY <1>1, <1>3, AtTask DEF TaskSet
<1>5. RowsOK(files', nextLoc', written')
  <2>1. FileRow(nextLoc, written) \subseteq Row
    BY DEF FileRow
  <2> QED BY <1>1, <1>2, <1>4, <2>1 DEF StoreInv, RowsOK
<1> QED BY <1>1, <1>2, <1>3, <1>5, EmptyTasks, ContinueStep DEF StoreInv

LEMMA EmptyContents == <<>> \in Contentses
<1>1. <<>> \in [1..0 -> Unit]
  OBVIOUS
<1>2. 0 \in 0..MaxUnits
  BY SwiftPlusAssumption
<1> QED BY <1>1, <1>2 DEF Contentses

LEMMA MakeDirStep ==
    ASSUME StoreInv, NEW h \in Handlers, MakeDir(h)
    PROVE  StoreInv'
<1> DEFINE d == Now(h).path
           tasks == mkdirAll(Parent[d])
<1>1. /\ handler[h].todo # <<>> /\ Now(h).do = "mkdir"
      /\ Continue(h, tasks)
      /\ files' = [files EXCEPT ![d] = IF @ = NoRow THEN DirRow ELSE @]
      /\ UNCHANGED <<segments, objects, bounds, ghosts>>
  BY DEF MakeDir, At, Now
<1>2. Grows /\ CountersOK' /\ nextLoc' = nextLoc /\ nextUnit' = nextUnit
      /\ written' = written
  BY <1>1, NoCounters DEF bounds, ghosts
<1>3. Now(h).do \notin FlushTasks
  BY <1>1 DEF FlushTasks
<1>4. d \in Dirs
  BY <1>1, <1>3, AtTask DEF TaskSet
<1>5. RowsOK(files', nextLoc', written')
  <2>1. DirRow \in Row
    BY EmptyContents DEF DirRow, Row, NoLoc
  <2> QED BY <1>1, <1>2, <1>4, <2>1 DEF StoreInv, RowsOK, Dirs
<1>6. tasks \in Seq(TaskSet(handler[h].op, handler[h].wr.loc, nextLoc', written'))
  <2>1. Parent[d] \in Dirs \cup {Root}
    BY <1>4, SwiftPlusAssumption DEF Dirs
  <2> QED BY <1>2, <2>1, MkdirAllTasks DEF Grows
<1> QED BY <1>1, <1>2, <1>3, <1>5, <1>6, ContinueStep DEF StoreInv

LEMMA ReplacedObject ==
    ASSUME StoreInv, NEW nl, nl = nextLoc, NEW wn, written \subseteq wn,
           NEW o \in ObjectRec, o.loc \in 1..nl,
           o.num = 0 /\ ~o.slo => o.data \in wn,
           ~o.slo => o.parts = <<>>,
           o.slo => o.num = 0 /\ o.data = <<>> /\ Units(o.parts) \in wn
    PROVE  ObjectsOK(PutObject(o), nl, wn)
<1>1. ObjectsOK(objects, nextLoc, written)
  BY DEF StoreInv
<1> QED BY <1>1 DEF ObjectsOK, PutObject

LEMMA UploadStep ==
    ASSUME StoreInv, NEW h \in Handlers, Upload(h)
    PROVE  StoreInv'
<1> DEFINE l == Now(h).loc
           v == handler[h].val
           o == Plain(l, 0, v)
<1>1. /\ handler[h].todo # <<>> /\ Now(h).do = "upload"
      /\ Continue(h, <<>>)
      /\ objects' = PutObject(o)
      /\ UNCHANGED <<files, segments, bounds, ghosts>>
  BY DEF Upload, At, Now
<1>2. Grows /\ CountersOK' /\ nextLoc' = nextLoc /\ nextUnit' = nextUnit
      /\ written' = written
  BY <1>1, NoCounters DEF bounds, ghosts
<1>3. Now(h).do \notin FlushTasks
  BY <1>1 DEF FlushTasks
<1>4. l \in 1..nextLoc /\ handler[h].op = "put"
  BY <1>1, <1>3, AtTask, BoundsNat DEF TaskSet, NoLoc
<1>5. v \in written /\ v \in Contentses
  BY <1>4 DEF StoreInv, HandlerOK, CountersOK
<1> HIDE DEF l, v
<1>6. /\ o.loc = l /\ o.num = 0 /\ o.data = v /\ o.slo = FALSE /\ o.parts = <<>>
      /\ o \in ObjectRec
  BY <1>4, <1>5, BoundsNat DEF Plain, ObjectRec, Loc
<1> HIDE DEF o
<1>7. ObjectsOK(objects', nextLoc', written')
  BY <1>1, <1>2, <1>4, <1>5, <1>6, ReplacedObject
<1> QED BY <1>1, <1>2, <1>3, <1>7, EmptyTasks, ContinueStep DEF StoreInv

(* Move and Cancel read a row, and delete what it stands for. *)
LEMMA ReadRowTasks ==
    ASSUME StoreInv, NEW op, NEW wl, NEW p \in Paths
    PROVE  (IF files[p] = NoRow THEN <<>> ELSE deleteDownwards(p, files[p]))
             \in Seq(TaskSet(op, wl, nextLoc, written))
<1>1. CASE files[p] = NoRow
  BY <1>1, EmptyTasks
<1>2. CASE files[p] # NoRow
  <2>1. deleteDownwards(p, files[p]) \in Seq(TaskSet(op, wl, nextLoc, written))
    BY <1>2, RowForPath, BoundsNat, DeleteDownwardsTasks
  <2> QED BY <1>2, <2>1
<1> QED BY <1>1, <1>2

LEMMA ReadRowStep ==
    ASSUME StoreInv, NEW h \in Handlers, ReadTarget(h) \/ ReadForDelete(h)
    PROVE  StoreInv'
<1> DEFINE p == Now(h).path
           tasks == IF files[p] = NoRow THEN <<>>
                    ELSE deleteDownwards(p, files[p])
<1>1. /\ handler[h].todo # <<>> /\ Now(h).do \in {"target", "delete"}
      /\ Continue(h, tasks)
      /\ UNCHANGED <<files, segments, objects, bounds, ghosts>>
  BY DEF ReadTarget, ReadForDelete, At, Now
<1>2. Grows /\ CountersOK' /\ nextLoc' = nextLoc /\ nextUnit' = nextUnit
      /\ written' = written
  BY <1>1, NoCounters DEF bounds, ghosts
<1>3. Now(h).do \notin FlushTasks
  BY <1>1 DEF FlushTasks
<1>4. p \in Paths
  BY <1>1, <1>3, AtTask, SwiftPlusAssumption DEF TaskSet, Files
<1>5. tasks \in Seq(TaskSet(handler[h].op, handler[h].wr.loc, nextLoc, written))
  BY <1>4, ReadRowTasks
<1> HIDE DEF tasks
<1> QED BY <1>1, <1>2, <1>3, <1>5, ContinueStep DEF StoreInv

(* Some or all of the rows of a directory. *)
LEMMA RowsDeleted ==
    ASSUME StoreInv, NEW d, NEW some \in SUBSET List(d),
           NEW order \in SetToSeqs(some), NEW op, NEW wl
    PROVE  deleteEach(order) \in Seq(TaskSet(op, wl, nextLoc, written))
<1> DEFINE S == TaskSet(op, wl, nextLoc, written)
           ss == [i \in DOMAIN order |->
                    deleteDownwards(order[i], files[order[i]])]
<1>1. order \in Seq(List(d))
  <2>1. some \in SUBSET Paths
    BY DEF List
  <2>2. IsFiniteSet(some)
    BY <2>1, SwiftPlusAssumption, FS_Subset
  <2> QED BY <2>2, Enumeration, SeqMonotonic
<1>2. ss \in Seq(Seq(S))
  <2>1. ASSUME NEW i \in DOMAIN order
        PROVE  deleteDownwards(order[i], files[order[i]]) \in Seq(S)
    <3>1. order[i] \in Paths /\ files[order[i]] # NoRow
      BY <1>1 DEF List
    <3> QED BY <3>1, RowForPath, BoundsNat, DeleteDownwardsTasks
  <2> QED BY <1>1, <2>1
<1> QED BY <1>2, FlattenBlocks DEF deleteEach

LEMMA DeleteChildrenStep ==
    ASSUME StoreInv, NEW h \in Handlers, DeleteChildren(h)
    PROVE  StoreInv'
<1>1. /\ handler[h].todo # <<>> /\ Now(h).do = "children"
      /\ UNCHANGED <<files, segments, objects, bounds, ghosts>>
  BY DEF DeleteChildren, At, Now
<1>2. Grows /\ CountersOK' /\ nextLoc' = nextLoc /\ nextUnit' = nextUnit
      /\ written' = written
  BY <1>1, NoCounters DEF bounds, ghosts
<1>3. Now(h).do \notin FlushTasks
  BY <1>1 DEF FlushTasks
<1>4. PICK order \in SetToSeqs(List(Now(h).path)) : Continue(h, deleteEach(order))
  BY DEF DeleteChildren
<1>5. deleteEach(order)
        \in Seq(TaskSet(handler[h].op, handler[h].wr.loc, nextLoc, written))
  BY RowsDeleted
<1> QED BY <1>1, <1>2, <1>3, <1>4, <1>5, ContinueStep DEF StoreInv

LEMMA RenameStep ==
    ASSUME StoreInv, NEW h \in Handlers, Rename(h)
    PROVE  StoreInv'
<1> DEFINE s == Now(h).path
           d == handler[h].dest
<1>1. /\ handler[h].todo # <<>> /\ Now(h).do = "rename"
      /\ Continue(h, <<>>)
      /\ files' = IF files[s] = NoRow THEN files
                  ELSE [files EXCEPT ![s] = NoRow, ![d] = files[s]]
      /\ UNCHANGED <<segments, objects, bounds, ghosts>>
  BY DEF Rename, At, Now
<1>2. Grows /\ CountersOK' /\ nextLoc' = nextLoc /\ nextUnit' = nextUnit
      /\ written' = written
  BY <1>1, NoCounters DEF bounds, ghosts
<1>3. Now(h).do \notin FlushTasks
  BY <1>1 DEF FlushTasks
<1>4. s \in Uploads /\ handler[h].op = "move"
  BY <1>1, <1>3, AtTask DEF TaskSet
<1>5. d \in Blobs
  BY <1>4 DEF StoreInv, HandlerOK
<1>6. s \in Files /\ d \in Files /\ s \in Paths /\ d \in Paths
  BY <1>4, <1>5, SwiftPlusAssumption DEF Files
<1> HIDE DEF s, d
<1>7. RowsOK(files', nextLoc', written')
  BY <1>1, <1>2, <1>6 DEF StoreInv, RowsOK
<1> QED BY <1>1, <1>2, <1>3, <1>7, EmptyTasks, ContinueStep DEF StoreInv

(* A handler with a writer. *)
LEMMA WriterFacts ==
    ASSUME StoreInv, NEW h \in Handlers, handler[h].wr.loc # NoLoc
    PROVE  /\ handler[h].wr # NoWriter
           /\ handler[h].wr \in WriterRec
           /\ handler[h].wr.loc \in 1..nextLoc
           /\ Len(handler[h].wr.segs) \in Nat
           /\ Numbered(handler[h], nextUnit, segments)
<1>1. handler[h] \in HandlerRec
  BY DEF StoreInv
<1>2. handler[h].wr # NoWriter
  BY DEF NoWriter
<1> QED BY <1>1, <1>2 DEF StoreInv, HandlerOK, HandlerRec, WriterRec

LEMMA ContentsFacts ==
    ASSUME StoreInv, NEW h \in Handlers, handler[h].wr.loc # NoLoc
    PROVE  LET w == handler[h].wr
           IN  /\ Len(w.segs) \in 0..nextUnit
               /\ Contents(w) = Units(w.segs)
               /\ Contents(w) \in [1..Len(w.segs) -> 1..nextUnit]
               /\ Contents(w) \in Contentses
<1> DEFINE w == handler[h].wr
           n == Len(w.segs)
<1>1. n \in Nat /\ w.segs \in Seq(Part) /\ DOMAIN w.segs = 1..n
  BY WriterFacts DEF WriterRec
<1>2. \A i \in 1..n : w.segs[i].unit \in i..nextUnit
  BY WriterFacts DEF Numbered
<1>3. n \in 0..nextUnit
  <2>1. CASE n = 0
    BY <2>1, BoundsNat
  <2>2. CASE n # 0
    <3>1. n \in 1..n
      BY <1>1, <2>2
    <3>2. w.segs[n].unit \in n..nextUnit
      BY <1>2, <3>1
    <3> QED BY <1>1, <3>2, BoundsNat
  <2> QED BY <2>1, <2>2
<1>4. Contents(w) = Units(w.segs)
  BY <1>1 DEF Contents, Units
<1>5. Units(w.segs) \in [1..n -> 1..nextUnit]
  BY <1>1, <1>2, BoundsNat DEF Units
<1>6. Units(w.segs) \in [1..n -> Unit] /\ n \in 0..MaxUnits
  BY <1>3, <1>5, BoundsNat DEF Unit
<1> QED BY <1>3, <1>4, <1>5, <1>6 DEF Contentses

LEMMA WriteSLOStep ==
    ASSUME StoreInv, NEW h \in Handlers, WriteSLO(h)
    PROVE  StoreInv'
<1> DEFINE w == handler[h].wr
           n == Len(w.segs)
           o == Manifest(w.loc, w.segs)
           row == [size |-> n, data |-> <<>>, loc |-> w.loc]
           tasks == writeFileInfo(w.path, row)
<1>1. /\ handler[h].todo # <<>> /\ Now(h).do = "manifest"
      /\ Continue(h, tasks)
      /\ objects' = PutObject(o)
      /\ written' = written \cup {Contents(w)}
      /\ UNCHANGED <<files, segments, bounds, acked, cancelled>>
  BY DEF WriteSLO, At, Now
<1>2. Now(h).do \notin FlushTasks
  BY <1>1 DEF FlushTasks
<1>3. w.loc # NoLoc
  BY <1>1, <1>2, AtTask DEF TaskSet, WriterTasks
<1>4. /\ w \in WriterRec /\ w.loc \in 1..nextLoc /\ n \in 0..MaxUnits
      /\ Contents(w) \in Contentses /\ Contents(w) = Units(w.segs)
      /\ Contents(w) \in [1..n -> 1..nextUnit]
  BY <1>3, WriterFacts, ContentsFacts, BoundsNat
<1>5. Grows /\ CountersOK' /\ nextLoc' = nextLoc /\ nextUnit' = nextUnit
  BY <1>1, <1>4, BoundsNat DEF Grows, StoreInv, CountersOK, bounds
<1>6. row \in FileRow(nextLoc', written')
  <2>1. row \in Row
    BY <1>4, EmptyContents, BoundsNat DEF Row
  <2>2. n = 0 => Contents(w) = <<>>
    BY <1>4
  <2> QED BY <1>1, <1>4, <1>5, <2>1, <2>2, BoundsNat DEF FileRow
<1>7. tasks \in Seq(TaskSet(handler[h].op, w.loc, nextLoc', written'))
  <2>1. w.path \in Files
    BY <1>4 DEF WriterRec, Files
  <2> HIDE DEF row
  <2> QED BY <1>5, <1>6, <2>1, WriteFileInfoTasks DEF Grows
<1>8. ObjectsOK(objects', nextLoc', written')
  <2>1. /\ o.loc = w.loc /\ o.num = 0 /\ o.slo = TRUE /\ o.parts = w.segs
        /\ o \in ObjectRec /\ o.data = <<>>
    BY <1>4, EmptyContents, BoundsNat DEF Manifest, ObjectRec, WriterRec
  <2>2. Units(o.parts) \in written'
    BY <1>1, <1>4, <2>1
  <2> HIDE DEF o
  <2> QED BY <1>1, <1>4, <1>5, <2>1, <2>2, ReplacedObject
<1>9. RowsOK(files', nextLoc', written')
  BY <1>1, <1>5, BoundsNat, RowsMono DEF StoreInv, Grows
<1>10. TableOK(segments', nextLoc', nextUnit')
  BY <1>1, <1>5 DEF StoreInv
<1> HIDE DEF tasks, o
<1> QED BY <1>1, <1>2, <1>5, <1>7, <1>8, <1>9, <1>10, ContinueStep

(* Only the list of tasks and the writer of h change. *)
LEMMA WriterChange ==
    ASSUME StoreInv, Grows, CountersOK', NEW h \in Handlers,
           handler[h].wr.loc # NoLoc, handler[h].op # "idle",
           NEW q, NEW w \in WriterRec, w.loc = handler[h].wr.loc, ~w.err,
           q \in Seq(SqlTask \cup BulkTask),
           \/ q \in Seq(TaskSet(handler[h].op, w.loc, nextLoc', written'))
           \/ Flushing(q, w.loc, TaskSet(handler[h].op, w.loc, nextLoc',
                                         written')),
           handler[h].op \in {"create", "append"} => w.buf = NoUnit,
           q # <<>> /\ Head(q).do \in FlushTasks => w.buf # NoUnit,
           Numbered([handler[h] EXCEPT !.todo = q, !.wr = w], nextUnit',
                    segments'),
           handler[h].op = "write" =>
              \A u \in Nat : /\ handler[h].wr.buf < u
                             /\ \A i \in 1..Len(handler[h].wr.segs) :
                                  handler[h].wr.segs[i].unit < u
                             => /\ w.buf < u
                                /\ \A i \in 1..Len(w.segs) : w.segs[i].unit < u,
           handler' = [handler EXCEPT ![h] =
                         [handler[h] EXCEPT !.todo = q, !.wr = w]],
           RowsOK(files', nextLoc', written'),
           TableOK(segments', nextLoc', nextUnit'),
           ObjectsOK(objects', nextLoc', written')
    PROVE  StoreInv'
<1> DEFINE m == handler[h]
           k == [m EXCEPT !.todo = q, !.wr = w]
<1>1. HandlerOK(m, nextLoc', nextUnit', written', segments')
  BY KeptHandler
<1>2. m \in HandlerRec /\ m.wr # NoWriter /\ w # NoWriter
  BY <1>1 DEF HandlerOK, NoWriter
<1>3. /\ k \in HandlerRec /\ k.todo = q /\ k.op = m.op /\ k.path = m.path
      /\ k.dest = m.dest /\ k.val = m.val /\ k.wr = w
  BY <1>2 DEF HandlerRec
<1>4. Numbered(k, nextUnit', segments')
  OBVIOUS
<1>5. handler' = [handler EXCEPT ![h] = k]
  OBVIOUS
<1> HIDE DEF k
<1>6. m.op = "write" =>
        \E u \in 1..nextUnit' : /\ m.val = <<u>>
                                /\ w.buf < u
                                /\ \A i \in 1..Len(w.segs) : w.segs[i].unit < u
  BY <1>1, <1>2 DEF HandlerOK, Grows
<1>7. HandlerOK(k, nextLoc', nextUnit', written', segments')
  BY <1>1, <1>2, <1>3, <1>4, <1>6 DEF HandlerOK
<1> QED BY <1>5, <1>7, OneHandler DEF StoreInv

(* What newPlusWriter reads from the table of segments. *)
LEMMA ReadSegmentInfo ==
    ASSUME StoreInv, NEW l
    PROVE  LET q == readSegmentInfo(l)
           IN  /\ q \in Seq(Part)
               /\ \A i \in 1..Len(q) :
                    /\ q[i].num = i
                    /\ [loc |-> l, num |-> i, unit |-> q[i].unit] \in segments
               /\ \A s \in segments : s.loc = l =>
                    s.num \in 1..Len(q) /\ q[s.num].unit = s.unit
<1> DEFINE R == SegmentRows(l)
           Sorted(q) == \A i, j \in DOMAIN q : i < j => q[i].num < q[j].num
           q == readSegmentInfo(l)
<1>0. /\ TableOK(segments, nextLoc, nextUnit)
      /\ nextUnit \in Nat
  BY BoundsNat DEF StoreInv
<1>1. \A r \in R : /\ r \in Part
                   /\ [loc |-> l, num |-> r.num, unit |-> r.unit] \in segments
  <2> SUFFICES ASSUME NEW s \in segments, s.loc = l
               PROVE  /\ [num |-> s.num, unit |-> s.unit] \in Part
                      /\ [loc |-> l, num |-> s.num, unit |-> s.unit] \in segments
    BY DEF SegmentRows
  <2>1. s \in [loc : 1..nextLoc, num : 1..nextUnit, unit : 1..nextUnit]
    BY <1>0 DEF TableOK
  <2>2. s = [loc |-> l, num |-> s.num, unit |-> s.unit]
    BY <2>1
  <2> QED BY <2>1, <2>2 DEF Part
<1>2. \A s \in segments : s.loc = l => [num |-> s.num, unit |-> s.unit] \in R
  BY DEF SegmentRows
<1> HIDE DEF R
<1>3. Gapless(R, nextUnit)
  <2>1. \A r \in R : r.num \in 1..nextUnit
    BY <1>0, <1>1 DEF TableOK
  <2>2. ASSUME NEW r \in R, NEW t \in R, r.num = t.num
        PROVE  r = t
    <3> DEFINE a == [loc |-> l, num |-> r.num, unit |-> r.unit]
               b == [loc |-> l, num |-> t.num, unit |-> t.unit]
    <3>1. a \in segments /\ b \in segments
      BY <1>1
    <3>2. a = b
      BY <1>0, <2>2, <3>1 DEF TableOK
    <3>3. r.unit = t.unit
      BY <3>2
    <3>4. r \in [num : Nat, unit : Nat] /\ t \in [num : Nat, unit : Nat]
      BY <1>1 DEF Part
    <3> QED BY <2>2, <3>3, <3>4
  <2>3. ASSUME NEW r \in R, NEW n \in 1..(r.num - 1)
        PROVE  \E t \in R : t.num = n
    <3>1. [loc |-> l, num |-> r.num, unit |-> r.unit] \in segments
      BY <1>1
    <3>2. \E t \in segments : t.loc = l /\ t.num = n
      BY <1>0, <3>1 DEF TableOK
    <3> QED BY <1>2, <3>2
  <2> QED BY <2>1, <2>2, <2>3 DEF Gapless
<1>4. IsFiniteSet(R)
  BY <1>0, <1>3, GaplessCount
<1>5. \E x \in SetToSeqs(R) : Sorted(x)
  <2>1. PICK x \in SetToSeqs(R) : \A i \in DOMAIN x : x[i].num = i
    BY <1>0, <1>3, GaplessCount
  <2> QED BY <2>1
<1>6. q = CHOOSE x \in SetToSeqs(R) : Sorted(x)
  BY DEF readSegmentInfo, R
<1>7. q \in SetToSeqs(R) /\ Sorted(q)
  <2> HIDE DEF Sorted, q
  <2> QED BY <1>5, <1>6
<1> HIDE DEF q
<1>8. \A i \in 1..Len(q) : q[i].num = i
  BY <1>0, <1>3, <1>7, GaplessSorted
<1>9. /\ q \in Seq(R) /\ \A x \in R : \E i \in 1..Len(q) : q[i] = x
  BY <1>4, <1>7, Enumeration
<1>10. \A i \in 1..Len(q) : q[i] \in R
  BY <1>9
<1>11. q \in Seq(Part)
  BY <1>1, <1>9, SeqMonotonic
<1>12. ASSUME NEW s \in segments, s.loc = l
       PROVE  s.num \in 1..Len(q) /\ q[s.num].unit = s.unit
  <2> DEFINE r == [num |-> s.num, unit |-> s.unit]
  <2>1. PICK i \in 1..Len(q) : q[i] = r
    BY <1>2, <1>9, <1>12
  <2>2. r.num = s.num /\ r.unit = s.unit
    OBVIOUS
  <2> QED BY <1>8, <2>1, <2>2
<1> QED BY <1>1, <1>8, <1>10, <1>11, <1>12 DEF q

LEMMA UnitAboveIndex ==
    ASSUME NEW n \in Nat, NEW nu \in Nat, NEW u,
           \A i \in 1..n : u[i] \in 1..nu,
           \A i, j \in 1..n : i < j => u[i] < u[j]
    PROVE  \A i \in 1..n : u[i] \in i..nu
<1> DEFINE T == {i \in 1..n : ~(u[i] \in i..nu)}
<1> SUFFICES ASSUME T # {} PROVE FALSE
  OBVIOUS
<1>1. PICK m \in T : \A i \in T : m <= i
  <2>1. T \in SUBSET Nat
    OBVIOUS
  <2> HIDE DEF T
  <2> QED BY <2>1, LeastNat
<1>2. CASE m = 1
  BY <1>1, <1>2
<1>3. CASE m # 1
  <2>1. m - 1 \in 1..n /\ m - 1 \notin T /\ m - 1 < m /\ m \in 1..n
    BY <1>1, <1>3
  <2>2. u[m-1] \in (m-1)..nu /\ u[m-1] < u[m] /\ u[m] \in 1..nu
    BY <2>1
  <2>3. ~(u[m] \in m..nu)
    BY <1>1
  <2> QED BY <2>1, <2>2, <2>3
<1> QED BY <1>2, <1>3

(* The segments in q are numbered from 1 on, and in the table. *)
FromTable(q, l, tb) ==
    \A i \in 1..Len(q) :
       q[i].num = i /\ [loc |-> l, num |-> i, unit |-> q[i].unit] \in tb

(* The rows are those of the writer's own location. *)
LEMMA ReadsOwn ==
    ASSUME StoreInv, NEW h \in Handlers, handler[h].todo # <<>>,
           Now(h).do = "readsegments"
    PROVE  /\ Now(h).loc = handler[h].wr.loc
           /\ handler[h].wr \in WriterRec
           /\ handler[h] \in HandlerRec
<1>1. Now(h).do \notin FlushTasks
  BY DEF FlushTasks
<1>2. Now(h).loc = handler[h].wr.loc /\ handler[h].wr.loc # NoLoc
  BY <1>1, AtTask DEF TaskSet, WriterTasks
<1> QED BY <1>2, WriterFacts DEF StoreInv

LEMMA SegmentsReadStep ==
    ASSUME StoreInv, Grows, CountersOK', NEW h \in Handlers,
           handler[h].todo # <<>>, Now(h).do = "readsegments",
           NEW segs \in Seq(Part),
           FromTable(segs, handler[h].wr.loc, segments),
           NEW w \in WriterRec, w.loc = handler[h].wr.loc, w.segs = segs,
           w.buf = handler[h].wr.buf, w.err = handler[h].wr.err,
           handler' = [handler EXCEPT ![h] =
              [handler[h] EXCEPT !.todo = <<>> \o Tail(handler[h].todo),
                                 !.wr = w]],
           UNCHANGED <<files, segments, objects, nextLoc, nextUnit, written>>
    PROVE  StoreInv'
<1> DEFINE m == handler[h]
           l == m.wr.loc
           q == <<>> \o Tail(m.todo)
           k == [m EXCEPT !.todo = q, !.wr = w]
           n == Len(segs)
<1>3. HandlerOK(m, nextLoc, nextUnit, written, segments)
  BY DEF StoreInv
<1>4. Head(m.todo).do \notin FlushTasks
  BY DEF FlushTasks, Now
<1>5. m.op = "append" /\ l # NoLoc
  BY <1>4, AtTask DEF TaskSet, WriterTasks, Now
<1>6. /\ m \in HandlerRec
      /\ q \in Seq(TaskSet(m.op, m.wr.loc, nextLoc, written))
  BY <1>3, <1>4, BoundsNat, PlainTodo, EmptyTasks, ConcatProperties
<1>7. /\ m.wr # NoWriter /\ ~m.wr.err /\ m.wr.buf = NoUnit
  BY <1>3, <1>5, WriterFacts DEF HandlerOK
<1>9. n \in Nat
  OBVIOUS
<1>10. w.buf = NoUnit /\ ~w.err
  BY <1>7
<1>11. \A i \in 1..n : segs[i].unit \in 1..nextUnit
  <2> TAKE i \in 1..n
  <2>1. [loc |-> l, num |-> i, unit |-> segs[i].unit]
           \in [loc : 1..nextLoc, num : 1..nextUnit, unit : 1..nextUnit]
    BY DEF StoreInv, TableOK, FromTable
  <2> QED BY <2>1
<1>12. \A i, j \in 1..n : i < j => segs[i].unit < segs[j].unit
  <2> SUFFICES ASSUME NEW i \in 1..n, NEW j \in 1..n, i < j
               PROVE  segs[i].unit < segs[j].unit
    OBVIOUS
  <2> DEFINE a == [loc |-> l, num |-> i, unit |-> segs[i].unit]
             b == [loc |-> l, num |-> j, unit |-> segs[j].unit]
  <2>1. a \in segments /\ b \in segments /\ a.loc = b.loc /\ a.num < b.num
    BY DEF FromTable
  <2>2. a.unit < b.unit
    <3> HIDE DEF a, b
    <3> QED BY <2>1 DEF StoreInv, TableOK
  <2> QED BY <2>2
<1>13. \A i \in 1..n : segs[i].unit \in i..nextUnit
  <2> DEFINE u == [i \in 1..n |-> segs[i].unit]
  <2>1. \A i \in 1..n : u[i] = segs[i].unit
    OBVIOUS
  <2> HIDE DEF u, n
  <2>2. \A i \in 1..n : u[i] \in i..nextUnit
    BY <1>9, <1>11, <1>12, <2>1, BoundsNat, UnitAboveIndex
  <2> QED BY <2>1, <2>2
<1> HIDE DEF q
<1>14. q # <<>> => Head(q).do \notin FlushTasks /\ Head(q) # RecordTask(m.wr.loc)
  BY <1>6, BoundsNat, PlainNotPending
<1>15. q \in Seq(SqlTask \cup BulkTask)
  <2>1. TaskSet(m.op, m.wr.loc, nextLoc, written) \subseteq SqlTask \cup BulkTask
    BY DEF TaskSet
  <2> QED BY <1>6, <2>1, SeqMonotonic
<1>17. k.todo = q /\ k.wr = w
  BY <1>6 DEF HandlerRec
<1>18. Numbered(k, nextUnit, segments)
  <2> HIDE DEF k
  <2>1. ~Pending(k)
    BY <1>10, <1>14, <1>17 DEF Pending
  <2>2. k.wr.segs = segs /\ Len(k.wr.segs) = n /\ k.wr.buf = 0 /\ k.wr.loc = l /\ 0 \in 0..nextUnit
    BY <1>5, <1>10, <1>17, BoundsNat DEF NoUnit
  <2>3. \A i \in 1..n :
          /\ segs[i].num = i
          /\ [loc |-> l, num |-> i, unit |-> segs[i].unit] \in segments
    BY DEF FromTable
  <2> HIDE DEF l, n
  <2> QED BY <1>12, <1>13, <2>1, <2>2, <2>3 DEF Numbered, NoUnit
<1>19. handler' = [handler EXCEPT ![h] = k]
  BY DEF k, q
<1>20. RowsOK(files', nextLoc', written') /\ TableOK(segments', nextLoc', nextUnit')
       /\ ObjectsOK(objects', nextLoc', written')
  BY DEF StoreInv
<1>21. m.op # "write" /\ m.op # "idle"
  BY <1>5
<1>22. Numbered(k, nextUnit', segments')
  BY <1>18
<1>23. q \in Seq(TaskSet(m.op, w.loc, nextLoc', written'))
  BY <1>6
<1> QED BY <1>5, <1>10, <1>14, <1>15, <1>19, <1>20, <1>21, <1>22, <1>23,
           WriterChange

LEMMA ReadSegmentsStep ==
    ASSUME StoreInv, NEW h \in Handlers, ReadSegments(h)
    PROVE  StoreInv'
<1> DEFINE m == handler[h]
           segs == readSegmentInfo(m.wr.loc)
           w == [m.wr EXCEPT !.segs = segs]
           k == [m EXCEPT !.todo = <<>> \o Tail(m.todo), !.wr = w]
<1>1. /\ m.todo # <<>> /\ Now(h).do = "readsegments"
      /\ handler' = [handler EXCEPT ![h] =
           [Then(h, <<>>) EXCEPT !.wr.segs = readSegmentInfo(Now(h).loc)]]
      /\ UNCHANGED <<files, segments, objects, bounds, ghosts>>
  BY DEF ReadSegments, At, Now
<1>2. Grows /\ CountersOK' /\ nextLoc' = nextLoc /\ nextUnit' = nextUnit
      /\ written' = written
  BY <1>1, NoCounters DEF bounds, ghosts
<1>3. Now(h).loc = m.wr.loc /\ m.wr \in WriterRec /\ m \in HandlerRec
  BY <1>1, ReadsOwn
<1>4. segs \in Seq(Part) /\ FromTable(segs, m.wr.loc, segments)
  BY ReadSegmentInfo DEF FromTable
<1> HIDE DEF segs
<1>5. /\ w \in WriterRec /\ w.loc = m.wr.loc /\ w.segs = segs
      /\ w.buf = m.wr.buf /\ w.err = m.wr.err
  BY <1>3, <1>4 DEF WriterRec
<1>6. k = [Then(h, <<>>) EXCEPT !.wr.segs = segs]
  BY <1>3 DEF Then, HandlerRec
<1>7. handler' = [handler EXCEPT ![h] = k]
  BY <1>1, <1>3, <1>6 DEF segs
<1> HIDE DEF w
<1> QED BY <1>1, <1>2, <1>4, <1>5, <1>7, SegmentsReadStep

(* The loop over the rows of a location ends early. *)
LEMMA CutSegmentsStep ==
    ASSUME StoreInv, NEW h \in Handlers, CutShort(h), CutSegments(h)
    PROVE  StoreInv'
<1> DEFINE m == handler[h]
           rows == readSegmentInfo(m.wr.loc)
<1>1. /\ m.todo # <<>> /\ Now(h).do = "readsegments"
      /\ acked' = Forget({m.wr.path})
      /\ UNCHANGED <<files, segments, objects, nextLoc, nextUnit, written,
                     cancelled>>
  BY DEF CutShort, CutSegments, At, Now
<1>2. Now(h).loc = m.wr.loc /\ m.wr \in WriterRec /\ m \in HandlerRec
  BY <1>1, ReadsOwn
<1>3. PICK n \in 0..Len(rows) - 1 :
        handler' = [handler EXCEPT ![h] = [Then(h, <<>>) EXCEPT
           !.wr.segs = SubSeq(rows, 1, n), !.wr.lost = TRUE, !.wr.base = Unknown]]
  BY <1>2 DEF CutSegments
<1>4. Grows /\ CountersOK'
  <2>1. faults' \in 0..MaxFaults
    BY SwiftPlusAssumption DEF CutShort, StoreInv, CountersOK
  <2> QED BY <1>1, <2>1, BoundsNat, ForgetType DEF Grows, StoreInv, CountersOK
<1> DEFINE segs == SubSeq(rows, 1, n)
           w == [m.wr EXCEPT !.segs = segs, !.lost = TRUE, !.base = Unknown]
           k == [m EXCEPT !.todo = <<>> \o Tail(m.todo), !.wr = w]
<1>5. /\ rows \in Seq(Part)
      /\ \A i \in 1..Len(rows) :
           /\ rows[i].num = i
           /\ [loc |-> m.wr.loc, num |-> i, unit |-> rows[i].unit] \in segments
  BY ReadSegmentInfo
<1>6. segs \in Seq(Part) /\ FromTable(segs, m.wr.loc, segments)
  <2> HIDE DEF rows
  <2>1. segs \in Seq(Part) /\ Len(segs) = n /\ \A i \in 1..n : segs[i] = rows[i]
    BY <1>5
  <2> HIDE DEF segs
  <2> QED BY <1>5, <2>1 DEF FromTable
<1>7. k = [Then(h, <<>>) EXCEPT !.wr.segs = segs, !.wr.lost = TRUE,
                                !.wr.base = Unknown]
  <2> HIDE DEF segs
  <2> QED BY <1>2 DEF Then, HandlerRec, WriterRec
<1>8. handler' = [handler EXCEPT ![h] = k]
  BY <1>3, <1>7
<1> HIDE DEF segs
<1>9. /\ w \in WriterRec /\ w.loc = m.wr.loc /\ w.segs = segs
      /\ w.buf = m.wr.buf /\ w.err = m.wr.err
  BY <1>2, <1>6 DEF WriterRec, Value
<1> HIDE DEF w
<1> QED BY <1>1, <1>4, <1>6, <1>8, <1>9, SegmentsReadStep

(* One more segment after the last one of a writer. *)
SegsOK(segs, nu) ==
    /\ segs \in Seq(Part)
    /\ \A i \in 1..Len(segs) : segs[i].num = i /\ segs[i].unit \in i..nu
    /\ \A i, j \in 1..Len(segs) : i < j => segs[i].unit < segs[j].unit

LEMMA SegsAppend ==
    ASSUME NEW segs, NEW nu \in Nat, NEW b \in 1..nu, SegsOK(segs, nu),
           \A i \in 1..Len(segs) : segs[i].unit < b
    PROVE  LET n == Len(segs)
               t == Append(segs, [num |-> n + 1, unit |-> b])
           IN  /\ n \in Nat /\ n + 1 \in 1..b
               /\ SegsOK(t, nu) /\ Len(t) = n + 1
               /\ \A i \in 1..n : t[i] = segs[i]
               /\ t[n+1].unit = b
<1> DEFINE n == Len(segs)
           part == [num |-> n + 1, unit |-> b]
           t == Append(segs, part)
<1> USE DEF SegsOK
<1>1. n \in Nat
  OBVIOUS
<1>2. n + 1 \in 1..b
  <2>1. CASE n = 0
    BY <2>1
  <2>2. CASE n # 0
    <3>1. segs[n].unit \in n..nu /\ segs[n].unit < b
      BY <1>1, <2>2
    <3> QED BY <1>1, <3>1
  <2> QED BY <2>1, <2>2
<1>3. part \in Part /\ part.num = n + 1 /\ part.unit = b
  BY <1>1 DEF Part
<1> HIDE DEF part
<1>4. /\ t \in Seq(Part) /\ Len(t) = n + 1 /\ t[n+1] = part
      /\ \A i \in 1..n : t[i] = segs[i]
  BY <1>3
<1> HIDE DEF t
<1>5. \A i \in 1..(n+1) : i \in 1..n \/ i = n + 1
  BY <1>1
<1>6. ASSUME NEW i \in 1..(n+1)
      PROVE  t[i].num = i /\ t[i].unit \in i..nu
  <2>1. CASE i \in 1..n
    BY <1>4, <2>1
  <2>2. CASE i = n + 1
    BY <1>2, <1>3, <1>4, <2>2
  <2> QED BY <1>5, <2>1, <2>2
<1>7. ASSUME NEW i \in 1..(n+1), NEW j \in 1..(n+1), i < j
      PROVE  t[i].unit < t[j].unit
  <2>1. i \in 1..n /\ t[i] = segs[i]
    BY <1>1, <1>4, <1>7
  <2>2. CASE j \in 1..n
    BY <1>4, <1>7, <2>1, <2>2
  <2>3. CASE j = n + 1
    BY <1>3, <1>4, <2>1, <2>3
  <2> QED BY <1>5, <2>2, <2>3
<1> QED BY <1>1, <1>2, <1>3, <1>4, <1>6, <1>7 DEF t, part

LEMMA PutSegmentStep ==
    ASSUME StoreInv, NEW h \in Handlers, PutSegment(h)
    PROVE  StoreInv'
<1> DEFINE m == handler[h]
           n == Len(m.wr.segs)
           num == IF m.wr.segs = <<>> THEN 1 ELSE Last(m.wr.segs).num + 1
           part == [num |-> n + 1, unit |-> m.wr.buf]
           segs == Append(m.wr.segs, part)
           w == [m.wr EXCEPT !.segs = segs]
           q == <<>> \o Tail(m.todo)
           k == [m EXCEPT !.todo = q, !.wr = w]
           o == Plain(m.wr.loc, n + 1, <<m.wr.buf>>)
           S == TaskSet(m.op, m.wr.loc, nextLoc, written)
<1>1. /\ m.todo # <<>> /\ Head(m.todo).do = "putsegment"
      /\ objects' = PutObject(Plain(m.wr.loc, num, <<m.wr.buf>>))
      /\ handler' = [handler EXCEPT ![h] =
           [Then(h, <<>>) EXCEPT
              !.wr.segs = Append(@, [num |-> num, unit |-> m.wr.buf])]]
      /\ UNCHANGED <<files, segments, bounds, ghosts>>
  BY DEF PutSegment, At
<1>2. Grows /\ CountersOK' /\ nextLoc' = nextLoc /\ nextUnit' = nextUnit
      /\ written' = written
  BY <1>1, NoCounters DEF bounds, ghosts
<1>3. HandlerOK(m, nextLoc, nextUnit, written, segments)
  BY DEF StoreInv
<1>4. /\ m.wr.loc # NoLoc
      /\ Head(m.todo) # RecordTask(m.wr.loc)
      /\ Tail(m.todo) # <<>>
      /\ Head(Tail(m.todo)) = RecordTask(m.wr.loc)
      /\ Tail(Tail(m.todo)) \in Seq(S)
  <2>1. ASSUME m.todo \in Seq(S) PROVE FALSE
    BY <1>1, <2>1, BoundsNat, PlainNotPending DEF FlushTasks
  <2>2. Flushing(m.todo, m.wr.loc, S)
    BY <1>3, <2>1 DEF HandlerOK
  <2>3. Head(m.todo) # RecordTask(m.wr.loc)
    BY <1>1 DEF RecordTask, Task
  <2> QED BY <2>2, <2>3 DEF Flushing
<1>5. m \in HandlerRec /\ m.todo \in Seq(SqlTask \cup BulkTask) /\ m.op # "idle"
  BY <1>1, <1>3 DEF HandlerOK, HandlerRec
<1>6. q = Tail(m.todo) /\ q \in Seq(SqlTask \cup BulkTask)
  BY <1>1, <1>5
<1>7. /\ m.wr \in WriterRec /\ m.wr # NoWriter /\ ~m.wr.err
      /\ m.wr.buf # NoUnit /\ m.wr.loc \in 1..nextLoc /\ n \in Nat
      /\ Numbered(m, nextUnit, segments)
      /\ m.wr.segs \in Seq(Part)
  BY <1>1, <1>3, <1>4, <1>5, WriterFacts DEF HandlerOK, FlushTasks, WriterRec
<1>8. ~Pending(m)
  BY <1>4 DEF Pending
<1>9. /\ \A i \in 1..n : m.wr.segs[i].num = i /\ m.wr.segs[i].unit \in i..nextUnit
      /\ \A i, j \in 1..n : i < j => m.wr.segs[i].unit < m.wr.segs[j].unit
      /\ m.wr.buf \in 1..nextUnit
      /\ \A i \in 1..n : m.wr.segs[i].unit < m.wr.buf
      /\ \A i \in 1..n : [loc |-> m.wr.loc, num |-> i,
                          unit |-> m.wr.segs[i].unit] \in segments
  BY <1>7, <1>8, BoundsNat DEF Numbered, NoUnit
<1>10. /\ n + 1 \in 1..m.wr.buf
       /\ SegsOK(segs, nextUnit) /\ Len(segs) = n + 1
       /\ \A i \in 1..n : segs[i] = m.wr.segs[i]
       /\ segs[n+1].unit = m.wr.buf
  <2>1. SegsOK(m.wr.segs, nextUnit)
    BY <1>7, <1>9 DEF SegsOK
  <2>2. \A i \in 1..Len(m.wr.segs) : m.wr.segs[i].unit < m.wr.buf
    BY <1>9
  <2>3. m.wr.buf \in 1..nextUnit /\ nextUnit \in Nat
    BY <1>9, BoundsNat
  <2> HIDE DEF m
  <2> QED BY <2>1, <2>2, <2>3, SegsAppend
<1>11. num = n + 1
  <2>1. CASE m.wr.segs = <<>>
    BY <2>1
  <2>2. CASE m.wr.segs # <<>>
    <3>1. n \in 1..n
      BY <1>7, <2>2
    <3>2. Last(m.wr.segs) = m.wr.segs[n]
      BY DEF Last
    <3> QED BY <1>9, <2>2, <3>1, <3>2
  <2> QED BY <2>1, <2>2
<1> HIDE DEF num
<1>12. handler' = [handler EXCEPT ![h] = k] /\ objects' = PutObject(o)
  BY <1>1, <1>5, <1>11 DEF Then, HandlerRec
<1> HIDE DEF segs
<1>15. /\ w \in WriterRec /\ w.loc = m.wr.loc /\ w.segs = segs
       /\ w.buf = m.wr.buf /\ ~w.err
  BY <1>7, <1>10 DEF WriterRec, SegsOK
<1> HIDE DEF q, w
<1>16. k.todo = q /\ k.wr = w
  BY <1>5 DEF HandlerRec
<1>17. Numbered(k, nextUnit, segments)
  <2> HIDE DEF k
  <2>1. Pending(k)
    BY <1>4, <1>6, <1>15, <1>16 DEF Pending
  <2>3. \A i \in 1..(n+1) : i < n + 1 =>
          [loc |-> m.wr.loc, num |-> i, unit |-> segs[i].unit] \in segments
    <3> HIDE DEF n
    <3> TAKE i \in 1..(n+1)
    <3> HAVE i < n + 1
    <3>1. i \in 1..n
      BY <1>7
    <3> QED BY <1>9, <1>10, <3>1
  <2>4. /\ k.wr.segs = segs /\ k.wr.buf = m.wr.buf /\ k.wr.loc = m.wr.loc
        /\ m.wr.buf \in 0..nextUnit
    BY <1>9, <1>15, <1>16, BoundsNat
  <2>5. n + 1 >= 1
    BY <1>7
  <2> HIDE DEF n
  <2> QED BY <1>7, <1>10, <2>1, <2>3, <2>4, <2>5 DEF Numbered, SegsOK
<1>18. Flushing(q, w.loc, TaskSet(m.op, w.loc, nextLoc', written'))
  BY <1>2, <1>4, <1>6, <1>15 DEF Flushing
<1>19. ObjectsOK(objects', nextLoc', written')
  <2>1. <<m.wr.buf>> \in Contentses
    <3>1. <<m.wr.buf>> \in [1..1 -> Unit] /\ 1 \in 0..MaxUnits
      BY <1>9, BoundsNat DEF Unit
    <3> QED BY <3>1 DEF Contentses
  <2>2. n + 1 \in 1..MaxUnits /\ m.wr.loc \in Loc
    BY <1>7, <1>9, <1>10, BoundsNat DEF Loc
  <2>3. /\ o.loc = m.wr.loc /\ o.num = n + 1 /\ o.slo = FALSE /\ o.parts = <<>>
        /\ o \in ObjectRec
    BY <2>1, <2>2, BoundsNat DEF Plain, ObjectRec
  <2>4. o.num # 0
    BY <2>2, <2>3
  <2> HIDE DEF o
  <2> QED BY <1>2, <1>7, <1>12, <2>3, <2>4, ReplacedObject
<1>20. RowsOK(files', nextLoc', written') /\ TableOK(segments', nextLoc', nextUnit')
  BY <1>1, <1>2 DEF StoreInv
<1>21. m.op \notin {"create", "append"}
  BY <1>3, <1>7 DEF HandlerOK
<1>22. Numbered(k, nextUnit', segments')
  BY <1>1, <1>2, <1>17
<1>23. \A u \in Nat : /\ m.wr.buf < u
                      /\ \A i \in 1..n : m.wr.segs[i].unit < u
                      => /\ w.buf < u
                         /\ \A i \in 1..Len(w.segs) : w.segs[i].unit < u
  <2>1. \A i \in 1..(n+1) : i \in 1..n \/ i = n + 1
    BY <1>7
  <2> QED BY <1>10, <1>15, <2>1
<1>24. q # <<>> => w.buf # NoUnit
  BY <1>7, <1>15
<1> QED BY <1>2, <1>4, <1>5, <1>6, <1>12, <1>15, <1>18, <1>19, <1>20, <1>21,
           <1>22, <1>23, <1>24, WriterChange

(* One more row in the table of segments. *)
LEMMA TableAppend ==
    ASSUME NEW tb, NEW nl \in Nat, NEW nu \in Nat, TableOK(tb, nl, nu),
           NEW l \in 1..nl, NEW n \in 1..nu, NEW u \in 1..nu,
           \A s \in tb : ~(s.loc = l /\ s.num = n),
           \A i \in 1..(n-1) : \E s \in tb : s.loc = l /\ s.num = i /\ s.unit < u
    PROVE  TableOK(tb \cup {[loc |-> l, num |-> n, unit |-> u]}, nl, nu)
<1> DEFINE r == [loc |-> l, num |-> n, unit |-> u]
           T == [loc : 1..nl, num : 1..nu, unit : 1..nu]
<1>1. r \in T /\ r.loc = l /\ r.num = n /\ r.unit = u
  OBVIOUS
<1> HIDE DEF r
<1>2. /\ tb \subseteq T
      /\ \A s \in tb : s.loc \in 1..nl /\ s.num \in 1..nu /\ s.unit \in 1..nu
  BY DEF TableOK
<1>3. ASSUME NEW s \in tb, s.loc = l
      PROVE  s.num < n /\ s.unit < u
  <2>1. s.num # n
    BY <1>3
  <2>2. ~(n < s.num)
    <3> SUFFICES ASSUME n < s.num PROVE FALSE
      OBVIOUS
    <3>1. n \in 1..(s.num - 1)
      BY <1>2
    <3> QED BY <1>3, <3>1 DEF TableOK
  <2>3. s.num < n /\ s.num \in 1..(n-1)
    BY <1>2, <2>1, <2>2
  <2>4. PICK t \in tb : t.loc = l /\ t.num = s.num /\ t.unit < u
    BY <2>3
  <2>5. t = s
    BY <1>3, <2>4 DEF TableOK
  <2> QED BY <2>3, <2>4, <2>5
<1>4. \A s, t \in tb \cup {r} : s.loc = t.loc =>
         /\ s.num = t.num => s = t
         /\ s.num < t.num => s.unit < t.unit
  BY <1>1, <1>2, <1>3 DEF TableOK
<1>5. \A s \in tb \cup {r} : \A i \in 1..(s.num - 1) :
         \E t \in tb \cup {r} : t.loc = s.loc /\ t.num = i
  BY <1>1 DEF TableOK
<1>6. TableOK(tb \cup {r}, nl, nu)
  BY <1>1, <1>2, <1>4, <1>5 DEF TableOK
<1> QED BY <1>6 DEF r

(* A handler that is about to record a segment. *)
LEMMA RecordFacts ==
    ASSUME StoreInv, NEW h \in Handlers, At(h, "recordsegment")
    PROVE  LET m == handler[h]
           IN  /\ m.wr.loc # NoLoc
               /\ Head(m.todo) = RecordTask(m.wr.loc)
               /\ Tail(m.todo) \in Seq(TaskSet(m.op, m.wr.loc, nextLoc, written))
               /\ Pending(m)
               /\ m.op # "idle"
               /\ m.op \notin {"create", "append"}
<1> DEFINE m == handler[h]
           S == TaskSet(m.op, m.wr.loc, nextLoc, written)
<1>1. m.todo # <<>> /\ Head(m.todo).do = "recordsegment"
  BY DEF At
<1>2. HandlerOK(m, nextLoc, nextUnit, written, segments)
  BY DEF StoreInv
<1>3. Flushing(m.todo, m.wr.loc, S)
  <2>1. ASSUME m.todo \in Seq(S) PROVE FALSE
    BY <1>1, <2>1, BoundsNat, PlainNotPending DEF FlushTasks
  <2> QED BY <1>2, <2>1 DEF HandlerOK
<1>4. Head(m.todo) # PutTask(m.wr.loc)
  BY <1>1 DEF PutTask, Task
<1>5. m.wr.loc # NoLoc /\ Head(m.todo) = RecordTask(m.wr.loc)
      /\ Tail(m.todo) \in Seq(S)
  BY <1>3, <1>4 DEF Flushing
<1>6. m.op # "idle"
  BY <1>1, <1>2 DEF HandlerOK
<1>7. m.op \notin {"create", "append"}
  BY <1>1, <1>2, <1>5, WriterFacts DEF HandlerOK, FlushTasks
<1> QED BY <1>1, <1>5, <1>6, <1>7 DEF Pending

LEMMA RecordSegmentStep ==
    ASSUME StoreInv, NEW h \in Handlers, RecordSegment(h)
    PROVE  StoreInv'
<1> DEFINE m == handler[h]
           n == Len(m.wr.segs)
           r == [loc |-> m.wr.loc, num |-> Last(m.wr.segs).num,
                 unit |-> Last(m.wr.segs).unit]
           w == [m.wr EXCEPT !.buf = NoUnit]
           q == <<>> \o Tail(m.todo)
           k == [m EXCEPT !.todo = q, !.wr = w]
           S == TaskSet(m.op, m.wr.loc, nextLoc, written)
<1>1. /\ At(h, "recordsegment")
      /\ ~SegmentConflict(h)
      /\ segments' = segments \cup {r}
      /\ handler' = [handler EXCEPT ![h] =
                       [Then(h, <<>>) EXCEPT !.wr.buf = NoUnit]]
      /\ UNCHANGED <<files, objects, bounds, ghosts>>
  BY DEF RecordSegment
<1>2. Grows /\ CountersOK' /\ nextLoc' = nextLoc /\ nextUnit' = nextUnit
      /\ written' = written
  BY <1>1, NoCounters DEF bounds, ghosts
<1>3. /\ m.wr.loc # NoLoc /\ Tail(m.todo) \in Seq(S) /\ Pending(m)
      /\ m.op # "idle" /\ m.op \notin {"create", "append"}
  BY <1>1, RecordFacts
<1>4. HandlerOK(m, nextLoc, nextUnit, written, segments) /\ m \in HandlerRec
  BY DEF StoreInv
<1>5. /\ m.wr \in WriterRec /\ m.wr # NoWriter /\ ~m.wr.err
      /\ m.wr.loc \in 1..nextLoc /\ n \in Nat
      /\ Numbered(m, nextUnit, segments)
      /\ m.wr.segs \in Seq(Part)
  BY <1>3, <1>4, WriterFacts DEF HandlerOK, WriterRec
<1>6. /\ n >= 1
      /\ \A i \in 1..n : m.wr.segs[i].num = i /\ m.wr.segs[i].unit \in i..nextUnit
      /\ \A i, j \in 1..n : i < j => m.wr.segs[i].unit < m.wr.segs[j].unit
      /\ \A i \in 1..n : i < n => [loc |-> m.wr.loc, num |-> i,
                                   unit |-> m.wr.segs[i].unit] \in segments
  BY <1>3, <1>5 DEF Numbered
<1> DEFINE u == m.wr.segs[n].unit
<1>7. n \in 1..n /\ u \in n..nextUnit /\ r = [loc |-> m.wr.loc, num |-> n, unit |-> u]
      /\ Last(m.wr.segs).num = n
  BY <1>5, <1>6 DEF Last
<1>8. TableOK(segments', nextLoc', nextUnit')
  <2>1. \A s \in segments : ~(s.loc = m.wr.loc /\ s.num = n)
    BY <1>1, <1>7 DEF SegmentConflict
  <2>2. ASSUME NEW i \in 1..(n-1)
        PROVE  \E s \in segments : s.loc = m.wr.loc /\ s.num = i /\ s.unit < u
    <3> DEFINE s == [loc |-> m.wr.loc, num |-> i, unit |-> m.wr.segs[i].unit]
    <3>1. i \in 1..n /\ i < n
      BY <1>5
    <3>2. s \in segments /\ s.loc = m.wr.loc /\ s.num = i /\ s.unit < u
      BY <1>6, <1>7, <3>1
    <3> QED BY <3>2
  <2>3. n \in 1..nextUnit /\ u \in 1..nextUnit
    BY <1>5, <1>7, BoundsNat
  <2>4. TableOK(segments, nextLoc, nextUnit)
    BY DEF StoreInv
  <2> HIDE DEF n, u, m, r
  <2>5. TableOK(segments \cup {[loc |-> m.wr.loc, num |-> n, unit |-> u]},
                nextLoc, nextUnit)
    BY <1>5, <2>1, <2>2, <2>3, <2>4, BoundsNat, TableAppend
  <2> QED BY <1>1, <1>2, <1>7, <2>5
<1>9. q = Tail(m.todo) /\ q \in Seq(S)
  BY <1>3
<1>10. q # <<>> => Head(q).do \notin FlushTasks /\ Head(q) # RecordTask(m.wr.loc)
  BY <1>9, BoundsNat, PlainNotPending
<1>11. q \in Seq(SqlTask \cup BulkTask)
  <2>1. S \subseteq SqlTask \cup BulkTask
    BY DEF TaskSet
  <2> QED BY <1>9, <2>1, SeqMonotonic
<1>12. k = [Then(h, <<>>) EXCEPT !.wr.buf = NoUnit]
  BY <1>4 DEF Then, HandlerRec
<1>13. /\ w \in WriterRec /\ w.loc = m.wr.loc /\ w.segs = m.wr.segs
       /\ w.buf = NoUnit /\ ~w.err
  BY <1>5 DEF WriterRec, NoUnit
<1> HIDE DEF q, w
<1>14. k.todo = q /\ k.wr = w
  BY <1>4 DEF HandlerRec
<1>15. Numbered(k, nextUnit', segments')
  <2> HIDE DEF k
  <2>1. ~Pending(k)
    BY <1>10, <1>13, <1>14 DEF Pending
  <2>2. /\ k.wr.segs = m.wr.segs /\ k.wr.buf = 0 /\ k.wr.loc = m.wr.loc
        /\ 0 \in 0..nextUnit
    BY <1>13, <1>14, BoundsNat DEF NoUnit
  <2>3. \A i \in 1..n :
          [loc |-> m.wr.loc, num |-> i, unit |-> m.wr.segs[i].unit] \in segments'
    <3> TAKE i \in 1..n
    <3>1. CASE i < n
      BY <1>1, <1>6, <3>1
    <3>2. CASE i = n
      BY <1>1, <1>7, <3>2
    <3> QED BY <1>5, <3>1, <3>2
  <2> QED BY <1>2, <1>6, <2>1, <2>2, <2>3 DEF Numbered, NoUnit
<1>16. handler' = [handler EXCEPT ![h] = k]
  BY <1>1, <1>12
<1>17. RowsOK(files', nextLoc', written') /\ ObjectsOK(objects', nextLoc', written')
  BY <1>1, <1>2 DEF StoreInv
<1>18. \A v \in Nat : /\ m.wr.buf < v
                      /\ \A i \in 1..n : m.wr.segs[i].unit < v
                      => /\ w.buf < v
                         /\ \A i \in 1..Len(w.segs) : w.segs[i].unit < v
  <2>1. m.wr.buf \in Nat
    BY <1>5 DEF WriterRec
  <2> QED BY <2>1, <1>13 DEF NoUnit
<1>19. q \in Seq(TaskSet(m.op, w.loc, nextLoc', written'))
  BY <1>2, <1>9, <1>13
<1> QED BY <1>2, <1>3, <1>8, <1>10, <1>11, <1>13, <1>15, <1>16, <1>17, <1>18,
           <1>19, WriterChange

(* What a writer holds is a value that a file may have. *)
LEMMA StoredType ==
    ASSUME StoreInv, NEW h \in Handlers, handler[h].wr.loc # NoLoc,
           ~handler[h].wr.err
    PROVE  Stored(h) \in Value
<1> DEFINE m == handler[h]
           w == m.wr
           n == Len(w.segs)
           c == Contents(w)
<1>1. /\ n \in 0..nextUnit /\ c \in [1..n -> 1..nextUnit] /\ c \in Contentses
      /\ n \in Nat
  BY ContentsFacts, WriterFacts
<1>2. CASE w.buf = NoUnit \/ At(h, "recordsegment")
  <2>1. c \o <<>> = c
    BY <1>1
  <2> QED BY <1>1, <1>2, <2>1 DEF Stored, Value
<1>3. CASE ~(w.buf = NoUnit \/ At(h, "recordsegment"))
  <2>1. ~Pending(m)
    <3>1. RecordTask(w.loc).do = "recordsegment"
      BY DEF RecordTask, Task
    <3> QED BY <1>3, <3>1 DEF Pending, At
  <2>2. /\ w.buf \in 1..nextUnit
        /\ \A i \in 1..n : w.segs[i].unit \in i..nextUnit /\ w.segs[i].unit < w.buf
    BY <1>3, <2>1, WriterFacts DEF Numbered, NoUnit
  <2>3. n + 1 \in 0..MaxUnits
    <3>1. CASE n = 0
      BY <2>2, <3>1, BoundsNat
    <3>2. CASE n # 0
      <4>1. w.segs[n].unit \in n..nextUnit /\ w.segs[n].unit < w.buf
        BY <1>1, <2>2, <3>2
      <4> HIDE DEF n, w
      <4> QED BY <1>1, <2>2, <4>1, BoundsNat
    <3> QED BY <3>1, <3>2
  <2> HIDE DEF c, n, w
  <2>4. c \o <<w.buf>> \in [1..(n+1) -> Unit]
    <3>1. c \in Seq(Unit) /\ Len(c) = n /\ w.buf \in Unit
      BY <1>1, <2>2, BoundsNat DEF Unit
    <3>2. c \o <<w.buf>> \in Seq(Unit) /\ Len(c \o <<w.buf>>) = n + 1
      BY <3>1, ConcatProperties
    <3> QED BY <1>1, <3>2, LenProperties
  <2>5. c \o <<w.buf>> \in Contentses
    BY <2>3, <2>4 DEF Contentses
  <2> QED BY <1>3, <2>5 DEF Stored, Value, c, w
<1> QED BY <1>2, <1>3

(* What a call makes of a file is a value that a file may have. *)
LEMMA EffectType ==
    ASSUME StoreInv, NEW h \in Handlers, handler[h].op # "idle",
           NEW e \in Effect(h)
    PROVE  e[2] \in Value
<1> DEFINE m == handler[h]
<1>1. HandlerOK(m, nextLoc, nextUnit, written, segments) /\ m \in HandlerRec
  BY DEF StoreInv
<1>2. m.val \in Value /\ Absent \in Value
  BY <1>1 DEF HandlerRec, Value
<1>3. CASE Lost(h)
  BY <1>3 DEF Effect, Value
<1>4. CASE ~Lost(h) /\ m.op \in {"put", "move"}
  BY <1>2, <1>4 DEF Effect
<1>5. CASE ~Lost(h) /\ m.op \in {"delete", "create", "cancel"}
  BY <1>2, <1>5 DEF Effect
<1>6. CASE ~Lost(h) /\ m.op \in {"commit", "close"}
  <2>1. m.wr # NoWriter /\ ~m.wr.err
    BY <1>1, <1>6 DEF HandlerOK, WriterOps
  <2>2. m.wr.loc # NoLoc
    BY <1>1, <2>1 DEF HandlerOK, NoLoc
  <2>3. Stored(h) \in Value
    BY <2>1, <2>2, StoredType
  <2> QED BY <1>6, <2>3 DEF Effect
<1>7. CASE ~Lost(h) /\ m.op \in {"append", "write"}
  BY <1>7 DEF Effect
<1>8. m.op \in Ops
  BY <1>1 DEF HandlerRec
<1> QED BY <1>3, <1>4, <1>5, <1>6, <1>7, <1>8 DEF Ops

LEMMA FinishStep ==
    ASSUME StoreInv, NEW h \in Handlers, Finish(h)
    PROVE  StoreInv'
<1> DEFINE m == handler[h]
           w == IF m.op = "write" THEN [m.wr EXCEPT !.buf = m.val[1]]
                ELSE IF m.op = "commit" THEN [m.wr EXCEPT !.committed = TRUE]
                ELSE m.wr
           keep == m.op \in {"create", "append", "write", "commit"}
           k == IF keep THEN [IdleHandler EXCEPT !.wr = w] ELSE IdleHandler
           Vs(p) == {v[2] : v \in {e \in Effect(h) : e[1] = p}}
<1>1. /\ m.todo # <<>> /\ Head(m.todo).do = "return"
      /\ handler' = [handler EXCEPT ![h] = k]
      /\ acked' = [p \in Files |-> IF Exclusive /\ Vs(p) # {}
                                   THEN CHOOSE v \in Vs(p) : TRUE ELSE acked[p]]
      /\ cancelled' = IF m.op = "cancel" THEN cancelled \cup {m.wr.loc}
                      ELSE cancelled
      /\ UNCHANGED <<files, segments, objects, bounds, written>>
  BY DEF Finish, At
<1>2. HandlerOK(m, nextLoc, nextUnit, written, segments) /\ m \in HandlerRec
  BY DEF StoreInv
<1>3. m.op # "idle" /\ ~Pending(m)
  BY <1>1, <1>2 DEF HandlerOK, Pending, RecordTask, Task
<1>4. acked' \in [Files -> Value]
  <2>1. \A p \in Files : \A v \in Vs(p) : v \in Value
    BY <1>3, EffectType
  <2>2. \A p \in Files : acked[p] \in Value
    BY DEF StoreInv, CountersOK
  <2> HIDE DEF Vs
  <2> QED BY <1>1, <2>1, <2>2
<1>5. m.op \in WriterOps => m.wr # NoWriter /\ m.wr.loc # NoLoc
  BY <1>2 DEF HandlerOK, NoLoc
<1>6. cancelled' \subseteq Loc
  <2>1. m.op = "cancel" => m.wr.loc \in Loc
    BY <1>5, WriterFacts DEF WriterOps, WriterRec
  <2> QED BY <1>1, <2>1 DEF StoreInv, CountersOK
<1>7. Grows /\ CountersOK' /\ nextLoc' = nextLoc /\ nextUnit' = nextUnit
      /\ written' = written /\ segments' = segments
  BY <1>1, <1>4, <1>6, BoundsNat DEF Grows, StoreInv, CountersOK, bounds
<1>8. HandlerOK(k, nextLoc, nextUnit, written, segments)
  <2>1. CASE ~keep
    BY <2>1, IdleOK, BoundsNat
  <2>2. CASE keep
    <3> DEFINE j == [IdleHandler EXCEPT !.wr = w]
               n == Len(m.wr.segs)
    <3>1. m.wr.loc # NoLoc /\ m.wr # NoWriter
      BY <1>5, <2>2 DEF WriterOps
    <3>2. /\ m.wr \in WriterRec /\ m.wr.loc \in 1..nextLoc /\ ~m.wr.err
          /\ Numbered(m, nextUnit, segments)
      BY <1>2, <1>3, <3>1, WriterFacts DEF HandlerOK
    <3>3. m.op = "write" =>
            /\ m.val[1] \in 1..nextUnit
            /\ \A i \in 1..n : m.wr.segs[i].unit < m.val[1]
      BY <1>2, <3>1 DEF HandlerOK
    <3>4. w.buf = m.wr.buf \/ (m.op = "write" /\ w.buf = m.val[1])
      BY <3>2 DEF WriterRec
    <3>5. /\ w \in WriterRec /\ w.loc = m.wr.loc /\ w.segs = m.wr.segs /\ ~w.err
      <4>1. m.op = "write" => m.val[1] \in Nat
        BY <3>3, BoundsNat
      <4> QED BY <3>2, <4>1 DEF WriterRec
    <3> HIDE DEF w
    <3>6. j.todo = <<>> /\ j.wr = w
      BY DEF IdleHandler
    <3>7. Numbered(j, nextUnit, segments)
      <4> HIDE DEF j
      <4>1. ~Pending(j)
        BY <3>6 DEF Pending
      <4>2. w.buf \in 0..nextUnit
        BY <3>2, <3>3, <3>4, BoundsNat DEF Numbered
      <4>3. w.buf # NoUnit => \A i \in 1..n : w.segs[i].unit < w.buf
        BY <1>3, <3>2, <3>3, <3>4, <3>5 DEF Numbered
      <4> QED BY <1>3, <3>2, <3>5, <3>6, <4>1, <4>2, <4>3 DEF Numbered
    <3>8. HandlerOK(j, nextLoc, nextUnit, written, segments)
      BY <3>2, <3>5, <3>7, BoundsNat, IdleWriterOK
    <3> QED BY <2>2, <3>8
  <2> QED BY <2>1, <2>2
<1> HIDE DEF k
<1>9. HandlerOK(k, nextLoc', nextUnit', written', segments')
  BY <1>7, <1>8
<1>10. UNCHANGED <<files, segments, objects>>
  BY <1>1
<1> QED BY <1>1, <1>7, <1>9, <1>10, QuietStep

(* A call that returns an error leaves its handler in order. *)
LEMMA ReturnErrorOK ==
    ASSUME StoreInv, NEW h \in Handlers, handler[h].todo # <<>>, ReturnError(h)
    PROVE  \E k : /\ handler' = [handler EXCEPT ![h] = k]
                  /\ HandlerOK(k, nextLoc, nextUnit, written, segments)
<1> DEFINE m == handler[h]
           flushing == Now(h).do \in {"putsegment", "recordsegment"}
           keep == HasWriter(h) /\ m.op \notin {"create", "append", "cancel"}
           w == [m.wr EXCEPT !.err = flushing]
           j == [IdleHandler EXCEPT !.wr = w]
           k == IF keep THEN j ELSE IdleHandler
<1>1. handler' = [handler EXCEPT ![h] = k]
  BY DEF ReturnError
<1>2. CASE ~keep
  BY <1>1, <1>2, IdleOK, BoundsNat
<1>3. CASE keep
  <2>1. HandlerOK(m, nextLoc, nextUnit, written, segments) /\ m \in HandlerRec
    BY DEF StoreInv
  <2>2. m.wr.loc # NoLoc
    BY <1>3 DEF HasWriter
  <2>3. /\ m.wr \in WriterRec /\ m.wr.loc \in 1..nextLoc /\ ~m.wr.err
        /\ Numbered(m, nextUnit, segments)
    BY <2>1, <2>2, WriterFacts DEF HandlerOK
  <2>4. Pending(m) => flushing
    BY DEF Pending, RecordTask, Task, Now
  <2>5. /\ w \in WriterRec /\ w.loc = m.wr.loc /\ w.segs = m.wr.segs
        /\ w.buf = m.wr.buf /\ w.err = flushing
    <3>1. flushing \in BOOLEAN
      OBVIOUS
    <3> HIDE DEF flushing
    <3> QED BY <2>3, <3>1 DEF WriterRec
  <2> HIDE DEF w
  <2>6. j.todo = <<>> /\ j.wr = w
    BY DEF IdleHandler
  <2>7. Numbered(j, nextUnit, segments)
    <3> HIDE DEF j, flushing
    <3>1. ~Pending(j)
      BY <2>6 DEF Pending
    <3> QED BY <2>3, <2>4, <2>5, <2>6, <3>1 DEF Numbered
  <2>8. HandlerOK(j, nextLoc, nextUnit, written, segments)
    BY <2>3, <2>5, <2>7, BoundsNat, IdleWriterOK
  <2> HIDE DEF j
  <2> QED BY <1>1, <1>3, <2>8
<1> QED BY <1>2, <1>3

LEMMA ErrorStep ==
    ASSUME StoreInv, NEW h \in Handlers, Conflict(h) \/ Fault(h)
    PROVE  StoreInv'
<1>1. /\ handler[h].todo # <<>> /\ ReturnError(h) /\ objects' \subseteq objects
      /\ UNCHANGED <<files, segments, nextLoc, nextUnit, ghosts>>
  BY DEF Conflict, Fault, RenameConflict, SegmentConflict, ManifestRefused, At, bounds
<1>2. faults' \in 0..MaxFaults
  BY SwiftPlusAssumption DEF Conflict, Fault, bounds, StoreInv, CountersOK
<1>3. Grows /\ CountersOK' /\ nextLoc' = nextLoc /\ nextUnit' = nextUnit
      /\ written' = written
  BY <1>1, <1>2, BoundsNat DEF Grows, StoreInv, CountersOK, ghosts
<1>4. PICK k : /\ handler' = [handler EXCEPT ![h] = k]
               /\ HandlerOK(k, nextLoc, nextUnit, written, segments)
  BY <1>1, ReturnErrorOK
<1>5. /\ handler' \in [Handlers -> HandlerRec]
      /\ \A g \in Handlers :
           HandlerOK(handler'[g], nextLoc', nextUnit', written', segments')
  BY <1>1, <1>3, <1>4, OneHandler
<1>6. ObjectsOK(objects', nextLoc', written')
  BY <1>1, <1>3, FewerObjects DEF StoreInv
<1> QED BY <1>1, <1>3, <1>5, <1>6 DEF StoreInv

(* The loop over the rows of a directory ends early. *)
LEMMA CutChildrenStep ==
    ASSUME StoreInv, NEW h \in Handlers, CutShort(h), CutChildren(h)
    PROVE  StoreInv'
<1> DEFINE m == handler[h]
           d == Now(h).path
<1>1. /\ m.todo # <<>> /\ Now(h).do = "children" /\ m.op = "delete"
      /\ UNCHANGED <<files, segments, objects, nextLoc, nextUnit, ghosts>>
  BY DEF CutShort, CutChildren, At, Now, ghosts
<1>2. faults' \in 0..MaxFaults
  BY SwiftPlusAssumption DEF CutShort, StoreInv, CountersOK
<1>3. Grows /\ CountersOK'
  BY <1>1, <1>2, BoundsNat DEF Grows, StoreInv, CountersOK, ghosts
<1>4. PICK some \in SUBSET List(d) : \E order \in SetToSeqs(some) :
        handler' = [handler EXCEPT ![h] =
                      [Then(h, deleteEach(order)) EXCEPT !.val = Unknown]]
  BY DEF CutChildren
<1>5. PICK order \in SetToSeqs(some) :
        handler' = [handler EXCEPT ![h] =
                      [Then(h, deleteEach(order)) EXCEPT !.val = Unknown]]
  BY <1>4
<1> DEFINE j == Then(h, deleteEach(order))
           k == [j EXCEPT !.val = Unknown]
<1>6. deleteEach(order) \in Seq(TaskSet(m.op, m.wr.loc, nextLoc, written))
  BY RowsDeleted
<1>7. HandlerOK(j, nextLoc, nextUnit, written, segments)
  <2>1. HandlerOK(m, nextLoc, nextUnit, written, segments)
    BY DEF StoreInv
  <2>2. Head(m.todo).do \notin FlushTasks
    BY <1>1 DEF Now, FlushTasks
  <2> QED BY <1>1, <1>6, <2>1, <2>2, BoundsNat, ThenOK DEF Then
<1>8. j.op = "delete"
  <2>1. m \in HandlerRec
    BY DEF StoreInv
  <2> QED BY <1>1, <2>1 DEF Then, HandlerRec
<1> HIDE DEF j
<1>9. /\ k \in HandlerRec /\ k.todo = j.todo /\ k.op = j.op /\ k.path = j.path
      /\ k.dest = j.dest /\ k.wr = j.wr
  BY <1>7 DEF HandlerOK, HandlerRec, Value
<1>10. handler' = [handler EXCEPT ![h] = k]
  BY <1>5 DEF j
<1> HIDE DEF k
<1>11. HandlerOK(k, nextLoc, nextUnit, written, segments)
  <2>1. Numbered(j, nextUnit, segments) => Numbered(k, nextUnit, segments)
    BY <1>9 DEF Numbered, Pending
  <2> QED BY <1>7, <1>8, <1>9, <2>1 DEF HandlerOK
<1>12. HandlerOK(k, nextLoc', nextUnit', written', segments')
  BY <1>1, <1>11 DEF ghosts
<1> QED BY <1>1, <1>3, <1>10, <1>12, QuietStep

LEMMA CutShortStep ==
    ASSUME StoreInv, NEW h \in Handlers, CutShort(h)
    PROVE  StoreInv'
  BY CutSegmentsStep, CutChildrenStep DEF CutShort

LEMMA CrashStep ==
    ASSUME StoreInv, Crash
    PROVE  StoreInv'
<1>1. /\ handler' = [h \in Handlers |-> IdleHandler]
      /\ UNCHANGED <<files, segments, objects, nextLoc, nextUnit, ghosts>>
  BY DEF Crash
<1>2. faults' \in 0..MaxFaults
  BY SwiftPlusAssumption DEF Crash, StoreInv, CountersOK
<1>3. CountersOK'
  BY <1>1, <1>2 DEF StoreInv, CountersOK, ghosts
<1>4. HandlerOK(IdleHandler, nextLoc, nextUnit, written, segments)
  BY IdleOK, BoundsNat
<1>5. IdleHandler \in HandlerRec
  BY <1>4 DEF HandlerOK
<1> QED BY <1>1, <1>3, <1>4, <1>5 DEF StoreInv, ghosts

LEMMA InitStoreInv == Init => StoreInv
<1> SUFFICES ASSUME Init PROVE StoreInv
  OBVIOUS
<1>1. CountersOK
  BY SwiftPlusAssumption DEF Init, CountersOK, Value
<1>2. RowsOK(files, nextLoc, written)
  BY DEF Init, RowsOK
<1>3. TableOK(segments, nextLoc, nextUnit)
  BY DEF Init, TableOK
<1>4. ObjectsOK(objects, nextLoc, written)
  BY DEF Init, ObjectsOK
<1>5. HandlerOK(IdleHandler, nextLoc, nextUnit, written, segments)
  BY IdleOK DEF Init
<1>6. IdleHandler \in HandlerRec
  BY <1>5 DEF HandlerOK
<1>7. handler = [h \in Handlers |-> IdleHandler]
  BY DEF Init
<1> QED BY <1>1, <1>2, <1>3, <1>4, <1>5, <1>6, <1>7 DEF StoreInv

LEMMA NextStoreInv == StoreInv /\ [Next]_vars => StoreInv'
<1> SUFFICES ASSUME StoreInv, [Next]_vars PROVE StoreInv'
  OBVIOUS
<1>1. CASE UNCHANGED vars
  BY <1>1 DEF vars, StoreInv, CountersOK
<1>2. CASE Crash
  BY <1>2, CrashStep
<1>3. ASSUME NEW h \in Handlers, Call(h)
      PROVE  StoreInv'
  <2>1. ASSUME NEW p \in Blobs, NEW large \in BOOLEAN, PutContent(h, p, large)
        PROVE  StoreInv'
    BY <2>1, PutContentStep
  <2>2. ASSUME NEW s \in Uploads, NEW d \in Blobs, Move(h, s, d)
        PROVE  StoreInv'
    BY <2>2, MoveStep
  <2>3. ASSUME NEW p \in Files \cup UploadDirs, Delete(h, p)
        PROVE  StoreInv'
    BY <2>3, DeleteStep
  <2>4. ASSUME NEW p \in Uploads, NEW append \in BOOLEAN, Writer(h, p, append)
        PROVE  StoreInv'
    BY <2>4, WriterStep
  <2>5. Write(h) => StoreInv'
    BY WriteStep
  <2>6. Commit(h, "commit") \/ Commit(h, "close") => StoreInv'
    BY CommitStep
  <2>7. Close(h) \/ GiveUp(h) => StoreInv'
    BY LeaveStep
  <2>8. Cancel(h) => StoreInv'
    BY CancelStep
  <2> QED BY <1>3, <2>1, <2>2, <2>3, <2>4, <2>5, <2>6, <2>7, <2>8 DEF Call
<1>4. ASSUME NEW h \in Handlers, Step(h)
      PROVE  StoreInv'
  BY <1>4, ListObjectsStep, BulkDeleteStep, DeleteChildrenStep, DeleteRowStep,
     UpsertRowStep, MakeDirStep, UploadStep, ReadRowStep, RenameStep,
     ReadSegmentsStep, PutSegmentStep, RecordSegmentStep, WriteSLOStep,
     FinishStep DEF Step
<1>5. ASSUME NEW h \in Handlers, Conflict(h) \/ Fault(h)
      PROVE  StoreInv'
  BY <1>5, ErrorStep
<1>6. ASSUME NEW h \in Handlers, CutShort(h)
      PROVE  StoreInv'
  BY <1>6, CutShortStep
<1> QED BY <1>1, <1>2, <1>3, <1>4, <1>5, <1>6 DEF Next

(* The rows, the segments, the objects and the handlers of the driver are   *)
(* always as StoreInv says.                                                 *)
THEOREM StoreInvariant == Spec => []StoreInv
  BY InitStoreInv, NextStoreInv, PTL DEF Spec

-----------------------------------------------------------------------------
(* What the invariant implies. *)

(* The rows, segments, objects and writers of the driver are as the SQL     *)
(* schema and the structs fileInfo, plusSegment and plusWriter say.         *)
THEOREM TypeCorrect == Spec => []TypeOK
<1>1. StoreInv => TypeOK
  <2> SUFFICES ASSUME StoreInv PROVE TypeOK
    OBVIOUS
  <2>1. ASSUME NEW p \in Paths, files[p] # NoRow
        PROVE  /\ files[p].size \in -1..MaxUnits
               /\ files[p].loc \in 0..nextLoc
               /\ p \in Dirs <=> files[p].size = -1
               /\ files[p].data # <<>> => files[p].loc = NoLoc
    <3>1. RowFor(p, files[p], nextLoc, written) /\ files[p].loc \in 0..nextLoc
      BY <2>1, RowForPath
    <3>2. CASE p \in Files
      BY <3>1, <3>2, BoundsNat DEF RowFor, FileRow, Dirs
    <3>3. CASE p \notin Files
      BY <3>1, <3>3, BoundsNat DEF RowFor, DirRow, Dirs
    <3> QED BY <3>2, <3>3
  <2>2. /\ segments \subseteq [loc : Loc, num : 1..MaxUnits, unit : Unit]
        /\ \A s, t \in segments : s.loc = t.loc /\ s.num = t.num => s = t
    <3>1. TableOK(segments, nextLoc, nextUnit)
      BY DEF StoreInv
    <3>2. 1..nextLoc \subseteq Loc /\ 1..nextUnit \subseteq 1..MaxUnits
          /\ 1..nextUnit \subseteq Unit
      BY BoundsNat DEF Loc, Unit
    <3>3. [loc : 1..nextLoc, num : 1..nextUnit, unit : 1..nextUnit]
             \subseteq [loc : Loc, num : 1..MaxUnits, unit : Unit]
      BY <3>2
    <3> QED BY <3>1, <3>3 DEF TableOK
  <2>3. \A o \in objects : o.loc \in 1..nextLoc /\ o.num \in 0..MaxUnits
    BY DEF StoreInv, ObjectsOK, ObjectRec
  <2>4. ASSUME NEW h \in Handlers, HasWriter(h)
        PROVE  /\ handler[h].wr.path \in Uploads
               /\ handler[h].wr.loc \in 1..nextLoc
               /\ handler[h].wr.buf \in Unit \cup {NoUnit}
    <3>1. handler[h].wr.loc # NoLoc
      BY <2>4 DEF HasWriter
    <3> QED BY <3>1, WriterFacts, BoundsNat DEF WriterRec, Numbered, Unit, NoUnit
  <2>5. acked \in [Files -> Contentses \cup {Absent, Unknown}]
    BY DEF StoreInv, CountersOK, Value
  <2> QED BY <2>1, <2>2, <2>3, <2>4, <2>5 DEF TypeOK
<1> QED BY <1>1, StoreInvariant, PTL

(* What Swift serves for a location, if anything, was put there as a whole. *)
LEMMA SwiftReaderWhole ==
    ASSUME StoreInv, NEW l
    PROVE  SwiftReader(l) = Unreadable \/ SwiftReader(l) \in written
<1> DEFINE Object(n) == CHOOSE o \in ObjectAt(l, n) : TRUE
           parts == Object(0).parts
           found == \A i \in DOMAIN parts : PartFound(l, parts[i])
           data == [i \in DOMAIN parts |-> Object(parts[i].num).data]
<1>1. SwiftReader(l) = IF ObjectAt(l, 0) = {} THEN Unreadable
                       ELSE IF ~Object(0).slo THEN Object(0).data
                       ELSE IF found THEN FlattenSeq(data) ELSE Unreadable
  BY DEF SwiftReader
<1>2. ObjectsOK(objects, nextLoc, written)
  BY DEF StoreInv
<1>3. CASE ObjectAt(l, 0) = {}
  BY <1>1, <1>3
<1>4. CASE ObjectAt(l, 0) # {}
  <2>1. Object(0) \in objects /\ Object(0).num = 0
    BY <1>4 DEF ObjectAt
  <2>2. CASE ~Object(0).slo
    BY <1>1, <1>2, <1>4, <2>1, <2>2 DEF ObjectsOK
  <2>3. CASE Object(0).slo /\ ~found
    BY <1>1, <1>4, <2>3
  <2>4. CASE Object(0).slo /\ found
    <3>1. parts \in Seq(Part) /\ Units(parts) \in written
      BY <1>2, <2>1, <2>4 DEF ObjectsOK, ObjectRec
    <3>2. ASSUME NEW i \in DOMAIN parts
          PROVE  Object(parts[i].num).data = <<parts[i].unit>>
      <4>1. PICK o \in ObjectAt(l, parts[i].num) : o.data = <<parts[i].unit>>
        BY <2>4 DEF PartFound
      <4>2. Object(parts[i].num) \in ObjectAt(l, parts[i].num)
        BY <4>1
      <4>3. Object(parts[i].num) = o
        <5> HIDE DEF Object
        <5> QED BY <1>2, <4>1, <4>2 DEF ObjectAt, ObjectsOK
      <4> QED BY <4>1, <4>3
    <3> DEFINE u == Units(parts)
    <3> HIDE DEF Object, parts
    <3>3. u \in Seq(Nat) /\ Len(u) = Len(parts) /\ DOMAIN parts = 1..Len(u)
          /\ \A i \in 1..Len(u) : u[i] = parts[i].unit
      <4> DEFINE n == Len(parts)
      <4>1. n \in Nat /\ DOMAIN parts = 1..n
        BY <3>1
      <4>2. \A i \in 1..n : parts[i].unit \in Nat
        <5> TAKE i \in 1..n
        <5>1. parts[i] \in Part
          BY <3>1
        <5> QED BY <5>1 DEF Part
      <4> HIDE DEF n
      <4>3. u = [i \in 1..n |-> parts[i].unit]
        BY DEF Units, n
      <4>4. u \in [1..n -> Nat]
        BY <4>2, <4>3
      <4>5. u \in Seq(Nat) /\ Len(u) = n
        BY <4>1, <4>4
      <4> QED BY <4>1, <4>3, <4>5 DEF n
    <3> HIDE DEF u
    <3>4. data = [i \in 1..Len(u) |-> <<u[i]>>]
      BY <3>2, <3>3
    <3>5. FlattenSeq(data) = u
      BY <3>3, <3>4, FlattenSingletons
    <3> QED BY <1>1, <1>4, <2>4, <3>1, <3>5 DEF u
  <2> QED BY <2>2, <2>3, <2>4
<1> QED BY <1>3, <1>4

LEMMA ContentsWhole == StoreInv => WholeContents
<1> SUFFICES ASSUME StoreInv, NEW p \in Files,
                    GetContent(p) \notin {Absent, Unreadable}
             PROVE  GetContent(p) \in written
  BY DEF WholeContents
<1> DEFINE fi == files[p]
<1>1. p \in Paths
  BY SwiftPlusAssumption
<1>2. fi # NoRow /\ ~(fi.size < 0)
  BY DEF GetContent
<1>3. fi \in FileRow(nextLoc, written)
  BY <1>1, <1>2, RowForPath DEF RowFor
<1>4. CASE fi.size = 0
  BY <1>2, <1>3, <1>4 DEF GetContent, FileRow
<1>5. CASE fi.size # 0 /\ fi.data # <<>>
  BY <1>2, <1>3, <1>5 DEF GetContent, FileRow
<1>6. CASE fi.size # 0 /\ fi.data = <<>>
  BY <1>2, <1>6, SwiftReaderWhole DEF GetContent
<1> QED BY <1>4, <1>5, <1>6

(* However calls overlap, and whatever fails: a file that can be read holds *)
(* exactly what one PutContent was given or one Commit has made a manifest  *)
(* of, never parts of two versions: a segment that another writer uploaded  *)
(* under the same number is not served.                                     *)
THEOREM ContentsAreWhole == Spec => []WholeContents
  BY ContentsWhole, StoreInvariant, PTL
=============================================================================
