--------------------------- MODULE SequenceFacts ---------------------------
(***************************************************************************)
(* Facts about naturals and sequences that several proofs need.  Induction *)
(* is over a set of naturals, so that the provers can use it.              *)
(***************************************************************************)
EXTENDS Integers, SequencesExt, FiniteSetsExt, SequenceTheorems, WellFoundedInduction, TLAPS

(* The least element of a set of naturals.                                  *)
LEMMA MinOfNaturals ==
    ASSUME NEW S, S \subseteq Nat, S # {}
    PROVE  Min(S) \in S /\ \A n \in S : Min(S) <= n
  <1>1. PICK x \in S : \A y \in S : ~ (<<y, x>> \in OpToRel(<, Nat))
    BY WFMin, NatLessThanWellFounded
  <1>2. \A y \in S : x <= y
    <2> SUFFICES ASSUME NEW y \in S PROVE x <= y
      OBVIOUS
    <2>1. x \in Nat /\ y \in Nat
      OBVIOUS
    <2>2. ~ (y < x)
      BY <1>1, <2>1 DEF OpToRel
    <2> QED BY <2>1, <2>2
  <1> QED BY <1>2 DEF Min

(* The larger of two integers.                                              *)
LEMMA MaxOfTwo ==
    ASSUME NEW a \in Int, NEW b \in Int
    PROVE  /\ Max({a, b}) \in {a, b}
           /\ Max({a, b}) >= a /\ Max({a, b}) >= b
  <1>1. \E x \in {a, b} : \A y \in {a, b} : x >= y
    OBVIOUS
  <1> QED BY <1>1 DEF Max

(* A set that holds 0 and the successor of each of its naturals holds all.  *)
LEMMA SetInduction ==
    ASSUME NEW S, 0 \in S, \A n \in Nat : n \in S => n + 1 \in S
    PROVE  Nat \subseteq S
  <1> SUFFICES ASSUME Nat \ S # {} PROVE FALSE
    OBVIOUS
  <1>1. PICK n \in Nat \ S : \A k \in Nat \ S : n <= k
    <2>1. Min(Nat \ S) \in Nat \ S /\ \A k \in Nat \ S : Min(Nat \ S) <= k
      BY MinOfNaturals
    <2> QED BY <2>1
  <1>2. n # 0 /\ n - 1 \in Nat
    OBVIOUS
  <1>3. n - 1 \in S
    BY <1>1, <1>2
  <1>4. (n - 1) + 1 \in S
    BY <1>2, <1>3
  <1> QED BY <1>4

-----------------------------------------------------------------------------
(* A sequence in two parts determines each of them from the other.          *)

(* The elements of a concatenation.                                         *)
LEMMA ConcatPoints ==
    ASSUME NEW S, NEW a \in Seq(S), NEW b \in Seq(S)
    PROVE  /\ a \o b \in Seq(S) /\ Len(a \o b) = Len(a) + Len(b)
           /\ \A i \in 1..Len(a) : (a \o b)[i] = a[i]
           /\ \A i \in 1..Len(b) : (a \o b)[Len(a) + i] = b[i]
  OBVIOUS

(* The two parts of a concatenation.                                        *)
LEMMA Parts ==
    ASSUME NEW S, NEW a \in Seq(S), NEW b \in Seq(S)
    PROVE  /\ SubSeq(a \o b, 1, Len(a)) = a
           /\ SubSeq(a \o b, Len(a) + 1, Len(a \o b)) = b
  <1>1. /\ Len(a) \in Nat /\ Len(b) \in Nat /\ a \o b \in Seq(S)
        /\ Len(a \o b) = Len(a) + Len(b)
    BY ConcatProperties, LenProperties
  <1>2. SubSeq(a \o b, 1, Len(a)) = a
    <2>1. CASE Len(a) = 0
      BY <2>1, <1>1, SubSeqEmpty, EmptySeq
    <2>2. CASE Len(a) # 0
      BY <2>2, <1>1, SubSeqOfConcat1, SubSeqFull
    <2> QED BY <2>1, <2>2
  <1>3. SubSeq(a \o b, Len(a) + 1, Len(a \o b)) = b
    <2>1. CASE Len(b) = 0
      BY <2>1, <1>1, SubSeqEmpty, EmptySeq
    <2>2. CASE Len(b) # 0
      BY <2>2, <1>1, SubSeqOfConcat2, SubSeqFull
    <2> QED BY <2>1, <2>2
  <1> QED BY <1>2, <1>3

(* A common prefix can be cancelled.                                        *)
LEMMA Cancel ==
    ASSUME NEW S, NEW a \in Seq(S), NEW x \in Seq(S), NEW y \in Seq(S), a \o x = a \o y
    PROVE  x = y
  <1>1. SubSeq(a \o x, Len(a) + 1, Len(a \o x)) = x
    BY Parts
  <1>2. SubSeq(a \o y, Len(a) + 1, Len(a \o y)) = y
    BY Parts
  <1> QED BY <1>1, <1>2, Zenon

LEMMA CancelSecond ==
    ASSUME NEW S, NEW a \in Seq(S), NEW b \in Seq(S), NEW x \in Seq(S), NEW y \in Seq(S),
           a \o x = (a \o b) \o y
    PROVE  x = b \o y
  <1>1. (a \o b) \o y = a \o (b \o y)
    BY ConcatAssociative, SMTT(60)
  <1>2. b \o y \in Seq(S)
    BY ConcatProperties
  <1>3. a \o x = a \o (b \o y)
    BY <1>1
  <1> QED BY <1>2, <1>3, Cancel, Zenon

(* The middle one of three parts.                                           *)
LEMMA Middle ==
    ASSUME NEW S, NEW a \in Seq(S), NEW b \in Seq(S), NEW c \in Seq(S)
    PROVE  SubSeq((a \o b) \o c, Len(a) + 1, Len(a) + Len(b)) = b
  <1> DEFINE ab == a \o b
             abc == ab \o c
  <1>1. /\ ab \in Seq(S) /\ abc \in Seq(S) /\ Len(ab) = Len(a) + Len(b)
        /\ Len(abc) = Len(ab) + Len(c) /\ Len(a) \in Nat /\ Len(b) \in Nat /\ Len(c) \in Nat
    BY ConcatProperties, LenProperties
  <1>2. CASE Len(b) = 0
    <2>1. b = <<>>
      BY <1>2, EmptySeq, SeqEqual
    <2> QED BY <2>1, <1>1, <1>2, SubSeqEmpty
  <1>3. CASE Len(b) # 0
    <2>1. SubSeq(abc, Len(a) + 1, Len(ab)) = SubSeq(ab, Len(a) + 1, Len(ab))
      <3> HIDE DEF ab
      <3>1. Len(a) + 1 \in 1..Len(ab) /\ Len(ab) \in 1..Len(ab)
        BY <1>1, <1>3
      <3> QED BY <1>1, <3>1, SubSeqOfConcat1
    <2>2. SubSeq(ab, Len(a) + 1, Len(ab)) = b
      BY Parts
    <2> QED BY <1>1, <2>1, <2>2
  <1> QED BY <1>2, <1>3

(* A sequence whose elements behind the third are those of another.         *)
LEMMA LastPart ==
    ASSUME NEW S, NEW y \in Seq(S), NEW x, DOMAIN x = 1..(3 + Len(y)), x = [k \in DOMAIN x |-> x[k]],
           \A k \in 1..Len(y) : x[3 + k] = y[k]
    PROVE  SubSeq(x, 4, 3 + Len(y)) = y
  <1> DEFINE T == { x[k] : k \in 1..(3 + Len(y)) }
             n == Len(y)
             z == SubSeq(x, 4, 3 + n)
  <1>1. n \in Nat /\ DOMAIN y = 1..n /\ y = [k \in 1..n |-> y[k]]
    BY LenProperties
  <1>2. x \in Seq(T) /\ Len(x) = 3 + n
    <2>1. x \in [1..(3 + n) -> T]
      OBVIOUS
    <2>2. 3 + n \in Nat
      BY <1>1
    <2>3. ASSUME NEW l \in Nat, NEW q \in [1..l -> T] PROVE q \in Seq(T) /\ Len(q) = l
      OBVIOUS
    <2> HIDE DEF T, n
    <2> QED BY <2>1, <2>2, <2>3
  <1> HIDE DEF T, n
  <1>3. z \in Seq(T) /\ Len(z) = n /\ \A k \in 1..n : z[k] = x[4 + k - 1]
    <2>1. 4 \in 1..(Len(x) + 1) /\ 3 + n \in 3..Len(x)
      BY <1>1, <1>2
    <2> QED BY <1>1, <1>2, <2>1, SubSeqProperties
  <1>4. \A k \in 1..n : z[k] = y[k]
    BY <1>1, <1>3 DEF n
  <1> HIDE DEF z
  <1> QED BY <1>1, <1>3, <1>4 DEF z, n

=============================================================================
