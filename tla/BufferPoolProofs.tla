-------------------------- MODULE BufferPoolProofs --------------------------
(***************************************************************************)
(* Theorems about BufferPool for any threads, buffers, capacities, widths  *)
(* and number of buckets.  A buffer stays in one place because acquire     *)
(* takes out what it returns, and because it allocates buffers that are    *)
(* nowhere: those of capacity 0, which nothing held or pooled ever has.    *)
(***************************************************************************)
EXTENDS BufferPool, SequenceFacts

-----------------------------------------------------------------------------
(* The arithmetic of a manager.                                            *)

(* The builder raises minimum and alignment to 1.                           *)
LEMMA ManagerType ==
    ASSUME NEW m \in Managers
    PROVE  m.minimum \in 1..MaxInt /\ m.alignment \in 1..MaxInt
  <1>1. ASSUME NEW n \in JInt PROVE Max({1, n}) \in 1..MaxInt
    <2>1. n \in Int /\ n <= MaxInt /\ MaxInt \in Nat \ {0}
      BY <1>1, MaxIntAssumption DEF JInt
    <2> QED BY <2>1, MaxOfTwo
  <1>2. PICK n \in Minimums, a \in Alignments :
          m = [minimum |-> Max({1, n}), alignment |-> Max({1, a})]
    BY DEF Managers
  <1> QED BY <1>1, <1>2, PoolAssumption

LEMMA RoundedPositive ==
    ASSUME NEW m \in Managers, NEW n \in Nat \ {0}
    PROVE  Rounded(m, n) \in Nat \ {0}
  <1> DEFINE a == m.alignment
  <1>1. a \in Nat \ {0}
    BY ManagerType, MaxIntAssumption
  <1> HIDE DEF a
  <1>2. (n + a - 1) \div a \in Nat /\ (n + a - 1) \div a >= 1
    <2>1. a <= n + a - 1 /\ n + a - 1 \in Nat
      BY <1>1
    <2> DEFINE x == n + a - 1
    <2>2. x \in Nat /\ a <= x
      BY <2>1
    <2> HIDE DEF x
    <2>3. x \div a \in Nat /\ x \div a >= 1
      BY <1>1, <2>2, SMTT(30)
    <2> QED BY <2>3 DEF x
  <1>3. \A q \in Nat : q >= 1 => q * a \in Nat \ {0}
    BY <1>1, Z3
  <1> QED BY <1>2, <1>3 DEF Rounded, a

(* What acquire asks of the pool is a capacity a buffer can have.          *)
LEMMA SizeAskedFor ==
    ASSUME manager \in Managers, NEW n \in Requests, Representable(manager, Required(n))
    PROVE  Rounded(manager, Required(n)) \in 1..MaxInt
  <1>1. n \in Int /\ manager.minimum \in Nat \ {0}
    BY ManagerType, PoolAssumption, MaxIntAssumption DEF JInt
  <1>2. Required(n) \in Nat \ {0}
    <2>1. ASSUME NEW a \in Int, NEW b \in Nat \ {0} PROVE Max({a, b}) \in Nat \ {0}
      <3>1. Max({a, b}) \in {a, b} /\ Max({a, b}) >= b
        BY MaxOfTwo
      <3> QED BY <3>1
    <2> QED BY <1>1, <2>1 DEF Required
  <1> HIDE DEF Required
  <1>3. ASSUME NEW r \in Nat \ {0} PROVE Rounded(manager, r) \in Nat \ {0}
    BY RoundedPositive
  <1>4. Rounded(manager, Required(n)) <= MaxInt
    BY DEF Representable
  <1>5. ASSUME NEW r, r \in Nat \ {0}, r <= MaxInt PROVE r \in 1..MaxInt
    BY <1>5, MaxIntAssumption
  <1> QED BY <1>2, <1>3, <1>4, <1>5

(* The bucket of every size exists.                                         *)
LEMMA BucketsExist ==
    ASSUME NEW m \in Managers
    PROVE  /\ BucketCount(m) \in 1..BucketLimit
           /\ \A size \in 1..MaxInt : BucketIndex(m, size) \in 0..(BucketCount(m) - 1)
  <1>1. BucketCount(m) \in 1..BucketLimit
    <2> DEFINE S == { n \in 1..BucketLimit :
                        n = BucketLimit \/ Base(m, n - 1) >= MaxInt \div 2 \/ Base(m, n) <= 0 }
    <2>0. BucketLimit \in 1..BucketLimit /\ 1..BucketLimit \subseteq Nat
      BY PoolAssumption
    <2>1. BucketLimit \in S /\ S \subseteq Nat /\ S \subseteq 1..BucketLimit
      BY <2>0, Zenon
    <2>2. Min(S) \in S
      BY <2>1, MinOfNaturals
    <2> QED BY <2>1, <2>2 DEF BucketCount
  <1>2. ASSUME NEW size \in 1..MaxInt PROVE BucketIndex(m, size) \in 0..(BucketCount(m) - 1)
    <2> DEFINE S == { i \in 0..(BucketCount(m) - 1) :
                        Base(m, i) >= Rounded(m, size) \/ i + 1 = BucketCount(m) }
    <2>0. /\ BucketCount(m) - 1 \in 0..(BucketCount(m) - 1)
          /\ 0..(BucketCount(m) - 1) \subseteq Nat
          /\ BucketCount(m) - 1 + 1 = BucketCount(m)
      BY <1>1, PoolAssumption
    <2>1. BucketCount(m) - 1 \in S /\ S \subseteq Nat /\ S \subseteq 0..(BucketCount(m) - 1)
      BY <2>0, Zenon
    <2>2. Min(S) \in S
      BY <2>1, MinOfNaturals
    <2> QED BY <2>1, <2>2 DEF BucketIndex
  <1> QED BY <1>1, <1>2

(* The base of a bucket is twice that of the bucket before it.             *)
LEMMA BaseEquation ==
    ASSUME NEW m \in Managers
    PROVE  /\ Base(m, 0) = Rounded(m, m.minimum)
           /\ \A i \in 1..BucketLimit :
                Base(m, i) = Min({MaxInt, Wrap(Base(m, i - 1) + Base(m, i - 1))})
  <1> DEFINE Twice(x) == Min({MaxInt, Wrap(x + x)})
             IsBase(f, n) == f = [i \in 0..n |-> IF i = 0 THEN Rounded(m, m.minimum)
                                                ELSE Twice(f[i - 1])]
             S == { n \in Nat : \E f : IsBase(f, n) }
  <1> HIDE DEF Twice
  <1>1. 0 \in S
    <2>1. IsBase([i \in 0..0 |-> Rounded(m, m.minimum)], 0)
      OBVIOUS
    <2> QED BY <2>1
  <1>2. ASSUME NEW n \in Nat, n \in S PROVE n + 1 \in S
    <2>1. PICK f : IsBase(f, n)
      BY <1>2
    <2> DEFINE g == [i \in 0..(n + 1) |-> IF i = n + 1 THEN Twice(f[n]) ELSE f[i]]
    <2>2. \A i \in 0..n : f[i] = IF i = 0 THEN Rounded(m, m.minimum) ELSE Twice(f[i - 1])
      BY <2>1
    <2>3. ASSUME NEW i \in 0..(n + 1)
          PROVE  g[i] = IF i = 0 THEN Rounded(m, m.minimum) ELSE Twice(g[i - 1])
      BY <2>2
    <2>4. IsBase(g, n + 1)
      BY <2>3
    <2> HIDE DEF IsBase, g
    <2> QED BY <2>4
  <1>3. \E f : IsBase(f, BucketLimit)
    <2>1. BucketLimit \in S
      <3> HIDE DEF S
      <3> QED BY <1>1, <1>2, SetInduction, PoolAssumption
    <2> QED BY <2>1
  <1>4. IsBase(Bases(m), BucketLimit)
    BY <1>3, Zenon DEF Bases, Twice
  <1>5. \A i \in 0..BucketLimit :
          Base(m, i) = IF i = 0 THEN Rounded(m, m.minimum) ELSE Twice(Base(m, i - 1))
    BY <1>4 DEF Base
  <1>6. ASSUME NEW i \in 1..BucketLimit PROVE i \in 0..BucketLimit /\ i # 0
    BY PoolAssumption
  <1>7. 0 \in 0..BucketLimit
    BY PoolAssumption
  <1> QED BY <1>5, <1>6, <1>7, Zenon DEF Twice

(* Rounding up is monotonic, and reflects the order of what it separates.   *)
LEMMA RoundedGrows ==
    ASSUME NEW m \in Managers, NEW n \in Nat, NEW k \in Nat, n <= k
    PROVE  Rounded(m, n) \in Nat /\ Rounded(m, k) \in Nat /\ Rounded(m, n) <= Rounded(m, k)
  <1> DEFINE a == m.alignment
             x == n + a - 1
             y == k + a - 1
  <1>1. a \in Nat \ {0} /\ x \in Nat /\ y \in Nat /\ x <= y
    BY ManagerType, MaxIntAssumption
  <1> HIDE DEF a, x, y
  <1>2. x \div a \in Nat /\ y \div a \in Nat /\ x \div a <= y \div a
    BY <1>1, SMTT(30)
  <1>3. \A p, q \in Nat : p <= q => p * a \in Nat /\ q * a \in Nat /\ p * a <= q * a
    BY <1>1, Z3
  <1> QED BY <1>2, <1>3 DEF Rounded, a, x, y

LEMMA RoundedReflectsOrder ==
    ASSUME NEW m \in Managers, NEW n \in Nat, NEW k \in Nat, Rounded(m, n) < Rounded(m, k)
    PROVE  n < k
  <1>1. CASE k <= n
    BY <1>1, RoundedGrows
  <1>2. CASE n < k
    BY <1>2
  <1> QED BY <1>1, <1>2

(* A bucket is counted only while doubling has not overflowed, so the bases *)
(* of the buckets there are grow.                                           *)
LEMMA BasesGrow ==
    ASSUME NEW m \in Managers
    PROVE  /\ \A i \in 0..(BucketCount(m) - 1) : Base(m, i) \in Nat \ {0}
           /\ \A i, j \in 0..(BucketCount(m) - 1) : i <= j => Base(m, i) <= Base(m, j)
  <1> DEFINE count == BucketCount(m)
             Stops(n) == n = BucketLimit \/ Base(m, n - 1) >= MaxInt \div 2 \/ Base(m, n) <= 0
             S == { n \in 1..BucketLimit : Stops(n) }
  <1>1. count \in 1..BucketLimit
    BY BucketsExist
  <1>2. ASSUME NEW n \in 1..(count - 1) PROVE ~ Stops(n)
    <2>1. S \subseteq Nat /\ BucketLimit \in S /\ count = Min(S)
      BY PoolAssumption DEF BucketCount
    <2>2. count <= n \/ n \notin S
      BY <2>1, MinOfNaturals
    <2> QED BY <1>1, <2>2, PoolAssumption
  <1>3. ASSUME NEW n \in 1..(count - 1), Base(m, n - 1) \in Nat \ {0}
        PROVE  Base(m, n) \in Nat \ {0} /\ Base(m, n - 1) <= Base(m, n)
    <2> DEFINE b == Base(m, n - 1)
    <2>1. b \in Nat \ {0} /\ ~ (b >= MaxInt \div 2)
      BY <1>2, <1>3
    <2>2. Base(m, n) = Min({MaxInt, Wrap(b + b)})
      <3>1. n \in 1..BucketLimit
        BY <1>1, PoolAssumption
      <3> QED BY <3>1, BaseEquation, Zenon
    <2> HIDE DEF b
    <2>3. b + b <= MaxInt /\ Wrap(b + b) = b + b /\ b + b \in Nat
      BY <2>1, MaxIntAssumption DEF Wrap
    <2>4. Min({MaxInt, b + b}) = b + b
      <3>1. {MaxInt, b + b} \subseteq Nat /\ {MaxInt, b + b} # {}
        BY <2>3, MaxIntAssumption
      <3>2. /\ Min({MaxInt, b + b}) \in {MaxInt, b + b}
            /\ \A k \in {MaxInt, b + b} : Min({MaxInt, b + b}) <= k
        BY <3>1, MinOfNaturals
      <3> QED BY <2>3, <3>1, <3>2
    <2>5. Base(m, n) = b + b
      BY <2>2, <2>3, <2>4
    <2> QED BY <2>1, <2>3, <2>5 DEF b
  <1> DEFINE P == { n \in Nat : n < count =>
                      /\ Base(m, n) \in Nat \ {0}
                      /\ \A i \in 0..n : Base(m, i) \in Nat /\ Base(m, i) <= Base(m, n) }
  <1>4. 0 \in P
    <2>1. Base(m, 0) = Rounded(m, m.minimum)
      BY BaseEquation
    <2>2. m.minimum \in Nat \ {0}
      BY ManagerType, MaxIntAssumption
    <2> QED BY <2>1, <2>2, RoundedPositive
  <1>5. ASSUME NEW n \in Nat, n \in P PROVE n + 1 \in P
    <2> SUFFICES ASSUME n + 1 < count
                 PROVE  /\ Base(m, n + 1) \in Nat \ {0}
                        /\ \A i \in 0..(n + 1) : Base(m, i) \in Nat /\ Base(m, i) <= Base(m, n + 1)
      OBVIOUS
    <2>1. n + 1 \in 1..(count - 1) /\ n < count /\ (n + 1) - 1 = n
      BY <1>1, PoolAssumption
    <2>2. /\ Base(m, n) \in Nat \ {0}
          /\ \A i \in 0..n : Base(m, i) \in Nat /\ Base(m, i) <= Base(m, n)
      BY <1>5, <2>1
    <2>3. Base(m, n + 1) \in Nat \ {0} /\ Base(m, n) <= Base(m, n + 1)
      BY <1>3, <2>1, <2>2
    <2>4. \A i \in 0..n : Base(m, i) \in Nat /\ Base(m, i) <= Base(m, n + 1)
      BY <2>2, <2>3
    <2> QED BY <2>3, <2>4
  <1>6. Nat \subseteq P
    <2> HIDE DEF P
    <2> QED BY <1>4, <1>5, SetInduction
  <1>7. ASSUME NEW i \in 0..(count - 1), NEW j \in 0..(count - 1)
        PROVE  Base(m, i) \in Nat \ {0} /\ (i <= j => Base(m, i) <= Base(m, j))
    <2>1. i \in P /\ j \in P /\ i < count /\ j < count
      BY <1>1, <1>6, PoolAssumption
    <2> QED BY <2>1
  <1> QED BY <1>7

(* What is left of a sequence of which one element is removed.              *)
LEMMA RemovedFrom ==
    ASSUME NEW S, NEW s \in Seq(S), NEW k \in 1..Len(s)
    PROVE  /\ RemoveAt(s, k) \in Seq(S)
           /\ Len(RemoveAt(s, k)) = Len(s) - 1
           /\ \A j \in 1..(Len(s) - 1) : RemoveAt(s, k)[j] = s[IF j < k THEN j ELSE j + 1]
  <1> DEFINE before == SubSeq(s, 1, k - 1)
             after  == SubSeq(s, k + 1, Len(s))
  <1>1. /\ before \in Seq(S) /\ Len(before) = k - 1
        /\ \A j \in 1..(k - 1) : before[j] = s[j]
    OBVIOUS
  <1>2. /\ after \in Seq(S) /\ Len(after) = Len(s) - k
        /\ \A j \in 1..(Len(s) - k) : after[j] = s[j + k]
    OBVIOUS
  <1>3. RemoveAt(s, k) = before \o after
    BY DEF RemoveAt
  <1> HIDE DEF before, after
  <1>4. RemoveAt(s, k) \in Seq(S) /\ Len(RemoveAt(s, k)) = Len(s) - 1
    BY <1>1, <1>2, <1>3
  <1>5. ASSUME NEW j \in 1..(Len(s) - 1)
        PROVE  RemoveAt(s, k)[j] = s[IF j < k THEN j ELSE j + 1]
    <2>1. CASE j < k
      <3>1. (before \o after)[j] = before[j]
        BY <1>1, <1>2, <2>1
      <3> QED BY <1>1, <1>3, <2>1, <3>1
    <2>2. CASE ~ (j < k)
      <3>1. (before \o after)[j] = after[j - (k - 1)] /\ j - (k - 1) \in 1..(Len(s) - k)
        BY <1>1, <1>2, <2>2
      <3>2. after[j - (k - 1)] = s[(j - (k - 1)) + k]
        BY <1>2, <3>1
      <3>3. (j - (k - 1)) + k = j + 1
        OBVIOUS
      <3> QED BY <1>3, <2>2, <3>1, <3>2, <3>3
    <2> QED BY <2>1, <2>2
  <1> QED BY <1>4, <1>5

-----------------------------------------------------------------------------
(* Places: a bucket of a thread and a position in it.                      *)

Shape ==
    /\ manager \in Managers
    /\ buckets \in [Threads -> [0..(BucketLimit - 1) -> Seq(Buffers)]]
    /\ capacity \in [Buffers -> Size]
    /\ held \subseteq Buffers /\ ours \subseteq Buffers

IsPlace(t, i, k) == t \in Threads /\ i \in 0..(BucketLimit - 1) /\ k \in 1..Len(buckets[t][i])

(* Two places never hold the same buffer, none holds one the application   *)
(* has, and all of these buffers are allocated.                            *)
PlacesApart ==
    \A t, u, i, j, k, l :
        IsPlace(t, i, k) /\ IsPlace(u, j, l) /\ buckets[t][i][k] = buckets[u][j][l]
            => t = u /\ i = j /\ k = l
NoneHeld == \A t, i, k : IsPlace(t, i, k) => buckets[t][i][k] \notin held
Allocated ==
    /\ \A b \in held \cup ours : capacity[b] # 0
    /\ \A t, i, k : IsPlace(t, i, k) => capacity[buckets[t][i][k]] # 0
(* A buffer is in the bucket of its capacity.                              *)
Sorted ==
    \A t, i, k : IsPlace(t, i, k) => i = BucketIndex(manager, capacity[buckets[t][i][k]])

Inv == Shape /\ PlacesApart /\ NoneHeld /\ Allocated /\ Sorted

LEMMA InvImpliesOneHolder == Inv => OneHolder
  <1> SUFFICES ASSUME Inv PROVE OneHolder
    OBVIOUS
  <1>1. ASSUME NEW t \in Threads
        PROVE  /\ DOMAIN buckets[t] = 0..(BucketLimit - 1)
               /\ \A i \in DOMAIN buckets[t] : DOMAIN buckets[t][i] = 1..Len(buckets[t][i])
    BY DEF Inv, Shape
  <1>2. ASSUME NEW t \in Threads, NEW b \in Pooled(t)
        PROVE  \E i, k : IsPlace(t, i, k) /\ b = buckets[t][i][k]
    BY <1>1, <1>2 DEF Pooled, Range, IsPlace
  <1>3. \A t \in Threads : held \cap Pooled(t) = {}
    BY <1>2 DEF Inv, NoneHeld
  <1>4. \A t, u \in Threads : t # u => Pooled(t) \cap Pooled(u) = {}
    BY <1>2 DEF Inv, PlacesApart
  <1>5. \A t \in Threads : \A i, j \in DOMAIN buckets[t] :
          \A k \in DOMAIN buckets[t][i], l \in DOMAIN buckets[t][j] :
             buckets[t][i][k] = buckets[t][j][l] => i = j /\ k = l
    <2> SUFFICES ASSUME NEW t \in Threads, NEW i \in DOMAIN buckets[t], NEW j \in DOMAIN buckets[t],
                        NEW k \in DOMAIN buckets[t][i], NEW l \in DOMAIN buckets[t][j],
                        buckets[t][i][k] = buckets[t][j][l]
                 PROVE  i = j /\ k = l
      OBVIOUS
    <2>1. IsPlace(t, i, k) /\ IsPlace(t, j, l)
      BY <1>1 DEF IsPlace
    <2> QED BY <2>1 DEF Inv, PlacesApart
  <1> QED BY <1>3, <1>4, <1>5 DEF OneHolder

(* A place holds a buffer.                                                  *)
LEMMA PlaceHoldsBuffer ==
    ASSUME Shape, NEW t, NEW i, NEW k, IsPlace(t, i, k)
    PROVE  buckets[t][i] \in Seq(Buffers) /\ buckets[t][i][k] \in Buffers
  <1>1. t \in Threads /\ i \in 0..(BucketLimit - 1) /\ k \in 1..Len(buckets[t][i])
    BY DEF IsPlace
  <1>2. buckets[t][i] \in Seq(Buffers)
    BY <1>1 DEF Shape
  <1> HIDE DEF Shape
  <1>3. ASSUME NEW s \in Seq(Buffers), k \in 1..Len(s) PROVE s[k] \in Buffers
    BY <1>3
  <1> QED BY <1>1, <1>2, <1>3

(* Inv is inductive: one lemma per action.                                  *)
LEMMA InitInv == Init => Inv
  <1> SUFFICES ASSUME Init PROVE Inv
    OBVIOUS
  <1>1. buckets \in [Threads -> [0..(BucketLimit - 1) -> Seq(Buffers)]]
    BY DEF Init
  <1>2. Shape
    BY <1>1, MaxIntAssumption DEF Init, Shape, Size
  <1>3. \A t, i, k : ~ IsPlace(t, i, k)
    BY DEF Init, IsPlace
  <1> QED BY <1>2, <1>3 DEF Inv, Init, PlacesApart, NoneHeld, Allocated, Sorted

(* Where a buffer is taken out, the places left hold what other places held. *)
LEMMA TakeInv ==
    ASSUME Inv, NEW t \in Threads, NEW i \in 0..(BucketLimit - 1), NEW k \in 1..Len(buckets[t][i]),
           Take(t, <<i, k>>), UNCHANGED manager
    PROVE  Inv'
  <1> DEFINE b == buckets[t][i][k]
             Old(u, j, l) == IF u = t /\ j = i /\ l >= k THEN l + 1 ELSE l
  <1>1. buckets[t][i] \in Seq(Buffers) /\ b \in Buffers /\ IsPlace(t, i, k)
    BY PlaceHoldsBuffer DEF Inv, IsPlace
  <1>2. /\ buckets' = [buckets EXCEPT ![t][i] = RemoveAt(@, k)]
        /\ held' = held \cup {b} /\ UNCHANGED <<manager, capacity, ours>>
    BY DEF Take
  <1>3. /\ RemoveAt(buckets[t][i], k) \in Seq(Buffers)
        /\ Len(RemoveAt(buckets[t][i], k)) = Len(buckets[t][i]) - 1
        /\ \A l \in 1..(Len(buckets[t][i]) - 1) :
             RemoveAt(buckets[t][i], k)[l] = buckets[t][i][IF l < k THEN l ELSE l + 1]
    BY <1>1, RemovedFrom
  <1>4. Shape'
    BY <1>1, <1>2, <1>3 DEF Inv, Shape
  <1>5. ASSUME NEW u, NEW j, NEW l, IsPlace(u, j, l)'
        PROVE  /\ IsPlace(u, j, Old(u, j, l))
               /\ buckets'[u][j][l] = buckets[u][j][Old(u, j, l)]
               /\ <<u, j, Old(u, j, l)>> # <<t, i, k>>
    <2>1. u \in Threads /\ j \in 0..(BucketLimit - 1) /\ l \in 1..Len(buckets'[u][j])
      BY <1>5 DEF IsPlace
    <2>2. CASE u = t /\ j = i
      <3>1. buckets'[u][j] = RemoveAt(buckets[t][i], k)
        BY <1>2, <2>1, <2>2 DEF Inv, Shape
      <3>2. l \in 1..(Len(buckets[t][i]) - 1) /\ Len(buckets[t][i]) \in Nat
        BY <1>1, <1>3, <2>1, <3>1
      <3> QED BY <1>3, <2>1, <2>2, <3>1, <3>2 DEF IsPlace
    <2>3. CASE ~ (u = t /\ j = i)
      <3>1. buckets'[u][j] = buckets[u][j]
        BY <1>2, <2>1, <2>3 DEF Inv, Shape
      <3> QED BY <2>1, <2>3, <3>1 DEF IsPlace
    <2> QED BY <2>2, <2>3
  <1>6. PlacesApart'
    <2> SUFFICES ASSUME NEW u, NEW v, NEW j, NEW m, NEW l, NEW n,
                        IsPlace(u, j, l)', IsPlace(v, m, n)',
                        buckets'[u][j][l] = buckets'[v][m][n]
                 PROVE  u = v /\ j = m /\ l = n
      BY DEF PlacesApart
    <2>1. u = v /\ j = m /\ Old(u, j, l) = Old(v, m, n)
      BY <1>5 DEF Inv, PlacesApart
    <2>2. l \in Nat /\ n \in Nat /\ k \in Nat
      BY <1>4 DEF IsPlace, Shape
    <2> QED BY <2>1, <2>2
  <1>7. NoneHeld'
    <2> SUFFICES ASSUME NEW u, NEW j, NEW l, IsPlace(u, j, l)'
                 PROVE  buckets'[u][j][l] \notin held'
      BY DEF NoneHeld
    <2> HIDE DEF Old
    <2>1. buckets'[u][j][l] \notin held
      BY <1>5 DEF Inv, NoneHeld
    <2>2. buckets'[u][j][l] # b
      BY <1>1, <1>5 DEF Inv, PlacesApart
    <2> QED BY <1>2, <2>1, <2>2
  <1>8. Allocated'
    <2> HIDE DEF Old
    <2>1. \A c \in held' \cup ours' : capacity'[c] # 0
      BY <1>1, <1>2 DEF Inv, Allocated
    <2>2. ASSUME NEW u, NEW j, NEW l, IsPlace(u, j, l)'
          PROVE  capacity'[buckets'[u][j][l]] # 0
      BY <1>2, <1>5, <2>2 DEF Inv, Allocated
    <2> QED BY <2>1, <2>2 DEF Allocated
  <1>9. Sorted'
    <2> HIDE DEF Old
    <2> QED BY <1>2, <1>5 DEF Inv, Sorted
  <1> QED BY <1>4, <1>6, <1>7, <1>8, <1>9 DEF Inv

(* Where a buffer that is in no place is put in, only that place is new.    *)
LEMMA PoolInv ==
    ASSUME Inv, NEW t \in Threads, NEW b \in Buffers, NEW size \in 1..MaxInt,
           Pool(t, b, size), \A u, j, l : IsPlace(u, j, l) => buckets[u][j][l] # b,
           held' = held \ {b}, UNCHANGED ours,
           capacity' \in [Buffers -> Size], capacity'[b] = size,
           \A c \in Buffers \ {b} : capacity'[c] = capacity[c]
    PROVE  Inv'
  <1> DEFINE i == BucketIndex(manager, size)
             New(u, j, l) == u = t /\ j = i /\ l = Len(buckets[t][i]) + 1
  <1>1. i \in 0..(BucketLimit - 1)
    BY BucketsExist, PoolAssumption DEF Inv, Shape
  <1>2. buckets' = [buckets EXCEPT ![t][i] = Append(@, b)] /\ UNCHANGED manager
    BY DEF Pool
  <1> HIDE DEF i
  <1>3. buckets[t][i] \in Seq(Buffers)
    BY <1>1 DEF Inv, Shape
  <1>4. Shape'
    BY <1>1, <1>2, <1>3 DEF Inv, Shape
  <1>5. ASSUME NEW u, NEW j, NEW l, IsPlace(u, j, l)'
        PROVE  \/ New(u, j, l) /\ buckets'[u][j][l] = b
               \/ IsPlace(u, j, l) /\ buckets'[u][j][l] = buckets[u][j][l]
    <2>1. u \in Threads /\ j \in 0..(BucketLimit - 1) /\ l \in 1..Len(buckets'[u][j])
      BY <1>5 DEF IsPlace
    <2>2. CASE u = t /\ j = i
      <3>1. buckets'[u][j] = Append(buckets[t][i], b)
        BY <1>2, <2>1, <2>2 DEF Inv, Shape
      <3>2. l \in 1..(Len(buckets[t][i]) + 1)
        BY <1>3, <2>1, <3>1
      <3> QED BY <1>3, <2>1, <2>2, <3>1, <3>2 DEF IsPlace
    <2>3. CASE ~ (u = t /\ j = i)
      <3>1. buckets'[u][j] = buckets[u][j]
        BY <1>2, <2>1, <2>3 DEF Inv, Shape
      <3> QED BY <2>1, <3>1 DEF IsPlace
    <2> QED BY <2>2, <2>3
  <1>6. ASSUME NEW u, NEW j, NEW l, IsPlace(u, j, l) PROVE buckets[u][j][l] \in Buffers
    BY <1>6, PlaceHoldsBuffer DEF Inv
  <1>7. PlacesApart'
    BY <1>5 DEF PlacesApart, Inv
  <1>8. NoneHeld'
    BY <1>5 DEF NoneHeld, Inv
  <1>9. Allocated'
    BY <1>5, <1>6, MaxIntAssumption DEF Allocated, Inv, Shape
  <1>10. Sorted'
    <2> SUFFICES ASSUME NEW u, NEW j, NEW l, IsPlace(u, j, l)'
                 PROVE  j = BucketIndex(manager, capacity'[buckets'[u][j][l]])
      BY <1>2 DEF Sorted
    <2>1. CASE New(u, j, l) /\ buckets'[u][j][l] = b
      BY <2>1 DEF i
    <2>2. CASE IsPlace(u, j, l) /\ buckets'[u][j][l] = buckets[u][j][l]
      <3>1. capacity'[buckets[u][j][l]] = capacity[buckets[u][j][l]]
        BY <1>6, <2>2
      <3> QED BY <2>2, <3>1 DEF Inv, Sorted
    <2> QED BY <1>5, <2>1, <2>2
  <1> QED BY <1>4, <1>7, <1>8, <1>9, <1>10 DEF Inv

(* A buffer of capacity 0 is nowhere, so it can be handed out.              *)
LEMMA AllocateInv ==
    ASSUME Inv, NEW size \in 1..MaxInt, allocateDirect(size), UNCHANGED manager
    PROVE  Inv'
  <1>1. PICK b \in Buffers : /\ capacity[b] = 0 /\ capacity' = [capacity EXCEPT ![b] = size]
                             /\ held' = held \cup {b} /\ ours' = ours \cup {b}
    BY DEF allocateDirect
  <1>2. UNCHANGED <<buckets, manager>>
    BY DEF allocateDirect
  <1>3. \A t, i, k : IsPlace(t, i, k)' <=> IsPlace(t, i, k)
    BY <1>2 DEF IsPlace
  <1>4. size \in Size /\ size # 0
    BY MaxIntAssumption DEF Size
  <1>5. Shape'
    BY <1>1, <1>2, <1>4 DEF Inv, Shape
  <1>6. \A t, i, k : IsPlace(t, i, k) => buckets[t][i][k] # b
    BY <1>1 DEF Inv, Allocated
  <1>7. PlacesApart'
    BY <1>2, <1>3 DEF Inv, PlacesApart
  <1>8. NoneHeld'
    BY <1>1, <1>2, <1>3, <1>6 DEF Inv, NoneHeld
  <1>9. Allocated'
    <2>1. \A c \in held' \cup ours' : capacity'[c] # 0
      BY <1>1, <1>4 DEF Inv, Allocated, Shape
    <2>2. ASSUME NEW t, NEW i, NEW k, IsPlace(t, i, k)'
          PROVE  capacity'[buckets'[t][i][k]] # 0
      BY <1>1, <1>2, <1>3, <1>4, <1>6, <2>2, PlaceHoldsBuffer DEF Inv, Allocated, Shape
    <2> QED BY <2>1, <2>2 DEF Allocated
  <1>10. Sorted'
    <2> SUFFICES ASSUME NEW t, NEW i, NEW k, IsPlace(t, i, k)
                 PROVE  i = BucketIndex(manager, capacity'[buckets[t][i][k]])
      BY <1>2, <1>3 DEF Sorted
    <2>1. capacity'[buckets[t][i][k]] = capacity[buckets[t][i][k]]
      BY <1>1, <1>6, PlaceHoldsBuffer DEF Inv, Shape
    <2> QED BY <2>1 DEF Inv, Sorted
  <1> QED BY <1>5, <1>7, <1>8, <1>9, <1>10 DEF Inv

(* What Poll finds is a place, of a buffer that acquire takes out.          *)
LEMMA PolledIsPlace ==
    ASSUME Inv, NEW t \in Threads, NEW size \in 1..MaxInt, NEW place \in Poll(t, size)
    PROVE  \E i \in 0..(BucketLimit - 1) : \E k \in 1..Len(buckets[t][i]) : place = <<i, k>>
  <1> DEFINE own    == BucketIndex(manager, size)
             enough == { k \in DOMAIN buckets[t][own] : capacity[buckets[t][own][k]] >= size }
             larger == { j \in Indices : own < j /\ buckets[t][j] # <<>> }
  <1>1. /\ own \in 0..(BucketLimit - 1)
        /\ Indices \subseteq 0..(BucketLimit - 1) /\ Indices \subseteq Nat
    BY BucketsExist, PoolAssumption DEF Inv, Shape, Indices
  <1> HIDE DEF own
  <1>2. \A i \in 0..(BucketLimit - 1) : buckets[t][i] \in Seq(Buffers)
    BY DEF Inv, Shape
  <1>3. CASE enough # {}
    <2>1. enough \subseteq 1..Len(buckets[t][own]) /\ enough \subseteq Nat
      BY <1>1, <1>2
    <2>2. Min(enough) \in enough
      BY <1>3, <2>1, MinOfNaturals
    <2>3. place = <<own, Min(enough)>>
      BY <1>3 DEF Poll, own
    <2> QED BY <1>1, <2>1, <2>2, <2>3
  <1>4. CASE enough = {} /\ larger # {}
    <2>1. Min(larger) \in larger
      BY <1>1, <1>4, MinOfNaturals
    <2>2. place = <<Min(larger), 1>>
      BY <1>4 DEF Poll, own
    <2>3. ASSUME NEW s \in Seq(Buffers), s # <<>> PROVE 1 \in 1..Len(s)
      BY <2>3
    <2> QED BY <1>1, <1>2, <2>1, <2>2, <2>3
  <1>5. CASE enough = {} /\ larger = {}
    BY <1>5 DEF Poll, own
  <1> QED BY <1>3, <1>4, <1>5

LEMMA AcquireInv ==
    ASSUME Inv, NEW t \in Threads, NEW n \in Requests, acquire(t, n)
    PROVE  Inv'
  <1> DEFINE size == Rounded(manager, Required(n))
  <1>1. size \in 1..MaxInt
    BY SizeAskedFor DEF acquire, Inv, Shape
  <1>2. UNCHANGED manager
    BY DEF acquire
  <1>3. ASSUME NEW place \in Poll(t, size), Take(t, place) PROVE Inv'
    <2>1. PICK i \in 0..(BucketLimit - 1) :
                 \E k \in 1..Len(buckets[t][i]) : place = <<i, k>>
      BY <1>1, PolledIsPlace
    <2> QED BY <1>2, <1>3, <2>1, TakeInv
  <1>4. CASE allocateDirect(size)
    BY <1>1, <1>2, <1>4, AllocateInv
  <1> QED BY <1>3, <1>4 DEF acquire

LEMMA ReleaseInv ==
    ASSUME Inv, NEW t \in Threads, NEW b \in Buffers, release(t, b)
    PROVE  Inv'
  <1>1. /\ b \in held /\ Pool(t, b, capacity[b])
        /\ held' = held \ {b} /\ UNCHANGED <<capacity, ours>>
    BY DEF release
  <1>2. capacity[b] \in 1..MaxInt /\ capacity' \in [Buffers -> Size]
    BY <1>1, MaxIntAssumption DEF Inv, Shape, Allocated, Size
  <1>3. \A u, j, l : IsPlace(u, j, l) => buckets[u][j][l] # b
    BY <1>1 DEF Inv, NoneHeld
  <1> QED BY <1>1, <1>2, <1>3, PoolInv

LEMMA ReleaseForeignInv ==
    ASSUME Inv, NEW t \in Threads, NEW b \in Buffers, NEW size \in 1..MaxInt,
           releaseForeign(t, b, size)
    PROVE  Inv'
  <1>1. /\ capacity[b] = 0 /\ Pool(t, b, size) /\ capacity' = [capacity EXCEPT ![b] = size]
        /\ UNCHANGED <<held, ours>>
    BY DEF releaseForeign
  <1>2. b \notin held /\ \A u, j, l : IsPlace(u, j, l) => buckets[u][j][l] # b
    BY <1>1 DEF Inv, Allocated
  <1>3. held' = held \ {b}
    BY <1>1, <1>2
  <1>4. /\ capacity' \in [Buffers -> Size] /\ capacity'[b] = size
        /\ \A c \in Buffers \ {b} : capacity'[c] = capacity[c]
    BY <1>1, MaxIntAssumption DEF Inv, Shape, Size
  <1> QED BY <1>1, <1>2, <1>3, <1>4, PoolInv

LEMMA DropInv ==
    ASSUME Inv, NEW b \in Buffers, Drop(b)
    PROVE  Inv'
  <1>1. /\ b \in held /\ held' = held \ {b} /\ UNCHANGED <<manager, buckets>>
        /\ ours' = ours \ {b}
        /\ capacity' = [c \in Buffers |-> IF c \in {b} THEN 0 ELSE capacity[c]]
    BY DEF Drop, Collect
  <1>2. \A t, i, k : IsPlace(t, i, k)' <=> IsPlace(t, i, k)
    BY <1>1 DEF IsPlace
  <1>3. \A t, i, k : IsPlace(t, i, k) => buckets[t][i][k] # b /\ buckets[t][i][k] \in Buffers
    BY <1>1, PlaceHoldsBuffer DEF Inv, NoneHeld
  <1>4. Shape'
    BY <1>1, MaxIntAssumption DEF Inv, Shape, Size
  <1>5. PlacesApart' /\ NoneHeld'
    BY <1>1, <1>2 DEF Inv, PlacesApart, NoneHeld
  <1>6. Allocated' /\ Sorted'
    BY <1>1, <1>2, <1>3 DEF Inv, Allocated, Sorted, Shape
  <1> QED BY <1>4, <1>5, <1>6 DEF Inv

LEMMA CloseInv ==
    ASSUME Inv, NEW t \in Threads, close(t)
    PROVE  Inv'
  <1>1. /\ buckets' = [buckets EXCEPT ![t] = [i \in DOMAIN buckets[t] |-> <<>>]]
        /\ UNCHANGED <<manager, held>> /\ ours' = ours \ Pooled(t)
        /\ capacity' = [c \in Buffers |-> IF c \in Pooled(t) THEN 0 ELSE capacity[c]]
    BY DEF close, Collect
  <1>2. Shape'
    BY <1>1, MaxIntAssumption DEF Inv, Shape, Size
  <1>3. ASSUME NEW b \in Pooled(t) PROVE \E i, k : IsPlace(t, i, k) /\ b = buckets[t][i][k]
    <2>1. /\ DOMAIN buckets[t] = 0..(BucketLimit - 1)
          /\ \A i \in DOMAIN buckets[t] : DOMAIN buckets[t][i] = 1..Len(buckets[t][i])
      BY DEF Inv, Shape
    <2> QED BY <1>3, <2>1 DEF Pooled, Range, IsPlace
  <1>4. ASSUME NEW u, NEW i, NEW k, IsPlace(u, i, k)'
        PROVE  u # t /\ IsPlace(u, i, k) /\ buckets'[u][i][k] = buckets[u][i][k]
    <2>1. u \in Threads /\ i \in 0..(BucketLimit - 1) /\ k \in 1..Len(buckets'[u][i])
      BY <1>4 DEF IsPlace
    <2>2. u # t
      <3> SUFFICES ASSUME u = t PROVE FALSE
        OBVIOUS
      <3>1. buckets'[u][i] = <<>>
        BY <1>1, <2>1 DEF Inv, Shape
      <3> QED BY <2>1, <3>1
    <2>3. buckets'[u][i] = buckets[u][i]
      BY <1>1, <2>1, <2>2 DEF Inv, Shape
    <2> QED BY <2>1, <2>2, <2>3 DEF IsPlace
  <1>5. PlacesApart' /\ NoneHeld'
    BY <1>1, <1>4 DEF Inv, PlacesApart, NoneHeld
  <1>6. ASSUME NEW u, NEW i, NEW k, IsPlace(u, i, k)'
        PROVE  /\ IsPlace(u, i, k)
               /\ buckets'[u][i][k] = buckets[u][i][k]
               /\ capacity'[buckets[u][i][k]] = capacity[buckets[u][i][k]]
    <2>1. IsPlace(u, i, k) /\ u # t /\ buckets'[u][i][k] = buckets[u][i][k]
      BY <1>4, <1>6
    <2>2. buckets[u][i][k] \in Buffers \ Pooled(t)
      BY <1>3, <2>1, PlaceHoldsBuffer DEF Inv, PlacesApart
    <2> QED BY <1>1, <2>1, <2>2
  <1>7. Allocated'
    <2>1. \A c \in held' \cup ours' : capacity'[c] # 0
      BY <1>1, <1>3 DEF Inv, Allocated, NoneHeld, Shape
    <2> QED BY <1>6, <2>1 DEF Inv, Allocated
  <1>8. Sorted'
    BY <1>1, <1>6 DEF Inv, Sorted
  <1> QED BY <1>2, <1>5, <1>7, <1>8 DEF Inv

LEMMA StepInv == Inv /\ [Next]_vars => Inv'
  <1> SUFFICES ASSUME Inv, [Next]_vars PROVE Inv'
    OBVIOUS
  <1>1. ASSUME NEW t \in Threads, NEW n \in Requests, acquire(t, n) PROVE Inv'
    BY <1>1, AcquireInv
  <1>2. ASSUME NEW t \in Threads, NEW b \in Buffers, release(t, b) PROVE Inv'
    BY <1>2, ReleaseInv
  <1>3. ASSUME NEW t \in Threads, NEW b \in Buffers, NEW size \in 1..MaxInt,
               releaseForeign(t, b, size)
        PROVE  Inv'
    BY <1>3, ReleaseForeignInv
  <1>4. ASSUME NEW b \in Buffers, Drop(b) PROVE Inv'
    BY <1>4, DropInv
  <1>5. ASSUME NEW t \in Threads, close(t) PROVE Inv'
    BY <1>5, CloseInv
  <1>6. CASE UNCHANGED vars
    BY <1>6 DEF vars, Inv, Shape, PlacesApart, NoneHeld, Allocated, Sorted, IsPlace
  <1> QED BY <1>1, <1>2, <1>3, <1>4, <1>5, <1>6 DEF Next

LEMMA InvHolds == Spec => []Inv
  <1> QED BY InitInv, StepInv, PTL DEF Spec

-----------------------------------------------------------------------------
(* What follows from the places.                                           *)

LEMMA PooledHasPlace ==
    ASSUME Shape, NEW t \in Threads, NEW b \in Pooled(t)
    PROVE  \E i \in 0..(BucketLimit - 1) : \E k \in 1..Len(buckets[t][i]) :
              IsPlace(t, i, k) /\ b = buckets[t][i][k]
  <1>1. /\ DOMAIN buckets[t] = 0..(BucketLimit - 1)
        /\ \A i \in DOMAIN buckets[t] : DOMAIN buckets[t][i] = 1..Len(buckets[t][i])
    BY DEF Shape
  <1> QED BY <1>1 DEF Pooled, Range, IsPlace

LEMMA InvImpliesTypeOK == Inv => TypeOK
  <1> SUFFICES ASSUME Inv PROVE TypeOK
    OBVIOUS
  <1>1. ASSUME NEW t \in Threads, NEW b \in Pooled(t)
        PROVE  b \in Buffers /\ capacity[b] # 0
    BY PooledHasPlace, PlaceHoldsBuffer DEF Inv, Allocated
  <1>2. \A b \in Buffers : capacity[b] # 0 => capacity[b] > 0
    BY MaxIntAssumption DEF Inv, Shape, Size
  <1>3. /\ DOMAIN buckets = Threads
        /\ \A t \in Threads : DOMAIN buckets[t] = 0..(BucketLimit - 1)
    BY DEF Inv, Shape
  <1>4. \A b \in held \cup ours \cup UNION { Pooled(t) : t \in Threads } :
          b \in Buffers /\ capacity[b] # 0
    BY <1>1 DEF Inv, Shape, Allocated
  <1> QED BY <1>1, <1>2, <1>3, <1>4 DEF TypeOK, Inv, Shape

(* The comparisons bucketIndex has made for a size.                         *)
LEMMA IndexBounds ==
    ASSUME NEW m \in Managers, NEW size \in 1..MaxInt
    PROVE  /\ BucketIndex(m, size) \in 0..(BucketCount(m) - 1)
           /\ Rounded(m, size) \in Nat
           /\ \A j \in 0..(BucketIndex(m, size) - 1) : Base(m, j) < Rounded(m, size)
           /\ \/ BucketIndex(m, size) + 1 = BucketCount(m)
              \/ Rounded(m, size) <= Base(m, BucketIndex(m, size))
  <1> DEFINE count == BucketCount(m)
             S == { i \in 0..(count - 1) : Base(m, i) >= Rounded(m, size) \/ i + 1 = count }
  <1>1. count \in 1..BucketLimit /\ count \in Nat
    BY BucketsExist, PoolAssumption
  <1>2. S \subseteq Nat /\ count - 1 \in S
    BY <1>1
  <1>3. BucketIndex(m, size) = Min(S)
    BY DEF BucketIndex
  <1> HIDE DEF S
  <1>4. Min(S) \in S /\ \A j \in S : Min(S) <= j
    BY <1>2, MinOfNaturals
  <1>5. Rounded(m, size) \in Nat
    BY RoundedPositive, MaxIntAssumption
  <1>6. \A j \in 0..(count - 1) : Base(m, j) \in Nat
    BY BasesGrow
  <1>7. ASSUME NEW j \in 0..(Min(S) - 1) PROVE Base(m, j) < Rounded(m, size)
    <2>1. j \in 0..(count - 1) /\ j \notin S
      BY <1>1, <1>4 DEF S
    <2> QED BY <1>5, <1>6, <2>1 DEF S
  <1>8. Min(S) \in 0..(count - 1) /\ (Base(m, Min(S)) >= Rounded(m, size) \/ Min(S) + 1 = count)
    BY <1>4 DEF S
  <1> QED BY <1>3, <1>5, <1>6, <1>7, <1>8

(* A buffer of a later bucket is larger than anything meant for an earlier *)
(* one: the base between them separates their rounded capacities.           *)
LEMMA LaterIsLarger ==
    ASSUME NEW m \in Managers, NEW x \in 1..MaxInt, NEW y \in 1..MaxInt,
           BucketIndex(m, x) < BucketIndex(m, y)
    PROVE  x < y
  <1> DEFINE i == BucketIndex(m, x)
             j == BucketIndex(m, y)
  <1>1. i \in 0..(BucketCount(m) - 1) /\ j \in 0..(BucketCount(m) - 1) /\ BucketCount(m) \in Nat
    BY IndexBounds, BucketsExist, PoolAssumption
  <1>2. Rounded(m, x) <= Base(m, i) /\ i \in 0..(j - 1)
    BY <1>1, IndexBounds
  <1>3. Base(m, i) < Rounded(m, y)
    BY <1>2, IndexBounds
  <1>4. Rounded(m, x) \in Nat /\ Rounded(m, y) \in Nat /\ Base(m, i) \in Nat
    BY <1>1, IndexBounds, BasesGrow
  <1>5. Rounded(m, x) < Rounded(m, y)
    BY <1>2, <1>3, <1>4
  <1> QED BY <1>5, RoundedReflectsOrder, MaxIntAssumption

(* A capacity is at most what it is rounded to.                             *)
LEMMA RoundedIsEnough ==
    ASSUME NEW m \in Managers, NEW n \in Nat
    PROVE  n <= Rounded(m, n)
  <1> DEFINE a == m.alignment
             x == n + a - 1
  <1>1. a \in Nat \ {0} /\ x \in Nat /\ x = n + a - 1
    BY ManagerType, MaxIntAssumption
  <1> HIDE DEF a, x
  <1>2. x \div a \in Nat /\ x = a * (x \div a) + (x % a) /\ x % a \in 0..(a - 1)
    BY <1>1, SMTT(30)
  <1>3. a * (x \div a) = (x \div a) * a /\ (x \div a) * a \in Nat
    BY <1>1, <1>2, Z3
  <1>4. n <= (x \div a) * a
    BY <1>1, <1>2, <1>3
  <1> QED BY <1>4 DEF Rounded, a, x

LEMMA InvImpliesPolledFits == Inv => PolledFits
  <1> SUFFICES ASSUME Inv, NEW t \in Threads, NEW n \in Requests,
                      Representable(manager, Required(n)),
                      NEW place \in Poll(t, Rounded(manager, Required(n)))
               PROVE  capacity[buckets[t][place[1]][place[2]]] >= Required(n)
    BY DEF PolledFits
  <1> DEFINE size   == Rounded(manager, Required(n))
             own    == BucketIndex(manager, size)
             enough == { k \in DOMAIN buckets[t][own] : capacity[buckets[t][own][k]] >= size }
             larger == { j \in Indices : own < j /\ buckets[t][j] # <<>> }
  <1>1. manager \in Managers /\ size \in 1..MaxInt
    BY SizeAskedFor DEF Inv, Shape
  <1>2. Required(n) \in Nat /\ Required(n) <= size
    <2>1. n \in Int /\ manager.minimum \in Nat
      BY <1>1, ManagerType, PoolAssumption, MaxIntAssumption DEF JInt
    <2>2. Required(n) \in Nat
      <3>1. ASSUME NEW a \in Int, NEW b \in Nat PROVE Max({a, b}) \in Nat
        <4>1. Max({a, b}) \in {a, b} /\ Max({a, b}) >= b
          BY MaxOfTwo
        <4> QED BY <4>1
      <3> QED BY <2>1, <3>1 DEF Required
    <2> QED BY <1>1, <2>2, RoundedIsEnough
  <1>3. PICK i \in 0..(BucketLimit - 1) : \E k \in 1..Len(buckets[t][i]) : place = <<i, k>>
    BY <1>1, PolledIsPlace
  <1>0. PICK k \in 1..Len(buckets[t][i]) : place = <<i, k>>
    BY <1>3
  <1> DEFINE b == buckets[t][i][k]
  <1>4. IsPlace(t, i, k) /\ b \in Buffers /\ capacity[b] \in 1..MaxInt /\ i = BucketIndex(manager, capacity[b])
    <2>1. IsPlace(t, i, k)
      BY DEF IsPlace
    <2>2. b \in Buffers /\ capacity[b] # 0 /\ i = BucketIndex(manager, capacity[b])
      BY <2>1, PlaceHoldsBuffer DEF Inv, Allocated, Sorted
    <2> QED BY <2>1, <2>2, MaxIntAssumption DEF Inv, Shape, Size
  <1>5. capacity[b] >= size
    <2>1. own \in Nat /\ Indices \subseteq Nat /\ own \in 0..(BucketLimit - 1)
      BY <1>1, BucketsExist, PoolAssumption DEF Indices
    <2>2. CASE enough # {}
      <3>1. enough \subseteq Nat
        <4>1. buckets[t][own] \in Seq(Buffers)
          BY <2>1 DEF Inv, Shape
        <4> QED BY <4>1
      <3>2. Min(enough) \in enough
        BY <2>2, <3>1, MinOfNaturals
      <3>3. place = <<own, Min(enough)>>
        BY <2>2 DEF Poll
      <3>4. i = own /\ k = Min(enough)
        BY <1>0, <3>3
      <3> HIDE DEF own
      <3> QED BY <3>2, <3>4
    <2>3. CASE enough = {} /\ larger # {}
      <3>1. Min(larger) \in larger
        BY <2>1, <2>3, MinOfNaturals
      <3>2. place = <<Min(larger), 1>>
        BY <2>3 DEF Poll
      <3>3. own < i
        BY <1>0, <3>1, <3>2
      <3>4. size < capacity[b]
        BY <1>1, <1>4, <3>3, LaterIsLarger
      <3> QED BY <1>1, <1>4, <3>4, MaxIntAssumption
    <2>4. CASE enough = {} /\ larger = {}
      BY <2>4 DEF Poll
    <2> QED BY <2>2, <2>3, <2>4
  <1>6. capacity[b] >= Required(n)
    BY <1>1, <1>2, <1>4, <1>5, MaxIntAssumption
  <1> QED BY <1>0, <1>6

LEMMA InvImpliesAllocatesOnlyIfNoneFits == Inv => AllocatesOnlyIfNoneFits
  <1> SUFFICES ASSUME Inv, NEW t \in Threads, NEW n \in Requests,
                      Representable(manager, Required(n)),
                      Poll(t, Rounded(manager, Required(n))) = {}, NEW b \in Pooled(t)
               PROVE  capacity[b] < Rounded(manager, Required(n))
    BY DEF AllocatesOnlyIfNoneFits
  <1> DEFINE size   == Rounded(manager, Required(n))
             own    == BucketIndex(manager, size)
             enough == { k \in DOMAIN buckets[t][own] : capacity[buckets[t][own][k]] >= size }
             larger == { j \in Indices : own < j /\ buckets[t][j] # <<>> }
  <1>1. manager \in Managers /\ size \in 1..MaxInt
    BY SizeAskedFor DEF Inv, Shape
  <1>2. enough = {} /\ larger = {}
    BY DEF Poll
  <1>0. PICK i \in 0..(BucketLimit - 1) :
          \E k \in 1..Len(buckets[t][i]) : IsPlace(t, i, k) /\ b = buckets[t][i][k]
    BY PooledHasPlace DEF Inv
  <1>3. PICK k \in 1..Len(buckets[t][i]) : IsPlace(t, i, k) /\ b = buckets[t][i][k]
    BY <1>0
  <1>4. b \in Buffers /\ capacity[b] \in 1..MaxInt /\ i = BucketIndex(manager, capacity[b])
    <2>1. b \in Buffers /\ capacity[b] # 0 /\ i = BucketIndex(manager, capacity[b])
      BY <1>3, PlaceHoldsBuffer DEF Inv, Allocated, Sorted
    <2> QED BY <2>1, MaxIntAssumption DEF Inv, Shape, Size
  <1>5. i \in Indices /\ own \in Indices /\ Indices \subseteq Nat
    BY <1>1, <1>4, BucketsExist, PoolAssumption DEF Indices
  <1>6. buckets[t][i] \in Seq(Buffers)
    BY DEF Inv, Shape
  <1>7. CASE i = own
    <2>1. k \in DOMAIN buckets[t][own]
      BY <1>6, <1>7
    <2>2. ~ (capacity[b] >= size)
      BY <1>2, <1>3, <1>7, <2>1
    <2> QED BY <1>1, <1>4, <2>2, MaxIntAssumption
  <1>8. CASE own < i
    <2>1. buckets[t][i] # <<>>
      BY <1>3
    <2> QED BY <1>2, <1>5, <1>8, <2>1
  <1>9. CASE i < own
    BY <1>1, <1>4, <1>9, LaterIsLarger
  <1>10. ASSUME NEW p \in Nat, NEW q \in Nat PROVE p = q \/ q < p \/ p < q
    OBVIOUS
  <1>11. i = own \/ own < i \/ i < own
    BY <1>5, <1>10
  <1> QED BY <1>7, <1>8, <1>9, <1>11

(* Variables keep their types, and what is held or pooled is allocated.     *)
THEOREM Typing == Spec => []TypeOK
  <1> QED BY InvHolds, InvImpliesTypeOK, PTL

(* A buffer is with the application, or once in one bucket of one thread,   *)
(* whatever the threads acquire, release, drop and close.                   *)
THEOREM Exclusive == Spec => []OneHolder
  <1> QED BY InvHolds, InvImpliesOneHolder, PTL

(* For any width of int, alignment and number of buckets, also when the     *)
(* bases overflow, what acquire takes from the pool is large enough.        *)
THEOREM LargeEnough == Spec => []PolledFits
  <1> QED BY InvHolds, InvImpliesPolledFits, PTL

(* ... and acquire allocates only when nothing in the pool would do.        *)
THEOREM ReusesWhatFits == Spec => []AllocatesOnlyIfNoneFits
  <1> QED BY InvHolds, InvImpliesAllocatesOnlyIfNoneFits, PTL

=============================================================================
