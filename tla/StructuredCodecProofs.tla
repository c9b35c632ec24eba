----------------------- MODULE StructuredCodecProofs -----------------------
(***************************************************************************)
(* Theorems about StructuredCodec for any schema, messages, sequences of   *)
(* calls and orders of the outputs.  Encoding is a fold over the tokens of *)
(* a message and decoding takes one token at a time, so the invariant      *)
(* names the writer's state after each token: a reader that has taken k    *)
(* tokens is where the writer was after k, and what is left of every       *)
(* stream is what the writer appended afterwards.  Recursive functions are *)
(* unfolded by induction over a set of naturals (SetInduction).            *)
(*                                                                         *)
(*   values side by side     their ends, and that slicing gives them back  *)
(*   the schema's clusters   the path of each open message is a path of it *)
(*   the writer              its states, each ahead of the one before      *)
(*   PreparedInv, KeptInv    inputs, scratch vectors and outputs           *)
(*   ReadingInv              the reader, with each field's stream found    *)
(*                           by tag, or by order when outputs have no tag  *)
(***************************************************************************)
EXTENDS StructuredCodec, SequenceFacts, FiniteSetTheorems

-----------------------------------------------------------------------------
(* Values side by side: where each ends, and that they are found again.     *)

(* The recursive function Offsets satisfies its equation: each value ends   *)
(* its size after the one before.                                           *)
LEMMA OffsetsEquation ==
    ASSUME NEW sizes \in Seq(Nat)
    PROVE  /\ Offsets(sizes)[0] = 0
           /\ \A i \in 1..Len(sizes) : Offsets(sizes)[i] = Offsets(sizes)[i - 1] + sizes[i]
           /\ \A i \in 0..Len(sizes) : Offsets(sizes)[i] \in Nat
  <1> DEFINE Is(f, n) == f = [i \in 0..n |-> IF i = 0 THEN 0 ELSE f[i - 1] + sizes[i]]
             S == { n \in Nat : \E f : Is(f, n) }
  <1>1. 0 \in S
    <2>1. Is([i \in 0..0 |-> 0], 0)
      OBVIOUS
    <2> QED BY <2>1
  <1>2. ASSUME NEW n \in Nat, n \in S PROVE n + 1 \in S
    <2>1. PICK f : Is(f, n)
      BY <1>2
    <2> DEFINE g == [i \in 0..(n + 1) |-> IF i = n + 1 THEN f[n] + sizes[n + 1] ELSE f[i]]
    <2>2. \A i \in 0..n : f[i] = IF i = 0 THEN 0 ELSE f[i - 1] + sizes[i]
      BY <2>1
    <2>3. ASSUME NEW i \in 0..(n + 1)
          PROVE  g[i] = IF i = 0 THEN 0 ELSE g[i - 1] + sizes[i]
      BY <2>2
    <2>4. Is(g, n + 1)
      BY <2>3
    <2> HIDE DEF Is, g
    <2> QED BY <2>4
  <1>3. \E f : Is(f, Len(sizes))
    <2>1. Len(sizes) \in S
      <3> HIDE DEF S
      <3> QED BY <1>1, <1>2, SetInduction, LenProperties
    <2> QED BY <2>1
  <1>4. Is(Offsets(sizes), Len(sizes))
    BY <1>3, Zenon DEF Offsets
  <1>5. \A i \in 0..Len(sizes) :
          Offsets(sizes)[i] = IF i = 0 THEN 0 ELSE Offsets(sizes)[i - 1] + sizes[i]
    <2> DEFINE o == Offsets(sizes)
    <2>1. Is(o, Len(sizes))
      BY <1>4
    <2> HIDE DEF o
    <2>2. \A i \in 0..Len(sizes) : o[i] = IF i = 0 THEN 0 ELSE o[i - 1] + sizes[i]
      BY <2>1
    <2> QED BY <2>2 DEF o
  <1> DEFINE o == Offsets(sizes)
             T == { n \in Nat : n <= Len(sizes) => o[n] \in Nat }
  <1> HIDE DEF Is, S
  <1>6. Len(sizes) \in Nat /\ \A i \in 1..Len(sizes) : sizes[i] \in Nat
    BY LenProperties, ElementOfSeq
  <1>7. /\ o[0] = 0
        /\ \A i \in 1..Len(sizes) : o[i] = o[i - 1] + sizes[i]
    <2> HIDE DEF o
    <2>1. \A i \in 0..Len(sizes) : o[i] = IF i = 0 THEN 0 ELSE o[i - 1] + sizes[i]
      BY <1>5 DEF o
    <2> QED BY <1>6, <2>1
  <1> HIDE DEF o
  <1>8. Nat \subseteq T
    <2>1. 0 \in T
      BY <1>7
    <2>2. ASSUME NEW n \in Nat, n \in T PROVE n + 1 \in T
      <3> SUFFICES ASSUME n + 1 <= Len(sizes) PROVE o[n + 1] \in Nat
        OBVIOUS
      <3>1. n + 1 \in 1..Len(sizes) /\ n <= Len(sizes)
        BY <1>6
      <3>2. o[n] \in Nat
        BY <2>2, <3>1
      <3>3. o[n + 1] = o[(n + 1) - 1] + sizes[n + 1] /\ (n + 1) - 1 = n
        BY <1>7, <3>1
      <3>4. sizes[n + 1] \in Nat
        BY <1>6, <3>1
      <3> QED BY <3>2, <3>3, <3>4
    <2> HIDE DEF T
    <2> QED BY <2>1, <2>2, SetInduction
  <1>9. \A i \in 0..Len(sizes) : o[i] \in Nat
    BY <1>6, <1>8
  <1> QED BY <1>7, <1>9 DEF o

(* Flattening puts them side by side, each where Offsets says.              *)
LEMMA FlattenSlices ==
    ASSUME NEW S, NEW values \in Seq(Seq(S))
    PROVE  /\ Sizes(values) \in Seq(Nat) /\ Len(Sizes(values)) = Len(values)
           /\ FlattenSeq(values) \in Seq(S)
           /\ Len(FlattenSeq(values)) = Total(Sizes(values))
           /\ \A rest \in Seq(S) : Values(FlattenSeq(values) \o rest, Sizes(values)) = values
  <1> DEFINE n == Len(values)
             sizes == Sizes(values)
             o == Offsets(sizes)
             Is(f, k) == f = [i \in 1..k |-> IF i = 1 THEN values[i] ELSE f[i - 1] \o values[i]]
             E == { k \in Nat : \E f : Is(f, k) }
  <1>1. n \in Nat /\ \A i \in 1..n : values[i] \in Seq(S) /\ Len(values[i]) \in Nat
    BY LenProperties, ElementOfSeq
  <1>2. sizes \in Seq(Nat) /\ Len(sizes) = n /\ \A i \in 1..n : sizes[i] = Len(values[i])
    <2>1. sizes = [i \in 1..n |-> Len(values[i])]
      BY DEF Sizes
    <2> HIDE DEF sizes, n
    <2> QED BY <1>1, <2>1
  <1>10. \A a, b, c \in Seq(S) : (a \o b) \o c = a \o (b \o c)
    BY ConcatAssociative, SMTT(60)
  <1>3. CASE n = 0
    <2>1. values = <<>>
      BY <1>3, EmptySeq, SeqEqual
    <2>2. FlattenSeq(values) = <<>>
      BY <1>3, <2>1 DEF FlattenSeq
    <2>3. Total(sizes) = 0
      BY <1>2, <1>3, OffsetsEquation DEF Total
    <2>4. ASSUME NEW words PROVE Values(words, sizes) = values
      <3>1. DOMAIN sizes = {}
        BY <1>2, <1>3
      <3> HIDE DEF sizes
      <3> QED BY <2>1, <3>1 DEF Values
    <2> HIDE DEF sizes
    <2> QED BY <1>2, <2>1, <2>2, <2>3, <2>4, EmptySeq DEF sizes
  <1>4. CASE n # 0
    <2>1. 0 \in E
      <3>1. Is([i \in 1..0 |-> 0], 0)
        OBVIOUS
      <3> QED BY <3>1
    <2>2. ASSUME NEW k \in Nat, k \in E PROVE k + 1 \in E
      <3>1. PICK f : Is(f, k)
        BY <2>2
      <3> DEFINE g == [i \in 1..(k + 1) |->
                        IF i = k + 1 THEN (IF i = 1 THEN values[i] ELSE f[k] \o values[i]) ELSE f[i]]
      <3>2. \A i \in 1..k : f[i] = IF i = 1 THEN values[i] ELSE f[i - 1] \o values[i]
        BY <3>1
      <3>3. ASSUME NEW i \in 1..(k + 1)
            PROVE  g[i] = IF i = 1 THEN values[i] ELSE g[i - 1] \o values[i]
        BY <3>2
      <3>4. Is(g, k + 1)
        BY <3>3
      <3> HIDE DEF Is, g
      <3> QED BY <3>4
    <2>3. \E f : Is(f, n)
      <3>1. n \in E
        <4> HIDE DEF E, n
        <4> QED BY <1>1, <2>1, <2>2, SetInduction
      <3> QED BY <3>1
    <2>4. PICK f : Is(f, n) /\ FlattenSeq(values) = f[n]
      <3> DEFINE F == CHOOSE f : Is(f, n)
      <3>1. Is(F, n)
        BY <2>3, Zenon
      <3>2. FlattenSeq(values) = F[n]
        BY <1>4, Zenon DEF FlattenSeq
      <3> HIDE DEF F
      <3> QED BY <3>1, <3>2
    <2>5. \A i \in 1..n : f[i] = IF i = 1 THEN values[i] ELSE f[i - 1] \o values[i]
      BY <2>4
    <2> DEFINE g == [i \in 0..n |-> IF i = 0 THEN <<>> ELSE f[i]]
    <2>6. g[0] = <<>> /\ \A i \in 1..n : g[i] = g[i - 1] \o values[i]
      <3>1. \A i \in 1..n : i = 1 => g[i] = <<>> \o values[i]
        BY <1>1, <2>5, ConcatEmptySeq
      <3>2. ASSUME NEW i \in 1..n, i # 1 PROVE g[i] = g[i - 1] \o values[i]
        <4>1. i \in 0..n /\ i - 1 \in 0..n /\ i # 0 /\ i - 1 # 0
          BY <1>1, <3>2
        <4>2. g[i] = f[i] /\ g[i - 1] = f[i - 1]
          BY <4>1
        <4> HIDE DEF g
        <4> QED BY <2>5, <3>2, <4>2
      <3>3. \A i \in 1..n : i = 1 => g[i - 1] = <<>>
        BY <1>1
      <3> HIDE DEF g
      <3>4. g[0] = <<>>
        BY <1>1 DEF g
      <3> QED BY <3>1, <3>2, <3>3, <3>4
    <2>7. g[n] = FlattenSeq(values)
      BY <1>1, <1>4, <2>4
    <2> HIDE DEF g, n, sizes, o
    <2> DEFINE Up(i, k) == /\ g[i] \in Seq(S) /\ Len(g[i]) = o[i]
                           /\ \E y \in Seq(S) : g[k] = g[i] \o y
               T == { k \in Nat : k <= n => \A i \in 0..k : Up(i, k) }
    <2>8. /\ o[0] = 0
          /\ \A i \in 1..n : o[i] = o[i - 1] + sizes[i]
          /\ \A i \in 0..n : o[i] \in Nat
      BY <1>2, OffsetsEquation DEF o
    <2>9. 0 \in T
      <3>1. g[0] = <<>> /\ <<>> \in Seq(S) /\ Len(<<>>) = 0 /\ <<>> = <<>> \o <<>>
        BY <2>6, EmptySeq, ConcatEmptySeq
      <3>2. Up(0, 0)
        BY <2>8, <3>1
      <3> HIDE DEF Up
      <3>3. \A i \in 0..0 : i = 0
        OBVIOUS
      <3> QED BY <3>2, <3>3
    <2>10. ASSUME NEW k \in Nat, k \in T PROVE k + 1 \in T
      <3> SUFFICES ASSUME k + 1 <= n, NEW i \in 0..(k + 1) PROVE Up(i, k + 1)
        <4> HIDE DEF Up
        <4> QED OBVIOUS
      <3>1. k + 1 \in 1..n /\ k <= n /\ (k + 1) - 1 = k
        BY <1>1
      <3>2. \A j \in 0..k : Up(j, k)
        <4> HIDE DEF Up
        <4> QED BY <2>10, <3>1
      <3>3. g[k + 1] = g[k] \o values[k + 1] /\ o[k + 1] = o[k] + Len(values[k + 1])
        BY <1>2, <2>6, <2>8, <3>1
      <3>4. values[k + 1] \in Seq(S)
        BY <1>1, <3>1
      <3>5. Up(k, k)
        <4>1. k \in 0..k
          OBVIOUS
        <4> QED BY <3>2, <4>1
      <3>6. CASE i = k + 1
        <4>1. ASSUME NEW x \in Seq(S), NEW z \in Seq(S), NEW l, Len(x) = l
              PROVE  x \o z \in Seq(S) /\ Len(x \o z) = l + Len(z)
          BY <4>1, ConcatProperties
        <4>2. g[k + 1] \in Seq(S) /\ Len(g[k + 1]) = o[k + 1]
          <5>1. g[k] \in Seq(S) /\ Len(g[k]) = o[k]
            BY <3>5, Zenon
          <5>2. /\ g[k] \o values[k + 1] \in Seq(S)
                /\ Len(g[k] \o values[k + 1]) = o[k] + Len(values[k + 1])
            BY <3>4, <4>1, <5>1, Zenon
          <5> QED BY <3>3, <5>2, Zenon
        <4>3. g[k + 1] = g[k + 1] \o <<>> /\ <<>> \in Seq(S)
          BY <4>2, ConcatEmptySeq, EmptySeq
        <4> QED BY <3>6, <4>2, <4>3
      <3>7. CASE i \in 0..k
        <4>1. Up(i, k)
          BY <3>2, <3>7
        <4>2. PICK y \in Seq(S) : g[k] = g[i] \o y
          BY <4>1
        <4>3. g[k + 1] = g[i] \o (y \o values[k + 1])
          <5>1. (g[i] \o y) \o values[k + 1] = g[i] \o (y \o values[k + 1])
            BY <3>4, <4>1, <1>10, Zenon
          <5> QED BY <3>3, <4>2, <5>1, Zenon
        <4>4. y \o values[k + 1] \in Seq(S)
          BY <3>4, ConcatProperties
        <4> HIDE DEF g
        <4> QED BY <4>1, <4>3, <4>4
      <3>8. i = k + 1 \/ i \in 0..k
        OBVIOUS
      <3> QED BY <3>6, <3>7, <3>8
    <2>11. \A i \in 0..n : Up(i, n)
      <3>1. n \in T
        <4> HIDE DEF T
        <4> QED BY <1>1, <2>9, <2>10, SetInduction
      <3> HIDE DEF Up
      <3> QED BY <3>1
    <2>12. g[n] \in Seq(S) /\ Len(g[n]) = o[n]
      <3>1. n \in 0..n
        BY <1>1
      <3> QED BY <2>11, <3>1
    <2>13. ASSUME NEW rest \in Seq(S), NEW i \in 1..n
           PROVE  SubSeq(g[n] \o rest, o[i - 1] + 1, o[i]) = values[i]
      <3>1. Up(i, n) /\ Up(i - 1, n)
        <4> HIDE DEF Up
        <4>1. i \in 0..n /\ i - 1 \in 0..n
          BY <1>1
        <4> QED BY <2>11, <4>1
      <3>2. PICK y \in Seq(S) : g[n] = g[i] \o y
        BY <3>1
      <3>3. g[i] = g[i - 1] \o values[i] /\ values[i] \in Seq(S)
        BY <1>1, <2>6
      <3>4. g[n] \o rest = (g[i - 1] \o values[i]) \o (y \o rest)
        <4>1. g[i - 1] \in Seq(S) /\ g[i] \in Seq(S)
          BY <3>1
        <4>2. (g[i] \o y) \o rest = g[i] \o (y \o rest)
          BY <4>1, <1>10, Zenon
        <4> QED BY <3>2, <3>3, <4>2, Zenon
      <3>5. y \o rest \in Seq(S)
        BY ConcatProperties
      <3>6. o[i] = Len(g[i - 1]) + Len(values[i]) /\ o[i - 1] = Len(g[i - 1])
        BY <1>2, <2>8, <3>1
      <3> DEFINE a == g[i - 1]
                 b == values[i]
                 c == y \o rest
      <3>7. a \in Seq(S) /\ b \in Seq(S) /\ c \in Seq(S)
        BY <3>1, <3>3, <3>5
      <3> HIDE DEF a, b, c
      <3>8. SubSeq((a \o b) \o c, Len(a) + 1, Len(a) + Len(b)) = b
        BY <3>7, Middle
      <3> QED BY <3>4, <3>6, <3>8 DEF a, b, c
    <2>14. ASSUME NEW rest \in Seq(S) PROVE Values(FlattenSeq(values) \o rest, sizes) = values
      <3>1. DOMAIN sizes = 1..n
        BY <1>2
      <3>2. Values(FlattenSeq(values) \o rest, sizes)
              = [i \in 1..n |-> SubSeq(g[n] \o rest, o[i - 1] + 1, o[i])]
        BY <2>7, <3>1, Zenon DEF Values, o
      <3>3. [i \in 1..n |-> SubSeq(g[n] \o rest, o[i - 1] + 1, o[i])] = [i \in 1..n |-> values[i]]
        BY <2>13, Zenon
      <3>4. values = [i \in 1..n |-> values[i]]
        BY DEF n
      <3> QED BY <3>2, <3>3, <3>4
    <2>15. Total(sizes) = o[n]
      BY <1>2 DEF Total, o
    <2> QED BY <1>2, <2>7, <2>12, <2>14, <2>15 DEF n, sizes
  <1> HIDE DEF n, sizes
  <1> QED BY <1>3, <1>4

-----------------------------------------------------------------------------
(* The clusters of a message type: one for each path to a field with values. *)

Kinds    == {Int32, Int64, String}
Paths    == Seq(Nat \ {0})
Clusters == collectStructuredFieldClusters

(* collectStructuredFieldClusters, as a recursive function over the depth   *)
(* of a type, satisfies its equation.                                       *)
LEMMA ClustersEquation ==
    \A type \in DOMAIN Schema :
        Clusters[type] = UNION { IF Schema[type][id].kind = Message
                                 THEN Nest(id, Clusters[Schema[type][id].type])
                                 ELSE { << <<id>>, Schema[type][id].kind >> } : id \in DOMAIN Schema[type] }
  <1> DEFINE Of(f, type, id) == IF Schema[type][id].kind = Message
                                THEN Nest(id, f[Schema[type][id].type])
                                ELSE { << <<id>>, Schema[type][id].kind >> }
             Body(f, type) == UNION { Of(f, type, id) : id \in DOMAIN Schema[type] }
  <1>1. PICK depth \in [DOMAIN Schema -> 0..Cardinality(DOMAIN Schema)] :
          \A type \in DOMAIN Schema : \A id \in DOMAIN Schema[type] :
            Schema[type][id].kind = Message =>
                /\ Schema[type][id].type \in DOMAIN Schema
                /\ depth[Schema[type][id].type] < depth[type]
    BY SchemaAssumption
  <1>2. Cardinality(DOMAIN Schema) \in Nat
    BY SchemaAssumption, FS_CardinalityType
  <1>3. \A type \in DOMAIN Schema : depth[type] \in Nat
    BY <1>2
  <1> DEFINE Below(n) == { type \in DOMAIN Schema : depth[type] < n }
             Is(f, n) == f = [type \in Below(n) |-> Body(f, type)]
             S == { n \in Nat : \E f : Is(f, n) }
  <1>4. 0 \in S
    <2>1. Below(0) = {}
      BY <1>3
    <2> HIDE DEF Below, Body
    <2>2. Is([type \in Below(0) |-> 0], 0)
      BY <2>1
    <2> QED BY <2>2
  <1>5. ASSUME NEW n \in Nat, n \in S PROVE n + 1 \in S
    <2>1. PICK f : Is(f, n)
      BY <1>5
    <2> DEFINE g == [type \in Below(n + 1) |-> IF type \in Below(n) THEN f[type] ELSE Body(f, type)]
    <2>2. ASSUME NEW type \in Below(n) PROVE f[type] = Body(f, type)
      <3> HIDE DEF Body, Below
      <3> QED BY <2>1, <2>2
    <2>3. ASSUME NEW type \in Below(n + 1) PROVE g[type] = Body(f, type)
      <3> HIDE DEF Body, Below
      <3> QED BY <2>2, <2>3
    <2>4. ASSUME NEW type \in Below(n + 1) PROVE Body(g, type) = Body(f, type)
      <3>1. ASSUME NEW id \in DOMAIN Schema[type] PROVE Of(g, type, id) = Of(f, type, id)
        <4>1. CASE Schema[type][id].kind = Message
          <5> DEFINE child == Schema[type][id].type
          <5>1. child \in Below(n) /\ child \in Below(n + 1)
            BY <1>1, <1>3, <2>4, <4>1
          <5> HIDE DEF child, Below
          <5>2. g[child] = f[child]
            BY <5>1
          <5> HIDE DEF g
          <5> QED BY <4>1, <5>2, Zenon DEF child
        <4> QED BY <4>1
      <3> HIDE DEF Of, g
      <3> QED BY <3>1
    <2>5. Is(g, n + 1)
      <3> HIDE DEF Body, Below
      <3> QED BY <2>3, <2>4
    <2> HIDE DEF Is, g
    <2> QED BY <2>5
  <1>6. PICK n \in Nat : \A type \in DOMAIN Schema : depth[type] < n
    <2>1. \A type \in DOMAIN Schema : depth[type] < Cardinality(DOMAIN Schema) + 1
      BY <1>2
    <2> QED BY <1>2, <2>1
  <1>7. n \in S
    <2> HIDE DEF S
    <2> QED BY <1>4, <1>5, SetInduction
  <1>8. Below(n) = DOMAIN Schema
    BY <1>6
  <1>9. \E f : f = [type \in DOMAIN Schema |-> Body(f, type)]
    <2> HIDE DEF Body, Below
    <2> QED BY <1>7, <1>8
  <1>10. Clusters = [type \in DOMAIN Schema |-> Body(Clusters, type)]
    <2> DEFINE C == CHOOSE f : f = [type \in DOMAIN Schema |-> Body(f, type)]
    <2>1. C = [type \in DOMAIN Schema |-> Body(C, type)]
      <3> HIDE DEF Body
      <3> QED BY <1>9, Zenon
    <2>2. Clusters = C
      BY DEF Clusters, collectStructuredFieldClusters
    <2> HIDE DEF C, Body
    <2> QED BY <2>1, <2>2
  <1>11. ASSUME NEW type \in DOMAIN Schema PROVE Clusters[type] = Body(Clusters, type)
    <2> DEFINE C == Clusters
    <2>1. C = [t \in DOMAIN Schema |-> Body(C, t)]
      BY <1>10
    <2> HIDE DEF C, Body
    <2>2. C[type] = Body(C, type)
      BY <2>1
    <2> QED BY <2>2 DEF C
  <1> QED BY <1>11

(* A field's own path is in its type's clusters; those of its message type   *)
(* are below it; and nothing else is.                                       *)
LEMMA ClusterOfField ==
    ASSUME NEW type \in DOMAIN Schema, NEW id \in DOMAIN Schema[type]
    PROVE  /\ Schema[type][id].kind # Message => << <<id>>, Schema[type][id].kind >> \in Clusters[type]
           /\ Schema[type][id].kind = Message =>
                \A p \in Clusters[Schema[type][id].type] : << <<id>> \o p[1], p[2] >> \in Clusters[type]
  <1> DEFINE B(i) == IF Schema[type][i].kind = Message
                     THEN Nest(i, Clusters[Schema[type][i].type])
                     ELSE { << <<i>>, Schema[type][i].kind >> }
  <1>1. B(id) \subseteq Clusters[type]
    <2>1. Clusters[type] = UNION { B(i) : i \in DOMAIN Schema[type] }
      BY ClustersEquation
    <2> HIDE DEF B
    <2> QED BY <2>1
  <1>2. CASE Schema[type][id].kind # Message
    BY <1>1, <1>2
  <1>3. CASE Schema[type][id].kind = Message
    BY <1>1, <1>3 DEF Nest
  <1> QED BY <1>2, <1>3

(* Every cluster of a type is that of a field or nested in one.             *)
LEMMA ClusterCases ==
    ASSUME NEW type \in DOMAIN Schema, NEW p \in Clusters[type]
    PROVE  \E id \in DOMAIN Schema[type] :
              \/ Schema[type][id].kind # Message /\ p = << <<id>>, Schema[type][id].kind >>
              \/ /\ Schema[type][id].kind = Message
                 /\ \E q \in Clusters[Schema[type][id].type] : p = << <<id>> \o q[1], q[2] >>
  <1> DEFINE B(i) == IF Schema[type][i].kind = Message
                     THEN Nest(i, Clusters[Schema[type][i].type])
                     ELSE { << <<i>>, Schema[type][i].kind >> }
  <1>1. PICK id \in DOMAIN Schema[type] : p \in B(id)
    <2>1. Clusters[type] = UNION { B(i) : i \in DOMAIN Schema[type] }
      BY ClustersEquation
    <2> HIDE DEF B
    <2> QED BY <2>1
  <1>2. CASE Schema[type][id].kind # Message
    BY <1>1, <1>2
  <1>3. CASE Schema[type][id].kind = Message
    BY <1>1, <1>3 DEF Nest
  <1> QED BY <1>2, <1>3

(* A path leads to one field, which has values.                             *)
LEMMA ClusterFacts ==
    ASSUME NEW type \in DOMAIN Schema, NEW p \in Clusters[type]
    PROVE  /\ p[1] \in Paths /\ p[1] # <<>> /\ p[2] \in Kinds
           /\ \A q \in Clusters[type] : q[1] = p[1] => q[2] = p[2]
  <1>1. PICK depth \in [DOMAIN Schema -> 0..Cardinality(DOMAIN Schema)] :
          \A t \in DOMAIN Schema : \A id \in DOMAIN Schema[t] :
            Schema[t][id].kind = Message =>
                /\ Schema[t][id].type \in DOMAIN Schema
                /\ depth[Schema[t][id].type] < depth[t]
    BY SchemaAssumption
  <1>2. \A t \in DOMAIN Schema : depth[t] \in Nat
    BY SchemaAssumption, FS_CardinalityType
  <1> DEFINE Path(a) == a[1] \in Paths /\ a[1] # <<>> /\ a[2] \in Kinds
             One(t) == \A a, b \in Clusters[t] : Path(a) /\ (b[1] = a[1] => b[2] = a[2])
             S == { n \in Nat : \A t \in DOMAIN Schema : depth[t] < n => One(t) }
  <1>3. 0 \in S
    BY <1>2
  <1>4. ASSUME NEW n \in Nat, n \in S PROVE n + 1 \in S
    <2> SUFFICES ASSUME NEW t \in DOMAIN Schema, depth[t] < n + 1, NEW a \in Clusters[t], NEW b \in Clusters[t]
                 PROVE  Path(a) /\ (b[1] = a[1] => b[2] = a[2])
      <3> HIDE DEF Path
      <3> QED OBVIOUS
    <2>1. ASSUME NEW id \in DOMAIN Schema[t], Schema[t][id].kind = Message
          PROVE  Schema[t][id].type \in DOMAIN Schema /\ One(Schema[t][id].type)
      <3>1. Schema[t][id].type \in DOMAIN Schema /\ depth[Schema[t][id].type] < n
        BY <1>1, <1>2, <2>1
      <3> HIDE DEF One
      <3> QED BY <1>4, <3>1
    <2>2. \A id \in DOMAIN Schema[t] : id \in Nat \ {0} /\ Schema[t][id].kind \in Kinds \cup {Message}
      BY SchemaAssumption DEF Kinds
    <2> DEFINE Below(id, q) == <<id>> \o q[1]
               Kind(x) == x[2]
               Leaf(x, id) == Schema[t][id].kind # Message /\ x = << <<id>>, Schema[t][id].kind >>
               Sub(x, id, q) == /\ Schema[t][id].kind = Message
                                /\ q \in Clusters[Schema[t][id].type]
                                /\ x = << <<id>> \o q[1], q[2] >>
    <2>3. PICK i \in DOMAIN Schema[t] : Leaf(a, i) \/ \E q : Sub(a, i, q)
      BY ClusterCases
    <2>4. PICK j \in DOMAIN Schema[t] : Leaf(b, j) \/ \E q : Sub(b, j, q)
      BY ClusterCases
    <2>5. ASSUME NEW x, NEW id \in DOMAIN Schema[t], Leaf(x, id)
          PROVE  /\ x[1] \in Paths /\ Len(x[1]) = 1 /\ x[1][1] = id /\ x[2] = Schema[t][id].kind
                 /\ Path(x) /\ Schema[t][id].kind # Message
      <3>1. x[1] = <<id>> /\ x[2] = Schema[t][id].kind /\ Schema[t][id].kind # Message
        BY <2>5
      <3>2. <<id>> \in Paths /\ Len(<<id>>) = 1 /\ <<id>>[1] = id
        BY <2>2 DEF Paths
      <3>3. <<id>> # <<>>
        BY <3>2, EmptySeq
      <3> QED BY <2>2, <3>1, <3>2, <3>3
    <2>6. ASSUME NEW x, NEW id \in DOMAIN Schema[t], NEW q, Sub(x, id, q)
          PROVE  /\ x[1] \in Paths /\ Len(x[1]) > 1 /\ x[1][1] = id /\ x[1] = Below(id, q) /\ Kind(x) = Kind(q)
                 /\ Path(x) /\ Path(q) /\ Schema[t][id].kind = Message
      <3>1. x[1] = Below(id, q) /\ Kind(x) = Kind(q) /\ Schema[t][id].kind = Message
        BY <2>6
      <3>2. Path(q)
        BY <2>1, <2>6
      <3>3. Len(q[1]) # 0 /\ Len(q[1]) \in Nat
        BY <3>2, EmptySeq, SeqEqual, LenProperties DEF Paths
      <3>4. <<id>> \in Paths /\ Len(<<id>>) = 1 /\ <<id>>[1] = id
        BY <2>2 DEF Paths
      <3> DEFINE h == <<id>>
                 r == q[1]
      <3>5. h \in Paths /\ r \in Paths /\ Len(h) = 1 /\ Len(r) \in Nat /\ Len(r) # 0 /\ h[1] = id
        BY <3>2, <3>3, <3>4
      <3> HIDE DEF h, r
      <3>6. h \o r \in Paths /\ Len(h \o r) = 1 + Len(r) /\ (h \o r)[1] = id
        <4>1. 1 \in 1..Len(h)
          BY <3>5
        <4>2. ASSUME NEW u \in Seq(Nat \ {0}), NEW v \in Seq(Nat \ {0}), 1 \in 1..Len(u)
              PROVE  u \o v \in Seq(Nat \ {0}) /\ Len(u \o v) = Len(u) + Len(v) /\ (u \o v)[1] = u[1]
          BY <4>2, ConcatPoints
        <4> QED BY <3>5, <4>1, <4>2, Zenon DEF Paths
      <3>7. h \o r # <<>>
        BY <3>5, <3>6, EmptySeq
      <3>8. x[1] = h \o r
        BY <3>1 DEF h, r
      <3>9. x[2] \in Kinds
        BY <3>1, <3>2
      <3>10. Path(x)
        BY <3>6, <3>7, <3>8, <3>9
      <3>11. x[1] \in Paths /\ Len(x[1]) > 1 /\ x[1][1] = id
        BY <3>5, <3>6, <3>8
      <3> HIDE DEF Path
      <3> HIDE DEF Below
      <3> QED BY <3>1, <3>2, <3>10, <3>11, Zenon
    <2>7. Path(a)
      <3> HIDE DEF Path, Leaf, Sub
      <3> QED BY <2>3, <2>5, <2>6
    <2>8. ASSUME b[1] = a[1] PROVE b[2] = a[2]
      <3>1. CASE Leaf(a, i) /\ Leaf(b, j)
        <4> HIDE DEF Path, Leaf, Sub
        <4>1. i = j
          BY <2>5, <2>8, <3>1
        <4> QED BY <2>5, <3>1, <4>1
      <3>2. CASE (\E q : Sub(a, i, q)) /\ (\E q : Sub(b, j, q))
        <4> HIDE DEF Path, Leaf, Sub, Below, Kind
        <4>1. PICK u : Sub(a, i, u)
          BY <3>2
        <4>11. PICK v : Sub(b, j, v)
          BY <3>2
        <4>2. /\ a[1][1] = i /\ a[1] = Below(i, u) /\ Kind(a) = Kind(u)
              /\ b[1][1] = j /\ b[1] = Below(j, v) /\ Kind(b) = Kind(v)
          <5>1. a[1][1] = i /\ a[1] = Below(i, u) /\ Kind(a) = Kind(u)
            BY <2>6, <4>1
          <5>2. b[1][1] = j /\ b[1] = Below(j, v) /\ Kind(b) = Kind(v)
            BY <2>6, <4>11
          <5> QED BY <5>1, <5>2, Zenon
        <4>3. i = j
          BY <2>8, <4>2
        <4>9. <<i>> \o u[1] = <<i>> \o v[1]
          BY <2>8, <4>2, <4>3 DEF Below
        <4>4. u[1] \in Paths /\ v[1] \in Paths
          BY <2>6, <4>1, <4>11 DEF Path
        <4>5. <<i>> \in Paths
          BY <2>2 DEF Paths
        <4>6. u[1] = v[1]
          BY <4>9, <4>4, <4>5, Cancel DEF Paths
        <4>7. u \in Clusters[Schema[t][i].type] /\ v \in Clusters[Schema[t][i].type]
          BY <4>1, <4>11, <4>3 DEF Sub
        <4>8. Schema[t][i].kind = Message
          BY <2>6, <4>1
        <4>10. v[2] = u[2]
          BY <2>1, <4>6, <4>7, <4>8
        <4> QED BY <4>2, <4>10, Zenon DEF Kind
      <3>3. CASE Leaf(a, i) /\ \E q : Sub(b, j, q)
        <4> HIDE DEF Path, Leaf, Sub
        <4>1. Len(a[1]) = 1
          BY <2>5, <3>3
        <4>2. Len(b[1]) > 1
          BY <2>6, <3>3, Zenon
        <4> QED BY <2>8, <4>1, <4>2
      <3>4. CASE Leaf(b, j) /\ \E q : Sub(a, i, q)
        <4> HIDE DEF Path, Leaf, Sub
        <4>1. Len(b[1]) = 1
          BY <2>5, <3>4
        <4>2. Len(a[1]) > 1
          BY <2>6, <3>4, Zenon
        <4> QED BY <2>8, <4>1, <4>2
      <3> HIDE DEF Leaf, Sub
      <3> QED BY <2>3, <2>4, <3>1, <3>2, <3>3, <3>4
    <2> QED BY <2>7, <2>8
  <1>5. depth[type] + 1 \in S
    <2> HIDE DEF S
    <2> QED BY <1>2, <1>3, <1>4, SetInduction
  <1>6. One(type)
    <2> HIDE DEF One
    <2> QED BY <1>2, <1>5
  <1> QED BY <1>6

-----------------------------------------------------------------------------
(* The state of the writer: the paths it is at and those it has written to   *)
(* are paths of the root's clusters.                                        *)

Calls == { c \in [type : DOMAIN Schema, path : Paths, left : Nat \ {0}] :
             \A p \in Clusters[c.type] : << c.path \o p[1], p[2] >> \in Clusters[Root] }
StreamType == { v \in [tag : Paths, kind : Kinds, words : Seq(Nat), lens : Seq(Nat)] :
                  /\ << v.tag, v.kind >> \in Clusters[Root]
                  /\ v.kind # String => v.lens = <<>> }

(* Reading on in a field of a message type stays among the root's clusters. *)
LEMMA Deeper ==
    ASSUME NEW c \in Calls, NEW id \in DOMAIN Schema[c.type]
    PROVE  /\ Schema[c.type][id].kind # Message =>
                << Append(c.path, id), Schema[c.type][id].kind >> \in Clusters[Root]
           /\ Schema[c.type][id].kind = Message =>
                \A p \in Clusters[Schema[c.type][id].type] :
                    << Append(c.path, id) \o p[1], p[2] >> \in Clusters[Root]
  <1>1. /\ c.type \in DOMAIN Schema /\ c.path \in Paths
        /\ \A p \in Clusters[c.type] : << c.path \o p[1], p[2] >> \in Clusters[Root]
    BY DEF Calls
  <1>2. id \in Nat \ {0}
    BY <1>1, SchemaAssumption
  <1>3. << id >> \in Paths
    BY <1>2 DEF Paths
  <1>4. Append(c.path, id) = c.path \o << id >>
    BY <1>1, <1>2, AppendIsConcat DEF Paths
  <1>5. ASSUME Schema[c.type][id].kind # Message
        PROVE  << Append(c.path, id), Schema[c.type][id].kind >> \in Clusters[Root]
    <2> DEFINE p == << <<id>>, Schema[c.type][id].kind >>
    <2>1. p \in Clusters[c.type]
      BY <1>1, <1>5, ClusterOfField
    <2>2. << c.path \o p[1], p[2] >> \in Clusters[Root]
      <3> HIDE DEF p
      <3> QED BY <1>1, <2>1, Zenon
    <2>3. p[1] = <<id>> /\ p[2] = Schema[c.type][id].kind
      OBVIOUS
    <2> HIDE DEF p
    <2> QED BY <1>4, <2>2, <2>3
  <1>6. ASSUME Schema[c.type][id].kind = Message, NEW q \in Clusters[Schema[c.type][id].type]
        PROVE  << Append(c.path, id) \o q[1], q[2] >> \in Clusters[Root]
    <2> DEFINE p == << <<id>> \o q[1], q[2] >>
    <2>1. p \in Clusters[c.type]
      <3>1. \A r \in Clusters[Schema[c.type][id].type] : << <<id>> \o r[1], r[2] >> \in Clusters[c.type]
        BY <1>1, <1>6, ClusterOfField
      <3> QED BY <3>1, <1>6, Zenon
    <2>2. << c.path \o p[1], p[2] >> \in Clusters[Root]
      <3> HIDE DEF p
      <3> QED BY <1>1, <2>1, Zenon
    <2>3. p[1] = <<id>> \o q[1] /\ p[2] = q[2]
      BY Zenon
    <2>4. q[1] \in Paths
      <3>1. Schema[c.type][id].type \in DOMAIN Schema
        BY <1>1, <1>6, SchemaAssumption
      <3> QED BY <1>6, <3>1, ClusterFacts
    <2>5. ASSUME NEW u \in Paths, NEW v \in Paths, NEW w \in Paths
          PROVE  (u \o v) \o w = u \o (v \o w)
      BY ConcatAssociative, SMTT(60) DEF Paths
    <2>6. (c.path \o << id >>) \o q[1] = c.path \o (<< id >> \o q[1])
      BY <1>1, <1>3, <2>4, <2>5, Zenon
    <2> HIDE DEF p
    <2> QED BY <1>4, <2>2, <2>3, <2>6, Zenon
  <1> QED BY <1>5, <1>6

(* What the schema says of a field of the innermost active call.            *)
LEMMA FieldFacts ==
    ASSUME NEW s \in Seq(Calls), s # <<>>, NEW id \in DOMAIN Schema[Head(s).type]
    PROVE  /\ Head(s) \in Calls /\ Tail(s) \in Seq(Calls)
           /\ id \in Nat \ {0} /\ FieldOf(s, id).repeated \in BOOLEAN
           /\ FieldOf(s, id).kind \in Kinds \cup {Message}
           /\ FieldOf(s, id).kind = Message => FieldOf(s, id).type \in DOMAIN Schema
           /\ Tag(s, id) \in Paths /\ Tag(s, id) # <<>>
           /\ FieldOf(s, id).kind # Message => << Tag(s, id), FieldOf(s, id).kind >> \in Clusters[Root]
  <1>1. Head(s) \in Calls /\ Tail(s) \in Seq(Calls)
    BY HeadTailProperties
  <1>2. Head(s).type \in DOMAIN Schema /\ Head(s).path \in Paths
    BY <1>1 DEF Calls
  <1>3. /\ id \in Nat \ {0} /\ FieldOf(s, id).repeated \in BOOLEAN
        /\ FieldOf(s, id).kind \in Kinds \cup {Message}
        /\ FieldOf(s, id).kind = Message => FieldOf(s, id).type \in DOMAIN Schema
    BY <1>2, SchemaAssumption DEF FieldOf, Kinds
  <1>4. Tag(s, id) \in Paths /\ Tag(s, id) # <<>>
    <2>1. ASSUME NEW p \in Seq(Nat \ {0}), NEW x \in Nat \ {0}
          PROVE  Append(p, x) \in Seq(Nat \ {0}) /\ Append(p, x) # <<>>
      BY AppendProperties
    <2> QED BY <1>2, <1>3, <2>1, Zenon DEF Paths, Tag
  <1>5. FieldOf(s, id).kind # Message => << Tag(s, id), FieldOf(s, id).kind >> \in Clusters[Root]
    BY <1>1, Deeper, Zenon DEF FieldOf, Tag
  <1> QED BY <1>1, <1>3, <1>4, <1>5

(* Leaving a message keeps the stack a stack of calls,                      *)
LEMMA LeaveType ==
    ASSUME NEW s \in Seq(Calls), s # <<>>
    PROVE  Leave(s) \in Seq(Calls)
  <1>1. Head(s) \in Calls /\ Tail(s) \in Seq(Calls)
    BY HeadTailProperties
  <1>2. CASE Head(s).left > 1
    <2> DEFINE h == [Head(s) EXCEPT !.left = @ - 1]
    <2>1. h \in Calls
      <3>1. h.type = Head(s).type /\ h.path = Head(s).path
        BY <1>1 DEF Calls
      <3>2. h \in [type : DOMAIN Schema, path : Paths, left : Nat \ {0}]
        BY <1>1, <1>2 DEF Calls
      <3> HIDE DEF h
      <3> QED BY <1>1, <3>1, <3>2, Zenon DEF Calls
    <2>2. Leave(s) = << h >> \o Tail(s)
      BY <1>2 DEF Leave
    <2> HIDE DEF h
    <2>3. << h >> \in Seq(Calls)
      BY <2>1
    <2> QED BY <1>1, <2>2, <2>3, ConcatProperties
  <1> QED BY <1>1, <1>2 DEF Leave

(* ... and so does entering one.                                            *)
LEMMA EnterType ==
    ASSUME NEW s \in Seq(Calls), s # <<>>, NEW id \in DOMAIN Schema[Head(s).type],
           FieldOf(s, id).kind = Message, NEW count \in Nat
    PROVE  Enter(s, id, count) \in Seq(Calls) /\ Enter(s, id, count) # <<>>
  <1>1. CASE count = 0
    BY <1>1 DEF Enter
  <1>2. CASE count # 0
    <2> DEFINE h == [type |-> FieldOf(s, id).type, path |-> Tag(s, id), left |-> count]
    <2>1. h \in Calls
      <3>1. /\ FieldOf(s, id).type \in DOMAIN Schema /\ Tag(s, id) \in Paths
            /\ count \in Nat \ {0} /\ Head(s) \in Calls
        BY <1>2, FieldFacts
      <3>2. \A p \in Clusters[FieldOf(s, id).type] : << Tag(s, id) \o p[1], p[2] >> \in Clusters[Root]
        BY <3>1, Deeper, Zenon DEF FieldOf, Tag
      <3>3. h.type = FieldOf(s, id).type /\ h.path = Tag(s, id)
        OBVIOUS
      <3>4. h \in [type : DOMAIN Schema, path : Paths, left : Nat \ {0}]
        BY <3>1
      <3> HIDE DEF h
      <3> QED BY <3>2, <3>3, <3>4, Zenon DEF Calls
    <2>2. Enter(s, id, count) = << h >> \o s
      BY <1>2 DEF Enter
    <2> HIDE DEF h
    <2>3. << h >> \in Seq(Calls) /\ Len(<< h >>) = 1
      BY <2>1
    <2>4. << h >> \o s \in Seq(Calls) /\ Len(<< h >> \o s) = 1 + Len(s) /\ Len(s) \in Nat
      BY <2>3, ConcatProperties, LenProperties
    <2>5. << h >> \o s # <<>>
      BY <2>4, EmptySeq
    <2> QED BY <2>2, <2>4, <2>5
  <1> QED BY <1>1, <1>2

(* A legal token is a stop, the opening of a message field or the values of  *)
(* another field, with the number of values its field takes.                *)
LEMMA LegalFacts ==
    ASSUME NEW s \in Seq(Calls), NEW token, Legal(s, token)
    PROVE  /\ s # <<>>
           /\ \/ token = [op |-> "stop"]
              \/ /\ token = [op |-> "open", id |-> token.id, count |-> token.count]
                 /\ token.id \in DOMAIN Schema[Head(s).type] /\ token.count \in Nat
                 /\ FieldOf(s, token.id).kind = Message
                 /\ ~ FieldOf(s, token.id).repeated => token.count = 1
              \/ /\ token = [op |-> "field", id |-> token.id, values |-> token.values]
                 /\ token.id \in DOMAIN Schema[Head(s).type] /\ token.values \in Seq(Seq(Nat))
                 /\ FieldOf(s, token.id).kind \in Kinds
                 /\ ~ FieldOf(s, token.id).repeated => Len(token.values) = 1
                 /\ FieldOf(s, token.id).kind # String =>
                      \A i \in 1..Len(token.values) :
                        Len(token.values[i]) = Width(FieldOf(s, token.id).kind)
  <1>1. s # <<>> /\ token \in Tokens
    BY DEF Legal
  <1>2. CASE token \in [op : {"stop"}]
    BY <1>1, <1>2
  <1>3. CASE token \in [op : {"open"}, id : Nat, count : Nat]
    <2>1. /\ token = [op |-> "open", id |-> token.id, count |-> token.count]
          /\ token.count \in Nat /\ token.op = "open"
      BY <1>3
    <2>2. /\ token.id \in DOMAIN Schema[Head(s).type]
          /\ token.op = IF FieldOf(s, token.id).kind = Message THEN "open" ELSE "field"
          /\ ~ FieldOf(s, token.id).repeated =>
               1 = IF FieldOf(s, token.id).kind = Message THEN token.count ELSE Len(token.values)
      BY <2>1, Zenon DEF Legal
    <2> QED BY <1>1, <2>1, <2>2
  <1>4. CASE token \in [op : {"field"}, id : Nat, values : Seq(Seq(Nat))]
    <2>1. /\ token = [op |-> "field", id |-> token.id, values |-> token.values]
          /\ token.values \in Seq(Seq(Nat)) /\ token.op = "field"
      BY <1>4
    <2>2. /\ token.id \in DOMAIN Schema[Head(s).type]
          /\ token.op = IF FieldOf(s, token.id).kind = Message THEN "open" ELSE "field"
          /\ ~ FieldOf(s, token.id).repeated =>
               1 = IF FieldOf(s, token.id).kind = Message THEN token.count ELSE Len(token.values)
          /\ FieldOf(s, token.id).kind \in {Int32, Int64} =>
               \A i \in DOMAIN token.values : Len(token.values[i]) = Width(FieldOf(s, token.id).kind)
      BY <2>1, Zenon DEF Legal
    <2>3. FieldOf(s, token.id).kind # Message
      BY <2>1, <2>2
    <2>4. FieldOf(s, token.id).kind \in Kinds
      BY <1>1, <2>2, <2>3, FieldFacts
    <2>5. DOMAIN token.values = 1..Len(token.values)
      BY <2>1, LenProperties
    <2> QED BY <1>1, <2>1, <2>2, <2>3, <2>4, <2>5 DEF Kinds
  <1> QED BY <1>1, <1>2, <1>3, <1>4 DEF Tokens

(* What a token adds to the control streams.                                *)
LEMMA ControlOfStop ==
    ASSUME NEW s, NEW token, token.op = "stop"
    PROVE  /\ ControlWords(s, token, 1) = <<>> /\ ControlWords(s, token, 3) = <<>>
           /\ ControlWords(s, token, 2) = << Stop >>
  <1>1. 1 # 2 /\ 3 # 2
    OBVIOUS
  <1> QED BY <1>1, Zenon DEF ControlWords

(* ... the opening of a nested message,                                     *)
LEMMA ControlOfOpen ==
    ASSUME NEW s, NEW token, token.op = "open", FieldOf(s, token.id).kind = Message
    PROVE  /\ ControlWords(s, token, 1) = << token.id >>
           /\ ControlWords(s, token, 2) = << Message >>
           /\ ControlWords(s, token, 3)
                = IF FieldOf(s, token.id).repeated THEN << token.count >> ELSE <<>>
  <1>1. Message # String
    BY DEF Message, String
  <1>2. ControlWords(s, token, 1) = << token.id >> /\ ControlWords(s, token, 2) = << Message >>
    <2>1. 1 # 2 /\ token.op # "stop"
      OBVIOUS
    <2> QED BY <2>1, Zenon DEF ControlWords
  <1>3. ControlWords(s, token, 3) =
          (IF FieldOf(s, token.id).repeated THEN << token.count >> ELSE <<>>) \o <<>>
    <2>1. 3 # 1 /\ 3 # 2
      OBVIOUS
    <2> QED BY <1>1, <2>1, Zenon DEF ControlWords
  <1>4. \A x : << x >> \o <<>> = << x >>
    <2> TAKE x
    <2>1. << x >> \in Seq({x})
      OBVIOUS
    <2> QED BY <2>1, ConcatEmptySeq
  <1>5. <<>> \o <<>> = <<>>
    <2>1. <<>> \in Seq(Nat)
      OBVIOUS
    <2> QED BY <2>1, ConcatEmptySeq
  <1> QED BY <1>2, <1>3, <1>4, <1>5, Zenon

(* ... and a field of values.                                               *)
LEMMA ControlOfField ==
    ASSUME NEW s, NEW token, token.op = "field", FieldOf(s, token.id).kind # Message
    PROVE  /\ ControlWords(s, token, 1) = << token.id >>
           /\ ControlWords(s, token, 2) = << FieldOf(s, token.id).kind >>
           /\ ControlWords(s, token, 3) =
                (IF FieldOf(s, token.id).repeated THEN << Len(token.values) >> ELSE <<>>)
                \o (IF FieldOf(s, token.id).kind = String THEN Sizes(token.values) ELSE <<>>)
  <1>1. /\ ControlWords(s, token, 1) = << token.id >>
        /\ ControlWords(s, token, 2) = << FieldOf(s, token.id).kind >>
    <2>1. 1 # 2 /\ token.op # "stop"
      OBVIOUS
    <2> QED BY <2>1, Zenon DEF ControlWords
  <1>2. 3 # 1 /\ 3 # 2 /\ token.op # "stop"
    OBVIOUS
  <1> QED BY <1>1, <1>2, Zenon DEF ControlWords

(* Every token adds naturals to the control streams, and one to the types.  *)
LEMMA ControlType ==
    ASSUME NEW s \in Seq(Calls), NEW token, Legal(s, token)
    PROVE  /\ \A c \in Controls : ControlWords(s, token, c) \in Seq(Nat)
           /\ Len(ControlWords(s, token, 2)) = 1
  <1>1. Stop \in Nat /\ Message \in Nat /\ Kinds \subseteq Nat /\ Message \notin Kinds
    BY DEF Stop, Message, Kinds, Int32, Int64, String
  <1> DEFINE W(c) == ControlWords(s, token, c)
  <1>2. ASSUME W(1) \in Seq(Nat), W(2) \in Seq(Nat), W(3) \in Seq(Nat)
        PROVE  \A c \in Controls : W(c) \in Seq(Nat)
    <2> HIDE DEF W
    <2>1. \A c \in Controls : c = 1 \/ c = 2 \/ c = 3
      BY DEF Controls
    <2> QED BY <1>2, <2>1
  <1>3. \A x \in Nat : << x >> \in Seq(Nat) /\ Len(<< x >>) = 1
    OBVIOUS
  <1>4. <<>> \in Seq(Nat)
    OBVIOUS
  <1>5. CASE token = [op |-> "stop"]
    <2>1. token.op = "stop"
      BY <1>5
    <2> QED BY <1>1, <1>2, <1>3, <1>4, <2>1, ControlOfStop, Zenon
  <1>6. CASE /\ token = [op |-> "open", id |-> token.id, count |-> token.count]
             /\ token.id \in DOMAIN Schema[Head(s).type] /\ token.count \in Nat
             /\ FieldOf(s, token.id).kind = Message
    <2>1. token.op = "open"
      BY <1>6
    <2>2. token.id \in Nat
      BY FieldFacts, <1>6, LegalFacts
    <2> QED BY <1>1, <1>2, <1>3, <1>4, <1>6, <2>1, <2>2, ControlOfOpen, Zenon
  <1>7. CASE /\ token = [op |-> "field", id |-> token.id, values |-> token.values]
             /\ token.id \in DOMAIN Schema[Head(s).type] /\ token.values \in Seq(Seq(Nat))
             /\ FieldOf(s, token.id).kind \in Kinds
    <2>1. token.op = "field"
      BY <1>7
    <2>2. token.id \in Nat
      BY FieldFacts, <1>7, LegalFacts
    <2>3. Len(token.values) \in Nat /\ Sizes(token.values) \in Seq(Nat)
      BY <1>7, FlattenSlices, LenProperties
    <2>4. ASSUME NEW x \in Seq(Nat), NEW y \in Seq(Nat) PROVE x \o y \in Seq(Nat)
      BY ConcatProperties
    <2>5. FieldOf(s, token.id).kind # Message /\ FieldOf(s, token.id).kind \in Nat
      BY <1>1, <1>7, Zenon
    <2>6. W(3) \in Seq(Nat)
      BY <1>3, <1>4, <2>1, <2>3, <2>4, <2>5, ControlOfField, Zenon
    <2> QED BY <1>2, <1>3, <2>1, <2>2, <2>5, <2>6, ControlOfField, Zenon
  <1> HIDE DEF W
  <1> QED BY <1>5, <1>6, <1>7, LegalFacts, Zenon DEF W

(* Writing values extends the stream of their tag, which comes last if it is *)
(* new, and no other.                                                       *)
LEMMA ExtendedFacts ==
    ASSUME NEW v \in StreamType, NEW values \in Seq(Seq(Nat))
    PROVE  /\ Extended(v, values) \in StreamType
           /\ Extended(v, values).tag = v.tag /\ Extended(v, values).kind = v.kind
           /\ Extended(v, values).words = v.words \o FlattenSeq(values)
           /\ Extended(v, values).lens = IF v.kind = String THEN v.lens \o Sizes(values) ELSE v.lens
  <1> DEFINE a == v.words \o FlattenSeq(values)
             b == v.lens \o Sizes(values)
             e == Extended(v, values)
  <1>1. v \in [tag : Paths, kind : Kinds, words : Seq(Nat), lens : Seq(Nat)]
    BY DEF StreamType
  <1>2. << v.tag, v.kind >> \in Clusters[Root] /\ (v.kind # String => v.lens = <<>>)
    BY DEF StreamType
  <1>3. a \in Seq(Nat) /\ b \in Seq(Nat)
    <2>1. ASSUME NEW x \in Seq(Nat), NEW y \in Seq(Nat) PROVE x \o y \in Seq(Nat)
      BY ConcatProperties
    <2>2. FlattenSeq(values) \in Seq(Nat) /\ Sizes(values) \in Seq(Nat)
      BY FlattenSlices
    <2>3. v.words \in Seq(Nat) /\ v.lens \in Seq(Nat)
      BY <1>1
    <2> QED BY <2>1, <2>2, <2>3, Zenon
  <1>4. e = [v EXCEPT !.words = a, !.lens = IF v.kind = String THEN b ELSE v.lens]
    BY DEF Extended
  <1> HIDE DEF a, b, e
  <1>5. e = [tag |-> v.tag, kind |-> v.kind, words |-> a, lens |-> IF v.kind = String THEN b ELSE v.lens]
    BY <1>1, <1>4
  <1>6. e \in [tag : Paths, kind : Kinds, words : Seq(Nat), lens : Seq(Nat)]
    BY <1>1, <1>3, <1>5
  <1>7. e.tag = v.tag /\ e.kind = v.kind /\ e.words = a /\ e.lens = IF v.kind = String THEN b ELSE v.lens
    BY <1>5
  <1>8. e \in StreamType
    BY <1>2, <1>6, <1>7, Zenon DEF StreamType
  <1> QED BY <1>7, <1>8, Zenon DEF a, b, e

(* A new stream has a cluster and nothing in it.                            *)
LEMMA StreamFacts ==
    ASSUME NEW tag \in Paths, NEW kind \in Kinds, << tag, kind >> \in Clusters[Root]
    PROVE  /\ Stream(tag, kind) \in StreamType
           /\ Stream(tag, kind).tag = tag /\ Stream(tag, kind).kind = kind
           /\ Stream(tag, kind).words = <<>> /\ Stream(tag, kind).lens = <<>>
  <1> DEFINE v == Stream(tag, kind)
  <1>1. v.tag = tag /\ v.kind = kind /\ v.words = <<>> /\ v.lens = <<>>
    BY DEF Stream
  <1>2. v \in [tag : Paths, kind : Kinds, words : Seq(Nat), lens : Seq(Nat)]
    BY DEF Stream
  <1> HIDE DEF v
  <1>3. v \in StreamType
    BY <1>1, <1>2, Zenon DEF StreamType
  <1> QED BY <1>1, <1>3, Zenon DEF v

Distinct(streams) ==
    \A i, j \in 1..Len(streams) : streams[i].tag = streams[j].tag => i = j

(* What putting values to a tag does to the streams.                        *)
Placed(streams, tag, kind, values, new) ==
    /\ new \in Seq(StreamType) /\ Distinct(new)
    /\ Len(new) \in {Len(streams), Len(streams) + 1}
    /\ \A i \in 1..Len(streams) :
         new[i] = IF streams[i].tag = tag THEN Extended(streams[i], values) ELSE streams[i]
    /\ Len(new) = Len(streams) + 1 => new[Len(new)] = Extended(Stream(tag, kind), values)
    /\ \E i \in 1..Len(new) : new[i].tag = tag

(* Writing values to the stream of a tag disturbs no other stream and keeps *)
(* the tags distinct.                                                       *)
LEMMA PutFacts ==
    ASSUME NEW streams \in Seq(StreamType), Distinct(streams), NEW tag \in Paths, NEW kind \in Kinds,
           << tag, kind >> \in Clusters[Root], NEW values \in Seq(Seq(Nat))
    PROVE  Placed(streams, tag, kind, values, Put(streams, tag, kind, values))
  <1> SUFFICES ASSUME NEW new, new = Put(streams, tag, kind, values)
               PROVE  Placed(streams, tag, kind, values, new)
    OBVIOUS
  <1> USE DEF Placed
  <1> DEFINE fresh == Stream(tag, kind)
             all == IF \E i \in DOMAIN streams : streams[i].tag = tag THEN streams
                    ELSE Append(streams, fresh)
             F(v) == IF v.tag = tag THEN Extended(v, values) ELSE v
  <1>1. fresh \in StreamType /\ fresh.tag = tag
    BY StreamFacts
  <1>2. Len(streams) \in Nat /\ DOMAIN streams = 1..Len(streams)
        /\ \A i \in 1..Len(streams) : streams[i] \in StreamType
    BY LenProperties, ElementOfSeq
  <1> HIDE DEF fresh
  <1>3. CASE \E i \in 1..Len(streams) : streams[i].tag = tag
    <2>1. all = streams
      BY <1>2, <1>3
    <2>2. new = [i \in 1..Len(streams) |-> F(streams[i])]
      BY <1>2, <2>1, Zenon DEF Put, fresh
    <2>3. ASSUME NEW i \in 1..Len(streams)
          PROVE  F(streams[i]) \in StreamType /\ F(streams[i]).tag = streams[i].tag
      BY <1>2, ExtendedFacts
    <2> HIDE DEF F
    <2>4. /\ new \in Seq(StreamType) /\ Len(new) = Len(streams)
          /\ \A i \in 1..Len(streams) : new[i] = F(streams[i])
      BY <1>2, <2>2, <2>3
    <2>5. \A i \in 1..Len(streams) : new[i].tag = streams[i].tag
      BY <2>3, <2>4
    <2>6. Distinct(new)
      BY <2>4, <2>5 DEF Distinct
    <2>7. \E i \in 1..Len(new) : new[i].tag = tag
      BY <1>3, <2>4, <2>5
    <2>8. Len(new) # Len(streams) + 1
      <3>1. \A n \in Nat : n # n + 1
        OBVIOUS
      <3> QED BY <1>2, <2>4, <3>1, Zenon
    <2>9. \A i \in 1..Len(streams) :
            new[i] = IF streams[i].tag = tag THEN Extended(streams[i], values) ELSE streams[i]
      BY <2>4 DEF F
    <2> QED BY <2>4, <2>6, <2>7, <2>8, <2>9
  <1>4. CASE ~ \E i \in 1..Len(streams) : streams[i].tag = tag
    <2> DEFINE n == Len(streams)
    <2>1. all = Append(streams, fresh)
      BY <1>2, <1>4
    <2>2. /\ Append(streams, fresh) \in Seq(StreamType) /\ Len(Append(streams, fresh)) = n + 1
          /\ DOMAIN Append(streams, fresh) = 1..(n + 1)
          /\ \A i \in 1..n : Append(streams, fresh)[i] = streams[i]
          /\ Append(streams, fresh)[n + 1] = fresh
      BY <1>1, <1>2, AppendProperties
    <2>3. new = [i \in 1..(n + 1) |-> F(all[i])]
      BY <1>2, <2>1, <2>2, Zenon DEF Put, fresh
    <2>4. /\ \A i \in 1..n : all[i] = streams[i]
          /\ all[n + 1] = fresh
      BY <2>1, <2>2
    <2>5. ASSUME NEW i \in 1..(n + 1)
          PROVE  F(all[i]) \in StreamType /\ F(all[i]).tag = all[i].tag
      <3>1. all[i] \in StreamType
        BY <1>1, <1>2, <2>4
      <3> HIDE DEF all
      <3> QED BY <3>1, ExtendedFacts
    <2> HIDE DEF F, all
    <2>6. /\ new \in Seq(StreamType) /\ Len(new) = n + 1
          /\ \A i \in 1..(n + 1) : new[i] = F(all[i])
      BY <1>2, <2>3, <2>5
    <2>7. /\ \A i \in 1..n : new[i].tag = streams[i].tag /\ new[i] = F(streams[i])
          /\ new[n + 1].tag = tag /\ new[n + 1] = F(fresh)
      <3>1. n \in Nat
        BY <1>2
      <3> HIDE DEF n
      <3>2. n + 1 \in 1..(n + 1) /\ \A i \in 1..n : i \in 1..(n + 1)
        BY <3>1
      <3>3. ASSUME NEW i \in 1..n PROVE new[i].tag = streams[i].tag /\ new[i] = F(streams[i])
        BY <2>4, <2>5, <2>6, <3>2, Zenon
      <3>4. new[n + 1].tag = tag /\ new[n + 1] = F(fresh)
        BY <1>1, <2>4, <2>5, <2>6, <3>2, Zenon
      <3> QED BY <3>3, <3>4
    <2>8. Distinct(new)
      <3> SUFFICES ASSUME NEW i \in 1..(n + 1), NEW j \in 1..(n + 1), new[i].tag = new[j].tag PROVE i = j
        BY <2>6 DEF Distinct
      <3>1. CASE i \in 1..n /\ j \in 1..n
        BY <2>7, <3>1 DEF Distinct
      <3>2. CASE i = n + 1 /\ j \in 1..n
        BY <1>4, <2>7, <3>2
      <3>3. CASE j = n + 1 /\ i \in 1..n
        BY <1>4, <2>7, <3>3
      <3> QED BY <1>2, <3>1, <3>2, <3>3
    <2>9. \E i \in 1..Len(new) : new[i].tag = tag
      <3>1. n + 1 \in 1..Len(new)
        BY <1>2, <2>6
      <3> QED BY <2>7, <3>1
    <2>10. new[n + 1] = Extended(fresh, values)
      BY <1>1, <2>7 DEF F
    <2>11. \A i \in 1..n :
             new[i] = IF streams[i].tag = tag THEN Extended(streams[i], values) ELSE streams[i]
      BY <2>7 DEF F
    <2> QED BY <2>6, <2>8, <2>9, <2>10, <2>11 DEF fresh
  <1> QED BY <1>3, <1>4

-----------------------------------------------------------------------------
(* What is written only grows: after each token the streams begin with what  *)
(* they held before.                                                        *)

WriterType == { w \in [control : [Controls -> Seq(Nat)], values : Seq(StreamType), stack : Seq(Calls)] :
                  Distinct(w.values) }
Begins(a, b)  == \E rest \in Seq(Nat) : b = a \o rest
Grown(v, new) == /\ new.tag = v.tag /\ new.kind = v.kind
                 /\ Begins(v.words, new.words) /\ Begins(v.lens, new.lens)
Ahead(w, new) ==
    /\ \A c \in Controls : Begins(w.control[c], new.control[c])
    /\ Len(w.values) <= Len(new.values)
    /\ \A i \in 1..Len(w.values) : Grown(w.values[i], new.values[i])

(* Being a prefix is an order, which appending respects.                    *)
LEMMA BeginsOrder ==
    /\ \A a \in Seq(Nat) : Begins(a, a)
    /\ \A a, b, c \in Seq(Nat) : Begins(a, b) /\ Begins(b, c) => Begins(a, c)
    /\ \A a, b \in Seq(Nat) : Begins(a, a \o b)
  <1>1. ASSUME NEW a \in Seq(Nat) PROVE Begins(a, a)
    <2>1. a \o <<>> = a /\ <<>> \in Seq(Nat)
      BY ConcatEmptySeq, EmptySeq
    <2> QED BY <2>1 DEF Begins
  <1>2. ASSUME NEW a \in Seq(Nat), NEW b \in Seq(Nat), NEW c \in Seq(Nat), Begins(a, b), Begins(b, c)
        PROVE  Begins(a, c)
    <2>1. PICK x \in Seq(Nat) : b = a \o x
      BY <1>2 DEF Begins
    <2>2. PICK y \in Seq(Nat) : c = b \o y
      BY <1>2 DEF Begins
    <2>3. (a \o x) \o y = a \o (x \o y) /\ x \o y \in Seq(Nat)
      <3>1. (a \o x) \o y = a \o (x \o y)
        BY ConcatAssociative, SMTT(60)
      <3>2. x \o y \in Seq(Nat)
        BY ConcatProperties, Zenon
      <3> QED BY <3>1, <3>2
    <2>4. c = a \o (x \o y)
      BY <2>1, <2>2, <2>3, Zenon
    <2> QED BY <2>3, <2>4, Zenon DEF Begins
  <1>3. ASSUME NEW a \in Seq(Nat), NEW b \in Seq(Nat) PROVE Begins(a, a \o b)
    BY Zenon DEF Begins
  <1> QED BY <1>1, <1>2, <1>3

(* A writer that is ahead stays ahead.                                      *)
LEMMA AheadOrder ==
    /\ \A w \in WriterType : Ahead(w, w)
    /\ \A u, v, w \in WriterType : Ahead(u, v) /\ Ahead(v, w) => Ahead(u, w)
  <1> USE DEF WriterType
  <1>1. ASSUME NEW w \in WriterType
        PROVE  /\ \A c \in Controls : w.control[c] \in Seq(Nat)
               /\ Len(w.values) \in Nat
               /\ \A i \in 1..Len(w.values) : w.values[i].words \in Seq(Nat) /\ w.values[i].lens \in Seq(Nat)
    <2>1. w.control \in [Controls -> Seq(Nat)] /\ w.values \in Seq(StreamType)
      OBVIOUS
    <2>2. \A i \in 1..Len(w.values) : w.values[i] \in StreamType
      BY <2>1, ElementOfSeq
    <2> QED BY <2>1, <2>2, LenProperties DEF StreamType
  <1> USE DEF Ahead, Grown
  <1> HIDE DEF WriterType
  <1>2. ASSUME NEW w \in WriterType PROVE Ahead(w, w)
    BY <1>1, BeginsOrder
  <1>3. ASSUME NEW u \in WriterType, NEW v \in WriterType, NEW w \in WriterType, Ahead(u, v), Ahead(v, w)
        PROVE  Ahead(u, w)
    <2>1. ASSUME NEW c \in Controls PROVE Begins(u.control[c], w.control[c])
      <3>1. u.control[c] \in Seq(Nat) /\ v.control[c] \in Seq(Nat) /\ w.control[c] \in Seq(Nat)
        BY <1>1
      <3>2. Begins(u.control[c], v.control[c]) /\ Begins(v.control[c], w.control[c])
        BY <1>3, Zenon
      <3> QED BY <3>1, <3>2, BeginsOrder, Zenon
    <2>2. Len(u.values) <= Len(w.values)
      BY <1>1, <1>3
    <2>3. ASSUME NEW i \in 1..Len(u.values) PROVE Grown(u.values[i], w.values[i])
      <3>1. i \in 1..Len(v.values) /\ i \in 1..Len(w.values)
        BY <1>1, <1>3
      <3>2. Grown(u.values[i], v.values[i]) /\ Grown(v.values[i], w.values[i])
        BY <1>3, <3>1
      <3>3. /\ u.values[i].words \in Seq(Nat) /\ u.values[i].lens \in Seq(Nat)
            /\ v.values[i].words \in Seq(Nat) /\ v.values[i].lens \in Seq(Nat)
            /\ w.values[i].words \in Seq(Nat) /\ w.values[i].lens \in Seq(Nat)
        BY <1>1, <3>1
      <3> QED BY <3>2, <3>3, BeginsOrder
    <2> QED BY <2>1, <2>2, <2>3
  <1> QED BY <1>2, <1>3

(* One token written: which streams grow, and by what.                      *)
LEMMA WriteFacts ==
    ASSUME NEW w \in WriterType, NEW token, Legal(w.stack, token)
    PROVE  /\ Write(w, token) \in WriterType /\ Ahead(w, Write(w, token))
           /\ \A c \in Controls :
                Write(w, token).control[c] = w.control[c] \o ControlWords(w.stack, token, c)
           /\ Len(Write(w, token).control[2]) = Len(w.control[2]) + 1
           /\ token.op # "field" => Write(w, token).values = w.values
           /\ token.op = "field" =>
                Write(w, token).values = Put(w.values, Tag(w.stack, token.id),
                                             FieldOf(w.stack, token.id).kind, token.values)
           /\ token.op = "stop" => Write(w, token).stack = Leave(w.stack)
           /\ token.op = "open" => Write(w, token).stack = Enter(w.stack, token.id, token.count)
           /\ token.op = "field" => Write(w, token).stack = w.stack
  <1> DEFINE new == Write(w, token)
             s == w.stack
  <1>1. /\ s \in Seq(Calls) /\ w.values \in Seq(StreamType) /\ Distinct(w.values)
        /\ \A c \in Controls : w.control[c] \in Seq(Nat)
    BY DEF WriterType
  <1>2. /\ new.control = [c \in Controls |-> w.control[c] \o ControlWords(s, token, c)]
        /\ new.values = IF token.op # "field" THEN w.values
                        ELSE Put(w.values, Tag(s, token.id), FieldOf(s, token.id).kind, token.values)
        /\ new.stack = IF token.op = "stop" THEN Leave(s)
                       ELSE IF token.op = "open" THEN Enter(s, token.id, token.count) ELSE s
        /\ new = [control |-> new.control, values |-> new.values, stack |-> new.stack]
    BY Zenon DEF Write
  <1> HIDE DEF new, s
  <1>3. /\ token.op = "stop" => new.stack = Leave(s)
        /\ token.op = "open" => new.stack = Enter(s, token.id, token.count)
        /\ token.op = "field" => new.stack = s
    BY <1>2
  <1>4. /\ token.op # "field" => new.values = w.values
        /\ token.op = "field" =>
                new.values = Put(w.values, Tag(s, token.id), FieldOf(s, token.id).kind, token.values)
    BY <1>2
  <1>5. \A c \in Controls : ControlWords(s, token, c) \in Seq(Nat)
    BY <1>1, ControlType DEF s
  <1>6. ASSUME NEW c \in Controls
        PROVE  /\ new.control[c] = w.control[c] \o ControlWords(s, token, c)
               /\ new.control[c] \in Seq(Nat) /\ Begins(w.control[c], new.control[c])
    <2>1. new.control[c] = w.control[c] \o ControlWords(s, token, c)
      BY <1>2
    <2>2. ASSUME NEW x \in Seq(Nat), NEW y \in Seq(Nat)
          PROVE  x \o y \in Seq(Nat) /\ Begins(x, x \o y)
      BY ConcatProperties, BeginsOrder
    <2> QED BY <1>1, <1>5, <2>1, <2>2, Zenon
  <1>7. new.control \in [Controls -> Seq(Nat)]
    BY <1>2, <1>6
  <1>8. Len(new.control[2]) = Len(w.control[2]) + 1
    <2>1. Len(ControlWords(s, token, 2)) = 1 /\ 2 \in Controls
      BY <1>1, ControlType DEF s, Controls
    <2>2. ASSUME NEW x \in Seq(Nat), NEW y \in Seq(Nat) PROVE Len(x \o y) = Len(x) + Len(y)
      BY ConcatProperties
    <2> QED BY <1>1, <1>5, <1>6, <2>1, <2>2
  <1>9. new.stack \in Seq(Calls)
    <2>1. CASE token.op = "stop"
      BY <1>1, <1>3, <2>1, LeaveType, LegalFacts DEF s
    <2>2. CASE token.op = "open"
      BY <1>1, <1>3, <2>2, EnterType, LegalFacts DEF s
    <2>3. CASE token.op = "field"
      BY <1>1, <1>3, <2>3
    <2> QED BY <1>1, <2>1, <2>2, <2>3, LegalFacts DEF s
  <1>10. /\ new.values \in Seq(StreamType) /\ Distinct(new.values) /\ Len(w.values) <= Len(new.values)
         /\ \A i \in 1..Len(w.values) : Grown(w.values[i], new.values[i])
    <2>1. ASSUME NEW i \in 1..Len(w.values)
          PROVE  w.values[i] \in StreamType /\ w.values[i].words \in Seq(Nat) /\ w.values[i].lens \in Seq(Nat)
      BY <1>1, ElementOfSeq DEF StreamType
    <2>2. \A i \in 1..Len(w.values) : Grown(w.values[i], w.values[i])
      BY <2>1, BeginsOrder DEF Grown
    <2>3. CASE token.op # "field"
      BY <1>1, <1>4, <2>2, <2>3, LenProperties
    <2>4. CASE token.op = "field"
      <3> DEFINE tag == Tag(s, token.id)
                 kind == FieldOf(s, token.id).kind
                 values == token.values
      <3>1. /\ s # <<>> /\ token.id \in DOMAIN Schema[Head(s).type] /\ values \in Seq(Seq(Nat))
            /\ kind \in Kinds /\ kind # Message
        <4>1. Message \notin Kinds
          BY DEF Message, Kinds, Int32, Int64, String
        <4> QED BY <1>1, <2>4, <4>1, LegalFacts DEF s
      <3>2. tag \in Paths /\ << tag, kind >> \in Clusters[Root]
        BY <1>1, <3>1, FieldFacts
      <3> HIDE DEF tag, kind, values
      <3>3. new.values = Put(w.values, tag, kind, values)
        BY <1>4, <2>4 DEF tag, kind, values
      <3>4. /\ new.values \in Seq(StreamType) /\ Distinct(new.values)
            /\ Len(new.values) \in {Len(w.values), Len(w.values) + 1}
            /\ \A i \in 1..Len(w.values) :
                 new.values[i] = IF w.values[i].tag = tag THEN Extended(w.values[i], values) ELSE w.values[i]
        <4>1. Placed(w.values, tag, kind, values, new.values)
          BY <1>1, <3>1, <3>2, <3>3, PutFacts
        <4> QED BY <4>1 DEF Placed
      <3>5. ASSUME NEW v \in StreamType, v.words \in Seq(Nat), v.lens \in Seq(Nat)
            PROVE  Grown(v, Extended(v, values))
        <4>1. /\ Extended(v, values).tag = v.tag /\ Extended(v, values).kind = v.kind
              /\ Extended(v, values).words = v.words \o FlattenSeq(values)
              /\ Extended(v, values).lens = IF v.kind = String THEN v.lens \o Sizes(values) ELSE v.lens
          BY <3>1, ExtendedFacts
        <4>2. FlattenSeq(values) \in Seq(Nat) /\ Sizes(values) \in Seq(Nat)
          BY <3>1, FlattenSlices
        <4>3. Begins(v.words, Extended(v, values).words)
          BY <3>5, <4>1, <4>2, BeginsOrder, Zenon
        <4>4. Begins(v.lens, Extended(v, values).lens)
          BY <3>5, <4>1, <4>2, BeginsOrder, Zenon
        <4> QED BY <4>1, <4>3, <4>4, Zenon DEF Grown
      <3>6. \A i \in 1..Len(w.values) : Grown(w.values[i], new.values[i])
        BY <2>1, <2>2, <3>4, <3>5
      <3>7. Len(w.values) \in Nat
        BY <1>1, LenProperties
      <3> QED BY <3>4, <3>6, <3>7
    <2> QED BY <2>3, <2>4
  <1>11. new \in WriterType
    <2>1. new \in [control : [Controls -> Seq(Nat)], values : Seq(StreamType), stack : Seq(Calls)]
      BY <1>2, <1>7, <1>9, <1>10
    <2> QED BY <1>10, <2>1 DEF WriterType
  <1>12. Ahead(w, new)
    BY <1>6, <1>10 DEF Ahead
  <1> QED BY <1>3, <1>4, <1>6, <1>8, <1>11, <1>12, Zenon DEF new, s

(* The stack a reader starts with.                                          *)
LEMMA BottomType ==
    Bottom \in Seq(Calls) /\ Bottom # <<>>
  <1> DEFINE c == [type |-> Root, path |-> <<>>, left |-> 1]
  <1>1. c \in [type : DOMAIN Schema, path : Paths, left : Nat \ {0}] /\ c.type = Root /\ c.path = <<>>
    BY SchemaAssumption DEF Paths
  <1>2. ASSUME NEW p \in Clusters[Root] PROVE << <<>> \o p[1], p[2] >> \in Clusters[Root]
    <2>1. p = << p[1], p[2] >>
      <3>1. PICK id \in DOMAIN Schema[Root] :
              \/ p = << <<id>>, Schema[Root][id].kind >>
              \/ \E q \in Clusters[Schema[Root][id].type] : p = << <<id>> \o q[1], q[2] >>
        BY ClusterCases, SchemaAssumption
      <3> QED BY <3>1
    <2>2. <<>> \o p[1] = p[1]
      <3>1. p[1] \in Paths
        BY ClusterFacts, SchemaAssumption
      <3> QED BY <3>1, ConcatEmptySeq DEF Paths
    <2> QED BY <2>1, <2>2, Zenon
  <1> HIDE DEF c
  <1>3. c \in Calls
    BY <1>1, <1>2, Zenon DEF Calls
  <1>4. << c >> \in Seq(Calls) /\ Len(<< c >>) = 1
    BY <1>3
  <1>5. Bottom = << c >>
    BY DEF Bottom, c
  <1> QED BY <1>4, <1>5, EmptySeq

(* The states of the writer, unfolded.                                      *)
LEMMA WrittenEquation ==
    ASSUME NEW message, Len(message) \in Nat
    PROVE  /\ Written(message)[0] = [control |-> [c \in Controls |-> <<>>], values |-> <<>>, stack |-> Bottom]
           /\ \A n \in 1..Len(message) :
                Written(message)[n] = Write(Written(message)[n - 1], message[n])
  <1> DEFINE start == [control |-> [c \in Controls |-> <<>>], values |-> <<>>, stack |-> Bottom]
             Is(f, n) == f = [i \in 0..n |-> IF i = 0 THEN start ELSE Write(f[i - 1], message[i])]
             S == { n \in Nat : \E f : Is(f, n) }
  <1> HIDE DEF start
  <1>1. 0 \in S
    <2>1. Is([i \in 0..0 |-> start], 0)
      OBVIOUS
    <2> QED BY <2>1
  <1>2. ASSUME NEW n \in Nat, n \in S PROVE n + 1 \in S
    <2>1. PICK f : Is(f, n)
      BY <1>2
    <2> DEFINE g == [i \in 0..(n + 1) |-> IF i = n + 1 THEN Write(f[n], message[n + 1]) ELSE f[i]]
    <2>2. \A i \in 0..n : f[i] = IF i = 0 THEN start ELSE Write(f[i - 1], message[i])
      BY <2>1
    <2>3. ASSUME NEW i \in 0..(n + 1)
          PROVE  g[i] = IF i = 0 THEN start ELSE Write(g[i - 1], message[i])
      <3>1. CASE i = n + 1
        <4>1. g[n + 1] = Write(f[n], message[n + 1]) /\ g[n] = f[n] /\ i - 1 = n /\ i # 0
          BY <3>1
        <4> HIDE DEF g
        <4> QED BY <3>1, <4>1
      <3>2. CASE i \in 1..n
        <4>1. g[i] = f[i] /\ g[i - 1] = f[i - 1] /\ i # 0 /\ i \in 0..n
          BY <3>2
        <4> HIDE DEF g
        <4> QED BY <2>2, <4>1
      <3>3. CASE i = 0
        <4>1. g[0] = f[0] /\ 0 \in 0..n
          OBVIOUS
        <4> HIDE DEF g
        <4> QED BY <2>2, <3>3, <4>1
      <3> QED BY <3>1, <3>2, <3>3
    <2>4. Is(g, n + 1)
      BY <2>3
    <2> HIDE DEF Is, g
    <2> QED BY <2>4
  <1>3. \E f : Is(f, Len(message))
    <2>1. Len(message) \in S
      <3> HIDE DEF S
      <3> QED BY <1>1, <1>2, SetInduction
    <2> QED BY <2>1
  <1>4. Is(Written(message), Len(message))
    BY <1>3, Zenon DEF Written, start
  <1> DEFINE w == Written(message)
  <1>5. \A i \in 0..Len(message) : w[i] = IF i = 0 THEN start ELSE Write(w[i - 1], message[i])
    <2>1. Is(w, Len(message))
      BY <1>4
    <2> HIDE DEF w
    <2> QED BY <2>1
  <1> HIDE DEF w
  <1>6. w[0] = start /\ \A n \in 1..Len(message) : w[n] = Write(w[n - 1], message[n])
    BY <1>5
  <1> QED BY <1>6 DEF w, start

(* Every state of the writer is typed and behind the last one, and each     *)
(* token is legal where it is written.                                      *)
LEMMA WrittenFacts ==
    ASSUME NEW m \in Messages
    PROVE  /\ m \in Seq(Tokens) /\ Len(m) \in Nat
           /\ Written(m)[0].values = <<>> /\ Written(m)[0].stack = Bottom
           /\ \A c \in Controls : Written(m)[0].control[c] = <<>>
           /\ \A n \in 0..Len(m) : /\ Written(m)[n] \in WriterType
                                   /\ Len(Written(m)[n].control[2]) = n
                                   /\ Ahead(Written(m)[n], Written(m)[Len(m)])
           /\ \A n \in 0..(Len(m) - 1) : /\ Legal(Written(m)[n].stack, m[n + 1])
                                         /\ Written(m)[n + 1] = Write(Written(m)[n], m[n + 1])
  <1> DEFINE W == Written(m)
             N == Len(m)
  <1>1. m \in Seq(Tokens) /\ N \in Nat
    BY MessagesAssumption, LenProperties
  <1>2. W[0] = [control |-> [c \in Controls |-> <<>>], values |-> <<>>, stack |-> Bottom]
    BY <1>1, WrittenEquation
  <1>3. \A n \in 1..N : W[n] = Write(W[n - 1], m[n]) /\ Legal(W[n - 1].stack, m[n])
    BY <1>1, WrittenEquation, MessagesAssumption
  <1> HIDE DEF W, N
  <1>4. ASSUME NEW n \in 0..(N - 1)
        PROVE  Legal(W[n].stack, m[n + 1]) /\ W[n + 1] = Write(W[n], m[n + 1])
    <2>1. n + 1 \in 1..N /\ (n + 1) - 1 = n
      BY <1>1
    <2> QED BY <1>3, <2>1
  <1>5. W[0].values = <<>> /\ W[0].stack = Bottom /\ \A c \in Controls : W[0].control[c] = <<>>
    BY <1>2
  <1> DEFINE Ok(n) == W[n] \in WriterType /\ Len(W[n].control[2]) = n
             S == { n \in Nat : n <= N => Ok(n) }
  <1>6. 0 \in S
    <2>1. W[0] \in [control : [Controls -> Seq(Nat)], values : Seq(StreamType), stack : Seq(Calls)]
      <3>1. <<>> \in Seq(Nat) /\ <<>> \in Seq(StreamType)
        OBVIOUS
      <3> QED BY <1>2, <3>1, BottomType
    <2>2. Distinct(W[0].values)
      <3>1. \A i \in 1..Len(<<>>) : FALSE
        OBVIOUS
      <3> QED BY <1>5, <3>1, Zenon DEF Distinct
    <2>3. Len(W[0].control[2]) = 0
      <3>1. 2 \in Controls
        BY DEF Controls
      <3> QED BY <1>5, <3>1
    <2> QED BY <2>1, <2>2, <2>3 DEF WriterType
  <1>7. ASSUME NEW n \in Nat, n \in S PROVE n + 1 \in S
    <2> SUFFICES ASSUME n + 1 <= N PROVE Ok(n + 1)
      <3> HIDE DEF Ok
      <3> QED OBVIOUS
    <2>1. n \in 0..(N - 1) /\ n <= N
      BY <1>1
    <2>2. Ok(n)
      <3> HIDE DEF Ok
      <3> QED BY <1>7, <2>1
    <2>3. Legal(W[n].stack, m[n + 1]) /\ W[n + 1] = Write(W[n], m[n + 1])
      BY <1>4, <2>1
    <2>4. /\ Write(W[n], m[n + 1]) \in WriterType
          /\ Len(Write(W[n], m[n + 1]).control[2]) = Len(W[n].control[2]) + 1
      BY <2>2, <2>3, WriteFacts, Zenon
    <2> QED BY <2>2, <2>3, <2>4
  <1>8. \A n \in 0..N : Ok(n)
    <2>1. Nat \subseteq S
      <3> HIDE DEF S
      <3> QED BY <1>6, <1>7, SetInduction
    <2> HIDE DEF Ok
    <2> QED BY <1>1, <2>1
  <1> DEFINE T == { k \in Nat : k <= N => Ahead(W[N - k], W[N]) }
  <1>9. 0 \in T
    <2>1. N - 0 = N /\ N \in 0..N
      BY <1>1
    <2>2. W[N] \in WriterType
      BY <1>8, <2>1
    <2> QED BY <2>1, <2>2, AheadOrder
  <1>10. ASSUME NEW k \in Nat, k \in T PROVE k + 1 \in T
    <2> SUFFICES ASSUME k + 1 <= N PROVE Ahead(W[N - (k + 1)], W[N])
      OBVIOUS
    <2> DEFINE n == N - (k + 1)
    <2>1. n \in 0..(N - 1) /\ n \in 0..N /\ n + 1 \in 0..N /\ n + 1 = N - k /\ k <= N /\ N \in 0..N
      BY <1>1
    <2>2. Ahead(W[n + 1], W[N])
      BY <1>10, <2>1
    <2> HIDE DEF n
    <2>3. W[n] \in WriterType /\ W[n + 1] \in WriterType /\ W[N] \in WriterType
      BY <1>8, <2>1
    <2>4. Ahead(W[n], W[n + 1])
      BY <1>4, <2>1, <2>3, WriteFacts
    <2>5. Ahead(W[n], W[N])
      BY <2>2, <2>3, <2>4, AheadOrder
    <2> QED BY <2>5 DEF n
  <1>11. ASSUME NEW n \in 0..N PROVE Ahead(W[n], W[N])
    <2>1. Nat \subseteq T
      <3> HIDE DEF T
      <3> QED BY <1>9, <1>10, SetInduction
    <2>2. N - n \in Nat /\ N - n <= N /\ N - (N - n) = n
      BY <1>1
    <2>3. N - n \in T
      BY <2>1, <2>2
    <2> QED BY <2>2, <2>3
  <1> QED BY <1>1, <1>4, <1>5, <1>8, <1>11 DEF W, N

-----------------------------------------------------------------------------
(* The inputs of a message: three references to scratch vectors, then the    *)
(* streams of its values.                                                   *)

(* The streams of a message are those of the writer after its last token;   *)
(* their tags differ.                                                       *)
LEMMA StreamsFacts ==
    ASSUME NEW m \in Messages
    PROVE  /\ Streams[m] = Written(m)[Len(m)] /\ Streams[m] \in WriterType
           /\ Streams[m].control \in [Controls -> Seq(Nat)]
           /\ Streams[m].values \in Seq(StreamType) /\ Distinct(Streams[m].values)
  <1>1. Streams[m] = Written(m)[Len(m)]
    BY DEF Streams
  <1>2. Len(m) \in 0..Len(m)
    BY WrittenFacts
  <1>3. Written(m)[Len(m)] \in WriterType
    BY <1>2, WrittenFacts
  <1> QED BY <1>1, <1>3 DEF WriterType

(* No field's tag is that of a control stream.                              *)
LEMMA TagNotControl ==
    ASSUME NEW v \in StreamType
    PROVE  /\ v.tag \in Paths /\ v.tag # <<>> /\ v.tag[1] \in Nat \ {0} /\ v.kind \in Kinds
           /\ \A c \in Controls : v.tag # ControlTag(c)
  <1>1. v.tag \in Paths /\ v.kind \in Kinds /\ << v.tag, v.kind >> \in Clusters[Root]
    BY DEF StreamType
  <1>2. v.tag # <<>>
    <2>1. << v.tag, v.kind >>[1] # <<>>
      BY <1>1, ClusterFacts, SchemaAssumption
    <2> QED BY <2>1
  <1>3. Len(v.tag) # 0 /\ Len(v.tag) \in Nat
    BY <1>1, <1>2, EmptySeq, SeqEqual, LenProperties DEF Paths
  <1>4. v.tag[1] \in Nat \ {0}
    BY <1>1, <1>3, ElementOfSeq DEF Paths
  <1>5. ASSUME NEW c \in Controls PROVE v.tag # ControlTag(c)
    <2>1. ControlTag(c)[1] \notin Nat \ {0}
      BY DEF ControlTag, Controls
    <2> QED BY <1>4, <2>1
  <1> QED BY <1>1, <1>2, <1>4, <1>5

ScratchType == { s \in [capacity : Nat, epoch : 0..Batch, words : Seq(Nat)] : Len(s.words) <= s.capacity }
RefType     == [tag : { ControlTag(c) : c \in Controls }, kind : {Int32}, lens : {<<>>}, epoch : Nat, size : Nat]
Copied(m, c) == << Magic, c >> \o Streams[m].control[c]

(* A control stream as it is copied: two header words, then its own.        *)
LEMMA CopiedType ==
    ASSUME NEW m \in Messages, NEW c \in Controls
    PROVE  Copied(m, c) \in Seq(Nat) /\ WithHeader(Streams[m].control)[c] = Copied(m, c)
           /\ Len(Copied(m, c)) = 2 + Len(Streams[m].control[c]) /\ Len(Streams[m].control[c]) \in Nat
  <1>1. Streams[m].control[c] \in Seq(Nat)
    BY StreamsFacts
  <1>2. << Magic, c >> \in Seq(Nat) /\ Len(<< Magic, c >>) = 2
    BY DEF Magic, Controls
  <1>3. ASSUME NEW x \in Seq(Nat), NEW y \in Seq(Nat) PROVE x \o y \in Seq(Nat) /\ Len(x \o y) = Len(x) + Len(y)
    BY ConcatProperties
  <1>4. /\ << Magic, c >> \o Streams[m].control[c] \in Seq(Nat)
        /\ Len(<< Magic, c >> \o Streams[m].control[c]) = 2 + Len(Streams[m].control[c])
    BY <1>1, <1>2, <1>3
  <1>5. WithHeader(Streams[m].control)[c] = << Magic, c >> \o Streams[m].control[c]
    BY DEF WithHeader
  <1> QED BY <1>1, <1>4, <1>5, LenProperties DEF Copied

(* A refilled vector begins with what was copied and is within its capacity; *)
(* its memory is as old as it was, or one younger.                           *)
LEMMA RefillFacts ==
    ASSUME NEW s \in ScratchType, NEW words \in Seq(Nat)
    PROVE  LET t == Refill(s, words)
           IN  /\ t \in [capacity : Nat, epoch : Nat, words : Seq(Nat)] /\ Len(t.words) <= t.capacity
               /\ t.epoch \in {s.epoch, s.epoch + 1}
               /\ SubSeq(t.words, 1, Len(words)) = words
  <1>1. /\ s \in [capacity : Nat, epoch : Nat, words : Seq(Nat)]
        /\ Len(s.words) <= s.capacity /\ Len(s.words) \in Nat /\ Len(words) \in Nat
    BY BatchAssumption, LenProperties DEF ScratchType
  <1>2. CASE Len(words) > s.capacity
    <2>1. Refill(s, words) = [capacity |-> Len(words), epoch |-> s.epoch + 1, words |-> words]
      BY <1>2 DEF Refill
    <2>2. SubSeq(words, 1, Len(words)) = words
      BY SubSeqFull
    <2> QED BY <1>1, <2>1, <2>2
  <1>3. CASE ~ (Len(words) > s.capacity)
    <2> DEFINE rest == SubSeq(s.words, Len(words) + 1, Len(s.words))
               all == words \o rest
    <2>1. Refill(s, words) = [s EXCEPT !.words = all]
      BY <1>3 DEF Refill
    <2>2. rest \in Seq(Nat) /\ Len(rest) = IF Len(s.words) > Len(words) THEN Len(s.words) - Len(words) ELSE 0
      <3>1. \A i \in (Len(words) + 1)..Len(s.words) : s.words[i] \in Nat
        BY <1>1, ElementOfSeq
      <3>2. rest \in Seq(Nat)
        BY <1>1, <3>1, SubSeqProperties
      <3>3. Len(rest) = IF Len(words) + 1 <= Len(s.words) + 1 THEN Len(s.words) - (Len(words) + 1) + 1 ELSE 0
        BY <1>1, <3>1, SubSeqProperties
      <3>4. ASSUME NEW a \in Nat, NEW b \in Nat, NEW l, l = IF a + 1 <= b + 1 THEN b - (a + 1) + 1 ELSE 0
            PROVE  l = IF b > a THEN b - a ELSE 0
        BY <3>4
      <3> DEFINE a == Len(words)
                 b == Len(s.words)
                 l == Len(rest)
      <3>5. a \in Nat /\ b \in Nat /\ l = IF a + 1 <= b + 1 THEN b - (a + 1) + 1 ELSE 0
        BY <1>1, <3>3, Zenon
      <3> HIDE DEF a, b, l
      <3>6. l = IF b > a THEN b - a ELSE 0
        BY <3>4, <3>5
      <3> QED BY <3>2, <3>6, Zenon DEF a, b, l
    <2> HIDE DEF rest
    <2>3. all \in Seq(Nat) /\ Len(all) = Len(words) + Len(rest) /\ SubSeq(all, 1, Len(words)) = words
      <3>1. ASSUME NEW x \in Seq(Nat), NEW y \in Seq(Nat)
            PROVE  x \o y \in Seq(Nat) /\ Len(x \o y) = Len(x) + Len(y) /\ SubSeq(x \o y, 1, Len(x)) = x
        BY ConcatProperties, Parts
      <3> QED BY <2>2, <3>1, Zenon
    <2> HIDE DEF all
    <2>4. Len(all) <= s.capacity
      BY <1>1, <1>3, <2>2, <2>3
    <2> QED BY <1>1, <2>1, <2>3, <2>4
  <1> QED BY <1>2, <1>3

Laid(ins, m) ==
    /\ ins \in Seq(RefType \cup StreamType) /\ Len(ins) = 3 + Len(Streams[m].values)
    /\ \A c \in Controls : ins[c] \in RefType /\ ins[c].tag = ControlTag(c)
    /\ \A i \in 1..Len(Streams[m].values) : ins[3 + i] = Streams[m].values[i]

(* The inputs built for a message: three references to the scratch vectors  *)
(* just filled, then its value streams.                                     *)
LEMMA BuildFacts ==
    ASSUME NEW s \in [Controls -> ScratchType], NEW m \in Messages,
           NEW built, built = buildStructuredInputs(s, m)
    PROVE  /\ DOMAIN built.scratch = Controls
           /\ \A c \in Controls : built.scratch[c] = Refill(s[c], Copied(m, c))
           /\ Laid(built.inputs, m)
           /\ \A c \in Controls : /\ built.inputs[c].epoch = built.scratch[c].epoch
                                 /\ built.inputs[c].size = Len(Copied(m, c))
  <1> DEFINE words == WithHeader(Streams[m].control)
             now == [c \in Controls |-> Refill(s[c], words[c])]
             ref == [c \in Controls |-> [tag |-> ControlTag(c), kind |-> Int32, lens |-> <<>>,
                                         epoch |-> now[c].epoch, size |-> Len(words[c])]]
             vals == Streams[m].values
  <1>1. built = [scratch |-> now, inputs |-> ref \o vals]
    BY DEF buildStructuredInputs
  <1>2. \A c \in Controls : words[c] = Copied(m, c) /\ words[c] \in Seq(Nat)
    BY CopiedType, Zenon
  <1> HIDE DEF words
  <1>3. \A c \in Controls : now[c] = Refill(s[c], Copied(m, c)) /\ now[c].epoch \in Nat
    <2> TAKE c \in Controls
    <2>1. now[c] = Refill(s[c], Copied(m, c))
      BY <1>2
    <2>2. Refill(s[c], words[c]) \in [capacity : Nat, epoch : Nat, words : Seq(Nat)]
      BY <1>2, RefillFacts
    <2> QED BY <1>2, <2>1, <2>2
  <1>4. DOMAIN now = Controls
    OBVIOUS
  <1> HIDE DEF now
  <1>5. ASSUME NEW c \in Controls
        PROVE  /\ ref[c] \in RefType /\ ref[c].tag = ControlTag(c)
               /\ ref[c].epoch = now[c].epoch /\ ref[c].size = Len(Copied(m, c))
    <2>1. Len(words[c]) \in Nat
      BY <1>2, LenProperties
    <2> QED BY <1>2, <1>3, <2>1 DEF RefType
  <1>6. ref \in Seq(RefType \cup StreamType) /\ Len(ref) = 3
    <2>1. ref \in [1..3 -> RefType \cup StreamType]
      <3>1. ref \in [Controls -> RefType \cup StreamType]
        <4>1. DOMAIN ref = Controls /\ ref = [c \in Controls |-> ref[c]]
          OBVIOUS
        <4> HIDE DEF ref
        <4> QED BY <1>5, <4>1
      <3> QED BY <3>1 DEF Controls
    <2>2. ASSUME NEW S, NEW r \in [1..3 -> S] PROVE r \in Seq(S) /\ Len(r) = 3
      <3>1. r \in Seq(S)
        <4>1. [1..3 -> S] \in { [1..n -> S] : n \in Nat }
          OBVIOUS
        <4> QED BY <4>1, SeqDef, Zenon
      <3>2. DOMAIN r = 1..3 /\ DOMAIN r = 1..Len(r) /\ Len(r) \in Nat
        BY <3>1, LenProperties
      <3> QED BY <3>1, <3>2
    <2> HIDE DEF ref
    <2> QED BY <2>1, <2>2
  <1>7. vals \in Seq(RefType \cup StreamType) /\ Len(vals) \in Nat
    BY StreamsFacts, SeqMonotonic, LenProperties
  <1> HIDE DEF ref, vals
  <1>8. /\ ref \o vals \in Seq(RefType \cup StreamType) /\ Len(ref \o vals) = 3 + Len(vals)
        /\ \A c \in Controls : (ref \o vals)[c] = ref[c]
        /\ \A i \in 1..Len(vals) : (ref \o vals)[3 + i] = vals[i]
    <2>1. ASSUME NEW S, NEW x \in Seq(S), NEW y \in Seq(S), Len(x) = 3
          PROVE  /\ x \o y \in Seq(S) /\ Len(x \o y) = 3 + Len(y)
                 /\ \A c \in 1..3 : (x \o y)[c] = x[c]
                 /\ \A i \in 1..Len(y) : (x \o y)[3 + i] = y[i]
      <3>1. x \o y \in Seq(S) /\ Len(x \o y) = Len(x) + Len(y)
        BY ConcatPoints
      <3>2. \A c \in 1..Len(x) : (x \o y)[c] = x[c]
        BY ConcatPoints
      <3>3. \A i \in 1..Len(y) : (x \o y)[Len(x) + i] = y[i]
        BY ConcatPoints
      <3> QED BY <2>1, <3>1, <3>2, <3>3
    <2> QED BY <1>6, <1>7, <2>1 DEF Controls
  <1>9. built.scratch = now /\ built.inputs = ref \o vals
    BY <1>1
  <1>10. Laid(built.inputs, m)
    BY <1>5, <1>8, <1>9 DEF Laid, vals
  <1>11. DOMAIN built.scratch = Controls /\ \A c \in Controls : built.scratch[c] = Refill(s[c], Copied(m, c))
    BY <1>3, <1>4, <1>9
  <1>12. ASSUME NEW c \in Controls
         PROVE  built.inputs[c].epoch = built.scratch[c].epoch /\ built.inputs[c].size = Len(Copied(m, c))
    <2>1. built.inputs[c] = ref[c] /\ built.scratch[c] = now[c]
      BY <1>8, <1>9
    <2> QED BY <1>5, <2>1
  <1> QED BY <1>10, <1>11, <1>12, Zenon

(* The first half of the invariant, up to what the engine returns: what the  *)
(* inputs refer to, how old the scratch vectors are, and where the outputs   *)
(* come from.                                                               *)

Given == Messages \cup {Broken}

Phases ==
    /\ phase \in {"idle", "building", "compressed", "reading", "read", "failed"}
    /\ call \in {"pinned", "sample"}
Scratches == scratch \in [{"pinned", "sample"} -> [Controls -> ScratchType]]
Samples ==
    /\ given \in Seq(Given) /\ todo \in Seq(Given) /\ Len(given) <= Batch
    /\ Len(inputs) + Len(todo) = Len(given)
    /\ \A k \in 1..Len(todo) : todo[k] = given[Len(inputs) + k]
    /\ phase = "idle" => inputs = <<>>
Built ==
    /\ inputs \in Seq(Seq(RefType \cup StreamType))
    /\ \A i \in 1..Len(inputs) : given[i] \in Messages /\ Laid(inputs[i], given[i])
Young == phase = "building" => \A c \in Controls : scratch[call][c].epoch <= Len(inputs)
Intact ==
    phase = "building" /\ inputs # <<>> =>
        \A c \in Controls :
            /\ inputs[Len(inputs)][c].epoch = scratch[call][c].epoch
            /\ inputs[Len(inputs)][c].size = Len(Copied(given[Len(inputs)], c))
            /\ SubSeq(scratch[call][c].words, 1, Len(Copied(given[Len(inputs)], c)))
                 = Copied(given[Len(inputs)], c)
Returned(kept, outs, order, m) ==
    /\ IsOrder(order, 3 + Len(Streams[m].values))
    /\ kept \/ ValuesInOrder(order)
    /\ outs = [i \in DOMAIN order |->
                 [tag    |-> IF kept THEN Exact(m)[order[i]].tag ELSE NoTag,
                  string |-> Exact(m)[order[i]].kind = String,
                  words  |-> Exact(m)[order[i]].words,
                  lens   |-> Exact(m)[order[i]].lens,
                  origin |-> Exact(m)[order[i]].tag]]
Compressed ==
    phase \in {"compressed", "reading", "read", "failed"} =>
        /\ Len(given) = 1 /\ given[1] \in Messages
        /\ \E order : Returned(tagged, outputs, order, given[1])
Unread ==
    /\ phase \in {"idle", "building", "compressed"} =>
            frame = NoFrame /\ decoded = <<>>
    /\ \E S : stack \in Seq(S)
    /\ phase = "reading" => stack # <<>>

Prepared == Phases /\ Scratches /\ Samples /\ Built /\ Young /\ Intact /\ Compressed /\ Unread

(* What the engine should see of a message, stream by stream.               *)
LEMMA ExactFacts ==
    ASSUME NEW m \in Messages
    PROVE  /\ DOMAIN Exact(m) = 1..(3 + Len(Streams[m].values))
           /\ Exact(m) = [k \in 1..(3 + Len(Streams[m].values)) |-> Exact(m)[k]]
           /\ Len(Streams[m].values) \in Nat
           /\ \A c \in Controls :
                Exact(m)[c] = [tag |-> ControlTag(c), kind |-> Int32, lens |-> <<>>, words |-> Copied(m, c)]
           /\ \A k \in 1..Len(Streams[m].values) : Exact(m)[3 + k] = Streams[m].values[k]
  <1> DEFINE e == [c \in Controls |-> [tag |-> ControlTag(c), kind |-> Int32, lens |-> <<>>,
                                       words |-> << Magic, c >> \o Streams[m].control[c]]]
             vals == Streams[m].values
             S == { e[c] : c \in Controls } \cup StreamType
  <1>1. Exact(m) = e \o vals
    BY DEF Exact
  <1>2. e \in [1..3 -> S]
    <2>1. e = [c \in 1..3 |-> e[c]]
      BY DEF Controls
    <2>2. \A c \in 1..3 : e[c] \in S
      <3> HIDE DEF e
      <3> QED BY DEF Controls
    <2> HIDE DEF e, S
    <2> QED BY <2>1, <2>2
  <1>3. \A c \in Controls :
            e[c] = [tag |-> ControlTag(c), kind |-> Int32, lens |-> <<>>, words |-> Copied(m, c)]
    BY DEF Copied
  <1>4. vals \in Seq(S) /\ Len(vals) \in Nat
    <2>1. vals \in Seq(StreamType)
      BY StreamsFacts
    <2> HIDE DEF e, vals
    <2> QED BY <2>1, SeqMonotonic, LenProperties
  <1> HIDE DEF e, vals, S
  <1>5. ASSUME NEW T, NEW r \in [1..3 -> T] PROVE r \in Seq(T) /\ Len(r) = 3
    <2>1. r \in Seq(T)
      <3>1. [1..3 -> T] \in { [1..n -> T] : n \in Nat }
        OBVIOUS
      <3> QED BY <3>1, SeqDef, Zenon
    <2>2. DOMAIN r = 1..3 /\ DOMAIN r = 1..Len(r) /\ Len(r) \in Nat
      BY <2>1, LenProperties
    <2> QED BY <2>1, <2>2
  <1>6. e \in Seq(S) /\ Len(e) = 3
    BY <1>2, <1>5
  <1>8. /\ DOMAIN (e \o vals) = 1..(3 + Len(vals))
        /\ e \o vals = [k \in 1..(3 + Len(vals)) |-> (e \o vals)[k]]
        /\ \A c \in 1..3 : (e \o vals)[c] = e[c]
        /\ \A i \in 1..Len(vals) : (e \o vals)[3 + i] = vals[i]
    <2>1. e \o vals \in Seq(S) /\ Len(e \o vals) = Len(e) + Len(vals)
      BY <1>4, <1>6, ConcatPoints
    <2>2. \A c \in 1..Len(e) : (e \o vals)[c] = e[c]
      BY <1>4, <1>6, ConcatPoints
    <2>3. \A i \in 1..Len(vals) : (e \o vals)[Len(e) + i] = vals[i]
      <3>1. \A x, y \in Seq(S) : \A i \in 1..Len(y) : (x \o y)[Len(x) + i] = y[i]
        BY ConcatPoints
      <3>2. e \in Seq(S) /\ vals \in Seq(S)
        BY <1>4, <1>6
      <3> QED BY <3>1, <3>2
    <2>4. e \o vals \in [1..(3 + Len(vals)) -> S]
      BY <1>4, <1>6, <2>1, LenProperties
    <2>5. ASSUME NEW f \in [1..(3 + Len(vals)) -> S]
          PROVE  DOMAIN f = 1..(3 + Len(vals)) /\ f = [k \in 1..(3 + Len(vals)) |-> f[k]]
      OBVIOUS
    <2>6. DOMAIN (e \o vals) = 1..(3 + Len(vals)) /\ e \o vals = [k \in 1..(3 + Len(vals)) |-> (e \o vals)[k]]
      BY <2>4, <2>5, Zenon
    <2>7. \A c \in 1..3 : (e \o vals)[c] = e[c]
      BY <1>6, <2>2
    <2>8. \A i \in 1..Len(vals) : (e \o vals)[3 + i] = vals[i]
      BY <1>6, <2>3
    <2> QED BY <2>6, <2>7, <2>8, Zenon
  <1> QED BY <1>1, <1>3, <1>4, <1>8, Zenon DEF Controls, vals

(* While inputs are built, the engine sees the streams of the last sample,   *)
(* and the values of the earlier ones.                                      *)
LEMMA SeenFacts ==
    ASSUME Prepared, NEW i \in 1..Len(inputs)
    PROVE  /\ given[i] \in Messages /\ DOMAIN inputs[i] = 1..(3 + Len(Streams[given[i]].values))
           /\ Len(inputs[i]) = 3 + Len(Streams[given[i]].values)
           /\ DOMAIN Seen(i) = 1..(3 + Len(Streams[given[i]].values))
           /\ \A k \in 1..Len(Streams[given[i]].values) : Seen(i)[3 + k] = Streams[given[i]].values[k]
           /\ phase = "building" /\ i = Len(inputs) => Seen(i) = Exact(given[i])
  <1> DEFINE m == given[i]
             n == Len(Streams[given[i]].values)
             ins == inputs[i]
  <1>1. m \in Messages /\ Laid(ins, m)
    BY DEF Prepared, Built
  <1>2. n \in Nat
    BY <1>1, ExactFacts
  <1>3. DOMAIN ins = 1..(3 + n) /\ Len(ins) = 3 + n
    <2>1. ins \in Seq(RefType \cup StreamType) /\ Len(ins) = 3 + n
      BY <1>1 DEF Laid
    <2> HIDE DEF ins, n
    <2> QED BY <2>1, LenProperties
  <1>4. DOMAIN Seen(i) = 1..(3 + n) /\ Seen(i) = [k \in 1..(3 + n) |-> Seen(i)[k]]
        /\ \A k \in 1..(3 + n) : Seen(i)[k] = Deref(ins[k])
    <2>1. Seen(i) = [k \in DOMAIN ins |-> Deref(ins[k])]
      BY DEF Seen
    <2> HIDE DEF ins, n
    <2> QED BY <1>3, <2>1
  <1>5. ASSUME NEW v \in StreamType PROVE Deref(v) = v
    BY TagNotControl DEF Deref
  <1>6. ASSUME NEW k \in 1..n PROVE Seen(i)[3 + k] = Streams[m].values[k]
    <2>1. 3 + k \in 1..(3 + n)
      BY <1>2
    <2>2. ins[3 + k] = Streams[m].values[k]
      BY <1>1 DEF Laid
    <2>3. Streams[m].values[k] \in StreamType
      <3>1. Streams[m].values \in Seq(StreamType)
        BY <1>1, StreamsFacts
      <3> QED BY <3>1, ElementOfSeq
    <2> HIDE DEF ins, n, m
    <2> QED BY <1>4, <1>5, <2>1, <2>2, <2>3
  <1>7. ASSUME phase = "building", i = Len(inputs) PROVE Seen(i) = Exact(m)
    <2>1. inputs # <<>>
      <3>1. inputs = <<>> => Len(inputs) = 0
        BY EmptySeq
      <3> QED BY <3>1
    <2>2. ASSUME NEW c \in Controls PROVE Seen(i)[c] = Exact(m)[c]
      <3>1. ins[c] \in RefType /\ ins[c].tag = ControlTag(c)
        BY <1>1 DEF Laid
      <3>2. /\ ins[c].epoch = scratch[call][c].epoch /\ ins[c].size = Len(Copied(m, c))
            /\ SubSeq(scratch[call][c].words, 1, Len(Copied(m, c))) = Copied(m, c)
        BY <1>7, <2>1 DEF Prepared, Intact
      <3>3. ins[c].kind = Int32
        BY <3>1 DEF RefType
      <3> HIDE DEF ins, m
      <3>4. - ins[c].tag[1] = c
        BY <3>1 DEF ControlTag, Controls
      <3>5. Deref(ins[c]) = [tag |-> ControlTag(c), kind |-> Int32, lens |-> <<>>, words |-> Copied(m, c)]
        <4>1. ~ \A b \in Controls : ins[c].tag # ControlTag(b)
          BY <3>1
        <4>2. Deref(ins[c]) =
                 [tag |-> ins[c].tag, kind |-> ins[c].kind, lens |-> <<>>,
                  words |-> IF scratch[call][c].epoch = ins[c].epoch
                            THEN SubSeq(scratch[call][c].words, 1, ins[c].size) ELSE Freed]
          BY <3>4, <4>1, Zenon DEF Deref
        <4> QED BY <3>1, <3>2, <3>3, <4>2
      <3>6. c \in 1..(3 + n)
        BY <1>2 DEF Controls
      <3>7. Exact(m)[c] = [tag |-> ControlTag(c), kind |-> Int32, lens |-> <<>>, words |-> Copied(m, c)]
        BY <1>1, ExactFacts DEF m
      <3> QED BY <1>4, <3>5, <3>6, <3>7, Zenon
    <2>3. ASSUME NEW k \in 1..(3 + n) PROVE Seen(i)[k] = Exact(m)[k]
      <3>1. CASE k \in Controls
        BY <2>2, <3>1
      <3>2. CASE k \notin Controls
        <4>1. k - 3 \in 1..n /\ 3 + (k - 3) = k
          BY <1>2, <3>2 DEF Controls
        <4>2. Exact(m)[3 + (k - 3)] = Streams[m].values[k - 3]
          BY <1>1, <4>1, ExactFacts
        <4>3. Seen(i)[3 + (k - 3)] = Streams[m].values[k - 3]
          BY <1>6, <4>1
        <4> QED BY <4>1, <4>2, <4>3
      <3> QED BY <3>1, <3>2
    <2>4. Exact(m) = [k \in 1..(3 + n) |-> Exact(m)[k]]
      BY <1>1, ExactFacts
    <2> HIDE DEF m, n
    <2> QED BY <1>4, <2>3, <2>4, Zenon
  <1> QED BY <1>1, <1>3, <1>4, <1>6, <1>7

(* The first half of the invariant holds initially, and every step          *)
(* preserves it.                                                            *)
LEMMA InitPrepared == Init => Prepared
  <1> SUFFICES ASSUME Init PROVE Prepared
    OBVIOUS
  <1>1. phase = "idle" /\ inputs = <<>> /\ given = <<>> /\ todo = <<>> /\ call = "pinned"
    BY DEF Init
  <1>2. \A T : <<>> \in Seq(T) /\ Len(<<>>) = 0
    BY EmptySeq
  <1>3. Scratches
    <2> DEFINE empty == [capacity |-> 0, epoch |-> 0, words |-> <<>>]
    <2>1. empty \in ScratchType
      BY <1>2, BatchAssumption DEF ScratchType
    <2> HIDE DEF empty
    <2>2. scratch = [o \in {"pinned", "sample"} |-> [c \in Controls |-> empty]]
      BY DEF Init, empty
    <2> QED BY <2>1, <2>2 DEF Scratches
  <1>4. Samples
    BY <1>1, <1>2, BatchAssumption DEF Samples
  <1>5. Built
    BY <1>1, <1>2 DEF Built
  <1>6. Phases /\ Young /\ Intact /\ Compressed
    BY <1>1 DEF Phases, Young, Intact, Compressed
  <1>7. Unread
    BY <1>1, <1>2 DEF Init, Unread
  <1> QED BY <1>3, <1>4, <1>5, <1>6, <1>7 DEF Prepared

(* A call begins.                                                           *)
LEMMA BeginPrepared ==
    ASSUME Prepared, NEW o \in {"pinned", "sample"}, NEW batch \in Seq(Given), Len(batch) <= Batch,
           Begin(o, batch)
    PROVE  Prepared'
  <1>1. /\ phase = "idle" /\ inputs = <<>> /\ inputs' = <<>> /\ phase' = "building" /\ call' = o
        /\ given' = batch /\ todo' = batch
        /\ UNCHANGED <<tagged, outputs, frame, stack, decoded>>
    BY DEF Begin, Prepared, Samples
  <1>2. \A T : <<>> \in Seq(T) /\ Len(<<>>) = 0
    BY EmptySeq
  <1> DEFINE fresh == [c \in Controls |-> [scratch[o][c] EXCEPT !.epoch = 0, !.words = <<>>]]
  <1>3. scratch \in [{"pinned", "sample"} -> [Controls -> ScratchType]]
    BY DEF Prepared, Scratches
  <1>4. fresh \in [Controls -> ScratchType] /\ \A c \in Controls : fresh[c].epoch = 0
    <2>1. ASSUME NEW c \in Controls
          PROVE  /\ [scratch[o][c] EXCEPT !.epoch = 0, !.words = <<>>] \in ScratchType
                 /\ [scratch[o][c] EXCEPT !.epoch = 0, !.words = <<>>].epoch = 0
      <3>1. scratch[o][c] \in ScratchType
        BY <1>3
      <3>2. ASSUME NEW x \in ScratchType
            PROVE  /\ [x EXCEPT !.epoch = 0, !.words = <<>>] \in ScratchType
                   /\ [x EXCEPT !.epoch = 0, !.words = <<>>].epoch = 0
        <4>1. x \in [capacity : Nat, epoch : 0..Batch, words : Seq(Nat)]
          BY DEF ScratchType
        <4>2. 0 \in 0..Batch /\ <<>> \in Seq(Nat) /\ Len(<<>>) = 0
          BY <1>2, BatchAssumption
        <4> DEFINE y == [x EXCEPT !.epoch = 0, !.words = <<>>]
        <4>3. y \in [capacity : Nat, epoch : 0..Batch, words : Seq(Nat)]
          BY <4>1, <4>2
        <4>4. y.epoch = 0 /\ y.words = <<>>
          BY <4>1
        <4> HIDE DEF y
        <4>5. y \in ScratchType
          BY <4>2, <4>3, <4>4 DEF ScratchType
        <4> QED BY <4>4, <4>5 DEF y
      <3> QED BY <3>1, <3>2
    <2> QED BY <2>1
  <1>5. scratch' = [scratch EXCEPT ![o] = fresh]
    BY DEF Begin
  <1> HIDE DEF fresh
  <1>6. Scratches'
    BY <1>3, <1>4, <1>5 DEF Scratches
  <1>7. Samples'
    <2>1. Len(batch) \in Nat
      BY LenProperties
    <2> QED BY <1>1, <1>2, <2>1 DEF Samples
  <1>8. Built'
    BY <1>1, <1>2 DEF Built
  <1>9. Young'
    BY <1>1, <1>2, <1>3, <1>4, <1>5 DEF Young
  <1>10. Phases' /\ Intact' /\ Compressed'
    BY <1>1 DEF Phases, Intact, Compressed
  <1>11. Unread'
    BY <1>1 DEF Prepared, Unread
  <1> QED BY <1>6, <1>7, <1>8, <1>9, <1>10, <1>11 DEF Prepared

(* A call ends, by success or by an exception.                              *)
LEMMA ForgetPrepared ==
    ASSUME Prepared, phase' = "idle", Forget, UNCHANGED <<call, scratch>>
    PROVE  Prepared'
  <1>1. /\ inputs' = <<>> /\ given' = <<>> /\ todo' = <<>> /\ stack' = <<>> /\ decoded' = <<>>
        /\ frame' = NoFrame
    BY DEF Forget
  <1>2. \A T : <<>> \in Seq(T) /\ Len(<<>>) = 0
    BY EmptySeq
  <1>3. Phases' /\ Scratches'
    BY DEF Prepared, Phases, Scratches
  <1>4. Samples' /\ Built'
    BY <1>1, <1>2, BatchAssumption DEF Samples, Built
  <1>5. Young' /\ Intact' /\ Compressed'
    BY DEF Young, Intact, Compressed
  <1>6. Unread'
    BY <1>1, <1>2 DEF Unread, NoFrame
  <1> QED BY <1>3, <1>4, <1>5, <1>6 DEF Prepared

(* buildStructuredInputs for one more message.                              *)
LEMMA BuildPrepared ==
    ASSUME Prepared, Build
    PROVE  Prepared'
  <1>1. phase = "building" /\ todo # <<>> /\ given \in Seq(Given) /\ todo \in Seq(Given)
    BY DEF Build, Prepared, Samples
  <1>2. CASE Head(todo) = Broken
    BY <1>2, ForgetPrepared DEF Build
  <1>3. CASE Head(todo) # Broken
    <2> DEFINE built == buildStructuredInputs(scratch[call], Head(todo))
               m == Head(todo)
               s == scratch[call]
               n == Len(inputs)
    <2>1. /\ scratch' = [scratch EXCEPT ![call] = built.scratch]
          /\ inputs' = Append(inputs, built.inputs) /\ todo' = Tail(todo)
          /\ UNCHANGED <<phase, call, given, tagged, outputs, frame, stack, decoded>>
      BY <1>3 DEF Build
    <2>2. m \in Messages /\ m = todo[1] /\ Len(todo) \in Nat /\ Len(todo) >= 1
      <3>1. m \in Given /\ m = todo[1] /\ Len(todo) \in Nat
        BY <1>1, HeadTailProperties, LenProperties
      <3>2. Len(todo) # 0
        BY <1>1, EmptySeq, SeqEqual
      <3> QED BY <1>3, <3>1, <3>2 DEF Given
    <2>3. /\ s \in [Controls -> ScratchType] /\ call \in {"pinned", "sample"}
          /\ scratch \in [{"pinned", "sample"} -> [Controls -> ScratchType]]
      BY DEF Prepared, Scratches, Phases
    <2>4. /\ inputs \in Seq(Seq(RefType \cup StreamType)) /\ n \in Nat /\ n + Len(todo) = Len(given)
          /\ Len(given) <= Batch /\ Len(given) \in Nat
          /\ \A c \in Controls : s[c].epoch <= n
          /\ \A k \in 1..Len(todo) : todo[k] = given[n + k]
      BY <1>1, LenProperties DEF Prepared, Samples, Built, Young
    <2>5. given[n + 1] = m
      BY <2>2, <2>4
    <2> HIDE DEF s, m, n
    <2>6. /\ DOMAIN built.scratch = Controls
          /\ \A c \in Controls : built.scratch[c] = Refill(s[c], Copied(m, c))
          /\ Laid(built.inputs, m)
          /\ \A c \in Controls : /\ built.inputs[c].epoch = built.scratch[c].epoch
                                /\ built.inputs[c].size = Len(Copied(m, c))
      <3>1. built = buildStructuredInputs(s, m)
        BY DEF s, m
      <3> HIDE DEF built
      <3> QED BY <2>2, <2>3, <3>1, BuildFacts
    <2> HIDE DEF built
    <2>7. ASSUME NEW c \in Controls
          PROVE  /\ built.scratch[c] \in ScratchType /\ built.scratch[c].epoch <= n + 1
                 /\ SubSeq(built.scratch[c].words, 1, Len(Copied(m, c))) = Copied(m, c)
      <3> DEFINE t == Refill(s[c], Copied(m, c))
      <3>1. Copied(m, c) \in Seq(Nat) /\ s[c] \in ScratchType
        BY <2>2, <2>3, CopiedType
      <3>2. /\ t \in [capacity : Nat, epoch : Nat, words : Seq(Nat)] /\ Len(t.words) <= t.capacity
            /\ t.epoch \in {s[c].epoch, s[c].epoch + 1}
            /\ SubSeq(t.words, 1, Len(Copied(m, c))) = Copied(m, c)
        BY <3>1, RefillFacts
      <3>3. s[c].epoch \in Nat /\ s[c].epoch <= n
        BY <2>4, <3>1, BatchAssumption DEF ScratchType
      <3>4. built.scratch[c] = t
        BY <2>6
      <3> HIDE DEF t
      <3>5. t.epoch \in Nat /\ t.epoch <= n + 1 /\ n + 1 <= Batch
        BY <2>2, <2>4, <3>2, <3>3, BatchAssumption
      <3>6. t \in ScratchType
        <4>1. t.epoch \in 0..Batch
          BY <2>4, <3>5, BatchAssumption
        <4>2. ASSUME NEW x \in [capacity : Nat, epoch : Nat, words : Seq(Nat)], x.epoch \in 0..Batch
              PROVE  x \in [capacity : Nat, epoch : 0..Batch, words : Seq(Nat)]
          BY <4>2
        <4> QED BY <3>2, <4>1, <4>2, Zenon DEF ScratchType
      <3> QED BY <3>2, <3>4, <3>5, <3>6
    <2>8. Scratches'
      <3>1. built.scratch \in [Controls -> ScratchType] \/ DOMAIN built.scratch # Controls
            \/ built.scratch # [c \in Controls |-> built.scratch[c]]
        BY <2>7
      <3>2. built.scratch = [c \in Controls |-> built.scratch[c]]
        BY DEF built, buildStructuredInputs
      <3> QED BY <2>1, <2>3, <2>6, <3>1, <3>2 DEF Scratches
    <2>9. /\ inputs' \in Seq(Seq(RefType \cup StreamType)) /\ Len(inputs') = n + 1
          /\ \A i \in 1..n : inputs'[i] = inputs[i]
          /\ inputs'[n + 1] = built.inputs
      <3>1. built.inputs \in Seq(RefType \cup StreamType)
        BY <2>6 DEF Laid
      <3> QED BY <2>1, <2>4, <3>1, AppendProperties DEF n
    <2>10. Built'
      <3>1. ASSUME NEW i \in 1..(n + 1) PROVE given[i] \in Messages /\ Laid(inputs'[i], given[i])
        <4>1. CASE i = n + 1
          BY <2>2, <2>5, <2>6, <2>9, <4>1
        <4>2. CASE i \in 1..n
          BY <2>9, <4>2 DEF Prepared, Built, n
        <4> QED BY <2>4, <4>1, <4>2
      <3> QED BY <2>1, <2>9, <3>1 DEF Built, Laid
    <2>11. Samples'
      <3>1. Tail(todo) \in Seq(Given) /\ Len(Tail(todo)) = Len(todo) - 1
            /\ \A k \in 1..(Len(todo) - 1) : Tail(todo)[k] = todo[k + 1]
        BY <1>1, HeadTailProperties
      <3>2. \A k \in 1..(Len(todo) - 1) : todo[k + 1] = given[(n + 1) + k]
        <4> TAKE k \in 1..(Len(todo) - 1)
        <4>1. k + 1 \in 1..Len(todo) /\ n + (k + 1) = (n + 1) + k
          BY <2>2, <2>4
        <4> QED BY <2>4, <4>1
      <3>3. \A k \in 1..Len(Tail(todo)) : Tail(todo)[k] = given[(n + 1) + k]
        BY <3>1, <3>2
      <3>4. (n + 1) + Len(Tail(todo)) = Len(given)
        BY <2>2, <2>4, <3>1
      <3> QED BY <1>1, <2>1, <2>4, <2>9, <3>1, <3>3, <3>4 DEF Samples
    <2>12. Young'
      BY <2>1, <2>3, <2>7, <2>9 DEF Young
    <2>13. Intact'
      <3>1. \A c \in Controls : scratch'[call][c] = built.scratch[c]
        BY <2>1, <2>3
      <3>2. \A c \in Controls : /\ built.inputs[c].epoch = scratch'[call][c].epoch
                              /\ built.inputs[c].size = Len(Copied(m, c))
                              /\ SubSeq(scratch'[call][c].words, 1, Len(Copied(m, c))) = Copied(m, c)
        BY <2>6, <2>7, <3>1
      <3>3. /\ inputs'[Len(inputs')] = built.inputs /\ given'[Len(inputs')] = m
            /\ call' = call
        BY <2>1, <2>5, <2>9
      <3> QED BY <3>2, <3>3, Zenon DEF Intact, Copied
    <2>14. Phases' /\ Compressed' /\ Unread'
      BY <1>1, <2>1 DEF Prepared, Phases, Compressed, Unread
    <2> QED BY <2>8, <2>10, <2>11, <2>12, <2>13, <2>14 DEF Prepared
  <1> QED BY <1>2, <1>3

(* The engine compresses and decompresses.                                  *)
LEMMA CompressPrepared ==
    ASSUME Prepared, Compress
    PROVE  Prepared'
  <1>1. /\ phase = "building" /\ todo = <<>> /\ Len(given) = 1 /\ phase' = "compressed"
        /\ UNCHANGED <<call, given, todo, scratch, inputs, frame, stack, decoded>>
    BY DEF Compress
  <1>2. Len(inputs) = 1
    <2>1. Len(inputs) + Len(todo) = Len(given) /\ Len(todo) = 0 /\ inputs \in Seq(Seq(RefType \cup StreamType))
      BY <1>1, EmptySeq DEF Prepared, Samples, Built
    <2> QED BY <1>1, <2>1, LenProperties
  <1>3. /\ given[1] \in Messages /\ Seen(1) = Exact(given[1])
        /\ Len(inputs[1]) = 3 + Len(Streams[given[1]].values)
    <2>1. 1 \in 1..Len(inputs)
      BY <1>2
    <2> QED BY <1>1, <1>2, <2>1, SeenFacts
  <1>4. PICK kept \in BOOLEAN, order \in Orders :
          /\ IsOrder(order, Len(inputs[1]))
          /\ kept \/ ValuesInOrder(order)
          /\ tagged' = kept
          /\ outputs' = [i \in DOMAIN order |->
                [tag    |-> IF kept THEN Seen(1)[order[i]].tag ELSE NoTag,
                 string |-> Seen(1)[order[i]].kind = String,
                 words  |-> Seen(1)[order[i]].words,
                 lens   |-> Seen(1)[order[i]].lens,
                 origin |-> Seen(1)[order[i]].tag]]
    BY Zenon DEF Compress
  <1>5. /\ tagged' \/ ValuesInOrder(order)
        /\ outputs' = [i \in DOMAIN order |->
                [tag    |-> IF tagged' THEN Exact(given[1])[order[i]].tag ELSE NoTag,
                 string |-> Exact(given[1])[order[i]].kind = String,
                 words  |-> Exact(given[1])[order[i]].words,
                 lens   |-> Exact(given[1])[order[i]].lens,
                 origin |-> Exact(given[1])[order[i]].tag]]
    BY <1>3, <1>4, Zenon
  <1>6. Returned(tagged', outputs', order, given[1])
    BY <1>3, <1>4, <1>5, Zenon DEF Returned
  <1>7. Compressed'
    <2> DEFINE T(k, x, g) == \E o : Returned(k, x, o, g[1])
    <2>1. T(tagged', outputs', given)
      BY <1>6
    <2> QED BY <1>1, <1>3, <2>1 DEF Compressed
  <1>8. Phases' /\ Scratches' /\ Samples' /\ Built' /\ Young' /\ Intact' /\ Unread'
    BY <1>1 DEF Prepared, Phases, Scratches, Samples, Built, Young, Intact, Unread
  <1> QED BY <1>7, <1>8 DEF Prepared

(* Once the frame is there, nothing before it changes.                      *)
LEMMA KeepsPrepared ==
    ASSUME Prepared, phase \in {"compressed", "reading", "read", "failed"},
           phase' \in {"reading", "read", "failed"},
           UNCHANGED <<call, given, todo, scratch, inputs, tagged, outputs>>,
           \E S : stack' \in Seq(S), phase' = "reading" => stack' # <<>>
    PROVE  Prepared'
  <1>1. Phases' /\ Scratches' /\ Samples' /\ Built' /\ Young' /\ Intact'
    BY DEF Prepared, Phases, Scratches, Samples, Built, Young, Intact
  <1>3. Compressed'
    BY DEF Prepared, Compressed
  <1>4. Unread'
    BY DEF Unread
  <1> QED BY <1>1, <1>3, <1>4 DEF Prepared

(* Whatever the reader does to its stack, it remains a sequence.            *)
LEMMA AnyStack ==
    ASSUME NEW S, NEW s \in Seq(S), s # <<>>
    PROVE  /\ \E T : Leave(s) \in Seq(T)
           /\ \A id, count : Enter(s, id, count) # <<>> /\ \E T : Enter(s, id, count) \in Seq(T)
  <1>1. ASSUME NEW h PROVE << h >> \o s \in Seq(S \cup {h}) /\ << h >> \o s # <<>>
                           /\ << h >> \o Tail(s) \in Seq(S \cup {h})
    <2>1. << h >> \in Seq(S \cup {h}) /\ Len(<< h >>) = 1
      OBVIOUS
    <2>2. s \in Seq(S \cup {h}) /\ Tail(s) \in Seq(S \cup {h})
      BY HeadTailProperties, SeqMonotonic
    <2>3. ASSUME NEW T, NEW x \in Seq(T), NEW y \in Seq(T), Len(x) = 1
          PROVE  x \o y \in Seq(T) /\ x \o y # <<>>
      <3>1. x \o y \in Seq(T) /\ Len(x \o y) = Len(x) + Len(y) /\ Len(y) \in Nat
        BY ConcatProperties, LenProperties
      <3>2. Len(x \o y) # 0
        BY <2>3, <3>1
      <3> QED BY <3>1, <3>2, EmptySeq
    <2> QED BY <2>1, <2>2, <2>3
  <1>2. Tail(s) \in Seq(S)
    BY HeadTailProperties
  <1>3. \E T : Leave(s) \in Seq(T)
    <2> DEFINE h == [Head(s) EXCEPT !.left = @ - 1]
    <2>1. Leave(s) = << h >> \o Tail(s) \/ Leave(s) = Tail(s)
      BY DEF Leave
    <2> HIDE DEF h
    <2> QED BY <1>1, <1>2, <2>1
  <1>4. ASSUME NEW id, NEW count PROVE Enter(s, id, count) # <<>> /\ \E T : Enter(s, id, count) \in Seq(T)
    <2> DEFINE h == [type |-> FieldOf(s, id).type, path |-> Tag(s, id), left |-> count]
    <2>1. Enter(s, id, count) = << h >> \o s \/ Enter(s, id, count) = s
      BY DEF Enter
    <2> HIDE DEF h
    <2> QED BY <1>1, <2>1
  <1> QED BY <1>3, <1>4

(* Decoding touches neither inputs nor scratch vectors.                     *)
LEMMA ReadPrepared ==
    ASSUME Prepared, Decode \/ Read \/ EndOfTypes
    PROVE  Prepared'
  <1>1. PICK S : stack \in Seq(S)
    BY DEF Prepared, Unread
  <1>2. CASE Decode
    <2>1. stack' = Bottom /\ phase = "compressed" /\ phase' \in {"reading", "failed"}
          /\ UNCHANGED <<call, given, todo, scratch, inputs, tagged, outputs>>
      BY <1>2 DEF Decode
    <2> QED BY <2>1, BottomType, KeepsPrepared
  <1>3. CASE EndOfTypes
    <2>1. phase = "reading" /\ phase' = "read"
          /\ UNCHANGED <<call, given, todo, scratch, inputs, tagged, outputs, stack>>
      BY <1>3 DEF EndOfTypes
    <2> QED BY <1>1, <2>1, KeepsPrepared
  <1>4. CASE Read
    <2>1. phase = "reading" /\ stack # <<>>
          /\ UNCHANGED <<call, given, todo, scratch, inputs, tagged, outputs>>
      BY <1>4 DEF Read, Prepared, Unread
    <2>2. CASE ReadStop
      <3>1. stack' = Leave(stack) /\ phase' = IF stack' = <<>> THEN "read" ELSE phase
        BY <2>2 DEF ReadStop
      <3>2. \E T : stack' \in Seq(T)
        BY <1>1, <2>1, <3>1, AnyStack
      <3> QED BY <2>1, <3>1, <3>2, KeepsPrepared
    <2>3. CASE Fail
      <3>1. phase' = "failed" /\ stack' = stack
        BY <2>3 DEF Fail
      <3> QED BY <1>1, <2>1, <3>1, KeepsPrepared
    <2>4. CASE ReadMessage
      <3>1. Fail \/ (phase' = phase /\ \E id, count : stack' = Enter(stack, id, count))
        BY <2>4 DEF ReadMessage
      <3>2. ASSUME phase' = phase, NEW id, NEW count, stack' = Enter(stack, id, count) PROVE Prepared'
        <4>1. stack' # <<>> /\ \E T : stack' \in Seq(T)
          BY <1>1, <2>1, <3>2, AnyStack
        <4> QED BY <2>1, <3>2, <4>1, KeepsPrepared
      <3> QED BY <2>3, <3>1, <3>2
    <2>5. CASE \E luck \in BOOLEAN : ReadField(luck)
      <3>1. Fail \/ (phase' = phase /\ stack' = stack)
        BY <2>5 DEF ReadField
      <3> QED BY <1>1, <2>1, <2>3, <3>1, KeepsPrepared
    <2> QED BY <1>4, <2>2, <2>3, <2>4, <2>5 DEF Read, UnknownField
  <1> QED BY <1>2, <1>3, <1>4

(* One case per action.                                                     *)
LEMMA StepPrepared ==
    ASSUME Prepared, [Next]_vars
    PROVE  Prepared'
  <1>1. CASE compressStructuredNative \/ compressStructuredSampleNative
    <2>1. PICK o \in {"pinned", "sample"}, m \in Given : Begin(o, << m >>)
      BY <1>1 DEF compressStructuredNative, compressStructuredSampleNative, Given
    <2>2. << m >> \in Seq(Given) /\ Len(<< m >>) = 1
      OBVIOUS
    <2> DEFINE batch == << m >>
    <2>3. batch \in Seq(Given) /\ Len(batch) <= Batch /\ Begin(o, batch)
      BY <2>1, <2>2, BatchAssumption
    <2> HIDE DEF batch
    <2> QED BY <2>3, BeginPrepared
  <1>2. CASE trainStructuredNative
    <2>1. PICK batch \in [1..Batch -> Given] : Begin("sample", batch)
      BY <1>2 DEF trainStructuredNative, Given
    <2>2. batch \in Seq(Given) /\ Len(batch) = Batch
      BY BatchAssumption
    <2> QED BY <2>1, <2>2, BatchAssumption, BeginPrepared
  <1>3. CASE Build
    BY <1>3, BuildPrepared
  <1>4. CASE Train \/ EngineFails \/ Return
    BY <1>4, ForgetPrepared DEF Train, EngineFails, Return
  <1>5. CASE Compress
    BY <1>5, CompressPrepared
  <1>6. CASE Decode \/ Read \/ EndOfTypes
    BY <1>6, ReadPrepared
  <1>7. CASE UNCHANGED vars
    <2>1. UNCHANGED <<phase, call, given, todo, scratch, inputs, tagged, outputs, frame, stack, decoded>>
      BY <1>7 DEF vars
    <2>2. Phases' /\ Scratches' /\ Samples' /\ Built' /\ Young' /\ Intact' /\ Unread'
      BY <2>1 DEF Prepared, Phases, Scratches, Samples, Built, Young, Intact, Unread
    <2>3. Compressed'
      BY <2>1 DEF Prepared, Compressed
    <2> QED BY <2>2, <2>3 DEF Prepared
  <1> QED BY <1>1, <1>2, <1>3, <1>4, <1>5, <1>6, <1>7 DEF Next, Work

LEMMA PreparedHolds == Spec => []Prepared
  BY InitPrepared, StepPrepared, PTL DEF Spec

-----------------------------------------------------------------------------
(* Calls, scratch vectors and inputs keep their shape, and no scratch vector *)
(* holds more than its capacity (buildStructuredInputs).                    *)
THEOREM Typing == Spec => []TypeOK
  <1>1. Prepared => TypeOK
    <2> SUFFICES ASSUME Prepared PROVE TypeOK
      OBVIOUS
    <2>1. \A o \in DOMAIN scratch, c \in Controls : scratch[o][c] \in ScratchType
      BY DEF Prepared, Scratches
    <2>2. \A o \in DOMAIN scratch, c \in Controls :
            scratch[o][c].epoch \in 0..Batch /\ Len(scratch[o][c].words) <= scratch[o][c].capacity
      BY <2>1 DEF ScratchType
    <2> QED BY <2>2 DEF Prepared, Phases, Samples, Unread, TypeOK
  <1> QED BY <1>1, PreparedHolds, PTL

(* Every stream given to the engine, of a message of any schema, has a       *)
(* cluster of its own type in the compressor built for the message type.    *)
THEOREM Clustered == Spec => []StreamsHaveClusters
  <1>1. Prepared => StreamsHaveClusters
    <2> SUFFICES ASSUME Prepared, NEW i \in DOMAIN inputs, NEW k \in DOMAIN inputs[i]
                 PROVE  << inputs[i][k].tag, inputs[i][k].kind >> \in createStructuredCompressorForType
      BY DEF StreamsHaveClusters
    <2> DEFINE v == inputs[i][k]
    <2>1. inputs \in Seq(Seq(RefType \cup StreamType))
      BY DEF Prepared, Built
    <2>2. i \in 1..Len(inputs)
      BY <2>1, LenProperties
    <2>3. inputs[i] \in Seq(RefType \cup StreamType)
      BY <2>1, <2>2, ElementOfSeq
    <2>4. k \in 1..Len(inputs[i])
      BY <2>3, LenProperties
    <2>5. v \in RefType \cup StreamType
      BY <2>3, <2>4, ElementOfSeq
    <2> HIDE DEF v
    <2>6. << v.tag, v.kind >> \in createStructuredCompressorForType
      <3>1. CASE v \in StreamType
        BY <3>1 DEF StreamType, Clusters, createStructuredCompressorForType
      <3>2. CASE v \in RefType
        BY <3>2 DEF RefType, createStructuredCompressorForType
      <3> QED BY <2>5, <3>1, <3>2
    <2> QED BY <2>6 DEF v
  <1> QED BY <1>1, PreparedHolds, PTL

(* However many samples a call builds, the engine reads the values of all of *)
(* them and the control streams of the last one as they were written,       *)
(* although the three scratch vectors are refilled for every sample.        *)
THEOREM LastIntact == Spec => []LastSampleIntact
  <1>1. Prepared => LastSampleIntact
    <2> SUFFICES ASSUME Prepared, phase = "building", inputs # <<>> PROVE LastSampleIntact
      BY DEF LastSampleIntact
    <2>1. inputs \in Seq(Seq(RefType \cup StreamType)) /\ Len(inputs) \in Nat /\ DOMAIN inputs = 1..Len(inputs)
      BY LenProperties DEF Prepared, Built
    <2>2. Len(inputs) \in 1..Len(inputs)
      <3>1. Len(inputs) # 0
        BY <2>1, EmptySeq
      <3> QED BY <2>1, <3>1
    <2>3. Seen(Len(inputs)) = Exact(given[Len(inputs)])
      BY <2>2, SeenFacts
    <2>4. ASSUME NEW i \in DOMAIN inputs PROVE SubSeq(Seen(i), 4, Len(inputs[i])) = Streams[given[i]].values
      <3> DEFINE x == Seen(i)
                 vals == Streams[given[i]].values
      <3>1. /\ given[i] \in Messages /\ Len(inputs[i]) = 3 + Len(vals)
            /\ DOMAIN x = 1..(3 + Len(vals))
            /\ \A k \in 1..Len(vals) : x[3 + k] = vals[k]
        BY <2>1, SeenFacts
      <3>2. x = [k \in DOMAIN x |-> x[k]]
        <4>1. x = [k \in DOMAIN inputs[i] |-> Deref(inputs[i][k])]
          BY DEF Seen
        <4> HIDE DEF x
        <4> QED BY <4>1
      <3>3. vals \in Seq(StreamType) /\ Len(vals) \in Nat
        BY <3>1, StreamsFacts, ExactFacts
      <3> HIDE DEF x, vals
      <3>4. SubSeq(x, 4, 3 + Len(vals)) = vals
        BY <3>1, <3>2, <3>3, LastPart
      <3> QED BY <3>1, <3>4 DEF x, vals
    <2> QED BY <2>3, <2>4 DEF LastSampleIntact
  <1> QED BY <1>1, PreparedHolds, PTL

-----------------------------------------------------------------------------
(* The second half of the invariant: what the reader has left to read.  It   *)
(* is the writer after as many tokens, and what is left of every stream is  *)
(* what the writer wrote to it later.                                       *)

Done(w, m, i) == IF i <= Len(w.values) THEN w.values[i]
                 ELSE Stream(Streams[m].values[i].tag, Streams[m].values[i].kind)
Cursor(out, done, v) ==
    /\ out = [tag |-> out.tag, string |-> v.kind = String, words |-> out.words,
              lens |-> out.lens, origin |-> v.tag]
    /\ out.words \in Seq(Nat) /\ done.words \o out.words = v.words
    /\ out.lens \in Seq(Nat) /\ done.lens \o out.lens = v.lens
ControlsLeft(f, w, m) ==
    /\ f.control \in [Controls -> Seq(Nat)]
    /\ \A c \in Controls : w.control[c] \o f.control[c] = Streams[m].control[c]
Opened(w, m, kept) == 1..(IF kept THEN Len(Streams[m].values) ELSE Len(w.values))
CursorsLeft(f, w, m, kept, order) ==
    /\ f.values = [t \in { Streams[m].values[i].tag : i \in Opened(w, m, kept) } |-> f.values[t]]
    /\ \A i \in Opened(w, m, kept) :
         Cursor(f.values[Streams[m].values[i].tag], Done(w, m, i), Streams[m].values[i])
    /\ f.ordered = IF kept THEN {} ELSE { j \in DOMAIN order : order[j] > 3 + Len(w.values) }
FrameLeft(f, w, m, kept, order) ==
    /\ f = [control |-> f.control, values |-> f.values, ordered |-> f.ordered]
    /\ ControlsLeft(f, w, m) /\ CursorsLeft(f, w, m, kept, order)
ReadSoFar(m) ==
    /\ decoded \in Seq(Tokens) /\ Len(decoded) <= Len(m)
    /\ \A k \in 1..Len(decoded) : decoded[k] = m[k]
    /\ stack = Written(m)[Len(decoded)].stack
    /\ phase = "read" => Len(decoded) = Len(m)
Reading ==
    phase \in {"reading", "read", "failed"} /\ ~ Ambiguous =>
        /\ phase # "failed" /\ ReadSoFar(given[1])
        /\ \E order : /\ Returned(tagged, outputs, order, given[1])
                      /\ FrameLeft(frame, Written(given[1])[Len(decoded)], given[1], tagged, order)

(* The outputs are the streams of the message, each of them once.           *)
ControlOutput(kept, m, c) ==
    [tag |-> IF kept THEN ControlTag(c) ELSE NoTag, string |-> FALSE,
     words |-> Copied(m, c), lens |-> <<>>, origin |-> ControlTag(c)]
ValueOutput(kept, v) ==
    [tag |-> IF kept THEN v.tag ELSE NoTag, string |-> v.kind = String,
     words |-> v.words, lens |-> v.lens, origin |-> v.tag]
Shuffled(kept, outs, order, m, n) ==
    /\ DOMAIN order = 1..n /\ DOMAIN outs = 1..n
    /\ \A k \in 1..n : \E j \in 1..n : order[j] = k
    /\ \A i, j \in 1..n : order[i] \in 1..n /\ (order[i] = order[j] => i = j)
    /\ \A j \in 1..n, c \in Controls : order[j] = c => outs[j] = ControlOutput(kept, m, c)
    /\ \A j \in 1..n, i \in 1..Len(Streams[m].values) :
         order[j] = 3 + i => outs[j] = ValueOutput(kept, Streams[m].values[i])

(* The engine returns every stream of the message once.                     *)
LEMMA OutputFacts ==
    ASSUME NEW m \in Messages, NEW kept \in BOOLEAN, NEW outs, NEW order, Returned(kept, outs, order, m)
    PROVE  Shuffled(kept, outs, order, m, 3 + Len(Streams[m].values))
  <1> DEFINE n == 3 + Len(Streams[m].values)
             e == Exact(m)
  <1>1. Len(Streams[m].values) \in Nat
    BY ExactFacts
  <1>2. IsOrder(order, n)
    BY DEF Returned
  <1>3. /\ DOMAIN order = 1..n
        /\ \A k \in 1..n : \E j \in 1..n : order[j] = k
        /\ \A i, j \in 1..n : order[i] \in 1..n /\ (order[i] = order[j] => i = j)
    BY <1>2 DEF IsOrder
  <1>4. outs = [i \in DOMAIN order |->
                 [tag    |-> IF kept THEN e[order[i]].tag ELSE NoTag,
                  string |-> e[order[i]].kind = String,
                  words  |-> e[order[i]].words,
                  lens   |-> e[order[i]].lens,
                  origin |-> e[order[i]].tag]]
    BY DEF Returned
  <1>5. \A c \in Controls : e[c] = [tag |-> ControlTag(c), kind |-> Int32, lens |-> <<>>, words |-> Copied(m, c)]
    BY ExactFacts
  <1>6. \A k \in 1..Len(Streams[m].values) : e[3 + k] = Streams[m].values[k]
    BY ExactFacts
  <1> HIDE DEF n, e
  <1>7. DOMAIN outs = 1..n
    BY <1>3, <1>4
  <1>8. \A j \in 1..n :
           outs[j] = [tag    |-> IF kept THEN e[order[j]].tag ELSE NoTag,
                      string |-> e[order[j]].kind = String,
                      words  |-> e[order[j]].words,
                      lens   |-> e[order[j]].lens,
                      origin |-> e[order[j]].tag]
    BY <1>3, <1>4
  <1>9. ASSUME NEW j \in 1..n, NEW c \in Controls, order[j] = c
        PROVE  outs[j] = ControlOutput(kept, m, c)
    <2>1. /\ e[order[j]].tag = ControlTag(c) /\ (e[order[j]].kind = String) = FALSE
          /\ e[order[j]].words = Copied(m, c) /\ e[order[j]].lens = <<>>
      <3>1. e[order[j]] = [tag |-> ControlTag(c), kind |-> Int32, lens |-> <<>>, words |-> Copied(m, c)]
        BY <1>5, <1>9
      <3>2. (Int32 = String) = FALSE
        BY DEF Int32, String
      <3> QED BY <3>1, <3>2
    <2> QED BY <1>8, <2>1, Zenon DEF ControlOutput
  <1>10. ASSUME NEW j \in 1..n, NEW i \in 1..Len(Streams[m].values), order[j] = 3 + i
         PROVE  outs[j] = ValueOutput(kept, Streams[m].values[i])
    <2>1. e[order[j]] = Streams[m].values[i]
      BY <1>6, <1>10, Zenon
    <2> QED BY <1>8, <2>1, Zenon DEF ValueOutput
  <1> QED BY <1>3, <1>7, <1>9, <1>10, Zenon DEF n, Shuffled

(* Without ambiguity, an output is a control stream exactly when it is the   *)
(* control stream the message was written with.                             *)
Clear(kept, outs) ==
    \A i \in DOMAIN outs : ~ (~ kept /\ outs[i].origin[1] > 0 /\ LooksLikeControl(outs[i]))

(* With tags or without, and unless it is ambiguous, decodeStructuredFrame  *)
(* tells control streams from value streams.                                *)
LEMMA ControlOutputs ==
    ASSUME NEW m \in Messages, NEW kept \in BOOLEAN, NEW outs, NEW order, Returned(kept, outs, order, m),
           Clear(kept, outs), NEW j \in DOMAIN outs
    PROVE  /\ order[j] \in Controls =>
                /\ \A c \in Controls : IsControl(outs[j], c) <=> order[j] = c
                /\ outs[j].words[1] = Magic
                /\ LooksLikeControl(outs[j]) => outs[j].words[2] \in Controls
                /\ ~ kept => outs[j].tag = NoTag /\ LooksLikeControl(outs[j])
           /\ order[j] \notin Controls =>
                /\ \A c \in Controls : ~ IsControl(outs[j], c) /\ outs[j].tag # ControlTag(c)
                /\ ~ LooksLikeControl(outs[j])
                /\ order[j] > 3 /\ order[j] - 3 \in 1..Len(Streams[m].values)
  <1>1. \A b, c \in Controls : ControlTag(b) = ControlTag(c) => b = c
    BY DEF ControlTag, Controls
  <1>2. \A c \in Controls : ControlTag(c) # NoTag
    BY DEF ControlTag, NoTag
  <1> DEFINE n == Len(Streams[m].values)
  <1>3. Shuffled(kept, outs, order, m, 3 + n) /\ n \in Nat
    BY OutputFacts, ExactFacts
  <1> HIDE DEF n
  <1>10. j \in 1..(3 + n) /\ order[j] \in 1..(3 + n)
    BY <1>3 DEF Shuffled
  <1>4. ASSUME NEW b \in Controls, order[j] = b
        PROVE  /\ \A c \in Controls : IsControl(outs[j], c) <=> b = c
               /\ outs[j].words[1] = Magic
               /\ LooksLikeControl(outs[j]) => outs[j].words[2] \in Controls
               /\ ~ kept => outs[j].tag = NoTag /\ LooksLikeControl(outs[j])
    <2>1. outs[j] = ControlOutput(kept, m, b)
      BY <1>3, <1>4, <1>10 DEF Shuffled
    <2>2. outs[j].words = Copied(m, b) /\ outs[j].tag = IF kept THEN ControlTag(b) ELSE NoTag
      BY <2>1 DEF ControlOutput
    <2>3. Len(Copied(m, b)) >= 2
      BY CopiedType
    <2>4. Copied(m, b)[1] = Magic /\ Copied(m, b)[2] = b
      <3> DEFINE x == Streams[m].control[b]
      <3>1. x \in Seq(Nat) /\ Copied(m, b) = << Magic, b >> \o x
        BY StreamsFacts DEF Copied
      <3> HIDE DEF x
      <3> QED BY <3>1 DEF Magic, Controls
    <2> QED BY <1>1, <1>2, <2>2, <2>3, <2>4 DEF LooksLikeControl, IsControl
  <1>5. ASSUME order[j] \notin Controls
        PROVE  /\ \A c \in Controls : ~ IsControl(outs[j], c) /\ outs[j].tag # ControlTag(c)
               /\ ~ LooksLikeControl(outs[j])
               /\ order[j] > 3 /\ order[j] - 3 \in 1..Len(Streams[m].values)
    <2> DEFINE i == order[j] - 3
               v == Streams[m].values[i]
    <2>1. i \in 1..n /\ order[j] = 3 + i /\ order[j] > 3
      BY <1>3, <1>5, <1>10 DEF Controls
    <2>2. v \in StreamType
      <3>1. Streams[m].values \in Seq(StreamType)
        BY StreamsFacts
      <3> HIDE DEF i
      <3> QED BY <2>1, <3>1, ElementOfSeq DEF n
    <2>3. /\ v.tag # NoTag /\ v.tag[1] > 0
          /\ \A c \in Controls : v.tag # ControlTag(c)
      BY <2>2, TagNotControl DEF NoTag
    <2>4. outs[j] = ValueOutput(kept, v)
      <3> HIDE DEF i
      <3> QED BY <1>3, <1>10, <2>1 DEF Shuffled, n
    <2> HIDE DEF v
    <2>5. outs[j].tag = (IF kept THEN v.tag ELSE NoTag) /\ outs[j].origin = v.tag
      BY <2>4 DEF ValueOutput
    <2>6. ~ LooksLikeControl(outs[j])
      <3>1. CASE kept
        BY <2>3, <2>5, <3>1 DEF LooksLikeControl
      <3>2. CASE ~ kept
        BY <2>3, <2>5, <3>2 DEF Clear
      <3> QED BY <3>1, <3>2
    <2> QED BY <1>2, <2>1, <2>3, <2>5, <2>6 DEF IsControl, n
  <1> QED BY <1>4, <1>5

(* What the engine returned for a stream is the whole stream.               *)
LEMMA FreshCursor ==
    ASSUME NEW kept, NEW v \in StreamType
    PROVE  Cursor(ValueOutput(kept, v), Stream(v.tag, v.kind), v)
  <1> DEFINE out == ValueOutput(kept, v)
             done == Stream(v.tag, v.kind)
  <1>1. v.words \in Seq(Nat) /\ v.lens \in Seq(Nat)
    BY DEF StreamType
  <1>2. /\ out = [tag |-> out.tag, string |-> out.string, words |-> out.words,
                  lens |-> out.lens, origin |-> out.origin]
        /\ out.words = v.words /\ out.lens = v.lens /\ out.origin = v.tag
        /\ out.string = (v.kind = String)
    BY DEF ValueOutput
  <1>3. done.words = <<>> /\ done.lens = <<>>
    BY DEF Stream
  <1> HIDE DEF out, done
  <1>4. \A x \in Seq(Nat) : <<>> \o x = x
    BY ConcatEmptySeq
  <1>5. done.words \o out.words = v.words /\ done.lens \o out.lens = v.lens
    BY <1>1, <1>2, <1>3, <1>4
  <1>6. Cursor(out, done, v)
    BY <1>1, <1>2, <1>5, Zenon DEF Cursor
  <1> QED BY <1>6 DEF out, done

(* A clear frame decodes, and everything is left to read then.              *)
LEMMA DecodeFacts ==
    ASSUME NEW m \in Messages, NEW kept \in BOOLEAN, NEW outs, NEW order, Returned(kept, outs, order, m),
           Clear(kept, outs), NEW f, f = decodeStructuredFrame(outs)
    PROVE  /\ ~ f.error
           /\ FrameLeft([control |-> f.control, values |-> f.values, ordered |-> f.ordered],
                        Written(m)[0], m, kept, order)
  <1> DEFINE found(c) == { i \in DOMAIN outs : IsControl(outs[i], c) }
             tags     == { outs[i].tag : i \in DOMAIN outs } \ ({NoTag} \cup { ControlTag(c) : c \in Controls })
             Body(words) == SubSeq(words, 3, Len(words))
             V == Streams[m].values
             w == Written(m)[0]
             n == Len(V)
             control == [c \in Controls |-> IF found(c) = {} THEN <<>> ELSE Body(outs[Max(found(c))].words)]
             values  == [t \in tags |-> outs[Min({ i \in DOMAIN outs : outs[i].tag = t })]]
             ordered == { i \in DOMAIN outs : outs[i].tag = NoTag /\ ~ LooksLikeControl(outs[i]) }
             error   == \/ \E c \in Controls : found(c) = {}
                        \/ \E i \in DOMAIN outs : LooksLikeControl(outs[i]) /\ outs[i].words[2] \notin Controls
                        \/ \E i \in DOMAIN outs, c \in Controls :
                             outs[i].tag = ControlTag(c) /\ outs[i].words[1] # Magic
  <1>1. f.control = control /\ f.values = values /\ f.ordered = ordered /\ f.error = error
    <2>1. decodeStructuredFrame(outs) = [control |-> control, values |-> values, ordered |-> ordered, error |-> error]
      BY Zenon DEF decodeStructuredFrame
    <2> HIDE DEF control, values, ordered, error
    <2> QED BY <2>1
  <1>2. Shuffled(kept, outs, order, m, 3 + n) /\ n \in Nat
    BY OutputFacts, ExactFacts
  <1>3. V \in Seq(StreamType) /\ \A i \in 1..n : V[i] \in StreamType
    <2>1. V \in Seq(StreamType)
      BY StreamsFacts
    <2> HIDE DEF V
    <2> QED BY <2>1, ElementOfSeq
  <1>4. w.values = <<>> /\ Len(w.values) = 0 /\ \A c \in Controls : w.control[c] = <<>>
    BY WrittenFacts, EmptySeq
  <1> HIDE DEF V, n, w
  <1>5. ASSUME NEW c \in Controls
        PROVE  \E j \in 1..(3 + n) : found(c) = {j} /\ outs[j].words = Copied(m, c)
    <2>1. c \in 1..(3 + n)
      BY <1>2 DEF Controls
    <2>2. PICK j \in 1..(3 + n) : order[j] = c
      BY <1>2, <2>1 DEF Shuffled
    <2>3. outs[j].words = Copied(m, c)
      BY <1>2, <2>2 DEF Shuffled, ControlOutput
    <2>4. \A i \in 1..(3 + n) : IsControl(outs[i], c) <=> order[i] = c
      <3> TAKE i \in 1..(3 + n)
      <3>1. i \in DOMAIN outs
        BY <1>2 DEF Shuffled
      <3> QED BY <3>1, ControlOutputs
    <2>5. \A i \in 1..(3 + n) : order[i] = c => i = j
      BY <1>2, <2>2 DEF Shuffled
    <2>6. DOMAIN outs = 1..(3 + n)
      BY <1>2 DEF Shuffled
    <2> QED BY <2>2, <2>3, <2>4, <2>5, <2>6
  <1>6. ASSUME NEW c \in Controls PROVE control[c] = Streams[m].control[c]
    <2>1. PICK j \in 1..(3 + n) : found(c) = {j} /\ outs[j].words = Copied(m, c)
      BY <1>5
    <2>2. Max({j}) = j
      BY <1>2, MaxOfTwo DEF Max
    <2>3. control[c] = Body(outs[j].words)
      <3> HIDE DEF found, Body
      <3>1. found(c) # {} /\ Max(found(c)) = j
        BY <2>1, <2>2
      <3>2. control[c] = IF found(c) = {} THEN <<>> ELSE Body(outs[Max(found(c))].words)
        OBVIOUS
      <3> HIDE DEF control
      <3> QED BY <3>1, <3>2
    <2>4. SubSeq(Copied(m, c), 3, Len(Copied(m, c))) = Streams[m].control[c]
      <3> DEFINE x == Streams[m].control[c]
                 head == << Magic, c >>
      <3>1. x \in Seq(Nat) /\ Copied(m, c) = head \o x
        BY StreamsFacts DEF Copied
      <3>2. head \in Seq(Nat) /\ Len(head) = 2
        BY DEF Magic, Controls
      <3> HIDE DEF x, head
      <3>3. SubSeq(head \o x, 3, Len(head \o x)) = x
        <4>1. SubSeq(head \o x, Len(head) + 1, Len(head \o x)) = x
          BY <3>1, <3>2, Parts
        <4>2. Len(head) + 1 = 3
          BY <3>2
        <4> QED BY <4>1, <4>2
      <3> QED BY <3>1, <3>3 DEF x
    <2> QED BY <2>1, <2>3, <2>4
  <1>7. ~ error
    <2>1. \A c \in Controls : found(c) # {}
      BY <1>5
    <2>2. \A i \in DOMAIN outs : LooksLikeControl(outs[i]) => outs[i].words[2] \in Controls
      BY ControlOutputs
    <2>3. ASSUME NEW i \in DOMAIN outs, NEW c \in Controls, outs[i].tag = ControlTag(c)
          PROVE  outs[i].words[1] = Magic
      BY <2>3, ControlOutputs
    <2> HIDE DEF found
    <2> QED BY <2>1, <2>2, <2>3
  <1>8. /\ ordered = IF kept THEN {} ELSE { j \in DOMAIN order : order[j] > 3 + 0 }
    <2>1. DOMAIN outs = 1..(3 + n) /\ DOMAIN order = 1..(3 + n)
      BY <1>2 DEF Shuffled
    <2>2. ASSUME NEW j \in 1..(3 + n)
          PROVE  outs[j].tag = NoTag /\ ~ LooksLikeControl(outs[j]) <=> ~ kept /\ order[j] > 3
      <3>1. j \in DOMAIN outs /\ order[j] \in 1..(3 + n)
        BY <1>2, <2>1 DEF Shuffled
      <3>2. CASE order[j] \in Controls
        <4>1. outs[j].tag = IF kept THEN ControlTag(order[j]) ELSE NoTag
          <5>1. outs[j] = ControlOutput(kept, m, order[j])
            BY <1>2, <3>2 DEF Shuffled
          <5> QED BY <5>1 DEF ControlOutput
        <4>2. ControlTag(order[j]) # NoTag
          BY DEF ControlTag, NoTag
        <4>3. order[j] <= 3
          BY <3>2 DEF Controls
        <4>4. ~ kept => LooksLikeControl(outs[j])
          BY <3>1, <3>2, ControlOutputs
        <4>5. CASE kept
          BY <4>1, <4>2, <4>5
        <4>6. CASE ~ kept
          BY <3>1, <4>3, <4>4, <4>6
        <4> QED BY <4>5, <4>6
      <3>3. CASE order[j] \notin Controls
        <4>1. ~ LooksLikeControl(outs[j]) /\ order[j] > 3 /\ order[j] - 3 \in 1..n
          BY <3>1, <3>3, ControlOutputs DEF n, V
        <4>2. outs[j] = ValueOutput(kept, V[order[j] - 3])
          <5>1. order[j] = 3 + (order[j] - 3)
            BY <3>1
          <5> QED BY <1>2, <4>1, <5>1 DEF Shuffled, n, V
        <4>3. V[order[j] - 3].tag # NoTag
          BY <1>3, <4>1, TagNotControl DEF NoTag
        <4>4. outs[j].tag = IF kept THEN V[order[j] - 3].tag ELSE NoTag
          BY <4>2 DEF ValueOutput
        <4>5. CASE kept
          BY <4>3, <4>4, <4>5
        <4>6. CASE ~ kept
          BY <4>1, <4>4, <4>6
        <4> QED BY <4>5, <4>6
      <3> QED BY <3>2, <3>3
    <2> QED BY <2>1, <2>2
  <1>9. /\ tags = { V[i].tag : i \in Opened(w, m, kept) }
        /\ Opened(w, m, kept) = IF kept THEN 1..n ELSE {}
    <2>1. Opened(w, m, kept) = IF kept THEN 1..n ELSE {}
      <3>1. 1..0 = {}
        OBVIOUS
      <3> QED BY <1>4, <3>1 DEF Opened, n, V
    <2>2. ASSUME NEW t \in tags PROVE kept /\ \E i \in 1..n : t = V[i].tag
      <3>1. PICK j \in DOMAIN outs : t = outs[j].tag
        OBVIOUS
      <3>2. t # NoTag /\ \A c \in Controls : t # ControlTag(c)
        OBVIOUS
      <3> HIDE DEF tags
      <3>3. order[j] \notin Controls
        <4> SUFFICES ASSUME order[j] \in Controls PROVE FALSE
          OBVIOUS
        <4>1. outs[j] = ControlOutput(kept, m, order[j])
          BY <1>2 DEF Shuffled
        <4>2. outs[j].tag = IF kept THEN ControlTag(order[j]) ELSE NoTag
          BY <4>1 DEF ControlOutput
        <4> QED BY <3>1, <3>2, <4>2
      <3>4. order[j] - 3 \in 1..n /\ order[j] \in 1..(3 + n)
        <4>1. order[j] - 3 \in 1..n
          BY <3>3, ControlOutputs DEF n, V
        <4>2. order[j] \in 1..(3 + n)
          BY <1>2 DEF Shuffled
        <4> QED BY <4>1, <4>2
      <3>5. outs[j] = ValueOutput(kept, V[order[j] - 3])
        <4>1. order[j] = 3 + (order[j] - 3)
          BY <3>4
        <4> QED BY <1>2, <3>4, <4>1 DEF Shuffled, n, V
      <3> QED BY <3>1, <3>2, <3>4, <3>5 DEF ValueOutput
    <2>3. ASSUME kept, NEW i \in 1..n PROVE V[i].tag \in tags
      <3>1. 3 + i \in 1..(3 + n)
        BY <1>2
      <3>2. PICK j \in 1..(3 + n) : order[j] = 3 + i
        BY <1>2, <3>1 DEF Shuffled
      <3>3. outs[j] = ValueOutput(kept, V[i]) /\ j \in DOMAIN outs
        BY <1>2, <3>2 DEF Shuffled, n, V
      <3>4. outs[j].tag = V[i].tag
        BY <2>3, <3>3 DEF ValueOutput
      <3>5. V[i].tag # NoTag /\ \A c \in Controls : V[i].tag # ControlTag(c)
        BY <1>3, TagNotControl DEF NoTag
      <3> QED BY <3>3, <3>4, <3>5
    <2> HIDE DEF tags
    <2> QED BY <2>1, <2>2, <2>3
  <1>10. ASSUME kept, NEW i \in 1..n
         PROVE  Cursor(values[V[i].tag], Done(w, m, i), V[i])
    <2> DEFINE t == V[i].tag
               all == { j \in DOMAIN outs : outs[j].tag = t }
               j == Min(all)
    <2>1. t \in tags
      <3> HIDE DEF tags
      <3> QED BY <1>9, <1>10
    <2>2. values[t] = outs[j]
      BY <2>1
    <2>3. j \in all
      <3>1. all \subseteq Nat
        BY <1>2 DEF Shuffled
      <3>2. all # {}
        BY <2>1
      <3> HIDE DEF all
      <3> QED BY <3>1, <3>2, MinOfNaturals
    <2> HIDE DEF values, tags
    <2>4. j \in DOMAIN outs /\ outs[j].tag = t /\ j \in 1..(3 + n)
      BY <1>2, <2>3 DEF Shuffled
    <2> HIDE DEF j, all
    <2>5. V[i] \in StreamType /\ t = V[i].tag
      BY <1>3
    <2>6. order[j] \notin Controls
      <3> SUFFICES ASSUME order[j] \in Controls PROVE FALSE
        OBVIOUS
      <3>1. outs[j].tag = ControlTag(order[j])
        <4>1. outs[j] = ControlOutput(kept, m, order[j])
          BY <1>2, <2>4 DEF Shuffled
        <4> HIDE DEF t
        <4>2. ControlOutput(kept, m, order[j]).tag = ControlTag(order[j])
          BY <1>10 DEF ControlOutput
        <4> QED BY <4>1, <4>2, Zenon
      <3> QED BY <2>4, <2>5, <3>1, TagNotControl
    <2>7. order[j] - 3 \in 1..n /\ order[j] \in 1..(3 + n)
      <3>1. order[j] - 3 \in 1..n
        BY <2>4, <2>6, ControlOutputs DEF n, V
      <3>2. order[j] \in 1..(3 + n)
        BY <1>2, <2>4 DEF Shuffled
      <3> QED BY <3>1, <3>2
    <2>8. outs[j] = ValueOutput(kept, V[order[j] - 3])
      <3>1. order[j] = 3 + (order[j] - 3)
        BY <2>7
      <3> QED BY <1>2, <2>4, <2>7, <3>1 DEF Shuffled, n, V
    <2>9. V[order[j] - 3].tag = t
      BY <1>10, <2>4, <2>8 DEF ValueOutput
    <2>10. order[j] - 3 = i
      <3>1. Distinct(V)
        BY StreamsFacts DEF V
      <3>2. DOMAIN V = 1..n
        BY <1>3, LenProperties DEF n
      <3> QED BY <2>7, <2>9, <3>1, <3>2 DEF Distinct, n
    <2>11. values[t] = ValueOutput(kept, V[i])
      BY <2>2, <2>8, <2>10
    <2>12. Done(w, m, i) = Stream(V[i].tag, V[i].kind)
      <3>1. ~ i <= 0
        BY <1>2
      <3> QED BY <1>4, <3>1 DEF Done, V
    <2> QED BY <2>5, <2>11, <2>12, FreshCursor
  <1> DEFINE g == [control |-> f.control, values |-> f.values, ordered |-> f.ordered]
  <1>11. g.control = control /\ g.values = values /\ g.ordered = ordered
    BY <1>1
  <1>12. ControlsLeft(g, w, m)
    <2>1. \A c \in Controls : control[c] \in Seq(Nat) /\ <<>> \o control[c] = control[c]
      <3> TAKE c \in Controls
      <3> DEFINE x == Streams[m].control[c]
      <3>1. x \in Seq(Nat)
        BY StreamsFacts
      <3> HIDE DEF x
      <3>2. <<>> \o x = x
        BY <3>1, ConcatEmptySeq
      <3> QED BY <1>6, <3>1, <3>2 DEF x
    <2>2. control = [c \in Controls |-> control[c]]
      OBVIOUS
    <2> HIDE DEF control, g
    <2>3. control \in [Controls -> Seq(Nat)]
      BY <2>1, <2>2
    <2> QED BY <1>4, <1>6, <1>11, <2>1, <2>3 DEF ControlsLeft
  <1>13. CursorsLeft(g, w, m, kept, order)
    <2>1. values = [t \in tags |-> values[t]]
      OBVIOUS
    <2> HIDE DEF values, tags, ordered, g
    <2>2. g.values = [t \in { V[i].tag : i \in Opened(w, m, kept) } |-> g.values[t]]
      BY <1>9, <1>11, <2>1
    <2>3. \A i \in Opened(w, m, kept) : Cursor(g.values[V[i].tag], Done(w, m, i), V[i])
      BY <1>9, <1>10, <1>11
    <2>4. g.ordered = IF kept THEN {} ELSE { j \in DOMAIN order : order[j] > 3 + Len(w.values) }
      BY <1>4, <1>8, <1>11
    <2> QED BY <2>2, <2>3, <2>4 DEF CursorsLeft, V
  <1>14. FrameLeft(g, w, m, kept, order)
    <2>1. g = [control |-> g.control, values |-> g.values, ordered |-> g.ordered]
      BY <1>11
    <2> HIDE DEF g
    <2> QED BY <1>12, <1>13, <2>1 DEF FrameLeft
  <1> QED BY <1>1, <1>7, <1>14 DEF w

(* Reading what was written next leaves what is written after it.           *)
LEMMA LeftOver ==
    \A a, b, x \in Seq(Nat) :
        Begins(a \o b, a \o x) => \E rest \in Seq(Nat) : x = b \o rest /\ (a \o b) \o rest = a \o x
  <1> SUFFICES ASSUME NEW a \in Seq(Nat), NEW b \in Seq(Nat), NEW x \in Seq(Nat),
                      Begins(a \o b, a \o x)
               PROVE  \E rest \in Seq(Nat) : x = b \o rest /\ (a \o b) \o rest = a \o x
    OBVIOUS
  <1>1. PICK rest \in Seq(Nat) : a \o x = (a \o b) \o rest
    BY DEF Begins
  <1>2. \A p, q, y, z \in Seq(Nat) : p \o y = (p \o q) \o z => y = q \o z
    BY CancelSecond
  <1> DEFINE T(p, q, y, z) == p \o y = (p \o q) \o z => y = q \o z
  <1>3. x = b \o rest
    <2>1. \A p, q, y, z \in Seq(Nat) : T(p, q, y, z)
      BY <1>2
    <2> HIDE DEF T
    <2>2. T(a, b, x, rest)
      BY <2>1
    <2> QED BY <1>1, <2>2, Zenon DEF T
  <1> QED BY <1>1, <1>3

(* Taking the first word of a stream.                                       *)
LEMMA FirstWord ==
    ASSUME NEW word \in Nat, NEW rest \in Seq(Nat)
    PROVE  /\ << word >> \o rest \in Seq(Nat) /\ << word >> \o rest # <<>>
           /\ Head(<< word >> \o rest) = word /\ Tail(<< word >> \o rest) = rest
  <1> DEFINE x == << word >> \o rest
  <1>1. << word >> \in Seq(Nat) /\ Len(<< word >>) = 1 /\ << word >>[1] = word
    OBVIOUS
  <1>2. /\ x \in Seq(Nat) /\ Len(x) = 1 + Len(rest) /\ Len(rest) \in Nat /\ x[1] = word
        /\ \A i \in 1..Len(rest) : x[1 + i] = rest[i]
    BY <1>1, ConcatPoints, LenProperties
  <1> HIDE DEF x
  <1>3. x # <<>>
    BY <1>2, EmptySeq
  <1>4. Head(x) = word
    BY <1>2, <1>3
  <1>5. Tail(x) \in Seq(Nat) /\ Len(Tail(x)) = Len(rest) /\ \A i \in 1..Len(rest) : Tail(x)[i] = x[i + 1]
    BY <1>2, <1>3, HeadTailProperties
  <1>6. Tail(x) = rest
    <2>1. \A i \in 1..Len(rest) : Tail(x)[i] = rest[i]
      BY <1>2, <1>5
    <2> QED BY <1>5, <2>1, SeqEqual
  <1> QED BY <1>2, <1>3, <1>4, <1>6 DEF x

(* What is left of the control streams begins with the words of the next     *)
(* token, and a reader that takes just these is level with the writer again. *)
NextWords(f, m, n, c, rest) ==
    /\ f.control[c] = ControlWords(Written(m)[n].stack, m[n + 1], c) \o rest
    /\ Written(m)[n + 1].control[c] \o rest = Streams[m].control[c]

(* A reader that stands where the writer was finds in each control stream   *)
(* what the next token wrote.                                               *)
LEMMA NextControl ==
    ASSUME NEW m \in Messages, NEW n \in 0..(Len(m) - 1), NEW f, ControlsLeft(f, Written(m)[n], m),
           NEW c \in Controls
    PROVE  \E rest \in Seq(Nat) : NextWords(f, m, n, c, rest)
  <1> DEFINE w == Written(m)[n]
             new == Written(m)[n + 1]
             words == ControlWords(w.stack, m[n + 1], c)
  <1>1. Len(m) \in Nat /\ n \in 0..Len(m) /\ n + 1 \in 0..Len(m)
    BY WrittenFacts
  <1>2. w \in WriterType /\ Legal(w.stack, m[n + 1]) /\ new = Write(w, m[n + 1])
    BY <1>1, WrittenFacts
  <1>3. Ahead(new, Streams[m])
    BY <1>1, WrittenFacts, StreamsFacts
  <1>4. w.control[c] \in Seq(Nat) /\ w.stack \in Seq(Calls)
    BY <1>2 DEF WriterType
  <1>5. f.control[c] \in Seq(Nat) /\ w.control[c] \o f.control[c] = Streams[m].control[c]
    BY DEF ControlsLeft
  <1> HIDE DEF w, new
  <1>6. words \in Seq(Nat)
    BY <1>2, <1>4, ControlType
  <1>7. new.control[c] = w.control[c] \o words
    BY <1>2, WriteFacts
  <1>8. Begins(w.control[c] \o words, Streams[m].control[c])
    BY <1>3, <1>7 DEF Ahead
  <1> HIDE DEF words
  <1> DEFINE a == w.control[c]
             x == f.control[c]
             all == Streams[m].control[c]
  <1>10. /\ a \in Seq(Nat) /\ words \in Seq(Nat) /\ x \in Seq(Nat) /\ a \o x = all
         /\ Begins(a \o words, all)
    BY <1>4, <1>5, <1>6, <1>8
  <1>11. \E rest \in Seq(Nat) : x = words \o rest /\ (a \o words) \o rest = all
    <2> HIDE DEF a, x, all
    <2>1. Begins(a \o words, a \o x)
      BY <1>10
    <2>2. \E rest \in Seq(Nat) : x = words \o rest /\ (a \o words) \o rest = a \o x
      BY <1>10, <2>1, LeftOver
    <2> QED BY <1>10, <2>2
  <1>9. \E rest \in Seq(Nat) : f.control[c] = words \o rest
                              /\ (w.control[c] \o words) \o rest = Streams[m].control[c]
    BY <1>11
  <1> QED BY <1>7, <1>9, Zenon DEF w, new, words, NextWords

TookWords(f, m, n, g) ==
    \A c \in Controls : \A rest \in Seq(Nat) :
        f.control[c] = ControlWords(Written(m)[n].stack, m[n + 1], c) \o rest => g.control[c] = rest

(* When it has taken that, it stands where the writer was after the token.  *)
LEMMA ControlStep ==
    ASSUME NEW m \in Messages, NEW n \in 0..(Len(m) - 1), NEW f, ControlsLeft(f, Written(m)[n], m),
           NEW g, g.control = [c \in Controls |-> g.control[c]], TookWords(f, m, n, g)
    PROVE  ControlsLeft(g, Written(m)[n + 1], m)
  <1>1. ASSUME NEW c \in Controls
        PROVE  g.control[c] \in Seq(Nat)
               /\ Written(m)[n + 1].control[c] \o g.control[c] = Streams[m].control[c]
    <2>1. PICK rest \in Seq(Nat) : NextWords(f, m, n, c, rest)
      BY NextControl
    <2>2. f.control[c] = ControlWords(Written(m)[n].stack, m[n + 1], c) \o rest
          /\ Written(m)[n + 1].control[c] \o rest = Streams[m].control[c]
      BY <2>1 DEF NextWords
    <2>3. g.control[c] = rest
      BY <2>2 DEF TookWords
    <2> QED BY <2>2, <2>3
  <1> QED BY <1>1 DEF ControlsLeft


(* Reading the values a token wrote to a stream, from what is left of it.    *)
LEMMA CursorStep ==
    ASSUME NEW v \in StreamType, NEW done \in StreamType, NEW out, Cursor(out, done, v),
           NEW values \in Seq(Seq(Nat)), Grown(Extended(done, values), v),
           NEW next,
           next = [tag |-> out.tag, string |-> out.string,
                   words |-> SubSeq(out.words, Total(Sizes(values)) + 1, Len(out.words)),
                   lens |-> SubSeq(out.lens, Len(values) + 1, Len(out.lens)), origin |-> out.origin]
    PROVE  /\ \A luck \in BOOLEAN : Readable(out, v.kind, Sizes(values), luck)
           /\ Values(out.words, Sizes(values)) = values
           /\ Cursor(next, Extended(done, values), v)
  <1> DEFINE flat == FlattenSeq(values)
             sizes == Sizes(values)
             new == Extended(done, values)
  <1>1. /\ sizes \in Seq(Nat) /\ Len(sizes) = Len(values) /\ flat \in Seq(Nat)
        /\ Len(flat) = Total(sizes) /\ Len(values) \in Nat
        /\ \A rest \in Seq(Nat) : Values(flat \o rest, sizes) = values
    BY FlattenSlices, LenProperties
  <1>2. /\ new.tag = done.tag /\ new.kind = done.kind
        /\ new.words = done.words \o flat
        /\ new.lens = IF done.kind = String THEN done.lens \o sizes ELSE done.lens
    BY ExtendedFacts
  <1>3. /\ done.words \in Seq(Nat) /\ done.lens \in Seq(Nat)
        /\ v.words \in Seq(Nat) /\ v.lens \in Seq(Nat)
        /\ done.kind # String => done.lens = <<>>
        /\ v.kind # String => v.lens = <<>>
    BY DEF StreamType
  <1>4. /\ out.words \in Seq(Nat) /\ done.words \o out.words = v.words
        /\ out.lens \in Seq(Nat) /\ done.lens \o out.lens = v.lens
    BY DEF Cursor
  <1>5. out.string = (v.kind = String) /\ out.origin = v.tag
    <2>1. out = [tag |-> out.tag, string |-> v.kind = String, words |-> out.words,
                 lens |-> out.lens, origin |-> v.tag]
      BY DEF Cursor
    <2> DEFINE isString == v.kind = String
               t == out.tag
               ws == out.words
               ls == out.lens
               o == v.tag
    <2>2. out = [tag |-> t, string |-> isString, words |-> ws, lens |-> ls, origin |-> o]
      BY <2>1
    <2> HIDE DEF isString, t, ws, ls, o
    <2>3. out.string = isString /\ out.origin = o
      BY <2>2
    <2> QED BY <2>3 DEF isString, o
  <1>6. /\ v.kind = done.kind /\ Begins(new.words, v.words) /\ Begins(new.lens, v.lens)
    BY <1>2 DEF Grown
  <1>7. \E rest \in Seq(Nat) : out.words = flat \o rest /\ new.words \o rest = v.words
    <2> DEFINE a == done.words
               x == out.words
    <2>1. a \in Seq(Nat) /\ x \in Seq(Nat) /\ flat \in Seq(Nat) /\ Begins(a \o flat, a \o x)
      BY <1>1, <1>2, <1>3, <1>4, <1>6
    <2>2. \E rest \in Seq(Nat) : x = flat \o rest /\ (a \o flat) \o rest = a \o x
      <3> HIDE DEF a, x, flat
      <3> QED BY <2>1, LeftOver
    <2> HIDE DEF flat
    <2> QED BY <1>2, <1>4, <2>2
  <1>8. ASSUME v.kind = String
        PROVE  \E rest \in Seq(Nat) : out.lens = sizes \o rest /\ new.lens \o rest = v.lens
    <2> DEFINE a == done.lens
               x == out.lens
    <2>0. new.lens = a \o sizes
      BY <1>2, <1>6, <1>8
    <2>1. a \in Seq(Nat) /\ x \in Seq(Nat) /\ sizes \in Seq(Nat) /\ Begins(a \o sizes, a \o x)
      BY <1>1, <1>3, <1>4, <1>6, <2>0
    <2>2. \E rest \in Seq(Nat) : x = sizes \o rest /\ (a \o sizes) \o rest = a \o x
      <3> HIDE DEF a, x, sizes
      <3> QED BY <2>1, LeftOver
    <2> HIDE DEF sizes
    <2> QED BY <1>4, <2>0, <2>2
  <1>9. ASSUME v.kind # String
        PROVE  out.lens = <<>> /\ new.lens = <<>> /\ v.lens = <<>>
    <2>1. done.lens = <<>> /\ v.lens = <<>> /\ new.lens = <<>>
      BY <1>2, <1>3, <1>6, <1>9
    <2>2. <<>> \o out.lens = out.lens
      BY <1>4, ConcatEmptySeq
    <2> QED BY <1>4, <2>1, <2>2
  <1> HIDE DEF flat, sizes, new
  <1>10. PICK rest \in Seq(Nat) : out.words = flat \o rest /\ new.words \o rest = v.words
    BY <1>7
  <1>11. /\ Total(sizes) <= Len(out.words)
         /\ SubSeq(out.words, Total(sizes) + 1, Len(out.words)) = rest
    <2>1. Len(flat \o rest) = Len(flat) + Len(rest) /\ Len(rest) \in Nat /\ Len(flat) \in Nat
      BY <1>1, ConcatProperties, LenProperties
    <2>2. SubSeq(flat \o rest, Len(flat) + 1, Len(flat \o rest)) = rest
      BY <1>1, Parts
    <2>3. Len(flat) <= Len(flat \o rest)
      BY <2>1
    <2> QED BY <1>1, <1>10, <2>2, <2>3
  <1>12. Values(out.words, sizes) = values
    BY <1>1, <1>10
  <1>13. /\ SubSeq(out.lens, Len(values) + 1, Len(out.lens)) \in Seq(Nat)
         /\ new.lens \o SubSeq(out.lens, Len(values) + 1, Len(out.lens)) = v.lens
         /\ v.kind = String => \A i \in DOMAIN sizes : i <= Len(out.lens) /\ out.lens[i] = sizes[i]
    <2>1. CASE v.kind = String
      <3>1. PICK more \in Seq(Nat) : out.lens = sizes \o more /\ new.lens \o more = v.lens
        BY <1>8, <2>1
      <3>2. SubSeq(sizes \o more, Len(sizes) + 1, Len(sizes \o more)) = more
        BY <1>1, Parts
      <3>3. SubSeq(out.lens, Len(values) + 1, Len(out.lens)) = more
        BY <1>1, <3>1, <3>2
      <3>4. Len(sizes \o more) = Len(sizes) + Len(more) /\ Len(more) \in Nat /\ Len(sizes) \in Nat
            /\ DOMAIN sizes = 1..Len(sizes) /\ \A i \in 1..Len(sizes) : (sizes \o more)[i] = sizes[i]
        <4>1. /\ Len(sizes \o more) = Len(sizes) + Len(more)
              /\ \A i \in 1..Len(sizes) : (sizes \o more)[i] = sizes[i]
          BY <1>1, ConcatPoints
        <4> QED BY <1>1, <4>1, LenProperties
      <3>5. \A i \in DOMAIN sizes : i <= Len(sizes \o more) /\ (sizes \o more)[i] = sizes[i]
        BY <3>4
      <3> QED BY <3>1, <3>3, <3>5
    <2>2. CASE v.kind # String
      <3>1. out.lens = <<>> /\ new.lens = <<>> /\ v.lens = <<>> /\ Len(out.lens) = 0
        BY <1>9, <2>2, EmptySeq
      <3>2. SubSeq(out.lens, Len(values) + 1, Len(out.lens)) = <<>>
        BY <1>1, <3>1, SubSeqEmpty
      <3>3. <<>> \o <<>> = <<>> /\ <<>> \in Seq(Nat)
        BY EmptySeq, ConcatEmptySeq
      <3> QED BY <2>2, <3>1, <3>2, <3>3
    <2> QED BY <2>1, <2>2
  <1>14. \A luck \in BOOLEAN : Readable(out, v.kind, sizes, luck)
    BY <1>5, <1>11, <1>13, Zenon DEF Readable
  <1>15. Cursor(next, new, v)
    <2> DEFINE ws == SubSeq(out.words, Total(sizes) + 1, Len(out.words))
               ls == SubSeq(out.lens, Len(values) + 1, Len(out.lens))
               isString == v.kind = String
    <2>1. next = [tag |-> out.tag, string |-> isString, words |-> ws, lens |-> ls, origin |-> v.tag]
      BY <1>5, Zenon DEF sizes
    <2>2. ws \in Seq(Nat) /\ ls \in Seq(Nat) /\ new.words \o ws = v.words /\ new.lens \o ls = v.lens
      BY <1>10, <1>11, <1>13
    <2> HIDE DEF ws, ls, isString
    <2>3. next.tag = out.tag /\ next.words = ws /\ next.lens = ls
      BY <2>1
    <2>4. next = [tag |-> next.tag, string |-> isString, words |-> next.words, lens |-> next.lens,
                  origin |-> v.tag]
      BY <2>1, <2>3
    <2>5. next.words \in Seq(Nat) /\ next.lens \in Seq(Nat) /\ new.words \o next.words = v.words
          /\ new.lens \o next.lens = v.lens
      BY <2>2, <2>3
    <2> QED BY <2>4, <2>5, Zenon DEF Cursor, isString
  <1> QED BY <1>12, <1>14, <1>15 DEF sizes, new


(* The stream a field token is written to, of all the message's streams.     *)
Slot(w, new, m, kept, tag, kind, values, i) ==
    /\ i \in Opened(new, m, kept)
    /\ Streams[m].values[i].tag = tag /\ Streams[m].values[i].kind = kind
    /\ Streams[m].values[i] \in StreamType /\ Done(w, m, i) \in StreamType
    /\ Done(new, m, i) = Extended(Done(w, m, i), values) /\ Grown(Done(new, m, i), Streams[m].values[i])
    /\ \A k \in Opened(new, m, kept) \ {i} :
         /\ k \in Opened(w, m, kept) /\ Done(new, m, k) = Done(w, m, k)
         /\ Streams[m].values[k].tag # tag
    /\ \/ i <= Len(w.values) /\ Len(new.values) = Len(w.values)
       \/ i = Len(w.values) + 1 /\ Len(new.values) = i

(* The values of a field were written to a stream of the message.           *)
LEMMA SlotFacts ==
    ASSUME NEW m \in Messages, NEW n \in 0..(Len(m) - 1), m[n + 1].op = "field", NEW kept \in BOOLEAN
    PROVE  LET w     == Written(m)[n]
               token == m[n + 1]
           IN  \E i \in 1..Len(Streams[m].values) :
                 Slot(w, Written(m)[n + 1], m, kept, Tag(w.stack, token.id),
                      FieldOf(w.stack, token.id).kind, token.values, i)
  <1> DEFINE w      == Written(m)[n]
             new    == Written(m)[n + 1]
             token  == m[n + 1]
             tag    == Tag(w.stack, token.id)
             kind   == FieldOf(w.stack, token.id).kind
             values == token.values
             V      == Streams[m].values
             P      == w.values
             Q      == new.values
             K      == Len(P)
             L      == Len(Q)
  <1>1. Len(m) \in Nat /\ n \in 0..Len(m) /\ n + 1 \in 0..Len(m)
    BY WrittenFacts
  <1>2. w \in WriterType /\ Legal(w.stack, token) /\ new = Write(w, token) /\ Ahead(new, Streams[m])
    BY <1>1, WrittenFacts, StreamsFacts
  <1>3. V \in Seq(StreamType) /\ Distinct(V) /\ Len(V) \in Nat /\ DOMAIN V = 1..Len(V)
        /\ \A k \in 1..Len(V) : V[k] \in StreamType
    <2>1. V \in Seq(StreamType) /\ Distinct(V)
      BY StreamsFacts
    <2> HIDE DEF V
    <2> QED BY <2>1, LenProperties, ElementOfSeq
  <1> HIDE DEF w, new, V
  <1>4. P \in Seq(StreamType) /\ Distinct(P) /\ w.stack \in Seq(Calls) /\ w.stack # <<>> /\ K \in Nat
        /\ \A k \in 1..K : P[k] \in StreamType
    <2>1. P \in Seq(StreamType) /\ Distinct(P) /\ w.stack \in Seq(Calls)
      BY <1>2 DEF WriterType
    <2>2. w.stack # <<>>
      BY <1>2 DEF Legal
    <2> HIDE DEF P
    <2> QED BY <2>1, <2>2, LenProperties, ElementOfSeq
  <1>5. token.id \in DOMAIN Schema[Head(w.stack).type] /\ values \in Seq(Seq(Nat)) /\ kind \in Kinds
    <2>1. token.op # "stop" /\ token.op # "open"
      OBVIOUS
    <2> HIDE DEF token
    <2>2. \/ token = [op |-> "stop"]
          \/ token = [op |-> "open", id |-> token.id, count |-> token.count]
          \/ /\ token.id \in DOMAIN Schema[Head(w.stack).type] /\ token.values \in Seq(Seq(Nat))
             /\ FieldOf(w.stack, token.id).kind \in Kinds
      BY <1>2, <1>4, LegalFacts
    <2>3. token # [op |-> "stop"] /\ token # [op |-> "open", id |-> token.id, count |-> token.count]
      BY <2>1
    <2> QED BY <2>2, <2>3
  <1>6. tag \in Paths /\ << tag, kind >> \in Clusters[Root]
    <2>1. kind # Message
      BY <1>5 DEF Kinds, Message, Int32, Int64, String
    <2> HIDE DEF token
    <2> QED BY <1>4, <1>5, <2>1, FieldFacts
  <1>7. Q = Put(P, tag, kind, values)
    BY <1>2, <1>4, WriteFacts
  <1> HIDE DEF token, tag, kind, values, P, Q
  <1>8. /\ Q \in Seq(StreamType) /\ Distinct(Q) /\ L \in {K, K + 1}
        /\ \A i \in 1..K : Q[i] = IF P[i].tag = tag THEN Extended(P[i], values) ELSE P[i]
        /\ L = K + 1 => Q[L] = Extended(Stream(tag, kind), values)
        /\ \E i \in 1..L : Q[i].tag = tag
    <2>1. P \in Seq(StreamType) /\ Distinct(P) /\ tag \in Paths /\ kind \in Kinds
          /\ << tag, kind >> \in Clusters[Root] /\ values \in Seq(Seq(Nat))
      BY <1>4, <1>5, <1>6
    <2>2. Placed(P, tag, kind, values, Q)
      BY <1>7, <2>1, PutFacts
    <2> QED BY <2>2 DEF Placed
  <1>9. L \in Nat /\ DOMAIN Q = 1..L
    BY <1>8, LenProperties
  <1>10. L <= Len(V) /\ \A k \in 1..L : Grown(Q[k], V[k])
    BY <1>2 DEF Ahead, Q, V
  <1>11. \A k \in 1..L : V[k].tag = Q[k].tag /\ V[k].kind = Q[k].kind
    BY <1>10 DEF Grown
  <1>12. PICK i \in 1..L : Q[i].tag = tag
    BY <1>8
  <1>13. \A k \in 1..L : Q[k].tag = tag => k = i
    BY <1>8, <1>9, <1>12 DEF Distinct
  <1>14. \A k \in 1..K : Extended(P[k], values) \in StreamType /\ Extended(P[k], values).tag = P[k].tag
                        /\ Extended(P[k], values).kind = P[k].kind
    BY <1>4, <1>5, ExtendedFacts
  <1>15. /\ Stream(tag, kind) \in StreamType /\ Stream(tag, kind).tag = tag /\ Stream(tag, kind).kind = kind
         /\ Extended(Stream(tag, kind), values).tag = tag /\ Extended(Stream(tag, kind), values).kind = kind
    <2>1. Stream(tag, kind) \in StreamType /\ Stream(tag, kind).tag = tag /\ Stream(tag, kind).kind = kind
      BY <1>5, <1>6, StreamFacts
    <2> QED BY <1>5, <2>1, ExtendedFacts
  <1>16. \A k \in 1..K : k # i => P[k].tag # tag /\ Q[k] = P[k]
    <2> TAKE k \in 1..K
    <2>1. k \in 1..L
      BY <1>4, <1>8
    <2>2. Q[k].tag = P[k].tag
      BY <1>8, <1>14
    <2> QED BY <1>8, <1>13, <2>1, <2>2
  <1>17. V[i].tag = tag /\ V[i].kind = Q[i].kind /\ i \in 1..Len(V) /\ V[i] \in StreamType
    <2>1. i \in 1..Len(V)
      BY <1>3, <1>9, <1>10
    <2> QED BY <1>3, <1>11, <1>12, <2>1
  <1>18. /\ \/ i <= K /\ L = K
            \/ i = K + 1 /\ L = i
         /\ V[i].kind = kind /\ Done(w, m, i) \in StreamType
         /\ Done(new, m, i) = Extended(Done(w, m, i), values)
    <2>0. Done(new, m, i) = Q[i]
      BY <1>9 DEF Done, Q
    <2>1. CASE L = K
      <3>1. i \in 1..K
        BY <2>1
      <3>2. P[i].tag = tag
        BY <1>8, <1>12, <3>1
      <3>3. Q[i] = Extended(P[i], values)
        BY <1>8, <3>1, <3>2
      <3>4. P[i].kind = kind
        <4>1. << P[i].tag, P[i].kind >> \in Clusters[Root]
          BY <1>4, <3>1 DEF StreamType
        <4> DEFINE p == << tag, kind >>
                   q == << P[i].tag, P[i].kind >>
        <4>2. Root \in DOMAIN Schema
          BY SchemaAssumption
        <4>3. \A x, y \in Clusters[Root] : y[1] = x[1] => y[2] = x[2]
          BY <4>2, ClusterFacts
        <4>4. q[1] = p[1] => q[2] = p[2]
          <5> HIDE DEF p, q
          <5>1. p \in Clusters[Root] /\ q \in Clusters[Root]
            BY <1>6, <4>1 DEF p, q
          <5> QED BY <4>3, <5>1, Zenon
        <4>5. q[1] = P[i].tag /\ p[1] = tag /\ q[2] = P[i].kind /\ p[2] = kind
          OBVIOUS
        <4> HIDE DEF p, q
        <4> QED BY <3>2, <4>4, <4>5
      <3>5. Q[i].kind = kind
        BY <1>14, <3>1, <3>3, <3>4
      <3>6. Done(w, m, i) = P[i]
        BY <1>4, <3>1 DEF Done, K, P
      <3> QED BY <1>4, <1>17, <2>0, <2>1, <3>1, <3>3, <3>5, <3>6
    <2>2. CASE L = K + 1
      <3>1. L \in 1..L /\ Q[L] = Extended(Stream(tag, kind), values)
        BY <1>4, <1>8, <2>2
      <3>2. i = L
        BY <1>13, <1>15, <3>1
      <3>3. V[i].kind = kind
        BY <1>15, <1>17, <3>1, <3>2
      <3>4. Done(w, m, i) = Stream(tag, kind)
        <4>1. ~ i <= Len(w.values)
          BY <1>4, <2>2, <3>2 DEF K, P
        <4> QED BY <1>17, <3>3, <4>1 DEF Done, V
      <3> QED BY <1>15, <2>0, <2>2, <3>1, <3>2, <3>3, <3>4
    <2> QED BY <1>8, <2>1, <2>2
  <1>19. i \in Opened(new, m, kept)
    BY <1>12, <1>17 DEF Opened, V, L, Q
  <1>20. Grown(Done(new, m, i), V[i])
    BY <1>9, <1>10, <1>12 DEF Done, L, Q
  <1>21. ASSUME NEW k \in Opened(new, m, kept) \ {i}
         PROVE  /\ k \in Opened(w, m, kept) /\ Done(new, m, k) = Done(w, m, k)
                /\ V[k].tag # tag
    <2>1. k \in 1..Len(V) /\ k \in Nat
      BY <1>3, <1>9, <1>10 DEF Opened, V, L, Q
    <2>2. V[k].tag # tag
      BY <1>3, <1>17, <2>1 DEF Distinct
    <2>3. CASE k <= L
      <3>1. k \in 1..K
        <4> HIDE DEF K, L
        <4>1. k # i /\ k \in Nat /\ k >= 1
          BY <2>1
        <4> QED BY <1>4, <1>9, <1>18, <2>3, <4>1
      <3>2. Done(new, m, k) = Q[k] /\ Done(w, m, k) = P[k]
        BY <2>3, <3>1 DEF Done, L, K, Q, P
      <3>3. k \in Opened(w, m, kept)
        BY <2>1, <3>1 DEF Opened, K, P, V
      <3> QED BY <1>16, <2>2, <3>1, <3>2, <3>3
    <2>4. CASE ~ k <= L
      <3>1. ~ k <= K
        <4> HIDE DEF K, L
        <4> QED BY <1>4, <1>8, <1>9, <2>1, <2>4
      <3>2. Done(new, m, k) = Done(w, m, k)
        BY <2>4, <3>1 DEF Done, L, K, Q, P
      <3>3. kept
        BY <1>9, <2>1, <2>4 DEF Opened, L, Q
      <3>4. k \in Opened(w, m, kept)
        BY <2>1, <3>3 DEF Opened, V
      <3> QED BY <2>2, <3>2, <3>4
    <2> QED BY <2>3, <2>4
  <1>22. Slot(w, new, m, kept, tag, kind, values, i)
    BY <1>17, <1>18, <1>19, <1>20, <1>21 DEF Slot, V, K, L, P, Q
  <1> QED BY <1>17, <1>22 DEF w, new, token, tag, kind, values, V


(* The stream the reader takes for a field is the one the field's values     *)
(* were written to: it has it already or, without tags, it comes next.      *)
Found(f, g, w, new, m, kept, order, tag, i) ==
    /\ ~ (f.ordered = {} /\ tag \notin DOMAIN f.values)
    /\ g = [control |-> g.control, values |-> g.values, ordered |-> g.ordered]
    /\ g.control = f.control
    /\ g.values = [t \in { Streams[m].values[k].tag : k \in Opened(new, m, kept) } |-> g.values[t]]
    /\ Cursor(g.values[tag], Done(w, m, i), Streams[m].values[i])
    /\ \A k \in Opened(new, m, kept) \ {i} :
         Cursor(g.values[Streams[m].values[k].tag], Done(new, m, k), Streams[m].values[k])
    /\ g.ordered = IF kept THEN {} ELSE { j \in DOMAIN order : order[j] > 3 + Len(new.values) }

(* requireStructuredCursor finds that stream: by its tag, or by being the   *)
(* next one in order of first use.                                          *)
LEMMA SlotCursor ==
    ASSUME NEW m \in Messages, NEW kept \in BOOLEAN, NEW order, Returned(kept, outputs, order, m),
           NEW w, NEW new, Len(w.values) \in Nat, Len(new.values) \in Nat,
           Len(new.values) <= Len(Streams[m].values),
           NEW tag, NEW kind, NEW values, NEW i, Slot(w, new, m, kept, tag, kind, values, i),
           NEW f, f = [control |-> f.control, values |-> f.values, ordered |-> f.ordered],
           CursorsLeft(f, w, m, kept, order),
           NEW g, g = requireStructuredCursor(f, tag)
    PROVE  Found(f, g, w, new, m, kept, order, tag, i)
  <1> DEFINE V == Streams[m].values
             K == Len(w.values)
             L == Len(new.values)
             N == Len(V)
             before == Opened(w, m, kept)
             after == Opened(new, m, kept)
             Tags(ks) == { V[k].tag : k \in ks }
  <1>1. /\ i \in after /\ V[i].tag = tag /\ V[i].kind = kind /\ V[i] \in StreamType
        /\ \A k \in after \ {i} : k \in before /\ Done(new, m, k) = Done(w, m, k) /\ V[k].tag # tag
        /\ (i <= K /\ L = K) \/ (i = K + 1 /\ L = i)
    BY DEF Slot
  <1>2. /\ f.values = [t \in Tags(before) |-> f.values[t]]
        /\ \A k \in before : Cursor(f.values[V[k].tag], Done(w, m, k), V[k])
        /\ f.ordered = IF kept THEN {} ELSE { j \in DOMAIN order : order[j] > 3 + K }
    BY DEF CursorsLeft
  <1>3. before = 1..(IF kept THEN N ELSE K) /\ after = 1..(IF kept THEN N ELSE L)
    BY DEF Opened
  <1>4. Shuffled(kept, outputs, order, m, 3 + N) /\ N \in Nat /\ (kept \/ ValuesInOrder(order))
    BY OutputFacts, ExactFacts DEF Returned
  <1>5. K \in Nat /\ L \in Nat /\ L <= N
    OBVIOUS
  <1> HIDE DEF V, K, L, N, before, after
  <1>6. DOMAIN f.values = Tags(before)
    <2> HIDE DEF Tags
    <2> QED BY <1>2
  <1>7. CASE i \in before
    <2>1. tag \in DOMAIN f.values
      BY <1>1, <1>6, <1>7
    <2>2. g = f
      BY <2>1 DEF requireStructuredCursor
    <2>3. kept \/ L = K
      <3>1. kept \/ i <= K
        BY <1>3, <1>7
      <3> QED BY <1>1, <1>5, <3>1
    <2>4. after = before
      BY <1>3, <2>3
    <2>5. g.ordered = IF kept THEN {} ELSE { j \in DOMAIN order : order[j] > 3 + L }
      BY <1>2, <2>2, <2>3
    <2>6. /\ g.values = [t \in Tags(after) |-> g.values[t]]
          /\ Cursor(g.values[tag], Done(w, m, i), V[i])
          /\ \A k \in after \ {i} : Cursor(g.values[V[k].tag], Done(new, m, k), V[k])
      <3>1. Cursor(g.values[tag], Done(w, m, i), V[i])
        BY <1>1, <1>2, <1>7, <2>2
      <3>2. \A k \in after \ {i} : Cursor(g.values[V[k].tag], Done(new, m, k), V[k])
        BY <1>1, <1>2, <2>2
      <3>3. g.values = [t \in Tags(after) |-> g.values[t]]
        BY <1>2, <2>2, <2>4
      <3> QED BY <3>1, <3>2, <3>3
    <2>7. g = [control |-> g.control, values |-> g.values, ordered |-> g.ordered] /\ g.control = f.control
      BY <2>2
    <2> QED BY <2>1, <2>5, <2>6, <2>7 DEF V, after, L, Found
  <1>8. CASE i \notin before
    <2>1. ~ kept /\ i = K + 1 /\ L = K + 1 /\ i \in 1..N
      BY <1>1, <1>3, <1>5, <1>8
    <2>2. before = 1..K /\ after = 1..(K + 1) /\ after = before \cup {i}
      BY <1>3, <1>5, <2>1
    <2>3. tag \notin DOMAIN f.values
      <3>1. \A k \in before : V[k].tag # tag
        BY <1>1, <1>8, <2>2
      <3> QED BY <1>6, <3>1
    <2>4. PICK j \in 1..(3 + N) : order[j] = 3 + i
      <3>1. 3 + i \in 1..(3 + N)
        BY <1>4, <2>1
      <3> QED BY <1>4, <3>1 DEF Shuffled
    <2>5. /\ f.ordered = { x \in 1..(3 + N) : order[x] > 3 + K } /\ DOMAIN order = 1..(3 + N)
          /\ \A x \in 1..(3 + N) : order[x] \in 1..(3 + N) /\ (order[x] = order[j] => x = j)
      BY <1>2, <1>4, <2>1 DEF Shuffled
    <2>6. j \in f.ordered
      BY <1>5, <2>1, <2>4, <2>5
    <2> DEFINE a == Min(f.ordered)
    <2>7. a \in f.ordered /\ a <= j
      <3>1. f.ordered \subseteq Nat
        BY <1>4, <2>5
      <3> QED BY <2>6, <3>1, MinOfNaturals
    <2> HIDE DEF a
    <2>8. a = j
      <3> SUFFICES ASSUME a # j PROVE FALSE
        OBVIOUS
      <3>1. a \in 1..(3 + N) /\ order[a] > 3 + K /\ order[a] \in 1..(3 + N) /\ a < j
        BY <1>4, <2>5, <2>7
      <3>2. order[a] > 3 /\ order[j] > 3
        BY <1>4, <1>5, <2>1, <2>4, <3>1
      <3>3. order[a] < order[j]
        BY <1>4, <2>1, <2>4, <2>5, <3>1, <3>2 DEF ValuesInOrder
      <3> QED BY <1>4, <1>5, <2>1, <2>4, <3>1, <3>3
    <2> DEFINE out == outputs[j]
               gv == [t \in DOMAIN f.values \cup {tag} |-> IF t = tag THEN out ELSE f.values[t]]
               go == f.ordered \ {j}
    <2>9. g = [control |-> f.control, values |-> gv, ordered |-> go]
      <3>1. g = [f EXCEPT !.values = [t \in DOMAIN @ \cup {tag} |-> IF t = tag THEN outputs[Min(f.ordered)] ELSE @[t]],
                          !.ordered = @ \ {Min(@)}]
        BY <2>3 DEF requireStructuredCursor
      <3> DEFINE fc == f.control
                 fv == f.values
                 fo == f.ordered
      <3>2. ASSUME NEW c, NEW v, NEW o, NEW h, h = [control |-> c, values |-> v, ordered |-> o]
            PROVE  [h EXCEPT !.values = [t \in DOMAIN @ \cup {tag} |-> IF t = tag THEN outputs[Min(o)] ELSE @[t]],
                             !.ordered = @ \ {Min(@)}]
                   = [control |-> c,
                      values |-> [t \in DOMAIN v \cup {tag} |-> IF t = tag THEN outputs[Min(o)] ELSE v[t]],
                      ordered |-> o \ {Min(o)}]
        <4> DEFINE nv == [t \in DOMAIN v \cup {tag} |-> IF t = tag THEN outputs[Min(o)] ELSE v[t]]
                   no == o \ {Min(o)}
                   e == [h EXCEPT !.values = nv, !.ordered = no]
        <4>1. h \in [control : {c}, values : {v}, ordered : {o}] /\ h.values = v /\ h.ordered = o
          BY <3>2
        <4>2. e \in [control : {c}, values : {nv}, ordered : {no}]
          <5> HIDE DEF nv, no
          <5> QED BY <4>1
        <4>3. e = [control |-> c, values |-> nv, ordered |-> no]
          <5> HIDE DEF e, nv, no
          <5> QED BY <4>2
        <4> QED BY <4>1, <4>3
      <3>3. f = [control |-> fc, values |-> fv, ordered |-> fo]
        OBVIOUS
      <3>4. g = [control |-> fc,
                 values |-> [t \in DOMAIN fv \cup {tag} |-> IF t = tag THEN outputs[Min(fo)] ELSE fv[t]],
                 ordered |-> fo \ {Min(fo)}]
        BY <3>1, <3>2, <3>3, Zenon
      <3> QED BY <2>8, <3>4, Zenon DEF a
    <2> HIDE DEF gv, go
    <2>10. g.control = f.control /\ g.values = gv /\ g.ordered = go
           /\ g = [control |-> g.control, values |-> g.values, ordered |-> g.ordered]
      BY <2>9
    <2>11. DOMAIN gv = Tags(after) /\ gv = [t \in Tags(after) |-> gv[t]]
           /\ gv[tag] = out /\ \A k \in before : gv[V[k].tag] = f.values[V[k].tag]
      <3>1. DOMAIN f.values \cup {tag} = Tags(after)
        BY <1>1, <1>6, <2>2
      <3>2. \A k \in before : V[k].tag \in DOMAIN f.values /\ V[k].tag # tag
        BY <1>6, <2>3
      <3> HIDE DEF Tags
      <3> QED BY <3>1, <3>2 DEF gv
    <2>12. Cursor(gv[tag], Done(w, m, i), V[i])
      <3>1. out = ValueOutput(kept, V[i])
        BY <1>4, <2>1, <2>4 DEF Shuffled, V, N
      <3>2. Done(w, m, i) = Stream(V[i].tag, V[i].kind)
        <4>1. ~ i <= Len(w.values)
          BY <1>5, <2>1 DEF K
        <4> QED BY <4>1 DEF Done, V
      <3>3. Cursor(ValueOutput(kept, V[i]), Stream(V[i].tag, V[i].kind), V[i])
        BY <1>1, FreshCursor
      <3> QED BY <2>11, <3>1, <3>2, <3>3
    <2>13. \A k \in after \ {i} : Cursor(gv[V[k].tag], Done(new, m, k), V[k])
      BY <1>1, <1>2, <2>11
    <2>14. go = { x \in DOMAIN order : order[x] > 3 + L }
      <3>1. ASSUME NEW x \in 1..(3 + N)
            PROVE  order[x] > 3 + K /\ x # j <=> order[x] > 3 + L
        <4>1. order[x] \in Nat /\ order[j] = 3 + (K + 1) /\ (order[x] = order[j] <=> x = j)
          BY <1>4, <2>1, <2>4, <2>5
        <4> QED BY <1>5, <2>1, <4>1
      <3> QED BY <2>5, <3>1 DEF go
    <2> QED BY <2>1, <2>6, <2>10, <2>11, <2>12, <2>13, <2>14 DEF V, after, L, Found
  <1> QED BY <1>7, <1>8


(* A frame, and what the reader's assignments make of it.                   *)
FrameOf(control, values, ordered) == [control |-> control, values |-> values, ordered |-> ordered]

(* The parts of a frame.                                                    *)
LEMMA FrameParts ==
    \A c, v, o : /\ FrameOf(c, v, o).control = c /\ FrameOf(c, v, o).values = v
                 /\ FrameOf(c, v, o).ordered = o
  BY DEF FrameOf

SetControl(h, c, x) == [h EXCEPT !.control[c] = x]
SetWords(h, t, x)   == [h EXCEPT !.values[t].words = x]
SetLens(h, t, x)    == [h EXCEPT !.values[t].lens = x]
With(control, c, x)     == [control EXCEPT ![c] = x]
WithWords(values, t, x) == [values EXCEPT ![t].words = x]
WithLens(values, t, x)  == [values EXCEPT ![t].lens = x]

(* Nested updates of a frame are updates of its parts.                      *)
LEMMA UpdateControl ==
    \A c, v, o, i, x : SetControl(FrameOf(c, v, o), i, x) = FrameOf(With(c, i, x), v, o)
  <1> TAKE c, v, o, i, x
  <1> DEFINE h == FrameOf(c, v, o)
             new == [c EXCEPT ![i] = x]
             e == [h EXCEPT !.control = new]
  <1>1. h \in [control : {c}, values : {v}, ordered : {o}] /\ h.control = c
    BY DEF FrameOf
  <1>2. [h EXCEPT !.control[i] = x] = e
    <2> HIDE DEF h
    <2> QED BY <1>1
  <1>3. e \in [control : {new}, values : {v}, ordered : {o}]
    <2> HIDE DEF new, h
    <2> QED BY <1>1
  <1>4. e = [control |-> new, values |-> v, ordered |-> o]
    <2> HIDE DEF e, new
    <2> QED BY <1>3
  <1> HIDE DEF new, e
  <1>5. [h EXCEPT !.control[i] = x] = FrameOf(new, v, o)
    BY <1>2, <1>4, Zenon DEF FrameOf
  <1> QED BY <1>5, Zenon DEF new, SetControl, With

LEMMA UpdateWords ==
    \A c, v, o, i, x : SetWords(FrameOf(c, v, o), i, x) = FrameOf(c, WithWords(v, i, x), o)
  <1> TAKE c, v, o, i, x
  <1> DEFINE h == FrameOf(c, v, o)
             new == [v EXCEPT ![i].words = x]
             e == [h EXCEPT !.values = new]
  <1>1. h \in [control : {c}, values : {v}, ordered : {o}] /\ h.values = v
    BY DEF FrameOf
  <1>2. [h EXCEPT !.values[i].words = x] = e
    <2> HIDE DEF h
    <2> QED BY <1>1
  <1>3. e \in [control : {c}, values : {new}, ordered : {o}]
    <2> HIDE DEF new, h
    <2> QED BY <1>1
  <1>4. e = [control |-> c, values |-> new, ordered |-> o]
    <2> HIDE DEF e, new
    <2> QED BY <1>3
  <1> HIDE DEF new, e
  <1>5. [h EXCEPT !.values[i].words = x] = FrameOf(c, new, o)
    BY <1>2, <1>4, Zenon DEF FrameOf
  <1> QED BY <1>5, Zenon DEF new, SetWords, WithWords

LEMMA UpdateLens ==
    \A c, v, o, i, x : SetLens(FrameOf(c, v, o), i, x) = FrameOf(c, WithLens(v, i, x), o)
  <1> TAKE c, v, o, i, x
  <1> DEFINE h == FrameOf(c, v, o)
             new == [v EXCEPT ![i].lens = x]
             e == [h EXCEPT !.values = new]
  <1>1. h \in [control : {c}, values : {v}, ordered : {o}] /\ h.values = v
    BY DEF FrameOf
  <1>2. [h EXCEPT !.values[i].lens = x] = e
    <2> HIDE DEF h
    <2> QED BY <1>1
  <1>3. e \in [control : {c}, values : {new}, ordered : {o}]
    <2> HIDE DEF new, h
    <2> QED BY <1>1
  <1>4. e = [control |-> c, values |-> new, ordered |-> o]
    <2> HIDE DEF e, new
    <2> QED BY <1>3
  <1> HIDE DEF new, e
  <1>5. [h EXCEPT !.values[i].lens = x] = FrameOf(c, new, o)
    BY <1>2, <1>4, Zenon DEF FrameOf
  <1> QED BY <1>5, Zenon DEF new, SetLens, WithLens

(* Taking from all control streams, and from the types alone.               *)
LEMMA WithThree ==
    ASSUME NEW c, DOMAIN c = Controls, NEW x, NEW y, NEW z
    PROVE  LET new == With(With(With(c, 1, x), 2, y), 3, z)
           IN  /\ DOMAIN new = Controls /\ new = [k \in Controls |-> new[k]]
               /\ new[1] = x /\ new[2] = y /\ new[3] = z
  <1> DEFINE new == With(With(With(c, 1, x), 2, y), 3, z)
  <1>1. DOMAIN new = Controls /\ new[1] = x /\ new[2] = y /\ new[3] = z
    BY DEF With, Controls
  <1>2. new = [k \in Controls |-> new[k]]
    BY DEF With, Controls
  <1> QED BY <1>1, <1>2

LEMMA WithOne ==
    ASSUME NEW c, DOMAIN c = Controls, NEW y
    PROVE  LET new == With(c, 2, y)
           IN  /\ DOMAIN new = Controls /\ (c = [k \in Controls |-> c[k]] => new = [k \in Controls |-> new[k]])
               /\ new[1] = c[1] /\ new[2] = y /\ new[3] = c[3]
  <1> DEFINE new == With(c, 2, y)
  <1>1. DOMAIN new = Controls /\ new[1] = c[1] /\ new[2] = y /\ new[3] = c[3]
    BY DEF With, Controls
  <1>2. new = [k \in Controls |-> new[k]]
    BY DEF With, Controls
  <1> QED BY <1>1, <1>2

(* Tokens without values leave the value streams as they are.               *)
LEMMA SameCursors ==
    ASSUME NEW m, NEW kept, NEW order, NEW f, NEW w, CursorsLeft(f, w, m, kept, order),
           NEW g, g.values = f.values, g.ordered = f.ordered, NEW new, new.values = w.values
    PROVE  CursorsLeft(g, new, m, kept, order)
  <1>1. Opened(new, m, kept) = Opened(w, m, kept)
    BY DEF Opened
  <1>2. \A i : Done(new, m, i) = Done(w, m, i)
    BY DEF Done
  <1> QED BY <1>1, <1>2 DEF CursorsLeft

Stopped(f, m, n, kept, order) ==
    /\ Head(f.control[2]) = Stop
    /\ FrameLeft([f EXCEPT !.control[2] = Tail(@)], Written(m)[n + 1], m, kept, order)
    /\ Written(m)[n + 1].stack = Leave(Written(m)[n].stack)

(* The reader takes the end of a message,                                   *)
LEMMA StopStep ==
    ASSUME NEW m \in Messages, NEW n \in 0..(Len(m) - 1), m[n + 1].op = "stop", NEW kept, NEW order,
           NEW f, FrameLeft(f, Written(m)[n], m, kept, order)
    PROVE  Stopped(f, m, n, kept, order)
  <1> SUFFICES ASSUME NEW g, g = [f EXCEPT !.control[2] = Tail(@)]
               PROVE  /\ Head(f.control[2]) = Stop
                      /\ FrameLeft(g, Written(m)[n + 1], m, kept, order)
                      /\ Written(m)[n + 1].stack = Leave(Written(m)[n].stack)
    BY Zenon DEF Stopped
  <1> DEFINE w == Written(m)[n]
             new == Written(m)[n + 1]
             token == m[n + 1]
             c == f.control
             v == f.values
             o == f.ordered
             nc == With(c, 2, Tail(c[2]))
  <1>1. w \in WriterType /\ Legal(w.stack, token) /\ new = Write(w, token)
    <2>1. Len(m) \in Nat /\ n \in 0..Len(m)
      BY WrittenFacts
    <2> QED BY <2>1, WrittenFacts
  <1>2. new.values = w.values /\ new.stack = Leave(w.stack)
    <2>1. token.op = "stop" /\ token.op # "field"
      OBVIOUS
    <2> HIDE DEF w, new, token
    <2> QED BY <1>1, <2>1, WriteFacts
  <1>3. /\ ControlWords(w.stack, token, 1) = <<>> /\ ControlWords(w.stack, token, 3) = <<>>
        /\ ControlWords(w.stack, token, 2) = << Stop >>
    BY ControlOfStop
  <1>4. ControlsLeft(f, w, m) /\ CursorsLeft(f, w, m, kept, order) /\ f = FrameOf(c, v, o)
        /\ c \in [Controls -> Seq(Nat)]
    BY DEF FrameLeft, FrameOf, ControlsLeft
  <1>5. g = FrameOf(nc, v, o)
    <2>1. g = SetControl(f, 2, Tail(c[2]))
      BY Zenon DEF SetControl
    <2> DEFINE x == Tail(c[2])
    <2>2. SetControl(FrameOf(c, v, o), 2, x) = FrameOf(With(c, 2, x), v, o)
      <3> HIDE DEF c, v, o, x
      <3> QED BY UpdateControl
    <2>3. f = FrameOf(c, v, o)
      BY <1>4
    <2> HIDE DEF c, v, o
    <2> QED BY <2>1, <2>2, <2>3, Zenon
  <1>6. g.control = nc /\ g.values = v /\ g.ordered = o
    <2> HIDE DEF nc, c, v, o
    <2>1. FrameOf(nc, v, o).control = nc /\ FrameOf(nc, v, o).values = v /\ FrameOf(nc, v, o).ordered = o
      BY FrameParts
    <2> QED BY <1>5, <2>1, Zenon
  <1>7. DOMAIN nc = Controls /\ nc = [x \in Controls |-> nc[x]] /\ nc[1] = c[1] /\ nc[3] = c[3] /\ nc[2] = Tail(c[2])
    <2> HIDE DEF c
    <2>1. DOMAIN c = Controls /\ c = [x \in Controls |-> c[x]]
      BY <1>4
    <2> QED BY <2>1, WithOne
  <1> HIDE DEF nc
  <1>8. Stop \in Nat /\ \A rest \in Seq(Nat) : <<>> \o rest = rest
    BY ConcatEmptySeq DEF Stop
  <1>9. Head(c[2]) = Stop
    <2>1. PICK rest \in Seq(Nat) : NextWords(f, m, n, 2, rest)
      <3>1. 2 \in Controls
        BY DEF Controls
      <3> QED BY <1>4, <3>1, NextControl
    <2>2. c[2] = << Stop >> \o rest
      BY <1>3, <2>1 DEF NextWords
    <2> QED BY <1>8, <2>2, FirstWord
  <1>10. ASSUME NEW x \in Controls, NEW rest \in Seq(Nat), f.control[x] = ControlWords(w.stack, token, x) \o rest
         PROVE  g.control[x] = rest
    <2>1. CASE x = 2
      <3>1. c[2] = << Stop >> \o rest
        BY <1>3, <1>10, <2>1
      <3>2. Tail(c[2]) = rest
        BY <1>8, <3>1, FirstWord
      <3> QED BY <1>6, <1>7, <2>1, <3>2
    <2>2. CASE x = 1 \/ x = 3
      <3>1. c[x] = <<>> \o rest
        BY <1>3, <1>10, <2>2
      <3>2. nc[x] = c[x]
        BY <1>7, <2>2
      <3> QED BY <1>6, <1>8, <3>1, <3>2
    <2> QED BY <2>1, <2>2 DEF Controls
  <1>11. ControlsLeft(g, new, m)
    <2>1. TookWords(f, m, n, g)
      BY <1>10 DEF TookWords
    <2>2. g.control = [x \in Controls |-> g.control[x]]
      <3>1. ASSUME NEW y, y = g.control PROVE y = [x \in Controls |-> y[x]]
        BY <1>6, <1>7, <3>1
      <3> QED BY <3>1, Zenon
    <2> HIDE DEF w, new
    <2> QED BY <1>4, <2>1, <2>2, ControlStep DEF w, new
  <1>12. CursorsLeft(g, new, m, kept, order)
    BY <1>2, <1>4, <1>6, SameCursors
  <1>13. g = [control |-> g.control, values |-> g.values, ordered |-> g.ordered]
    BY <1>5, <1>6, Zenon DEF FrameOf
  <1> QED BY <1>2, <1>9, <1>11, <1>12, <1>13 DEF FrameLeft

OpenedAs(f, g, repeated, m, n, kept, order) ==
    LET s     == Written(m)[n].stack
        token == m[n + 1]
    IN  /\ s \in Seq(Calls) /\ s # <<>> /\ token.id \in DOMAIN Schema[Head(s).type]
        /\ token = [op |-> "open", id |-> token.id, count |-> token.count]
        /\ FieldOf(s, token.id).kind = Message
        /\ Head(f.control[2]) = Message
        /\ f.control[1] # <<>> /\ Head(f.control[1]) = token.id
        /\ IF repeated THEN f.control[3] # <<>> /\ Head(f.control[3]) = token.count
                       ELSE token.count = 1
        /\ FrameLeft(g, Written(m)[n + 1], m, kept, order)
        /\ Written(m)[n + 1].stack = Enter(s, token.id, token.count)
OpenedField(f, m, n, kept, order) ==
    LET repeated == FieldOf(Written(m)[n].stack, m[n + 1].id).repeated
    IN  OpenedAs(f, [f EXCEPT !.control[1] = Tail(@), !.control[2] = Tail(@),
                              !.control[3] = IF repeated THEN Tail(@) ELSE @],
                 repeated, m, n, kept, order)

(* ... the opening of a nested one,                                         *)
LEMMA OpenStep ==
    ASSUME NEW m \in Messages, NEW n \in 0..(Len(m) - 1), m[n + 1].op = "open", NEW kept, NEW order,
           NEW f, FrameLeft(f, Written(m)[n], m, kept, order)
    PROVE  OpenedField(f, m, n, kept, order)
  <1> SUFFICES ASSUME NEW repeated, repeated = FieldOf(Written(m)[n].stack, m[n + 1].id).repeated,
                      NEW g, g = [f EXCEPT !.control[1] = Tail(@), !.control[2] = Tail(@),
                                           !.control[3] = IF repeated THEN Tail(@) ELSE @]
               PROVE  OpenedAs(f, g, repeated, m, n, kept, order)
    BY Zenon DEF OpenedField
  <1> DEFINE w == Written(m)[n]
             new == Written(m)[n + 1]
             token == m[n + 1]
             s == w.stack
             c == f.control
             v == f.values
             o == f.ordered
             third == IF repeated THEN Tail(c[3]) ELSE c[3]
             nc == With(With(With(c, 1, Tail(c[1])), 2, Tail(c[2])), 3, third)
  <1>1. w \in WriterType /\ Legal(s, token) /\ new = Write(w, token) /\ s \in Seq(Calls) /\ s # <<>>
    <2>1. Len(m) \in Nat /\ n \in 0..Len(m)
      BY WrittenFacts
    <2>2. w \in WriterType /\ Legal(s, token) /\ new = Write(w, token)
      BY <2>1, WrittenFacts
    <2> QED BY <2>2 DEF WriterType, Legal
  <1>2. new.values = w.values /\ new.stack = Enter(s, token.id, token.count)
    <2>1. token.op = "open" /\ token.op # "field"
      OBVIOUS
    <2> HIDE DEF w, new, token
    <2> QED BY <1>1, <2>1, WriteFacts
  <1>3. /\ token = [op |-> "open", id |-> token.id, count |-> token.count]
        /\ token.id \in DOMAIN Schema[Head(s).type] /\ token.count \in Nat
        /\ FieldOf(s, token.id).kind = Message
        /\ ~ repeated => token.count = 1
    <2>1. token.op = "open" /\ repeated = FieldOf(s, token.id).repeated
      OBVIOUS
    <2> HIDE DEF s, token
    <2>2. token # [op |-> "stop"] /\ token # [op |-> "field", id |-> token.id, values |-> token.values]
      BY <2>1
    <2>3. \/ token = [op |-> "stop"]
          \/ /\ token = [op |-> "open", id |-> token.id, count |-> token.count]
             /\ token.id \in DOMAIN Schema[Head(s).type] /\ token.count \in Nat
             /\ FieldOf(s, token.id).kind = Message
             /\ ~ FieldOf(s, token.id).repeated => token.count = 1
          \/ token = [op |-> "field", id |-> token.id, values |-> token.values]
      BY <1>1, LegalFacts
    <2> QED BY <2>1, <2>2, <2>3
  <1>4. /\ ControlWords(s, token, 1) = << token.id >> /\ ControlWords(s, token, 2) = << Message >>
        /\ ControlWords(s, token, 3) = IF repeated THEN << token.count >> ELSE <<>>
    BY <1>3, ControlOfOpen
  <1>5. ControlsLeft(f, w, m) /\ CursorsLeft(f, w, m, kept, order) /\ f = FrameOf(c, v, o)
        /\ c \in [Controls -> Seq(Nat)]
    BY DEF FrameLeft, FrameOf, ControlsLeft
  <1>6. g = FrameOf(nc, v, o)
    <2>1. g = SetControl(SetControl(SetControl(f, 1, Tail(c[1])), 2, Tail(c[2])), 3, third)
      BY Zenon DEF SetControl
    <2> HIDE DEF c, v, o, third
    <2> QED BY <1>5, <2>1, UpdateControl
  <1>7. g.control = nc /\ g.values = v /\ g.ordered = o
    <2> HIDE DEF nc, c, v, o
    <2>1. FrameOf(nc, v, o).control = nc /\ FrameOf(nc, v, o).values = v /\ FrameOf(nc, v, o).ordered = o
      BY FrameParts
    <2> QED BY <1>6, <2>1, Zenon
  <1>8. /\ DOMAIN nc = Controls /\ nc = [x \in Controls |-> nc[x]]
        /\ nc[1] = Tail(c[1]) /\ nc[2] = Tail(c[2]) /\ nc[3] = third
    <2> HIDE DEF c, third
    <2> QED BY <1>5, WithThree
  <1> HIDE DEF nc
  <1>9. token.id \in Nat /\ token.count \in Nat /\ Message \in Nat /\ \A rest \in Seq(Nat) : <<>> \o rest = rest
    <2>1. token.id \in Nat
      BY <1>1, <1>3, FieldFacts
    <2> QED BY <1>3, <2>1, ConcatEmptySeq DEF Message
  <1> HIDE DEF token
  <1>10. ASSUME NEW x \in Controls, NEW rest \in Seq(Nat), f.control[x] = ControlWords(s, token, x) \o rest
         PROVE  g.control[x] = rest
    <2>1. CASE x = 1
      <3>1. c[1] = << token.id >> \o rest
        BY <1>4, <1>10, <2>1
      <3>2. Tail(c[1]) = rest
        BY <1>9, <3>1, FirstWord
      <3> QED BY <1>7, <1>8, <2>1, <3>2, Zenon
    <2>2. CASE x = 2
      <3>1. c[2] = << Message >> \o rest
        BY <1>4, <1>10, <2>2
      <3>2. Tail(c[2]) = rest
        BY <1>9, <3>1, FirstWord
      <3> QED BY <1>7, <1>8, <2>2, <3>2, Zenon
    <2>3. CASE x = 3
      <3>1. CASE repeated
        <4>1. c[3] = << token.count >> \o rest
          BY <1>4, <1>10, <2>3, <3>1
        <4>2. Tail(c[3]) = rest
          BY <1>9, <4>1, FirstWord
        <4> QED BY <1>7, <1>8, <2>3, <3>1, <4>2, Zenon
      <3>2. CASE ~ repeated
        <4>1. c[3] = <<>> \o rest
          BY <1>4, <1>10, <2>3, <3>2
        <4> QED BY <1>7, <1>8, <1>9, <2>3, <3>2, <4>1
      <3> QED BY <3>1, <3>2
    <2> QED BY <2>1, <2>2, <2>3 DEF Controls
  <1>11. ControlsLeft(g, new, m)
    <2>1. TookWords(f, m, n, g)
      BY <1>10 DEF TookWords, token
    <2>2. g.control = [x \in Controls |-> g.control[x]]
      <3>1. ASSUME NEW y, y = g.control PROVE y = [x \in Controls |-> y[x]]
        BY <1>7, <1>8, <3>1
      <3> QED BY <3>1, Zenon
    <2> HIDE DEF w, new
    <2> QED BY <1>5, <2>1, <2>2, ControlStep DEF w, new
  <1>12. CursorsLeft(g, new, m, kept, order)
    BY <1>2, <1>5, <1>7, SameCursors
  <1>13. g = [control |-> g.control, values |-> g.values, ordered |-> g.ordered]
    BY <1>6, <1>7, Zenon DEF FrameOf
  <1>16. 1 \in Controls /\ 2 \in Controls /\ 3 \in Controls
    BY DEF Controls
  <1>14. Head(c[2]) = Message /\ c[1] # <<>> /\ Head(c[1]) = token.id
    <2>1. PICK first \in Seq(Nat) : NextWords(f, m, n, 1, first)
      BY <1>5, <1>16, NextControl
    <2>2. PICK second \in Seq(Nat) : NextWords(f, m, n, 2, second)
      BY <1>5, <1>16, NextControl
    <2>3. c[1] = << token.id >> \o first /\ c[2] = << Message >> \o second
      BY <1>4, <2>1, <2>2 DEF NextWords, token
    <2> QED BY <1>9, <2>3, FirstWord
  <1>15. IF repeated THEN c[3] # <<>> /\ Head(c[3]) = token.count ELSE token.count = 1
    <2>1. CASE repeated
      <3>1. PICK counts \in Seq(Nat) : NextWords(f, m, n, 3, counts)
        BY <1>5, <1>16, NextControl
      <3>2. c[3] = << token.count >> \o counts
        BY <1>4, <2>1, <3>1 DEF NextWords, token
      <3> QED BY <1>9, <2>1, <3>2, FirstWord
    <2> QED BY <1>3, <2>1
  <1> QED BY <1>1, <1>2, <1>3, <1>11, <1>12, <1>13, <1>14, <1>15 DEF FrameLeft, OpenedAs, token


(* What a field's token wrote to the length control, taken from its front.   *)
LEMMA CountTaken ==
    ASSUME NEW count \in Nat, NEW words \in Seq(Nat), NEW rest \in Seq(Nat)
    PROVE  /\ (<<>> \o words) \o rest = words \o rest
           /\ (<< count >> \o words) \o rest # <<>>
           /\ Head((<< count >> \o words) \o rest) = count
           /\ Tail((<< count >> \o words) \o rest) = words \o rest
  <1>1. <<>> \o words = words /\ words \o rest \in Seq(Nat) /\ << count >> \in Seq(Nat)
    BY ConcatProperties, ConcatEmptySeq
  <1>2. \A a, b, c \in Seq(Nat) : (a \o b) \o c = a \o (b \o c)
    BY ConcatAssociative, SMTT(60)
  <1>3. (<< count >> \o words) \o rest = << count >> \o (words \o rest)
    BY <1>1, <1>2
  <1> DEFINE y == words \o rest
  <1> HIDE DEF y
  <1>4. y \in Seq(Nat) /\ (<< count >> \o words) \o rest = << count >> \o y
    BY <1>1, <1>3 DEF y
  <1>5. /\ << count >> \o y # <<>> /\ Head(<< count >> \o y) = count
        /\ Tail(<< count >> \o y) = y
    BY <1>4, FirstWord
  <1> QED BY <1>1, <1>4, <1>5, Zenon DEF y

(* The lengths of the strings of a field, taken from the front of the       *)
(* length control.                                                          *)
LEMMA SizesTaken ==
    ASSUME NEW sizes \in Seq(Nat), NEW rest \in Seq(Nat), NEW lengths, lengths = sizes \o rest
    PROVE  /\ ~ Len(lengths) < Len(sizes)
           /\ \A i \in 1..Len(sizes) : lengths[i] = sizes[i]
           /\ SubSeq(lengths, Len(sizes) + 1, Len(lengths)) = rest
  <1>1. /\ Len(sizes \o rest) = Len(sizes) + Len(rest) /\ Len(sizes) \in Nat /\ Len(rest) \in Nat
        /\ \A i \in 1..Len(sizes) : (sizes \o rest)[i] = sizes[i]
    BY ConcatPoints, LenProperties
  <1>2. SubSeq(sizes \o rest, Len(sizes) + 1, Len(sizes \o rest)) = rest
    BY Parts
  <1>3. ~ Len(lengths) < Len(sizes)
    <2> QED BY <1>1
  <1> QED BY <1>1, <1>2, <1>3

(* How many values the reader takes for a field, and how large they are, are *)
(* what the writer wrote.                                                    *)
LengthsRead(repeated, kind, values, x, rest) ==
    LET count   == IF repeated THEN Head(x) ELSE 1
        lengths == IF repeated THEN Tail(x) ELSE x
    IN  /\ ~ (repeated /\ x = <<>>) /\ ~ (kind = String /\ Len(lengths) < count)
        /\ count = Len(values)
        /\ [i \in 1..count |-> IF kind = String THEN lengths[i] ELSE Width(kind)] = Sizes(values)
        /\ (IF kind = String THEN SubSeq(lengths, count + 1, Len(lengths)) ELSE lengths) = rest

(* The reader computes the sizes of the values of a field as the writer     *)
(* knew them.                                                               *)
LEMMA LengthsOfField ==
    ASSUME NEW repeated \in BOOLEAN, NEW kind \in Kinds, NEW values \in Seq(Seq(Nat)), NEW rest \in Seq(Nat),
           ~ repeated => Len(values) = 1,
           kind # String => \A i \in 1..Len(values) : Len(values[i]) = Width(kind),
           NEW x, x = ((IF repeated THEN << Len(values) >> ELSE <<>>)
                       \o (IF kind = String THEN Sizes(values) ELSE <<>>)) \o rest
    PROVE  LengthsRead(repeated, kind, values, x, rest)
  <1> DEFINE count   == IF repeated THEN Head(x) ELSE 1
             lengths == IF repeated THEN Tail(x) ELSE x
             words   == IF kind = String THEN Sizes(values) ELSE <<>>
             sizes   == [i \in 1..count |-> IF kind = String THEN lengths[i] ELSE Width(kind)]
  <1> SUFFICES /\ ~ (repeated /\ x = <<>>) /\ ~ (kind = String /\ Len(lengths) < count)
               /\ count = Len(values) /\ sizes = Sizes(values)
               /\ (IF kind = String THEN SubSeq(lengths, count + 1, Len(lengths)) ELSE lengths) = rest
    BY Zenon DEF LengthsRead
  <1>1. Sizes(values) \in Seq(Nat) /\ Len(Sizes(values)) = Len(values) /\ Len(values) \in Nat
    BY FlattenSlices, LenProperties
  <1>2. words \in Seq(Nat)
    BY <1>1, EmptySeq
  <1>3. x = ((IF repeated THEN << Len(values) >> ELSE <<>>) \o words) \o rest
    BY Zenon
  <1>4. (repeated => x # <<>> /\ Head(x) = Len(values)) /\ lengths = words \o rest
    <2> DEFINE n == Len(values)
    <2> HIDE DEF words, n
    <2>1. n \in Nat /\ x = ((IF repeated THEN << n >> ELSE <<>>) \o words) \o rest
      BY <1>1, <1>3, Zenon DEF n
    <2>2. /\ (<<>> \o words) \o rest = words \o rest
          /\ (<< n >> \o words) \o rest # <<>> /\ Head((<< n >> \o words) \o rest) = n
          /\ Tail((<< n >> \o words) \o rest) = words \o rest
      BY <1>2, <2>1, CountTaken
    <2>3. CASE repeated
      <3>1. x = (<< n >> \o words) \o rest
        BY <2>1, <2>3, Zenon
      <3> QED BY <2>2, <2>3, <3>1, Zenon DEF n
    <2>4. CASE ~ repeated
      <3>1. x = (<<>> \o words) \o rest
        BY <2>1, <2>4, Zenon
      <3> QED BY <2>2, <2>4, <3>1, Zenon
    <2> QED BY <2>3, <2>4
  <1>5. count = Len(values)
    BY <1>4
  <1> HIDE DEF count
  <1>6. Sizes(values) = [i \in 1..Len(values) |-> Len(values[i])]
    BY DEF Sizes
  <1> HIDE DEF lengths
  <1>7. CASE kind = String
    <2>1. lengths = Sizes(values) \o rest
      BY <1>4, <1>7
    <2>2. /\ ~ Len(lengths) < Len(Sizes(values))
          /\ \A i \in 1..Len(Sizes(values)) : lengths[i] = Sizes(values)[i]
          /\ SubSeq(lengths, Len(Sizes(values)) + 1, Len(lengths)) = rest
      <3> DEFINE z == Sizes(values)
      <3> HIDE DEF z
      <3>1. z \in Seq(Nat) /\ lengths = z \o rest
        BY <1>1, <2>1 DEF z
      <3>2. /\ ~ Len(lengths) < Len(z) /\ \A i \in 1..Len(z) : lengths[i] = z[i]
            /\ SubSeq(lengths, Len(z) + 1, Len(lengths)) = rest
        BY <3>1, SizesTaken
      <3> QED BY <3>2 DEF z
    <2>3. sizes = [i \in 1..Len(values) |-> lengths[i]]
      BY <1>5, <1>7
    <2>4. \A i \in 1..Len(values) : lengths[i] = Len(values[i])
      BY <1>1, <1>6, <2>2
    <2>5. sizes = Sizes(values)
      BY <1>6, <2>3, <2>4
    <2> HIDE DEF sizes
    <2> QED BY <1>1, <1>4, <1>5, <1>7, <2>2, <2>5
  <1>8. CASE kind # String
    <2>1. lengths = rest
      <3>1. <<>> \o rest = rest
        BY ConcatEmptySeq
      <3> QED BY <1>4, <1>8, <3>1
    <2>2. sizes = [i \in 1..Len(values) |-> Width(kind)]
      BY <1>5, <1>8
    <2>3. sizes = Sizes(values)
      BY <1>6, <1>8, <2>2
    <2> HIDE DEF sizes
    <2> QED BY <1>4, <1>5, <1>8, <2>1, <2>3
  <1> HIDE DEF sizes, count
  <1> QED BY <1>7, <1>8 DEF lengths, sizes, count

(* Taking a value from one stream leaves the others as they are.             *)
CursorOf(tag, string, words, lens, origin) ==
    [tag |-> tag, string |-> string, words |-> words, lens |-> lens, origin |-> origin]
Replaced(next, values, T, t, r) ==
    next = [u \in T |-> next[u]] /\ next[t] = r /\ \A u \in T \ {t} : next[u] = values[u]

(* A cursor replaced leaves the others as they are.                         *)
LEMMA WithTaken ==
    ASSUME NEW T, NEW values, values = [t \in T |-> values[t]], NEW t \in T,
           NEW tag, NEW string, NEW words, NEW lens, NEW origin, NEW x, NEW y,
           values[t] = CursorOf(tag, string, words, lens, origin)
    PROVE  Replaced(WithLens(WithWords(values, t, x), t, y), values, T, t,
                    CursorOf(tag, string, x, y, origin))
  <1> DEFINE r == values[t]
             a == [r EXCEPT !.words = x]
             b == [a EXCEPT !.lens = y]
             first == [values EXCEPT ![t] = a]
  <1>1. DOMAIN values = T
    BY Zenon
  <1>2. WithWords(values, t, x) = first
    BY <1>1 DEF WithWords
  <1>3. first = [u \in T |-> IF u = t THEN a ELSE values[u]]
    <2> HIDE DEF a
    <2> QED BY <1>1
  <1> HIDE DEF first
  <1>4. DOMAIN first = T /\ first[t] = a /\ \A u \in T \ {t} : first[u] = values[u]
    <2> HIDE DEF a
    <2> QED BY <1>3
  <1>5. WithLens(first, t, y) = [u \in T |-> IF u = t THEN b ELSE first[u]]
    <2> HIDE DEF a
    <2> QED BY <1>4 DEF WithLens
  <1> DEFINE next == WithLens(WithWords(values, t, x), t, y)
  <1>6. next = [u \in T |-> IF u = t THEN b ELSE first[u]]
    BY <1>2, <1>5, Zenon
  <1>7. b = [tag |-> tag, string |-> string, words |-> x, lens |-> y, origin |-> origin]
    <2>4. r = [tag |-> tag, string |-> string, words |-> words, lens |-> lens, origin |-> origin]
      BY Zenon DEF CursorOf
    <2> HIDE DEF r
    <2>1. r \in [tag : {tag}, string : {string}, words : {words}, lens : {lens}, origin : {origin}]
      BY <2>4
    <2>2. a \in [tag : {tag}, string : {string}, words : {x}, lens : {lens}, origin : {origin}]
      BY <2>1
    <2> HIDE DEF a
    <2>3. b \in [tag : {tag}, string : {string}, words : {x}, lens : {y}, origin : {origin}]
      BY <2>2
    <2> HIDE DEF b
    <2> QED BY <2>3
  <1> HIDE DEF b, next
  <1>8. Replaced(next, values, T, t, b)
    BY <1>4, <1>6 DEF Replaced
  <1> QED BY <1>7, <1>8, Zenon DEF next, CursorOf

(* Taking a field's values keeps what is left of every stream.               *)
Takes(g, tag, values, luck, kind) ==
    /\ Readable(g.values[tag], kind, Sizes(values), luck)
    /\ Values(g.values[tag].words, Sizes(values)) = values
Taken(g, h, tag, values) ==
    /\ h.ordered = g.ordered
    /\ h.values = WithLens(WithWords(g.values, tag,
                     SubSeq(g.values[tag].words, Total(Sizes(values)) + 1, Len(g.values[tag].words))), tag,
                     SubSeq(g.values[tag].lens, Len(values) + 1, Len(g.values[tag].lens)))

(* Taking the values of a field from its cursor.                            *)
LEMMA TakeCursor ==
    ASSUME NEW m \in Messages, NEW kept \in BOOLEAN, NEW order, NEW w, NEW new, NEW tag, NEW kind,
           NEW values \in Seq(Seq(Nat)), NEW i, Slot(w, new, m, kept, tag, kind, values, i),
           NEW f, NEW g, Found(f, g, w, new, m, kept, order, tag, i),
           NEW h, Taken(g, h, tag, values)
    PROVE  /\ \A luck \in BOOLEAN : Takes(g, tag, values, luck, kind)
           /\ CursorsLeft(h, new, m, kept, order)
  <1> DEFINE V == Streams[m].values
             O == Opened(new, m, kept)
             T == { V[k].tag : k \in O }
             out == g.values[tag]
             x == SubSeq(out.words, Total(Sizes(values)) + 1, Len(out.words))
             y == SubSeq(out.lens, Len(values) + 1, Len(out.lens))
             next == [tag |-> out.tag, string |-> out.string, words |-> x, lens |-> y, origin |-> out.origin]
             isString == V[i].kind = String
  <1>1. /\ i \in O /\ V[i].tag = tag /\ V[i].kind = kind /\ V[i] \in StreamType
        /\ Done(w, m, i) \in StreamType
        /\ Done(new, m, i) = Extended(Done(w, m, i), values) /\ Grown(Done(new, m, i), V[i])
        /\ \A k \in O \ {i} : V[k].tag # tag
    BY DEF Slot
  <1>0. /\ g.values = [t \in T |-> g.values[t]] /\ Cursor(out, Done(w, m, i), V[i])
        /\ \A k \in O \ {i} : Cursor(g.values[V[k].tag], Done(new, m, k), V[k])
        /\ g.ordered = IF kept THEN {} ELSE { j \in DOMAIN order : order[j] > 3 + Len(new.values) }
    BY Zenon DEF Found
  <1>2. Grown(Extended(Done(w, m, i), values), V[i]) /\ Cursor(out, Done(w, m, i), V[i])
    BY <1>0, <1>1, Zenon
  <1>3. /\ \A luck \in BOOLEAN : Readable(out, V[i].kind, Sizes(values), luck)
        /\ Values(out.words, Sizes(values)) = values
        /\ Cursor(next, Extended(Done(w, m, i), values), V[i])
    <2> DEFINE v == V[i]
               done == Done(w, m, i)
               p == next
    <2>1. p = [tag |-> out.tag, string |-> out.string, words |-> x, lens |-> y, origin |-> out.origin]
      OBVIOUS
    <2>2. v \in StreamType /\ done \in StreamType /\ Cursor(out, done, v) /\ Grown(Extended(done, values), v)
      BY <1>1, <1>2
    <2> HIDE DEF v, done, p, out
    <2>3. /\ \A luck \in BOOLEAN : Readable(out, v.kind, Sizes(values), luck)
          /\ Values(out.words, Sizes(values)) = values
          /\ Cursor(p, Extended(done, values), v)
      BY <2>1, <2>2, CursorStep, SMTT(60)
    <2> QED BY <2>3 DEF v, done, p
  <1>4. \A luck \in BOOLEAN : Takes(g, tag, values, luck, kind)
    BY <1>1, <1>3, Zenon DEF Takes
  <1>5. tag \in T
    BY <1>1
  <1>6. out = [tag |-> out.tag, string |-> out.string, words |-> out.words, lens |-> out.lens, origin |-> out.origin]
    <2>1. out = [tag |-> out.tag, string |-> isString, words |-> out.words, lens |-> out.lens, origin |-> V[i].tag]
      BY <1>2, Zenon DEF Cursor
    <2> DEFINE a == out.tag
               b == out.words
               c == out.lens
               d == V[i].tag
    <2>2. out = [tag |-> a, string |-> isString, words |-> b, lens |-> c, origin |-> d]
      BY <2>1
    <2> HIDE DEF isString, a, b, c, d, out
    <2>3. out.string = isString /\ out.origin = d /\ out.tag = a /\ out.words = b /\ out.lens = c
      BY <2>2
    <2> QED BY <2>2, <2>3
  <1>7. /\ h.values = [u \in T |-> h.values[u]] /\ \A u \in T \ {tag} : h.values[u] = g.values[u]
        /\ h.values[tag] = next
    <2> DEFINE gv == g.values
               hv == h.values
               a == out.tag
               b == out.words
               c == out.lens
               d == out.origin
               e == out.string
    <2>1. gv = [t \in T |-> gv[t]] /\ hv = WithLens(WithWords(gv, tag, x), tag, y)
      BY <1>0, Zenon DEF Taken
    <2>2. gv[tag] = CursorOf(a, e, b, c, d)
      BY <1>6 DEF CursorOf
    <2> HIDE DEF gv, hv, T, x, y, a, b, c, d, e
    <2>3. Replaced(WithLens(WithWords(gv, tag, x), tag, y), gv, T, tag, CursorOf(a, e, x, y, d))
      BY <1>5, <2>1, <2>2, WithTaken
    <2>4. Replaced(hv, gv, T, tag, CursorOf(a, e, x, y, d))
      BY <2>1, <2>3, Zenon
    <2> QED BY <2>4, Zenon DEF gv, hv, a, d, e, Replaced, CursorOf
  <1> HIDE DEF next, out, x, y
  <1>8. ASSUME NEW k \in O PROVE Cursor(h.values[V[k].tag], Done(new, m, k), V[k])
    <2>1. CASE k = i
      BY <1>1, <1>3, <1>7, <2>1, Zenon
    <2>2. CASE k # i
      <3>1. V[k].tag \in T \ {tag}
        BY <1>1, <2>2
      <3>2. Cursor(g.values[V[k].tag], Done(new, m, k), V[k])
        BY <1>0, <2>2
      <3>3. h.values[V[k].tag] = g.values[V[k].tag]
        <4> HIDE DEF T
        <4> QED BY <1>7, <3>1
      <3> QED BY <3>2, <3>3, Zenon
    <2> QED BY <2>1, <2>2
  <1>9. h.ordered = IF kept THEN {} ELSE { j \in DOMAIN order : order[j] > 3 + Len(new.values) }
    BY <1>0, Zenon DEF Taken
  <1> QED BY <1>4, <1>7, <1>8, <1>9, Zenon DEF CursorsLeft

(* The reader takes a field as it was written.                              *)
FieldRead(m, n, kept, order) ==
    /\ FrameLeft(frame', Written(m)[n + 1], m, kept, order)
    /\ decoded' = Append(decoded, m[n + 1])
    /\ phase' = phase /\ stack' = Written(m)[n + 1].stack

(* ... and a field: its cursor is found, it is readable, and holds the      *)
(* values the writer put there.                                             *)
LEMMA FieldStep ==
    ASSUME NEW m \in Messages, NEW n \in 0..(Len(m) - 1), m[n + 1].op = "field", NEW kept \in BOOLEAN,
           NEW order, Returned(kept, outputs, order, m),
           FrameLeft(frame, Written(m)[n], m, kept, order), stack = Written(m)[n].stack
    PROVE  /\ KnownField /\ Head(Types) \in Kinds
           /\ \A luck \in BOOLEAN : ReadField(luck) => FieldRead(m, n, kept, order)
  <1> DEFINE w == Written(m)[n]
             new == Written(m)[n + 1]
             token == m[n + 1]
             c == frame.control
             id == token.id
             f == FieldOf(stack, id)
             tag == Tag(stack, id)
             values == token.values
             counts == c[3]
             count   == IF f.repeated THEN Head(counts) ELSE 1
             lengths == IF f.repeated THEN Tail(counts) ELSE counts
             g       == requireStructuredCursor(frame, tag)
             sizes   == [i \in 1..count |-> IF f.kind = String THEN lengths[i] ELSE Width(f.kind)]
             left    == IF f.kind = String THEN SubSeq(lengths, count + 1, Len(lengths)) ELSE lengths
             third   == (IF f.repeated THEN << Len(values) >> ELSE <<>>)
                        \o (IF f.kind = String THEN Sizes(values) ELSE <<>>)
  <1>1. /\ w \in WriterType /\ Legal(stack, token) /\ new = Write(w, token)
        /\ stack \in Seq(Calls) /\ stack # <<>> /\ w.stack = stack
    <2>1. Len(m) \in Nat /\ n \in 0..Len(m)
      BY WrittenFacts
    <2>2. w \in WriterType /\ Legal(w.stack, token) /\ new = Write(w, token)
      BY <2>1, WrittenFacts
    <2> QED BY <2>2 DEF WriterType, Legal
  <1>2. new.stack = stack
    <2>1. token.op = "field" /\ token.op # "stop" /\ token.op # "open"
      OBVIOUS
    <2> HIDE DEF w, new, token
    <2> QED BY <1>1, <2>1, Zenon DEF Write
  <1>3. /\ token = [op |-> "field", id |-> id, values |-> values]
        /\ id \in DOMAIN Schema[Head(stack).type] /\ values \in Seq(Seq(Nat))
        /\ f.kind \in Kinds
        /\ ~ f.repeated => Len(values) = 1
        /\ f.kind # String => \A i \in 1..Len(values) : Len(values[i]) = Width(f.kind)
    <2>1. token.op = "field"
      OBVIOUS
    <2> HIDE DEF token
    <2>2. token # [op |-> "stop"] /\ token # [op |-> "open", id |-> token.id, count |-> token.count]
      BY <2>1
    <2> QED BY <1>1, <2>2, LegalFacts
  <1>4. f.repeated \in BOOLEAN /\ id \in Nat \ {0} /\ tag \in Paths
    BY <1>1, <1>3, FieldFacts
  <1>5. f.kind # Message /\ f.kind # Stop /\ f.kind \in Nat /\ id \in Nat
    BY <1>3, <1>4 DEF Kinds, Int32, Int64, String, Message, Stop
  <1>6. /\ ControlWords(stack, token, 1) = << id >> /\ ControlWords(stack, token, 2) = << f.kind >>
        /\ ControlWords(stack, token, 3) = third
    BY <1>5, ControlOfField
  <1>7. /\ frame = [control |-> c, values |-> frame.values, ordered |-> frame.ordered]
        /\ ControlsLeft(frame, w, m) /\ CursorsLeft(frame, w, m, kept, order)
        /\ c \in [Controls -> Seq(Nat)]
    BY DEF FrameLeft, ControlsLeft
  <1>8. 1 \in Controls /\ 2 \in Controls /\ 3 \in Controls
    BY DEF Controls
  <1>9. /\ \E rest \in Seq(Nat) : c[1] = << id >> \o rest
        /\ \E rest \in Seq(Nat) : c[2] = << f.kind >> \o rest
        /\ \E rest \in Seq(Nat) : c[3] = third \o rest
    <2>1. ASSUME NEW k \in Controls PROVE \E rest \in Seq(Nat) : c[k] = ControlWords(stack, token, k) \o rest
      <3>1. PICK rest \in Seq(Nat) : NextWords(frame, m, n, k, rest)
        BY <1>7, NextControl
      <3> QED BY <1>1, <3>1 DEF NextWords
    <2> HIDE DEF c, token, id, f, third
    <2> QED BY <1>6, <1>8, <2>1
  <1>10. /\ c[1] # <<>> /\ Head(c[1]) = id /\ Head(c[2]) = f.kind
         /\ \A rest \in Seq(Nat) : c[1] = << id >> \o rest => Tail(c[1]) = rest
         /\ \A rest \in Seq(Nat) : c[2] = << f.kind >> \o rest => Tail(c[2]) = rest
    <2> HIDE DEF c, id, f
    <2> QED BY <1>5, <1>9, FirstWord
  <1>11. FieldId = id /\ KnownField /\ Head(Types) = f.kind
    BY <1>1, <1>3, <1>10, Zenon DEF FieldId, KnownField, Types
  <1>12. \A rest \in Seq(Nat) : c[3] = third \o rest =>
           /\ ~ (f.repeated /\ counts = <<>>) /\ ~ (f.kind = String /\ Len(lengths) < count)
           /\ count = Len(values) /\ sizes = Sizes(values) /\ left = rest
    <2> SUFFICES ASSUME NEW rest \in Seq(Nat), c[3] = third \o rest
                 PROVE  /\ ~ (f.repeated /\ counts = <<>>) /\ ~ (f.kind = String /\ Len(lengths) < count)
                        /\ count = Len(values) /\ sizes = Sizes(values) /\ left = rest
      BY Zenon
    <2> DEFINE rep == f.repeated
               kind == f.kind
               x == counts
    <2>1. /\ rep \in BOOLEAN /\ kind \in Kinds /\ values \in Seq(Seq(Nat))
          /\ ~ rep => Len(values) = 1
          /\ kind # String => \A i \in 1..Len(values) : Len(values[i]) = Width(kind)
          /\ x = ((IF rep THEN << Len(values) >> ELSE <<>>)
                       \o (IF kind = String THEN Sizes(values) ELSE <<>>)) \o rest
      BY <1>3, <1>4
    <2> HIDE DEF rep, kind, x, values
    <2>2. LengthsRead(rep, kind, values, x, rest)
      BY <2>1, LengthsOfField
    <2> QED BY <2>2, Zenon DEF LengthsRead, rep, kind, x
  <1>13. PICK i \in 1..Len(Streams[m].values) : Slot(w, new, m, kept, tag, f.kind, values, i)
    BY <1>1, SlotFacts
  <1>14. /\ Len(w.values) \in Nat /\ Len(new.values) \in Nat /\ Len(new.values) <= Len(Streams[m].values)
    <2>1. new \in WriterType /\ Ahead(new, Streams[m])
      <3>1. n + 1 \in 0..Len(m)
        BY WrittenFacts
      <3> QED BY <3>1, WrittenFacts, StreamsFacts
    <2>2. w.values \in Seq(StreamType) /\ new.values \in Seq(StreamType)
      BY <1>1, <2>1 DEF WriterType
    <2>3. Len(new.values) <= Len(Streams[m].values)
      BY <2>1 DEF Ahead
    <2> HIDE DEF w, new
    <2> QED BY <2>2, <2>3, LenProperties
  <1>15. Found(frame, g, w, new, m, kept, order, tag, i)
    <2> DEFINE kind == f.kind
               taken == g
    <2>1. taken = requireStructuredCursor(frame, tag)
      OBVIOUS
    <2> HIDE DEF w, new, tag, kind, values, taken
    <2>2. Slot(w, new, m, kept, tag, kind, values, i)
      BY <1>13 DEF kind
    <2>3. Found(frame, taken, w, new, m, kept, order, tag, i)
      BY <1>7, <1>14, <2>1, <2>2, SlotCursor
    <2> QED BY <2>3 DEF taken
  <1>16. ASSUME NEW luck \in BOOLEAN, ReadField(luck) PROVE FieldRead(m, n, kept, order)
    <2> DEFINE ws == g.values[tag].words
               ls == g.values[tag].lens
               x == SubSeq(ws, Total(sizes) + 1, Len(ws))
               y == SubSeq(ls, count + 1, Len(ls))
               nc == With(With(With(c, 1, Tail(c[1])), 2, Tail(c[2])), 3, left)
               nv == WithLens(WithWords(g.values, tag, x), tag, y)
               go == g.ordered
               h == FrameOf(nc, nv, go)
    <2>1. PICK rest \in Seq(Nat) : c[3] = third \o rest
      BY <1>9
    <2>2. /\ ~ (f.repeated /\ counts = <<>>) /\ ~ (f.kind = String /\ Len(lengths) < count)
          /\ count = Len(values) /\ sizes = Sizes(values) /\ left = rest
      BY <1>12, <2>1
    <2>3. h.values = nv /\ h.ordered = g.ordered /\ h.control = nc
      <3> HIDE DEF nc, nv, go
      <3> QED BY FrameParts DEF go
    <2>4. Taken(g, h, tag, values)
      <3> HIDE DEF h, g, sizes, count, tag, values
      <3> QED BY <2>2, <2>3, Zenon DEF Taken
    <2>5. (\A any \in BOOLEAN : Takes(g, tag, values, any, f.kind)) /\ CursorsLeft(h, new, m, kept, order)
      <3> DEFINE kind == f.kind
      <3>1. Slot(w, new, m, kept, tag, kind, values, i)
        BY <1>13
      <3> HIDE DEF w, new, tag, values, kind, g, h
      <3>2. (\A any \in BOOLEAN : Takes(g, tag, values, any, kind)) /\ CursorsLeft(h, new, m, kept, order)
        BY <1>3, <1>15, <2>4, <3>1, TakeCursor
      <3> QED BY <3>2 DEF kind
    <2>6. Readable(g.values[tag], f.kind, sizes, luck) /\ Values(ws, sizes) = values
      <3> HIDE DEF g, sizes, tag, values, f
      <3> QED BY <2>2, <2>5, Zenon DEF Takes
    <2>7. /\ frame' = [g EXCEPT
                       !.control[1] = Tail(@), !.control[2] = Tail(@), !.control[3] = left,
                       !.values[tag].words = SubSeq(@, Total(sizes) + 1, Len(@)),
                       !.values[tag].lens  = SubSeq(@, count + 1, Len(@))]
          /\ decoded' = Append(decoded, [op |-> "field", id |-> id, values |-> Values(ws, sizes)])
          /\ phase' = phase /\ stack' = stack
      <3>1. FieldId = id
        BY <1>11
      <3>2. ~ (frame.ordered = {} /\ tag \notin DOMAIN frame.values)
        <4> HIDE DEF g, w, new, tag
        <4> QED BY <1>15, Zenon DEF Found
      <3> QED BY <1>16, <2>2, <2>6, <3>1, <3>2, ZenonT(90) DEF ReadField
    <2>8. g = FrameOf(c, g.values, go) /\ g.control = c
      <3> HIDE DEF g, w, new, tag
      <3> QED BY <1>15, Zenon DEF Found, FrameOf
    <2>9. frame' = h
      <3> DEFINE gv == g.values
                 f1 == Tail(c[1])
                 f2 == Tail(c[2])
      <3>1. frame' = SetLens(SetWords(SetControl(SetControl(SetControl(g, 1, f1), 2, f2), 3, left), tag, x), tag, y)
        <4> HIDE DEF g, sizes, count, left, tag
        <4> QED BY <2>7, <2>8, Zenon DEF SetControl, SetWords, SetLens
      <3>2. g = FrameOf(c, gv, go)
        BY <2>8
      <3> DEFINE c1 == With(c, 1, f1)
                 c2 == With(c1, 2, f2)
                 v1 == WithWords(gv, tag, x)
      <3>3. h = FrameOf(nc, WithLens(v1, tag, y), go) /\ nc = With(c2, 3, left)
        OBVIOUS
      <3> HIDE DEF g, gv, go, c, f1, f2, left, tag, x, y, c1, c2, v1, h, nc
      <3>4. SetControl(FrameOf(c, gv, go), 1, f1) = FrameOf(c1, gv, go)
        BY UpdateControl DEF c1
      <3>5. SetControl(FrameOf(c1, gv, go), 2, f2) = FrameOf(c2, gv, go)
        BY UpdateControl DEF c2
      <3>6. SetControl(FrameOf(c2, gv, go), 3, left) = FrameOf(nc, gv, go)
        BY <3>3, UpdateControl
      <3>7. SetWords(FrameOf(nc, gv, go), tag, x) = FrameOf(nc, v1, go)
        BY UpdateWords DEF v1
      <3>8. SetLens(FrameOf(nc, v1, go), tag, y) = FrameOf(nc, WithLens(v1, tag, y), go)
        BY UpdateLens
      <3> QED BY <3>1, <3>2, <3>3, <3>4, <3>5, <3>6, <3>7, <3>8, Zenon
    <2>10. /\ DOMAIN nc = Controls /\ nc = [k \in Controls |-> nc[k]]
           /\ nc[1] = Tail(c[1]) /\ nc[2] = Tail(c[2]) /\ nc[3] = left
      <3> HIDE DEF c, left
      <3> QED BY <1>7, WithThree
    <2> HIDE DEF nc, nv, go, h
    <2>11. TookWords(frame, m, n, h)
      <3> SUFFICES ASSUME NEW k \in Controls, NEW more \in Seq(Nat),
                          frame.control[k] = ControlWords(stack, token, k) \o more
                   PROVE  h.control[k] = more
        BY <1>1, Zenon DEF TookWords
      <3>1. CASE k = 1
        <4>1. c[1] = << id >> \o more
          BY <1>6, <3>1
        <4>2. Tail(c[1]) = more
          BY <1>10, <4>1
        <4> QED BY <2>3, <2>10, <3>1, <4>2, Zenon
      <3>2. CASE k = 2
        <4>1. c[2] = << f.kind >> \o more
          BY <1>6, <3>2
        <4>2. Tail(c[2]) = more
          BY <1>10, <4>1
        <4> QED BY <2>3, <2>10, <3>2, <4>2, Zenon
      <3>3. CASE k = 3
        <4>1. c[3] = third \o more
          BY <1>6, <3>3
        <4>2. left = more
          BY <1>12, <4>1
        <4> QED BY <2>3, <2>10, <3>3, <4>2, Zenon
      <3> QED BY <3>1, <3>2, <3>3 DEF Controls
    <2>12. ControlsLeft(h, new, m)
      <3>1. h.control = [k \in Controls |-> h.control[k]]
        <4>1. ASSUME NEW z, z = h.control PROVE z = [k \in Controls |-> z[k]]
          BY <2>3, <2>10, <4>1
        <4> QED BY <4>1, Zenon
      <3> HIDE DEF w, new
      <3> QED BY <1>7, <2>11, <3>1, ControlStep DEF w, new
    <2>13. h = [control |-> h.control, values |-> h.values, ordered |-> h.ordered]
      <3>1. h = FrameOf(nc, nv, go) /\ h.ordered = go
        BY <2>3 DEF h, go
      <3> QED BY <2>3, <3>1, Zenon DEF FrameOf
    <2>14. FrameLeft(h, new, m, kept, order)
      BY <2>5, <2>12, <2>13, Zenon DEF FrameLeft
    <2>15. decoded' = Append(decoded, token)
      <3> HIDE DEF token, values, ws, sizes
      <3> QED BY <1>3, <2>6, <2>7, Zenon
    <2> QED BY <1>2, <2>7, <2>9, <2>14, <2>15, Zenon DEF FieldRead
  <1> QED BY <1>3, <1>11, <1>16, Zenon

(* What is left of the field types tells how many tokens are left.           *)
LEMMA TypesLeft ==
    ASSUME NEW m \in Messages, NEW n \in 0..Len(m), NEW f, ControlsLeft(f, Written(m)[n], m)
    PROVE  n = Len(m) <=> f.control[2] = <<>>
  <1> DEFINE a == Written(m)[n].control[2]
             x == f.control[2]
             all == Streams[m].control[2]
  <1>1. 2 \in Controls
    BY DEF Controls
  <1>2. x \in Seq(Nat) /\ a \o x = all
    BY <1>1 DEF ControlsLeft
  <1>3. Len(a) = n /\ Len(all) = Len(m) /\ Len(m) \in Nat /\ a \in Seq(Nat)
    <2>1. Len(m) \in Nat /\ Len(m) \in 0..Len(m) /\ Streams[m] = Written(m)[Len(m)]
      BY WrittenFacts, StreamsFacts
    <2>2. Len(a) = n /\ Len(all) = Len(m) /\ Written(m)[n] \in WriterType
      BY <2>1, WrittenFacts
    <2> QED BY <1>1, <2>1, <2>2 DEF WriterType
  <1> HIDE DEF a, x, all
  <1>4. Len(all) = Len(a) + Len(x) /\ Len(x) \in Nat
    BY <1>2, <1>3, ConcatPoints, LenProperties
  <1>5. Len(x) = 0 <=> x = <<>>
    BY <1>2, EmptySeq
  <1>6. n = Len(m) <=> Len(x) = 0
    <2> DEFINE p == Len(a)
               q == Len(x)
               r == Len(m)
    <2>1. p = n /\ r = p + q /\ p \in Nat /\ q \in Nat /\ r \in Nat
      BY <1>3, <1>4
    <2> HIDE DEF p, q, r
    <2> QED BY <2>1 DEF q, r
  <1> QED BY <1>5, <1>6 DEF x

(* One token further: the reader is where the writer was.                    *)
LEMMA Advance ==
    ASSUME NEW m \in Messages, ReadSoFar(m), Len(decoded) < Len(m),
           decoded' = Append(decoded, m[Len(decoded) + 1]),
           stack' = Written(m)[Len(decoded) + 1].stack,
           phase' = "read" => stack' = <<>>
    PROVE  ReadSoFar(m)' /\ Len(decoded') = Len(decoded) + 1
  <1> DEFINE n == Len(decoded)
  <1>1. /\ decoded \in Seq(Tokens) /\ n \in Nat /\ Len(m) \in Nat /\ m \in Seq(Tokens)
        /\ \A k \in 1..n : decoded[k] = m[k]
    BY WrittenFacts, LenProperties DEF ReadSoFar
  <1>2. m[n + 1] \in Tokens
    <2>1. n + 1 \in 1..Len(m)
      <3> HIDE DEF n
      <3>1. n < Len(m)
        BY DEF n
      <3> QED BY <1>1, <3>1
    <2> QED BY <1>1, <2>1, ElementOfSeq
  <1>3. /\ decoded' \in Seq(Tokens) /\ Len(decoded') = n + 1 /\ decoded'[n + 1] = m[n + 1]
        /\ \A k \in 1..n : decoded'[k] = decoded[k]
    BY <1>1, <1>2, AppendProperties
  <1>4. phase' = "read" => n + 1 = Len(m)
    <2> SUFFICES ASSUME phase' = "read", n + 1 # Len(m) PROVE FALSE
      OBVIOUS
    <2>1. n + 1 \in 0..(Len(m) - 1)
      BY <1>1
    <2>2. Legal(Written(m)[n + 1].stack, m[n + 1 + 1])
      BY <2>1, WrittenFacts
    <2> QED BY <2>2 DEF Legal
  <1>5. n + 1 <= Len(m) /\ \A k \in 1..(n + 1) : decoded'[k] = m[k]
    BY <1>1, <1>3
  <1> HIDE DEF n
  <1> QED BY <1>3, <1>4, <1>5 DEF ReadSoFar, n

(* Whatever token comes next, the reader takes it and never fails.          *)
LEMMA ReadStep ==
    ASSUME NEW m \in Messages, NEW kept \in BOOLEAN, NEW order, Returned(kept, outputs, order, m),
           phase = "reading", ReadSoFar(m), FrameLeft(frame, Written(m)[Len(decoded)], m, kept, order), Read
    PROVE  /\ ReadSoFar(m)' /\ phase' # "failed"
           /\ FrameLeft(frame', Written(m)[Len(decoded')], m, kept, order)
  <1> DEFINE n == Len(decoded)
             token == m[n + 1]
             w == Written(m)[n]
             new == Written(m)[n + 1]
             id == token.id
  <1>1. n \in Nat /\ Len(m) \in Nat /\ n <= Len(m) /\ stack = w.stack
    BY WrittenFacts, LenProperties DEF ReadSoFar
  <1>2. n \in 0..(Len(m) - 1) /\ n < Len(m)
    <2>1. ControlsLeft(frame, w, m)
      BY DEF FrameLeft
    <2>2. frame.control[2] # <<>>
      BY DEF Read, Types
    <2>3. n \in 0..Len(m)
      BY <1>1
    <2>4. n # Len(m)
      BY <2>1, <2>2, <2>3, TypesLeft
    <2> QED BY <1>1, <2>4
  <1>3. Legal(stack, token) /\ stack \in Seq(Calls)
    <2>1. n \in 0..Len(m)
      BY <1>1
    <2>2. Legal(w.stack, token) /\ w \in WriterType
      BY <1>2, <2>1, WrittenFacts
    <2> QED BY <1>1, <2>2 DEF WriterType
  <1>4. token.op \in {"stop", "open", "field"}
    BY <1>3 DEF Legal, Tokens
  <1>5. FrameLeft(frame, w, m, kept, order)
    OBVIOUS
  <1>6. Stop # Message /\ Stop \notin Kinds /\ Message \notin Kinds
    BY DEF Stop, Message, Kinds, Int32, Int64, String
  <1>7. ReadStop \/ UnknownField \/ ReadMessage \/ \E luck \in BOOLEAN : ReadField(luck)
    BY DEF Read
  <1>8. SUFFICES /\ FrameLeft(frame', new, m, kept, order) /\ decoded' = Append(decoded, token)
                 /\ stack' = new.stack /\ phase' \in {"reading", "read"}
                 /\ phase' = "read" => stack' = <<>>
    <2>1. ReadSoFar(m)' /\ Len(decoded') = n + 1
      BY <1>2, <1>8, Advance
    <2> QED BY <1>8, <2>1
  <1>9. CASE token.op = "stop"
    <2> DEFINE g == [frame EXCEPT !.control[2] = Tail(@)]
    <2>1. Head(Types) = Stop /\ FrameLeft(g, new, m, kept, order) /\ new.stack = Leave(stack)
      <3>1. Stopped(frame, m, n, kept, order)
        BY <1>2, <1>5, <1>9, StopStep
      <3> QED BY <1>1, <3>1, Zenon DEF Stopped, Types
    <2>2. ReadStop
      BY <1>6, <1>7, <2>1, Zenon DEF UnknownField, ReadMessage, ReadField
    <2>3. frame' = g /\ stack' = Leave(stack) /\ phase' = (IF stack' = <<>> THEN "read" ELSE phase)
          /\ decoded' = Append(decoded, [op |-> "stop"])
      BY <2>2, Zenon DEF ReadStop
    <2>4. token = [op |-> "stop"]
      <3> HIDE DEF token
      <3>1. token # [op |-> "open", id |-> token.id, count |-> token.count]
            /\ token # [op |-> "field", id |-> token.id, values |-> token.values]
        BY <1>9
      <3> QED BY <1>3, <3>1, LegalFacts
    <2> HIDE DEF g, new, token
    <2> QED BY <2>1, <2>3, <2>4
  <1>10. CASE token.op = "open"
    <2> DEFINE f == FieldOf(stack, id)
               g == [frame EXCEPT !.control[1] = Tail(@), !.control[2] = Tail(@),
                                  !.control[3] = IF f.repeated THEN Tail(@) ELSE @]
               counts == frame.control[3]
    <2>1. /\ stack # <<>> /\ id \in DOMAIN Schema[Head(stack).type]
          /\ token = [op |-> "open", id |-> id, count |-> token.count]
          /\ f.kind = Message /\ Head(frame.control[2]) = Message
          /\ frame.control[1] # <<>> /\ Head(frame.control[1]) = id
          /\ IF f.repeated THEN counts # <<>> /\ Head(counts) = token.count ELSE token.count = 1
          /\ FrameLeft(g, new, m, kept, order)
          /\ new.stack = Enter(stack, id, token.count)
      <3>1. OpenedField(frame, m, n, kept, order)
        BY <1>2, <1>5, <1>10, OpenStep
      <3> QED BY <1>1, <3>1, Zenon DEF OpenedField, OpenedAs
    <2>2. Head(Types) = Message /\ FieldId = id /\ KnownField
      BY <2>1, Zenon DEF Types, FieldId, KnownField
    <2>3. ReadMessage
      BY <1>6, <1>7, <2>2, Zenon DEF UnknownField, ReadStop, ReadField
    <2>4. ~ (f.repeated /\ counts = <<>>) /\ (IF f.repeated THEN Head(counts) ELSE 1) = token.count
      BY <2>1, Zenon
    <2>5. /\ frame' = g /\ stack' = Enter(stack, id, token.count) /\ phase' = phase
          /\ decoded' = Append(decoded, [op |-> "open", id |-> id, count |-> token.count])
      <3> HIDE DEF token, id
      <3> QED BY <2>2, <2>3, <2>4, Zenon DEF ReadMessage
    <2> HIDE DEF g, new, token
    <2> QED BY <2>1, <2>5
  <1>11. CASE token.op = "field"
    <2>1. KnownField /\ Head(Types) \in Kinds
      BY <1>1, <1>2, <1>5, <1>11, FieldStep
    <2>2. \A luck \in BOOLEAN : ReadField(luck) => FieldRead(m, n, kept, order)
      BY <1>1, <1>2, <1>5, <1>11, FieldStep
    <2>3. Head(Types) # Stop /\ Head(Types) # Message
      BY <1>6, <2>1
    <2>4. \E luck \in BOOLEAN : ReadField(luck)
      BY <1>7, <2>1, <2>3, Zenon DEF UnknownField, ReadStop, ReadMessage
    <2>5. FieldRead(m, n, kept, order)
      BY <2>2, <2>4
    <2>6. /\ FrameLeft(frame', new, m, kept, order) /\ decoded' = Append(decoded, token)
          /\ stack' = new.stack /\ phase' = "reading"
      BY <2>5, Zenon DEF FieldRead
    <2> QED BY <2>6
  <1> QED BY <1>4, <1>9, <1>10, <1>11

-----------------------------------------------------------------------------
(* The reader's half of the invariant is kept by every step.                *)
Kept == tagged \in BOOLEAN

(* The engine either keeps the tags or does not.                            *)
LEMMA KeptHolds == Spec => []Kept
  <1>1. Init => Kept
    BY DEF Init, Kept
  <1>2. Kept /\ [Next]_vars => Kept'
    BY Zenon DEF Kept, Next, vars, Work, compressStructuredNative, compressStructuredSampleNative,
      trainStructuredNative, Begin, Build, Forget, Train, Compress, EngineFails, Decode, Read, EndOfTypes, Return
  <1> QED BY <1>1, <1>2, PTL DEF Spec

LEMMA NotReading ==
    ASSUME [Next]_vars, phase' \in {"reading", "read", "failed"}
    PROVE  Decode \/ Read \/ EndOfTypes \/ UNCHANGED vars
  BY DEF Next, Work, compressStructuredNative, compressStructuredSampleNative, trainStructuredNative,
    Begin, Build, Train, Compress, EngineFails, Return, vars

(* decodeStructuredFrame puts the reader where the writer started.          *)
LEMMA DecodeReading ==
    ASSUME Prepared, Kept, Decode
    PROVE  Reading'
  <1> DEFINE m == given[1]
             f == decodeStructuredFrame(outputs)
  <1>1. /\ phase = "compressed" /\ stack' = Bottom /\ given' = given /\ decoded' = decoded
        /\ tagged' = tagged /\ outputs' = outputs
        /\ phase' = (IF f.error THEN "failed" ELSE "reading")
        /\ frame' = [control |-> f.control, values |-> f.values, ordered |-> f.ordered]
    BY DEF Decode
  <1>2. SUFFICES ASSUME ~ Ambiguous'
                 PROVE  /\ phase' # "failed" /\ ReadSoFar(m)'
                        /\ \E order : /\ Returned(tagged', outputs', order, m')
                                      /\ FrameLeft(frame', Written(m')[Len(decoded')], m', tagged', order)
    BY DEF Reading
  <1>3. m \in Messages /\ (\E order : Returned(tagged, outputs, order, m)) /\ decoded = <<>>
    BY <1>1 DEF Prepared, Compressed, Unread
  <1>4. PICK order : Returned(tagged, outputs, order, m)
    BY <1>3
  <1>5. Clear(tagged, outputs)
    BY <1>1, <1>2 DEF Ambiguous, Clear
  <1>6. ~ f.error /\ FrameLeft(frame', Written(m)[0], m, tagged, order)
    <2> DEFINE g == f
    <2> HIDE DEF g, m
    <2>1. g = decodeStructuredFrame(outputs) /\ tagged \in BOOLEAN
      BY DEF g, Kept
    <2>2. ~ g.error /\ FrameLeft([control |-> g.control, values |-> g.values, ordered |-> g.ordered],
                                 Written(m)[0], m, tagged, order)
      BY <1>3, <1>4, <1>5, <2>1, DecodeFacts
    <2> QED BY <1>1, <2>2, Zenon DEF g
  <1>7. decoded' = <<>> /\ Len(decoded') = 0 /\ decoded' \in Seq(Tokens)
    BY <1>1, <1>3
  <1>8. ReadSoFar(m)'
    <2>1. stack' = Written(m)[0].stack /\ Len(m) \in Nat
      BY <1>1, <1>3, WrittenFacts
    <2>2. phase' = "reading" /\ m' = m
      BY <1>1, <1>6
    <2> HIDE DEF m
    <2> QED BY <1>7, <2>1, <2>2 DEF ReadSoFar
  <1> QED BY <1>1, <1>4, <1>6, <1>7, <1>8

(* Every round of readStructuredMessage, and the end of the types, keep the *)
(* reader where the writer was.                                             *)
LEMMA ReadReading ==
    ASSUME Prepared, Kept, Reading, Read \/ EndOfTypes
    PROVE  Reading'
  <1>1. /\ phase = "reading" /\ given' = given /\ tagged' = tagged /\ outputs' = outputs
    BY DEF Read, EndOfTypes
  <1>2. SUFFICES ASSUME ~ Ambiguous' PROVE Reading'
    BY DEF Reading
  <1>3. ~ Ambiguous
    BY <1>1, <1>2 DEF Ambiguous
  <1>4. /\ ReadSoFar(given[1])
        /\ \E order : /\ Returned(tagged, outputs, order, given[1])
                      /\ FrameLeft(frame, Written(given[1])[Len(decoded)], given[1], tagged, order)
    BY <1>1, <1>3 DEF Reading
  <1>5. given[1] \in Messages
    BY <1>1 DEF Prepared, Compressed
  <1>6. SUFFICES ASSUME NEW m, m = given[1], NEW kept \in BOOLEAN, kept = tagged
                 PROVE  /\ phase' # "failed" /\ ReadSoFar(m)'
                        /\ \E order : /\ Returned(kept, outputs, order, m)
                                      /\ FrameLeft(frame', Written(m)[Len(decoded')], m, kept, order)
    <2> DEFINE Holds(m, kept) ==
                 /\ phase' # "failed" /\ decoded' \in Seq(Tokens) /\ Len(decoded') <= Len(m)
                 /\ \A k \in 1..Len(decoded') : decoded'[k] = m[k]
                 /\ stack' = Written(m)[Len(decoded')].stack
                 /\ phase' = "read" => Len(decoded') = Len(m)
                 /\ \E order : /\ Returned(kept, outputs, order, m)
                               /\ FrameLeft(frame', Written(m)[Len(decoded')], m, kept, order)
    <2>1. Holds(given[1], tagged)
      <3>1. \A m, kept : m = given[1] /\ kept \in BOOLEAN /\ kept = tagged => Holds(m, kept)
        BY <1>6, Zenon DEF ReadSoFar
      <3> HIDE DEF Holds
      <3> QED BY <3>1 DEF Kept
    <2>2. given'[1] = given[1] /\ tagged' = tagged /\ outputs' = outputs
      BY <1>1
    <2> QED BY <2>1, <2>2, Zenon DEF Reading, ReadSoFar
  <1>7. PICK order : /\ Returned(kept, outputs, order, m)
                     /\ FrameLeft(frame, Written(m)[Len(decoded)], m, kept, order)
    BY <1>4, <1>6
  <1>8. m \in Messages /\ ReadSoFar(m)
    BY <1>4, <1>5, <1>6
  <1>9. CASE Read
    BY <1>1, <1>7, <1>8, <1>9, ReadStep
  <1>10. CASE EndOfTypes
    <2>1. phase' = "read" /\ frame' = frame /\ stack' = stack /\ decoded' = decoded
          /\ frame.control[2] = <<>>
      BY <1>10 DEF EndOfTypes, Types
    <2>2. Len(decoded) \in 0..Len(m)
      BY <1>8, WrittenFacts, LenProperties DEF ReadSoFar
    <2>3. Len(decoded) = Len(m)
      BY <1>7, <1>8, <2>1, <2>2, TypesLeft DEF FrameLeft
    <2>4. ReadSoFar(m)'
      BY <1>8, <2>1, <2>3 DEF ReadSoFar
    <2> QED BY <1>7, <2>1, <2>4
  <1> QED BY <1>9, <1>10

(* The second half of the invariant.                                        *)
LEMMA ReadingHolds == Spec => []Reading
  <1>1. Init => Reading
    BY DEF Init, Reading
  <1>2. ASSUME Prepared, Kept, Reading, [Next]_vars PROVE Reading'
    <2>1. CASE phase' \notin {"reading", "read", "failed"}
      BY <2>1 DEF Reading
    <2>2. CASE Decode
      BY <1>2, <2>2, DecodeReading
    <2>3. CASE Read \/ EndOfTypes
      BY <1>2, <2>3, ReadReading
    <2>4. CASE UNCHANGED vars
      <3>1. UNCHANGED <<phase, given, tagged, outputs, frame, stack, decoded>>
        BY <2>4 DEF vars
      <3> QED BY <1>2, <3>1, Zenon DEF Reading, Ambiguous, ReadSoFar
    <2> QED BY <1>2, <2>1, <2>2, <2>3, <2>4, NotReading
  <1> QED BY <1>1, <1>2, PreparedHolds, KeptHolds, PTL DEF Spec

(* A stream nothing is left of.                                             *)
LEMMA NothingLeft ==
    \A a, x \in Seq(Nat) : a \o x = a => x = <<>>
  <1> SUFFICES ASSUME NEW a \in Seq(Nat), NEW x \in Seq(Nat), a \o x = a PROVE x = <<>>
    OBVIOUS
  <1>1. Len(a \o x) = Len(a) + Len(x) /\ Len(a) \in Nat /\ Len(x) \in Nat
    BY ConcatPoints, LenProperties
  <1>2. Len(x) = 0
    BY <1>1
  <1> QED BY <1>2, EmptySeq

(* A cursor is that of the stream it was made from.                         *)
LEMMA CursorOrigin ==
    ASSUME NEW out, NEW done, NEW v, Cursor(out, done, v)
    PROVE  out.origin = v.tag
  <1> DEFINE a == out.tag
             b == v.kind = String
             c == out.words
             d == out.lens
             e == v.tag
  <1>1. out = [tag |-> a, string |-> b, words |-> c, lens |-> d, origin |-> e]
    BY DEF Cursor
  <1> HIDE DEF a, b, c, d, e
  <1>2. out.origin = e
    BY <1>1
  <1> QED BY <1>2 DEF e

(* When the reader is done, every word of the frame has been read.           *)
LEMMA FrameUsed ==
    ASSUME NEW m \in Messages, NEW kept \in BOOLEAN, NEW outs, NEW order, Returned(kept, outs, order, m),
           NEW f, FrameLeft(f, Written(m)[Len(m)], m, kept, order)
    PROVE  /\ \A c \in Controls : f.control[c] = <<>>
           /\ f.ordered = {}
           /\ \A t \in DOMAIN f.values : f.values[t].words = <<>> /\ f.values[t].lens = <<>>
  <1> DEFINE S == Streams[m]
             V == S.values
             N == Len(V)
  <1>1. Written(m)[Len(m)] = S /\ S.control \in [Controls -> Seq(Nat)] /\ V \in Seq(StreamType)
    BY StreamsFacts
  <1>2. ControlsLeft(f, S, m) /\ CursorsLeft(f, S, m, kept, order) /\ N \in Nat
    BY <1>1, LenProperties DEF FrameLeft
  <1>3. ASSUME NEW c \in Controls PROVE f.control[c] = <<>>
    <2> DEFINE a == S.control[c]
               x == f.control[c]
    <2>1. a \in Seq(Nat) /\ x \in Seq(Nat) /\ a \o x = a
      BY <1>1, <1>2 DEF ControlsLeft
    <2> HIDE DEF a, x
    <2>2. x = <<>>
      BY <2>1, NothingLeft
    <2> QED BY <2>2 DEF x
  <1>4. f.ordered = {}
    <2>1. Shuffled(kept, outs, order, m, 3 + N)
      BY OutputFacts
    <2>2. \A j \in DOMAIN order : order[j] \in 1..(3 + N)
      <3> HIDE DEF N
      <3> QED BY <2>1 DEF Shuffled
    <2>3. \A j \in DOMAIN order : ~ order[j] > 3 + N
      <3> HIDE DEF N
      <3> QED BY <1>2, <2>2
    <2>4. f.ordered = IF kept THEN {} ELSE { j \in DOMAIN order : order[j] > 3 + N }
      BY <1>2 DEF CursorsLeft
    <2> QED BY <2>3, <2>4
  <1>5. Opened(S, m, kept) = 1..N
    BY DEF Opened
  <1>6. ASSUME NEW t \in DOMAIN f.values PROVE f.values[t].words = <<>> /\ f.values[t].lens = <<>>
    <2>1. f.values = [u \in { V[i].tag : i \in 1..N } |-> f.values[u]]
      BY <1>2, <1>5, Zenon DEF CursorsLeft
    <2>2. DOMAIN f.values = { V[i].tag : i \in 1..N }
      <3> DEFINE T == { V[i].tag : i \in 1..N }
      <3> HIDE DEF T
      <3>1. f.values = [u \in T |-> f.values[u]]
        BY <2>1, Zenon DEF T
      <3>2. DOMAIN f.values = T
        BY <3>1
      <3> QED BY <3>2, Zenon DEF T
    <2>3. PICK i \in 1..N : t = V[i].tag
      BY <2>2
    <2>4. Cursor(f.values[t], Done(S, m, i), V[i])
      BY <1>2, <1>5, <2>3, Zenon DEF CursorsLeft
    <2>5. Done(S, m, i) = V[i]
      BY <1>2 DEF Done
    <2> DEFINE v == V[i]
               x == f.values[t].words
               y == f.values[t].lens
    <2>6. v.words \in Seq(Nat) /\ v.lens \in Seq(Nat)
      <3>1. v \in StreamType
        BY <1>1, ElementOfSeq
      <3> QED BY <3>1 DEF StreamType
    <2>7. x \in Seq(Nat) /\ y \in Seq(Nat) /\ v.words \o x = v.words /\ v.lens \o y = v.lens
      BY <2>4, <2>5, Zenon DEF Cursor
    <2> HIDE DEF v, x, y
    <2>8. x = <<>> /\ y = <<>>
      BY <2>6, <2>7, NothingLeft
    <2> QED BY <2>8 DEF x, y
  <1> QED BY <1>3, <1>4, <1>6

(* A compressed message decodes to itself, whatever order the engine        *)
(* returns its streams in and whether or not it keeps the tags              *)
(* (decodeStructuredFrame, readStructuredMessage).                          *)
THEOREM RoundTrip == Spec => []Faithful
  <1>1. ASSUME Prepared, Kept, Reading PROVE Faithful
    <2> DEFINE m == given[1]
    <2>1. SUFFICES ASSUME phase \in {"reading", "read", "failed"}, ~ Ambiguous
                   PROVE  /\ phase # "failed" /\ IsPrefix(decoded, m)
                          /\ phase = "read" => /\ decoded = m
                                               /\ \A c \in Controls : frame.control[c] = <<>>
                                               /\ frame.ordered = {}
                                               /\ \A t \in DOMAIN frame.values :
                                                    /\ frame.values[t].words = <<>>
                                                    /\ frame.values[t].lens = <<>>
      BY Zenon DEF Faithful
    <2>2. phase # "failed" /\ ReadSoFar(m)
      BY <1>1, <2>1 DEF Reading
    <2>3. PICK order : /\ Returned(tagged, outputs, order, m)
                       /\ FrameLeft(frame, Written(m)[Len(decoded)], m, tagged, order)
      BY <1>1, <2>1 DEF Reading
    <2>4. m \in Messages /\ tagged \in BOOLEAN
      BY <1>1, <2>1 DEF Prepared, Compressed, Kept
    <2>5. /\ decoded \in Seq(Tokens) /\ m \in Seq(Tokens) /\ Len(decoded) <= Len(m)
          /\ \A k \in 1..Len(decoded) : decoded[k] = m[k]
          /\ Len(decoded) \in Nat /\ Len(m) \in Nat
      BY <2>2, <2>4, WrittenFacts, LenProperties DEF ReadSoFar
    <2> HIDE DEF m
    <2>6. IsPrefix(decoded, m)
      BY <2>5 DEF IsPrefix
    <2>7. ASSUME phase = "read"
          PROVE  /\ decoded = m /\ \A c \in Controls : frame.control[c] = <<>>
                 /\ frame.ordered = {}
                 /\ \A t \in DOMAIN frame.values : frame.values[t].words = <<>> /\ frame.values[t].lens = <<>>
      <3>1. Len(decoded) = Len(m)
        BY <2>2, <2>7 DEF ReadSoFar
      <3>2. decoded = m
        BY <2>5, <3>1, SeqEqual
      <3>3. FrameLeft(frame, Written(m)[Len(m)], m, tagged, order)
        BY <2>3, <3>1
      <3> QED BY <2>3, <2>4, <3>2, <3>3, FrameUsed
    <2> QED BY <2>2, <2>6, <2>7, Zenon
  <1> QED BY <1>1, PreparedHolds, KeptHolds, ReadingHolds, PTL

(* A field's values are read from the stream written for that field, also   *)
(* when untagged streams are handed out in the order their tags are first   *)
(* asked for (requireStructuredCursor).                                     *)
THEOREM NotSwapped == Spec => []StreamsNotSwapped
  <1>1. ASSUME Prepared, Reading PROVE StreamsNotSwapped
    <2>1. SUFFICES ASSUME ~ Ambiguous, NEW t \in DOMAIN frame.values
                   PROVE  frame.values[t].origin = t
      BY DEF StreamsNotSwapped
    <2>2. CASE phase \in {"idle", "building", "compressed"}
      <3>1. frame.values = <<>>
        BY <1>1, <2>2 DEF Prepared, Unread, NoFrame
      <3> QED BY <3>1
    <2>3. CASE phase \in {"reading", "read", "failed"}
      <3> DEFINE m == given[1]
      <3>1. PICK order : FrameLeft(frame, Written(m)[Len(decoded)], m, tagged, order)
        BY <1>1, <2>1, <2>3 DEF Reading
      <3> DEFINE w == Written(m)[Len(decoded)]
                 V == Streams[m].values
                 O == Opened(w, m, tagged)
                 T == { V[i].tag : i \in O }
      <3>2. frame.values = [u \in T |-> frame.values[u]]
        BY <3>1, Zenon DEF FrameLeft, CursorsLeft
      <3>3. t \in T
        <4> HIDE DEF T
        <4> QED BY <3>2
      <3>4. PICK i \in O : t = V[i].tag
        BY <3>3
      <3>5. Cursor(frame.values[t], Done(w, m, i), V[i])
        BY <3>1, <3>4, Zenon DEF FrameLeft, CursorsLeft
      <3> HIDE DEF w, V
      <3> QED BY <3>4, <3>5, CursorOrigin
    <2> QED BY <1>1, <2>2, <2>3 DEF Prepared, Phases
  <1> QED BY <1>1, PreparedHolds, ReadingHolds, PTL

=============================================================================
