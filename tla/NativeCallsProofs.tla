------------------------- MODULE NativeCallsProofs -------------------------
(***************************************************************************)
(* What the range tests decide, and that accesses stay inside the tested   *)
(* ranges, for every width of jint; and what a native method owes the JVM, *)
(* on every path of every method.                                          *)
(*                                                                         *)
(* The second part reasons about the steps a method has left.  A bound     *)
(* says what may be pinned, held, pending or committed now; Takes(m, l, s, *)
(* k) that the steps s lead from bound l to bound k by the rules, and      *)
(* Ends(m, l, s) that with them the method ends; there is one rule for     *)
(* each kind of step, for their sequence, for a choice and for a loop.     *)
(* They show of every method that it ends, from nothing pinned or held, by *)
(* the rules, and the invariant is that the one that runs still does.      *)
(***************************************************************************)
EXTENDS NativeCalls, TLAPS

\* checkArrayRange accepts exactly the ranges that lie in the array: its
\* subtraction cannot overflow once offset <= size is known.
THEOREM ArrayRangeExact ==
    \A size \in Size, offset, length \in JInt :
        CheckArrayRange(size, offset, length) <=> Inside(size, offset, length)
  BY MaxIntAssumption DEF Size, JInt, CheckArrayRange, Inside, Wrap

\* ensureDirectRange accepts exactly the ranges that lie in the buffer.
THEOREM DirectRangeExact ==
    \A capacity \in Size, position, length \in JInt :
        EnsureDirectRange(capacity, position, length) <=> Inside(capacity, position, length)
  BY MaxIntAssumption DEF Size, JInt, EnsureDirectRange, Inside

\* convert(ByteBuffer, length, ...) hands the native side a range of the buffer.
THEOREM DirectLengthExact ==
    \A capacity \in Size, length \in JInt :
        CheckDirectLength(capacity, length) <=> Inside(capacity, 0, length)
  BY MaxIntAssumption DEF Size, JInt, CheckDirectLength, Inside

\* Both slice tests accept a range outside the array exactly when the sum
\* offset + length does not fit a jint and the offset itself is in the array:
\* neither of the two repairs the other.
THEOREM SliceExactUnlessOverflow ==
    \A size \in Size, offset, length \in JInt :
        /\ CheckSlice(size, offset, length) =>
              (Inside(size, offset, length) <=> offset + length <= MaxInt)
        /\ CheckSlice(size, offset, length) => CheckSliceInJava(size, offset, length)
        /\ Inside(size, offset, length) => CheckSlice(size, offset, length)
  BY MaxIntAssumption DEF Size, JInt, CheckSlice, CheckSliceInJava, Inside, Wrap

\* A required length is reported as a negative jint, from which the caller
\* can compute it: no length collides with another or with a byte count.
THEOREM RequiredLengthDecodes ==
    \A required \in Size :
        /\ EncodeRequiredLength(required) \in JInt
        /\ EncodeRequiredLength(required) < 0
        /\ -EncodeRequiredLength(required) - 1 = required
  BY MaxIntAssumption DEF Size, JInt, EncodeRequiredLength

-----------------------------------------------------------------------------
\* An accepted range lies in its array or buffer, unless it is a slice.
LEMMA AcceptedIsInside ==
    \A test \in RangeTests, size \in Size, offset, length \in JInt :
        Accepts(test, size, offset, length) /\ test # "sliceRange"
            => Inside(size, offset, length)
<1> SUFFICES ASSUME NEW test \in RangeTests, NEW size \in Size,
                    NEW offset \in JInt, NEW length \in JInt,
                    Accepts(test, size, offset, length), test # "sliceRange"
             PROVE  Inside(size, offset, length)
    OBVIOUS
<1>1. CASE test = "arrayRange"
    BY <1>1, ArrayRangeExact DEF Accepts
<1>2. CASE test = "directRange"
    BY <1>2, DirectRangeExact DEF Accepts
<1>3. CASE test = "directLength"
    BY <1>3, DirectLengthExact DEF Accepts
<1> QED BY <1>1, <1>2, <1>3 DEF RangeTests

\* The only step that adds a window has tested it.
LEMMA StepStaysInside == AccessInside /\ [Next]_vars => AccessInside'
<1> SUFFICES ASSUME AccessInside, [Next]_vars PROVE AccessInside'
    OBVIOUS
<1>1. CASE windows' = windows
    BY <1>1 DEF AccessInside
<1>2. CASE Return
    BY <1>2 DEF Return, AccessInside
<1>3. ASSUME NEW test \in RangeTests, TestRange(test)
      PROVE  AccessInside'
    <2>1. CASE windows' = windows
        BY <2>1 DEF AccessInside
    <2>2. ASSUME NEW size \in Size, NEW offset \in JInt, NEW length \in JInt,
                 Accepts(test, size, offset, length),
                 windows' = windows \cup
                     {[test |-> test, size |-> size, offset |-> offset, length |-> length]}
          PROVE  AccessInside'
        <3> DEFINE new == [test |-> test, size |-> size, offset |-> offset, length |-> length]
        <3>1. new.test # "sliceRange" => Inside(new.size, new.offset, new.length)
            BY <2>2, AcceptedIsInside
        <3>2. \A w \in windows : w.test # "sliceRange" => Inside(w.size, w.offset, w.length)
            BY DEF AccessInside
        <3>3. windows' = windows \cup {new}
            BY <2>2
        <3> HIDE DEF new
        <3> QED BY <3>1, <3>2, <3>3 DEF AccessInside
    <2> QED BY <1>3, <2>1, <2>2 DEF TestRange
<1>4. Next \/ windows' = windows
    BY DEF vars
<1>5. CASE Next
    BY <1>1, <1>2, <1>3, <1>5
       DEF Next, Start, Test, Plain, CxxCall, Branch, Again, Raise, CallThatRaises, Terminate,
           CallEngine, TestReport, PinArray, ReleaseArray, Obtain, Release
<1> QED BY <1>1, <1>4, <1>5

\* Whatever the width of a jint and whichever methods are called in whichever
\* order, every range that passed its test lies in its array or buffer, but for
\* the slices.
THEOREM AccessesInside == Spec => []AccessInside
<1>1. Init => AccessInside
    BY DEF Init, AccessInside
<1> QED BY <1>1, StepStaysInside, PTL DEF Spec

-----------------------------------------------------------------------------
(* What the steps of a method leave, in bounds: the arrays it may have       *)
(* pinned, the resources it may hold, whether an exception may be pending,   *)
(* and what became of the output: "none" nothing is known, "called" there is *)
(* a report, "reported" it is a success, "committed" it is and Java may have  *)
(* the output.                                                              *)

Bound(p, h, x, z) == [pinned |-> p, held |-> h, pending |-> x, output |-> z]
Clean == Bound({}, {}, FALSE, "none")

Tighter(k, l) ==
    /\ k.pinned \subseteq l.pinned /\ k.held \subseteq l.held
    /\ l.pending = FALSE => k.pending = FALSE
    /\ k.output = l.output \/ (k.output \in {"called", "reported"} /\ l.output = "none")

Fits(l) == l.pinned \subseteq Arrays /\ l.held \subseteq Resources

\* What method m must keep to within bound l, when first is its next step ...
Owes(m, first, l) ==
    /\ first.op \in {"vm", "raises", "throw", "lock"} => l.pinned = {} \/ m \in NotQuiet
    /\ first.op \in {"vm", "raises", "pin"} => l.pending = FALSE \/ m \in UseUnallocated
    /\ first.op = "throw" => l.pending = FALSE \/ m \in ThrowTwice
    /\ first.op = "abort" => m \in MayAbort
    /\ first.op \in {"pin", "unpin", "commit"} => first.arg \in Arrays
    /\ first.op \in {"get", "free"} => first.arg \in Resources
    /\ first.op = "engine" => l.output # "committed"
    /\ first.op = "commit" => l.output = "reported"

\* ... and at any time, s being the steps left.
Obeys(m, s, l) ==
    /\ Fits(l)
    /\ s = <<>> => /\ l.pinned = {}
                   /\ l.held \subseteq (IF m \in LeakCctx THEN {"cctx"} ELSE {})
    /\ s # <<>> => Owes(m, Head(s), l)

\* The step first, taken within bound l, leaves t to be done within k.
Effect(first, rest, l, t, k) ==
    \/ first.op \in {"vm", "lock"} /\ t = rest /\ k = l
    \/ first.op \in {"check", "cxx"} \cup RangeTests /\ t \in {rest, first.otherwise} /\ k = l
    \/ first.op = "either" /\ t \in {first.body \o rest, first.otherwise \o rest} /\ k = l
    \/ first.op = "loop" /\ t = rest /\ k = l
    \/ first.op = "throw" /\ t = rest /\ k = Bound(l.pinned, l.held, TRUE, l.output)
    \/ first.op = "raises" /\ t = rest /\ k = l
    \/ first.op = "raises" /\ t = first.otherwise /\ k = Bound(l.pinned, l.held, TRUE, l.output)
    \/ first.op = "engine" /\ t = rest /\ k = Bound(l.pinned, l.held, l.pending, "called")
    \/ /\ first.op = "report" /\ t = rest
       /\ k = Bound(l.pinned, l.held, l.pending,
                    IF l.output = "called" THEN "reported" ELSE l.output)
    \/ first.op = "report" /\ t = first.otherwise /\ k = l
    \/ /\ first.op = "pin" /\ t = rest
       /\ k = Bound(l.pinned \cup {first.arg}, l.held, l.pending, l.output)
    \/ first.op \in {"pin", "get"} /\ t = first.otherwise /\ k = l
    \/ /\ first.op = "unpin" /\ t = rest
       /\ k = Bound(l.pinned \ {first.arg}, l.held, l.pending, l.output)
    \/ /\ first.op = "commit" /\ t = rest
       /\ k = Bound(l.pinned \ {first.arg}, l.held, l.pending, "committed")
    \/ /\ first.op = "get" /\ t = rest
       /\ k = Bound(l.pinned, l.held \cup {first.arg}, l.pending, l.output)
    \/ /\ first.op = "free" /\ t = rest
       /\ k = Bound(l.pinned, l.held \ {first.arg}, l.pending, l.output)

\* The first of the steps s, taken within bound l, leaves t within k.
Goes(s, l, t, k) ==
    /\ s # <<>>
    /\ \/ Effect(Head(s), Tail(s), l, t, k)
       \/ Head(s).op = "loop" /\ t = Head(s).body \o s /\ k = l

(* A method keeps to its rules from s and l onwards if some set of pairs of  *)
(* remaining steps and bounds has that pair and is closed under steps; "to   *)
(* K" if it may also end in K, where the proof of a loop closes.             *)
Covers(C, s, l) == \E k : <<s, k>> \in C /\ Tighter(l, k)
Closed(m, C, K) ==
    \A s, l : <<s, l>> \in C =>
        /\ Obeys(m, s, l)
        /\ \A t, k : Goes(s, l, t, k) => Covers(C \cup K, t, k)
SafeTo(m, s, l, K) == \E C : Closed(m, C, K) /\ Covers(C \cup K, s, l)

IsSeq(s) == \E S : s \in Seq(S)

\* Whatever follows them, the steps s lead from bound l to bound k ...
Takes(m, l, s, k) ==
    /\ IsSeq(s)
    /\ \A rest, K : IsSeq(rest) /\ SafeTo(m, rest, k, K) => SafeTo(m, s \o rest, l, K)
\* ... and with the steps s the method ends.
Ends(m, l, s) == IsSeq(s) /\ \A K : SafeTo(m, s, l, K)

-----------------------------------------------------------------------------
(* The rules to reason about steps.                                         *)

Sq == INSTANCE SequenceTheorems

\* A first step and the rest.
LEMMA OneStep ==
    ASSUME NEW r, NEW rest, IsSeq(rest)
    PROVE  /\ IsSeq(<<r>>) /\ IsSeq(<<r>> \o rest) /\ <<r>> \o rest # <<>>
           /\ Head(<<r>> \o rest) = r /\ Tail(<<r>> \o rest) = rest
  <1>1. PICK S : rest \in Seq(S)
    BY DEF IsSeq
  <1>2. rest \in Seq(S \cup {r}) /\ <<r>> \in Seq(S \cup {r})
    <2>1. rest \in Seq(S \cup {r})
      BY <1>1, Sq!SeqMonotonic
    <2> QED BY <2>1
  <1>3. <<r>> \o rest \in Seq(S \cup {r})
    BY <1>2, Sq!ConcatProperties
  <1>4. <<r>> \o rest # <<>> /\ Head(<<r>> \o rest) = r /\ Tail(<<r>> \o rest) = rest
    <2> DEFINE T == S \cup {r}
    <2>1. r \in T /\ rest \in Seq(T)
      BY <1>2
    <2> HIDE DEF T
    <2> QED BY <2>1
  <1> QED BY <1>2, <1>3, <1>4 DEF IsSeq

LEMMA EmptyIsSeq == IsSeq(<<>>)
  BY DEF IsSeq

\* Steps joined.
LEMMA Join ==
    ASSUME NEW a, NEW b, NEW c, IsSeq(a), IsSeq(b), IsSeq(c)
    PROVE  IsSeq(a \o b) /\ (a \o b) \o c = a \o (b \o c) /\ a \o <<>> = a /\ <<>> \o a = a /\ IsSeq(<<>>)
  <1>1. PICK A, B, D : a \in Seq(A) /\ b \in Seq(B) /\ c \in Seq(D)
    BY DEF IsSeq
  <1> DEFINE S == A \cup B \cup D
  <1>2. a \in Seq(S) /\ b \in Seq(S) /\ c \in Seq(S)
    BY <1>1, Sq!SeqMonotonic
  <1> HIDE DEF S
  <1>3. a \o b \in Seq(S)
    BY <1>2, Sq!ConcatProperties
  <1>4. (a \o b) \o c = a \o (b \o c)
    BY <1>2, Sq!ConcatAssociative, SMTT(60)
  <1>5. a \o <<>> = a /\ <<>> \o a = a /\ <<>> \in Seq(S)
    BY <1>2, Sq!ConcatEmptySeq, Sq!EmptySeq
  <1> QED BY <1>3, <1>4, <1>5 DEF IsSeq

\* Tighter orders the bounds.
LEMMA TighterOrder ==
    /\ \A l : Tighter(l, l)
    /\ \A j, k, l : Tighter(j, k) /\ Tighter(k, l) => Tighter(j, l)
  <1>1. ASSUME NEW j, NEW k, NEW l, Tighter(j, k), Tighter(k, l)
        PROVE  Tighter(j, l)
    <2>1. /\ j.pinned \subseteq l.pinned /\ j.held \subseteq l.held
          /\ l.pending = FALSE => j.pending = FALSE
      BY <1>1, Zenon DEF Tighter
    <2>2. j.output = l.output \/ (j.output \in {"called", "reported"} /\ l.output = "none")
      BY <1>1 DEF Tighter
    <2> QED BY <2>1, <2>2 DEF Tighter
  <1>2. \A l : Tighter(l, l)
    BY Zenon DEF Tighter
  <1> QED BY <1>1, <1>2, Zenon

\* Being safe needs only a bound that covers.
LEMMA SafeWeaker ==
    ASSUME NEW m, NEW s, NEW l, NEW k, NEW K, SafeTo(m, s, l, K), Tighter(k, l)
    PROVE  SafeTo(m, s, k, K)
  <1>1. PICK C : Closed(m, C, K) /\ Covers(C \cup K, s, l)
    BY DEF SafeTo
  <1>2. Covers(C \cup K, s, k)
    BY <1>1, TighterOrder DEF Covers
  <1> QED BY <1>1, <1>2 DEF SafeTo

\* A step that leads to two safe ways on is safe,
LEMMA SafeStep ==
    ASSUME NEW m, NEW s, NEW l, NEW K, Obeys(m, s, l),
           NEW t, NEW k, NEW u, NEW j, SafeTo(m, t, k, K), SafeTo(m, u, j, K),
           \A v, i : Goes(s, l, v, i) => (v = t /\ i = k) \/ (v = u /\ i = j)
    PROVE  SafeTo(m, s, l, K)
  <1>1. PICK A : Closed(m, A, K) /\ Covers(A \cup K, t, k)
    BY DEF SafeTo
  <1>2. PICK B : Closed(m, B, K) /\ Covers(B \cup K, u, j)
    BY DEF SafeTo
  <1> DEFINE C == A \cup B \cup {<<s, l>>}
  <1>3. Covers(C \cup K, s, l)
    BY TighterOrder DEF Covers
  <1>4. Closed(m, C, K)
    <2> SUFFICES ASSUME NEW v, NEW i, <<v, i>> \in C
                 PROVE  /\ Obeys(m, v, i)
                        /\ \A w, o : Goes(v, i, w, o) => Covers(C \cup K, w, o)
      BY Zenon DEF Closed
    <2>0. \A w, o : Covers(A \cup K, w, o) \/ Covers(B \cup K, w, o) => Covers(C \cup K, w, o)
      BY DEF Covers
    <2>1. CASE <<v, i>> \in A
      BY <1>1, <2>0, <2>1, Zenon DEF Closed
    <2>2. CASE <<v, i>> \in B
      BY <1>2, <2>0, <2>2, Zenon DEF Closed
    <2>3. CASE v = s /\ i = l
      BY <1>1, <1>2, <2>0, <2>3
    <2> QED BY <2>1, <2>2, <2>3
  <1> QED BY <1>3, <1>4, Zenon DEF SafeTo

\* and so is one that may come back to where it is,
LEMMA SafeLoop ==
    ASSUME NEW m, NEW s, NEW l, NEW K, Obeys(m, s, l),
           NEW t, NEW u, SafeTo(m, t, l, K \cup {<<s, l>>}), SafeTo(m, u, l, K),
           \A v, i : Goes(s, l, v, i) => (v = t \/ v = u) /\ i = l
    PROVE  SafeTo(m, s, l, K)
  <1>1. PICK A : Closed(m, A, K \cup {<<s, l>>}) /\ Covers(A \cup (K \cup {<<s, l>>}), t, l)
    BY Zenon DEF SafeTo
  <1>2. PICK B : Closed(m, B, K) /\ Covers(B \cup K, u, l)
    BY DEF SafeTo
  <1> DEFINE C == A \cup B \cup {<<s, l>>}
  <1>3. Covers(C \cup K, s, l)
    BY TighterOrder DEF Covers
  <1>4. Closed(m, C, K)
    <2> SUFFICES ASSUME NEW v, NEW i, <<v, i>> \in C
                 PROVE  /\ Obeys(m, v, i)
                        /\ \A w, o : Goes(v, i, w, o) => Covers(C \cup K, w, o)
      BY Zenon DEF Closed
    <2>0. \A w, o : Covers(A \cup (K \cup {<<s, l>>}), w, o) \/ Covers(B \cup K, w, o) => Covers(C \cup K, w, o)
      BY DEF Covers
    <2>1. CASE <<v, i>> \in A
      BY <1>1, <2>0, <2>1, Zenon DEF Closed
    <2>2. CASE <<v, i>> \in B
      BY <1>2, <2>0, <2>2, Zenon DEF Closed
    <2>3. CASE v = s /\ i = l
      BY <1>1, <1>2, <2>0, <2>3
    <2> QED BY <2>1, <2>2, <2>3
  <1> QED BY <1>3, <1>4, Zenon DEF SafeTo

\* which is where the proof of a loop closes.
LEMMA SafeInK ==
    ASSUME NEW m, NEW s, NEW l, NEW K
    PROVE  SafeTo(m, s, l, K \cup {<<s, l>>})
  <1>1. Closed(m, {}, K \cup {<<s, l>>}) /\ Covers({} \cup (K \cup {<<s, l>>}), s, l)
    BY TighterOrder DEF Closed, Covers
  <1> QED BY <1>1, Zenon DEF SafeTo

\* The parts of a bound.
LEMMA BoundParts ==
    \A p, h, x, z : /\ Bound(p, h, x, z).pinned = p /\ Bound(p, h, x, z).held = h
                    /\ Bound(p, h, x, z).pending = x /\ Bound(p, h, x, z).output = z
  BY DEF Bound

\* Nothing to do, one thing after the other, and other bounds.
LEMMA TakesNothing ==
    ASSUME NEW m, NEW l PROVE Takes(m, l, <<>>, l)
  <1>1. \A rest : IsSeq(rest) => <<>> \o rest = rest
    BY Join, Zenon
  <1>2. ASSUME NEW rest, NEW K, IsSeq(rest), SafeTo(m, rest, l, K)
        PROVE  SafeTo(m, <<>> \o rest, l, K)
    BY <1>1, <1>2
  <1> QED BY <1>2, EmptyIsSeq, Zenon DEF Takes

LEMMA TakesBoth ==
    ASSUME NEW m, NEW j, NEW k, NEW l, NEW a, NEW b, Takes(m, j, a, k), Takes(m, k, b, l)
    PROVE  Takes(m, j, a \o b, l)
  <1>1. IsSeq(a) /\ IsSeq(b)
    BY DEF Takes
  <1>2. ASSUME NEW rest, NEW K, IsSeq(rest), SafeTo(m, rest, l, K)
        PROVE  SafeTo(m, (a \o b) \o rest, j, K)
    <2>1. SafeTo(m, b \o rest, k, K)
      BY <1>2, Zenon DEF Takes
    <2> DEFINE more == b \o rest
    <2>0. IsSeq(more)
      BY <1>1, <1>2, Join, Zenon
    <2>2. SafeTo(m, a \o more, j, K)
      <3> HIDE DEF more
      <3>1. SafeTo(m, more, k, K)
        BY <2>1 DEF more
      <3> QED BY <2>0, <3>1, Zenon DEF Takes
    <2>3. (a \o b) \o rest = a \o more
      BY <1>1, <1>2, Join
    <2> QED BY <2>2, <2>3
  <1> QED BY <1>1, <1>2, Join, Zenon DEF Takes

LEMMA TakesWeaker ==
    ASSUME NEW m, NEW j, NEW k, NEW l, NEW i, NEW s, Takes(m, k, s, l), Tighter(j, k), Tighter(l, i)
    PROVE  Takes(m, j, s, i)
  BY SafeWeaker, Zenon DEF Takes

\* The end of a method.
LEMMA EndsAfter ==
    ASSUME NEW m, NEW l, NEW k, NEW s, NEW t, Takes(m, l, s, k), Ends(m, k, t)
    PROVE  Ends(m, l, s \o t)
  BY Join, Zenon DEF Takes, Ends

LEMMA EndsWeaker ==
    ASSUME NEW m, NEW l, NEW k, NEW s, Ends(m, l, s), Tighter(k, l)
    PROVE  Ends(m, k, s)
  BY SafeWeaker, Zenon DEF Ends

\* A method may end with nothing pinned and nothing held, or a forgotten ZL_CCtx.
LEMMA EndsHere ==
    ASSUME NEW m, NEW x, NEW z, NEW h, h \subseteq (IF m \in LeakCctx THEN {"cctx"} ELSE {})
    PROVE  Ends(m, Bound({}, h, x, z), <<>>)
  <1> DEFINE l == Bound({}, h, x, z)
  <1>1. Obeys(m, <<>>, l)
    <2>1. l.pinned = {} /\ l.held = h
      BY BoundParts
    <2>2. h \subseteq Resources
      BY DEF Resources
    <2> HIDE DEF l
    <2> QED BY <2>1, <2>2 DEF Obeys, Fits
  <1>2. \A t, k : ~ Goes(<<>>, l, t, k)
    BY DEF Goes
  <1>3. ASSUME NEW K PROVE SafeTo(m, <<>>, l, K)
    <2> HIDE DEF l
    <2> DEFINE C == {<< <<>>, l >>}
    <2>1. Closed(m, C, K)
      <3>1. ASSUME NEW s, NEW k, <<s, k>> \in C
            PROVE  Obeys(m, s, k) /\ \A t, j : Goes(s, k, t, j) => Covers(C \cup K, t, j)
        <4>1. s = <<>> /\ k = l
          BY <3>1
        <4>2. \A t, j : ~ Goes(s, k, t, j)
          BY <1>2, <4>1
        <4> QED BY <1>1, <4>1, <4>2
      <3> HIDE DEF C
      <3> QED BY <3>1, Zenon DEF Closed
    <2>2. Covers(C \cup K, <<>>, l)
      BY TighterOrder DEF Covers
    <2> QED BY <2>1, <2>2, Zenon DEF SafeTo
  <1>4. IsSeq(<<>>)
    BY DEF IsSeq
  <1> QED BY <1>3, <1>4, Zenon DEF Ends

\* A step that goes on or ends the method with o.
LEMMA TakesOrEnds ==
    ASSUME NEW m, NEW l, NEW k, NEW j, NEW r, NEW o, Ends(m, j, o),
           Fits(l), Owes(m, r, l), r.op # "loop",
           \A rest, v, i : Effect(r, rest, l, v, i) => (v = rest /\ i = k) \/ (v = o /\ i = j)
    PROVE  Takes(m, l, <<r>>, k)
  <1>1. IsSeq(<<r>>)
    BY OneStep, EmptyIsSeq, Zenon
  <1>2. ASSUME NEW rest, NEW K, IsSeq(rest), SafeTo(m, rest, k, K)
        PROVE  SafeTo(m, <<r>> \o rest, l, K)
    <2> DEFINE s == <<r>> \o rest
    <2>1. s # <<>> /\ Head(s) = r /\ Tail(s) = rest
      BY <1>2, OneStep, Zenon
    <2>2. SafeTo(m, o, j, K)
      BY Zenon DEF Ends
    <2> HIDE DEF s
    <2>3. Obeys(m, s, l)
      BY <2>1 DEF Obeys
    <2>4. \A v, i : Goes(s, l, v, i) => (v = rest /\ i = k) \/ (v = o /\ i = j)
      BY <2>1, Zenon DEF Goes
    <2>5. SafeTo(m, s, l, K)
      BY <1>2, <2>2, <2>3, <2>4, SafeStep, Zenon
    <2> QED BY <2>5 DEF s
  <1> QED BY <1>1, <1>2, Zenon DEF Takes

\* A step that only goes on.
LEMMA TakesOne ==
    ASSUME NEW m, NEW l, NEW k, NEW r,
           Fits(l), Owes(m, r, l), r.op # "loop",
           \A rest, v, i : Effect(r, rest, l, v, i) => v = rest /\ i = k
    PROVE  Takes(m, l, <<r>>, k)
  <1>1. IsSeq(<<r>>)
    BY OneStep, EmptyIsSeq, Zenon
  <1>2. ASSUME NEW rest, NEW K, IsSeq(rest), SafeTo(m, rest, k, K)
        PROVE  SafeTo(m, <<r>> \o rest, l, K)
    <2> DEFINE s == <<r>> \o rest
    <2>1. s # <<>> /\ Head(s) = r /\ Tail(s) = rest
      BY <1>2, OneStep, Zenon
    <2> HIDE DEF s
    <2>2. Obeys(m, s, l)
      BY <2>1 DEF Obeys
    <2>3. \A v, i : Goes(s, l, v, i) => v = rest /\ i = k
      BY <2>1, Zenon DEF Goes
    <2>4. SafeTo(m, s, l, K)
      BY <1>2, <2>2, <2>3, SafeStep, Zenon
    <2> QED BY <2>4 DEF s
  <1> QED BY <1>1, <1>2, Zenon DEF Takes

\* Two ways on that lead to the same bound.
LEMMA TakesEither ==
    ASSUME NEW m, NEW l, NEW k, NEW a, NEW b, Fits(l), Takes(m, l, a, k), Takes(m, l, b, k)
    PROVE  Takes(m, l, Either(a, b), k)
  <1> DEFINE r == [op |-> "either", arg |-> "", body |-> a, otherwise |-> b]
  <1>1. r.op = "either" /\ r.body = a /\ r.otherwise = b
    OBVIOUS
  <1> HIDE DEF r
  <1>2. IsSeq(<<r>>)
    BY OneStep, EmptyIsSeq, Zenon
  <1>3. ASSUME NEW rest, NEW K, IsSeq(rest), SafeTo(m, rest, k, K)
        PROVE  SafeTo(m, <<r>> \o rest, l, K)
    <2> DEFINE s == <<r>> \o rest
               t == a \o rest
               u == b \o rest
    <2>1. s # <<>> /\ Head(s) = r /\ Tail(s) = rest
      BY <1>3, OneStep, Zenon
    <2>2. SafeTo(m, t, l, K) /\ SafeTo(m, u, l, K)
      BY <1>3, Zenon DEF Takes
    <2> HIDE DEF s
    <2>3. Obeys(m, s, l)
      BY <1>1, <2>1 DEF Obeys, Owes
    <2>4. \A v, i : Goes(s, l, v, i) => (v = t /\ i = l) \/ (v = u /\ i = l)
      BY <1>1, <2>1 DEF Goes, Effect, RangeTests
    <2> HIDE DEF t, u
    <2>5. SafeTo(m, s, l, K)
      BY <2>2, <2>3, <2>4, SafeStep, Zenon
    <2> QED BY <2>5 DEF s
  <1>4. Takes(m, l, <<r>>, k)
    BY <1>2, <1>3, Zenon DEF Takes
  <1> QED BY <1>4, Zenon DEF Either, Step, r

\* A loop whose body keeps the bound.
LEMMA TakesLoop ==
    ASSUME NEW m, NEW l, NEW a, Fits(l), Takes(m, l, a, l)
    PROVE  Takes(m, l, Loop(a), l)
  <1> DEFINE r == [op |-> "loop", arg |-> "", body |-> a, otherwise |-> <<>>]
  <1>1. r.op = "loop" /\ r.body = a
    OBVIOUS
  <1> HIDE DEF r
  <1>2. IsSeq(<<r>>)
    BY OneStep, EmptyIsSeq, Zenon
  <1>3. ASSUME NEW rest, NEW K, IsSeq(rest), SafeTo(m, rest, l, K)
        PROVE  SafeTo(m, <<r>> \o rest, l, K)
    <2> DEFINE s == <<r>> \o rest
               t == a \o s
    <2>1. s # <<>> /\ Head(s) = r /\ Tail(s) = rest /\ IsSeq(s)
      BY <1>3, OneStep, Zenon
    <2> HIDE DEF s
    <2>2. SafeTo(m, t, l, K \cup {<<s, l>>})
      BY <2>1, SafeInK, Zenon DEF Takes
    <2>3. Obeys(m, s, l)
      BY <1>1, <2>1 DEF Obeys, Owes
    <2>4. \A v, i : Goes(s, l, v, i) => (v = t \/ v = rest) /\ i = l
      BY <1>1, <2>1 DEF Goes, Effect, RangeTests
    <2> HIDE DEF t
    <2>5. SafeTo(m, s, l, K)
      BY <1>3, <2>2, <2>3, <2>4, SafeLoop, Zenon
    <2> QED BY <2>5 DEF s
  <1>4. Takes(m, l, <<r>>, l)
    BY <1>2, <1>3, Zenon DEF Takes
  <1> QED BY <1>4, Zenon DEF Loop, Step, r

\* No step follows an exception that leaves the method.
LEMMA EndsAborting ==
    ASSUME NEW m, NEW l, Fits(l), m \in MayAbort
    PROVE  Ends(m, l, Abort)
  <1> DEFINE r == [op |-> "abort", arg |-> "", body |-> <<>>, otherwise |-> <<>>]
  <1>1. r.op = "abort" /\ Abort = <<r>>
    BY DEF Abort, Step
  <1>2. IsSeq(<<r>>) /\ <<r>> # <<>> /\ Head(<<r>>) = r
    <2>1. IsSeq(<<r>> \o <<>>) /\ <<r>> \o <<>> # <<>> /\ Head(<<r>> \o <<>>) = r /\ IsSeq(<<r>>)
      BY OneStep, EmptyIsSeq, Zenon
    <2>2. <<r>> \o <<>> = <<r>>
      BY <2>1, Join, EmptyIsSeq, Zenon
    <2> QED BY <2>1, <2>2
  <1> DEFINE s == <<r>>
  <1>3. s # <<>> /\ Head(s) = r /\ IsSeq(s)
    BY <1>2
  <1> HIDE DEF s, r
  <1>4. Obeys(m, s, l)
    BY <1>1, <1>3 DEF Obeys, Owes
  <1>5. \A v, i : ~ Goes(s, l, v, i)
    BY <1>1, <1>3 DEF Goes, Effect, RangeTests
  <1>6. ASSUME NEW K PROVE SafeTo(m, s, l, K)
    <2>1. SafeTo(m, s, l, K \cup {<<s, l>>})
      BY SafeInK
    <2>2. PICK C : Closed(m, C, K) /\ <<s, l>> \in C
      <3> DEFINE C == {<<s, l>>}
      <3>1. ASSUME NEW v, NEW i, <<v, i>> \in C
            PROVE  Obeys(m, v, i) /\ \A t, j : Goes(v, i, t, j) => Covers(C \cup K, t, j)
        <4>1. v = s /\ i = l
          BY <3>1
        <4>2. \A t, j : ~ Goes(v, i, t, j)
          BY <1>5, <4>1
        <4> QED BY <1>4, <4>1, <4>2
      <3>2. <<s, l>> \in C
        OBVIOUS
      <3> HIDE DEF C
      <3> QED BY <3>1, <3>2, Zenon DEF Closed
    <2>3. Covers(C \cup K, s, l)
      BY <2>2, TighterOrder DEF Covers
    <2> QED BY <2>2, <2>3, Zenon DEF SafeTo
  <1> QED BY <1>1, <1>3, <1>6, Zenon DEF Ends, s

-----------------------------------------------------------------------------
(* One rule for each step.                                                  *)

MayCall(m, p, x)  == (p = {} \/ m \in NotQuiet) /\ (x = FALSE \/ m \in UseUnallocated)
MayRaise(m, p, x) == (p = {} \/ m \in NotQuiet) /\ (x = FALSE \/ m \in ThrowTwice)

\* A test of a range is no other step.
LEMMA TestNames ==
    \A test \in RangeTests :
        test \notin {"check", "cxx", "vm", "lock", "raises", "throw", "abort", "engine", "report",
                    "pin", "unpin", "commit", "get", "free", "either", "loop"}
  BY DEF RangeTests

\* A JNI call that does not raise.
LEMMA TakesVm ==
    ASSUME NEW m, NEW p, NEW h, NEW x, NEW z,
           Fits(Bound(p, h, x, z)), MayCall(m, p, x)
    PROVE  Takes(m, Bound(p, h, x, z), Vm, Bound(p, h, x, z))
  <1> DEFINE l == Bound(p, h, x, z)
             k == Bound(p, h, x, z)
             r == [op |-> "vm", arg |-> "", body |-> <<>>, otherwise |-> <<>>]
  <1>1. r.op = "vm" /\ r.arg = "" /\ r.otherwise = <<>>
    OBVIOUS
  <1>2. l.pinned = p /\ l.held = h /\ l.pending = x /\ l.output = z
    BY BoundParts
  <1> HIDE DEF r
  <1>3. Owes(m, r, l) /\ r.op # "loop"
    BY <1>1, <1>2 DEF Owes, MayCall, MayRaise
  <1>4. ASSUME NEW rest, NEW v, NEW i, Effect(r, rest, l, v, i)
        PROVE  v = rest /\ i = k
    BY <1>1, <1>2, <1>4 DEF Effect, RangeTests
  <1> HIDE DEF l, k
  <1>5. Takes(m, l, <<r>>, k)
    BY <1>3, <1>4, TakesOne, Zenon DEF l
  <1> QED BY <1>5, Zenon DEF l, k, r, Vm, Step

\* A lock.
LEMMA TakesLock ==
    ASSUME NEW m, NEW p, NEW h, NEW x, NEW z,
           Fits(Bound(p, h, x, z)), p = {} \/ m \in NotQuiet
    PROVE  Takes(m, Bound(p, h, x, z), Lock, Bound(p, h, x, z))
  <1> DEFINE l == Bound(p, h, x, z)
             k == Bound(p, h, x, z)
             r == [op |-> "lock", arg |-> "", body |-> <<>>, otherwise |-> <<>>]
  <1>1. r.op = "lock" /\ r.arg = "" /\ r.otherwise = <<>>
    OBVIOUS
  <1>2. l.pinned = p /\ l.held = h /\ l.pending = x /\ l.output = z
    BY BoundParts
  <1> HIDE DEF r
  <1>3. Owes(m, r, l) /\ r.op # "loop"
    BY <1>1, <1>2 DEF Owes, MayCall, MayRaise
  <1>4. ASSUME NEW rest, NEW v, NEW i, Effect(r, rest, l, v, i)
        PROVE  v = rest /\ i = k
    BY <1>1, <1>2, <1>4 DEF Effect, RangeTests
  <1> HIDE DEF l, k
  <1>5. Takes(m, l, <<r>>, k)
    BY <1>3, <1>4, TakesOne, Zenon DEF l
  <1> QED BY <1>5, Zenon DEF l, k, r, Lock, Step

\* An exception thrown by native code.
LEMMA TakesThrow ==
    ASSUME NEW m, NEW p, NEW h, NEW x, NEW z,
           Fits(Bound(p, h, x, z)), MayRaise(m, p, x)
    PROVE  Takes(m, Bound(p, h, x, z), Throw, Bound(p, h, TRUE, z))
  <1> DEFINE l == Bound(p, h, x, z)
             k == Bound(p, h, TRUE, z)
             r == [op |-> "throw", arg |-> "", body |-> <<>>, otherwise |-> <<>>]
  <1>1. r.op = "throw" /\ r.arg = "" /\ r.otherwise = <<>>
    OBVIOUS
  <1>2. l.pinned = p /\ l.held = h /\ l.pending = x /\ l.output = z
    BY BoundParts
  <1> HIDE DEF r
  <1>3. Owes(m, r, l) /\ r.op # "loop"
    BY <1>1, <1>2 DEF Owes, MayCall, MayRaise
  <1>4. ASSUME NEW rest, NEW v, NEW i, Effect(r, rest, l, v, i)
        PROVE  v = rest /\ i = k
    BY <1>1, <1>2, <1>4 DEF Effect, RangeTests
  <1> HIDE DEF l, k
  <1>5. Takes(m, l, <<r>>, k)
    BY <1>3, <1>4, TakesOne, Zenon DEF l
  <1> QED BY <1>5, Zenon DEF l, k, r, Throw, Step

\* A test.
LEMMA TakesCheck ==
    ASSUME NEW m, NEW p, NEW h, NEW x, NEW z, NEW o,
           Fits(Bound(p, h, x, z)), Ends(m, Bound(p, h, x, z), o)
    PROVE  Takes(m, Bound(p, h, x, z), Check(o), Bound(p, h, x, z))
  <1> DEFINE l == Bound(p, h, x, z)
             k == Bound(p, h, x, z)
             r == [op |-> "check", arg |-> "", body |-> <<>>, otherwise |-> o]
  <1>1. r.op = "check" /\ r.arg = "" /\ r.otherwise = o
    OBVIOUS
  <1>2. l.pinned = p /\ l.held = h /\ l.pending = x /\ l.output = z
    BY BoundParts
  <1> HIDE DEF r
  <1>3. Owes(m, r, l) /\ r.op # "loop"
    BY <1>1, <1>2 DEF Owes, MayCall, MayRaise
  <1>4. ASSUME NEW rest, NEW v, NEW i, Effect(r, rest, l, v, i)
        PROVE  (v = rest /\ i = k) \/ (v = o /\ i = Bound(p, h, x, z))
    BY <1>1, <1>2, <1>4 DEF Effect, RangeTests
  <1> HIDE DEF l, k
  <1>5. Takes(m, l, <<r>>, k)
    BY <1>3, <1>4, TakesOrEnds, Zenon DEF l
  <1> QED BY <1>5, Zenon DEF l, k, r, Check, Step

\* A call that may throw a C++ exception.
LEMMA TakesCxx ==
    ASSUME NEW m, NEW p, NEW h, NEW x, NEW z, NEW o,
           Fits(Bound(p, h, x, z)), Ends(m, Bound(p, h, x, z), o)
    PROVE  Takes(m, Bound(p, h, x, z), Cxx(o), Bound(p, h, x, z))
  <1> DEFINE l == Bound(p, h, x, z)
             k == Bound(p, h, x, z)
             r == [op |-> "cxx", arg |-> "", body |-> <<>>, otherwise |-> o]
  <1>1. r.op = "cxx" /\ r.arg = "" /\ r.otherwise = o
    OBVIOUS
  <1>2. l.pinned = p /\ l.held = h /\ l.pending = x /\ l.output = z
    BY BoundParts
  <1> HIDE DEF r
  <1>3. Owes(m, r, l) /\ r.op # "loop"
    BY <1>1, <1>2 DEF Owes, MayCall, MayRaise
  <1>4. ASSUME NEW rest, NEW v, NEW i, Effect(r, rest, l, v, i)
        PROVE  (v = rest /\ i = k) \/ (v = o /\ i = Bound(p, h, x, z))
    BY <1>1, <1>2, <1>4 DEF Effect, RangeTests
  <1> HIDE DEF l, k
  <1>5. Takes(m, l, <<r>>, k)
    BY <1>3, <1>4, TakesOrEnds, Zenon DEF l
  <1> QED BY <1>5, Zenon DEF l, k, r, Cxx, Step

\* A test of a range.
LEMMA TakesRange ==
    ASSUME NEW m, NEW p, NEW h, NEW x, NEW z, NEW test \in RangeTests, NEW a, NEW o,
           Fits(Bound(p, h, x, z)), Ends(m, Bound(p, h, x, z), o)
    PROVE  Takes(m, Bound(p, h, x, z), Range(test, a, o), Bound(p, h, x, z))
  <1> DEFINE l == Bound(p, h, x, z)
             k == Bound(p, h, x, z)
             r == [op |-> test, arg |-> a, body |-> <<>>, otherwise |-> o]
  <1>1. r.op = test /\ r.arg = a /\ r.otherwise = o
    OBVIOUS
  <1>2. l.pinned = p /\ l.held = h /\ l.pending = x /\ l.output = z
    BY BoundParts
  <1> HIDE DEF r
  <1>3. Owes(m, r, l) /\ r.op # "loop"
    BY <1>1, <1>2, TestNames DEF Owes, MayCall, MayRaise
  <1>4. ASSUME NEW rest, NEW v, NEW i, Effect(r, rest, l, v, i)
        PROVE  (v = rest /\ i = k) \/ (v = o /\ i = Bound(p, h, x, z))
    BY <1>1, <1>2, <1>4, TestNames DEF Effect, RangeTests
  <1> HIDE DEF l, k
  <1>5. Takes(m, l, <<r>>, k)
    BY <1>3, <1>4, TakesOrEnds, Zenon DEF l
  <1> QED BY <1>5, Zenon DEF l, k, r, Range, Step

\* A JNI call that may raise.
LEMMA TakesRaises ==
    ASSUME NEW m, NEW p, NEW h, NEW x, NEW z, NEW o,
           Fits(Bound(p, h, x, z)), MayCall(m, p, x), Ends(m, Bound(p, h, TRUE, z), o)
    PROVE  Takes(m, Bound(p, h, x, z), VmRaises(o), Bound(p, h, x, z))
  <1> DEFINE l == Bound(p, h, x, z)
             k == Bound(p, h, x, z)
             r == [op |-> "raises", arg |-> "", body |-> <<>>, otherwise |-> o]
  <1>1. r.op = "raises" /\ r.arg = "" /\ r.otherwise = o
    OBVIOUS
  <1>2. l.pinned = p /\ l.held = h /\ l.pending = x /\ l.output = z
    BY BoundParts
  <1> HIDE DEF r
  <1>3. Owes(m, r, l) /\ r.op # "loop"
    BY <1>1, <1>2 DEF Owes, MayCall, MayRaise
  <1>4. ASSUME NEW rest, NEW v, NEW i, Effect(r, rest, l, v, i)
        PROVE  (v = rest /\ i = k) \/ (v = o /\ i = Bound(p, h, TRUE, z))
    BY <1>1, <1>2, <1>4 DEF Effect, RangeTests
  <1> HIDE DEF l, k
  <1>5. Takes(m, l, <<r>>, k)
    BY <1>3, <1>4, TakesOrEnds, Zenon DEF l
  <1> QED BY <1>5, Zenon DEF l, k, r, VmRaises, Step

\* A call of the engine forgets the report of the one before.
LEMMA TakesEngine ==
    ASSUME NEW m, NEW p, NEW h, NEW x, NEW z,
           Fits(Bound(p, h, x, z)), z # "committed"
    PROVE  Takes(m, Bound(p, h, x, z), Engine, Bound(p, h, x, "called"))
  <1> DEFINE l == Bound(p, h, x, z)
             k == Bound(p, h, x, "called")
             r == [op |-> "engine", arg |-> "", body |-> <<>>, otherwise |-> <<>>]
  <1>1. r.op = "engine" /\ r.arg = "" /\ r.otherwise = <<>>
    OBVIOUS
  <1>2. l.pinned = p /\ l.held = h /\ l.pending = x /\ l.output = z
    BY BoundParts
  <1> HIDE DEF r
  <1>3. Owes(m, r, l) /\ r.op # "loop"
    BY <1>1, <1>2 DEF Owes, MayCall, MayRaise
  <1>4. ASSUME NEW rest, NEW v, NEW i, Effect(r, rest, l, v, i)
        PROVE  v = rest /\ i = k
    BY <1>1, <1>2, <1>4 DEF Effect, RangeTests
  <1> HIDE DEF l, k
  <1>5. Takes(m, l, <<r>>, k)
    BY <1>3, <1>4, TakesOne, Zenon DEF l
  <1> QED BY <1>5, Zenon DEF l, k, r, Engine, Step

\* The test of its report.
LEMMA TakesReport ==
    ASSUME NEW m, NEW p, NEW h, NEW x, NEW z, NEW o,
           Fits(Bound(p, h, x, z)), Ends(m, Bound(p, h, x, z), o)
    PROVE  Takes(m, Bound(p, h, x, z), Report(o), Bound(p, h, x, IF z = "called" THEN "reported" ELSE z))
  <1> DEFINE l == Bound(p, h, x, z)
             k == Bound(p, h, x, IF z = "called" THEN "reported" ELSE z)
             r == [op |-> "report", arg |-> "", body |-> <<>>, otherwise |-> o]
  <1>1. r.op = "report" /\ r.arg = "" /\ r.otherwise = o
    OBVIOUS
  <1>2. l.pinned = p /\ l.held = h /\ l.pending = x /\ l.output = z
    BY BoundParts
  <1> HIDE DEF r
  <1>3. Owes(m, r, l) /\ r.op # "loop"
    BY <1>1, <1>2 DEF Owes, MayCall, MayRaise
  <1>4. ASSUME NEW rest, NEW v, NEW i, Effect(r, rest, l, v, i)
        PROVE  (v = rest /\ i = k) \/ (v = o /\ i = Bound(p, h, x, z))
    BY <1>1, <1>2, <1>4 DEF Effect, RangeTests
  <1> HIDE DEF l, k
  <1>5. Takes(m, l, <<r>>, k)
    BY <1>3, <1>4, TakesOrEnds, Zenon DEF l
  <1> QED BY <1>5, Zenon DEF l, k, r, Report, Step

\* GetPrimitiveArrayCritical.
LEMMA TakesPin ==
    ASSUME NEW m, NEW p, NEW h, NEW x, NEW z, NEW a \in Arrays, NEW o,
           Fits(Bound(p, h, x, z)), x = FALSE, Ends(m, Bound(p, h, x, z), o)
    PROVE  Takes(m, Bound(p, h, x, z), Pin(a, o), Bound(p \cup {a}, h, x, z))
  <1> DEFINE l == Bound(p, h, x, z)
             k == Bound(p \cup {a}, h, x, z)
             r == [op |-> "pin", arg |-> a, body |-> <<>>, otherwise |-> o]
  <1>1. r.op = "pin" /\ r.arg = a /\ r.otherwise = o
    OBVIOUS
  <1>2. l.pinned = p /\ l.held = h /\ l.pending = x /\ l.output = z
    BY BoundParts
  <1> HIDE DEF r
  <1>3. Owes(m, r, l) /\ r.op # "loop"
    BY <1>1, <1>2 DEF Owes, MayCall, MayRaise
  <1>4. ASSUME NEW rest, NEW v, NEW i, Effect(r, rest, l, v, i)
        PROVE  (v = rest /\ i = k) \/ (v = o /\ i = Bound(p, h, x, z))
    BY <1>1, <1>2, <1>4 DEF Effect, RangeTests
  <1> HIDE DEF l, k
  <1>5. Takes(m, l, <<r>>, k)
    BY <1>3, <1>4, TakesOrEnds, Zenon DEF l
  <1> QED BY <1>5, Zenon DEF l, k, r, Pin, Step

\* Its release without the contents.
LEMMA TakesUnpin ==
    ASSUME NEW m, NEW p, NEW h, NEW x, NEW z, NEW a \in Arrays,
           Fits(Bound(p, h, x, z))
    PROVE  Takes(m, Bound(p, h, x, z), Unpin(a), Bound(p \ {a}, h, x, z))
  <1> DEFINE l == Bound(p, h, x, z)
             k == Bound(p \ {a}, h, x, z)
             r == [op |-> "unpin", arg |-> a, body |-> <<>>, otherwise |-> <<>>]
  <1>1. r.op = "unpin" /\ r.arg = a /\ r.otherwise = <<>>
    OBVIOUS
  <1>2. l.pinned = p /\ l.held = h /\ l.pending = x /\ l.output = z
    BY BoundParts
  <1> HIDE DEF r
  <1>3. Owes(m, r, l) /\ r.op # "loop"
    BY <1>1, <1>2 DEF Owes, MayCall, MayRaise
  <1>4. ASSUME NEW rest, NEW v, NEW i, Effect(r, rest, l, v, i)
        PROVE  v = rest /\ i = k
    BY <1>1, <1>2, <1>4 DEF Effect, RangeTests
  <1> HIDE DEF l, k
  <1>5. Takes(m, l, <<r>>, k)
    BY <1>3, <1>4, TakesOne, Zenon DEF l
  <1> QED BY <1>5, Zenon DEF l, k, r, Unpin, Step

\* Its release with the contents, once the report is known to be a success.
LEMMA TakesCommit ==
    ASSUME NEW m, NEW p, NEW h, NEW x, NEW z, NEW a \in Arrays,
           Fits(Bound(p, h, x, z)), z = "reported"
    PROVE  Takes(m, Bound(p, h, x, z), Commit(a), Bound(p \ {a}, h, x, "committed"))
  <1> DEFINE l == Bound(p, h, x, z)
             k == Bound(p \ {a}, h, x, "committed")
             r == [op |-> "commit", arg |-> a, body |-> <<>>, otherwise |-> <<>>]
  <1>1. r.op = "commit" /\ r.arg = a /\ r.otherwise = <<>>
    OBVIOUS
  <1>2. l.pinned = p /\ l.held = h /\ l.pending = x /\ l.output = z
    BY BoundParts
  <1> HIDE DEF r
  <1>3. Owes(m, r, l) /\ r.op # "loop"
    BY <1>1, <1>2 DEF Owes, MayCall, MayRaise
  <1>4. ASSUME NEW rest, NEW v, NEW i, Effect(r, rest, l, v, i)
        PROVE  v = rest /\ i = k
    BY <1>1, <1>2, <1>4 DEF Effect, RangeTests
  <1> HIDE DEF l, k
  <1>5. Takes(m, l, <<r>>, k)
    BY <1>3, <1>4, TakesOne, Zenon DEF l
  <1> QED BY <1>5, Zenon DEF l, k, r, Commit, Step

\* A resource obtained.
LEMMA TakesGet ==
    ASSUME NEW m, NEW p, NEW h, NEW x, NEW z, NEW a \in Resources, NEW o,
           Fits(Bound(p, h, x, z)), Ends(m, Bound(p, h, x, z), o)
    PROVE  Takes(m, Bound(p, h, x, z), Get(a, o), Bound(p, h \cup {a}, x, z))
  <1> DEFINE l == Bound(p, h, x, z)
             k == Bound(p, h \cup {a}, x, z)
             r == [op |-> "get", arg |-> a, body |-> <<>>, otherwise |-> o]
  <1>1. r.op = "get" /\ r.arg = a /\ r.otherwise = o
    OBVIOUS
  <1>2. l.pinned = p /\ l.held = h /\ l.pending = x /\ l.output = z
    BY BoundParts
  <1> HIDE DEF r
  <1>3. Owes(m, r, l) /\ r.op # "loop"
    BY <1>1, <1>2 DEF Owes, MayCall, MayRaise
  <1>4. ASSUME NEW rest, NEW v, NEW i, Effect(r, rest, l, v, i)
        PROVE  (v = rest /\ i = k) \/ (v = o /\ i = Bound(p, h, x, z))
    BY <1>1, <1>2, <1>4 DEF Effect, RangeTests
  <1> HIDE DEF l, k
  <1>5. Takes(m, l, <<r>>, k)
    BY <1>3, <1>4, TakesOrEnds, Zenon DEF l
  <1> QED BY <1>5, Zenon DEF l, k, r, Get, Step

\* A resource freed.
LEMMA TakesFree ==
    ASSUME NEW m, NEW p, NEW h, NEW x, NEW z, NEW a \in Resources,
           Fits(Bound(p, h, x, z))
    PROVE  Takes(m, Bound(p, h, x, z), Free(a), Bound(p, h \ {a}, x, z))
  <1> DEFINE l == Bound(p, h, x, z)
             k == Bound(p, h \ {a}, x, z)
             r == [op |-> "free", arg |-> a, body |-> <<>>, otherwise |-> <<>>]
  <1>1. r.op = "free" /\ r.arg = a /\ r.otherwise = <<>>
    OBVIOUS
  <1>2. l.pinned = p /\ l.held = h /\ l.pending = x /\ l.output = z
    BY BoundParts
  <1> HIDE DEF r
  <1>3. Owes(m, r, l) /\ r.op # "loop"
    BY <1>1, <1>2 DEF Owes, MayCall, MayRaise
  <1>4. ASSUME NEW rest, NEW v, NEW i, Effect(r, rest, l, v, i)
        PROVE  v = rest /\ i = k
    BY <1>1, <1>2, <1>4 DEF Effect, RangeTests
  <1> HIDE DEF l, k
  <1>5. Takes(m, l, <<r>>, k)
    BY <1>3, <1>4, TakesOne, Zenon DEF l
  <1> QED BY <1>5, Zenon DEF l, k, r, Free, Step

-----------------------------------------------------------------------------
(* The invariant: what a method may still do keeps to its rules, within a    *)
(* bound that holds now.                                                    *)

Within(l) ==
    /\ pinned \subseteq l.pinned /\ held \subseteq l.held
    /\ l.pending = FALSE => pending = FALSE
    /\ l.output # "committed" => committed = {}
    /\ l.output = "called" => report # "none"
    /\ l.output \in {"reported", "committed"} => report = "ok"

Window == [test : RangeTests, size : Size, offset : Size, length : Size]

Idle == method = "none" => /\ pinned = {} /\ held = {} /\ committed = {} /\ report = "none"
                           /\ pending = FALSE /\ aborted = FALSE /\ todo = <<>>
Running == method # "none" => \E l : SafeTo(method, todo, l, {}) /\ Within(l)
IInv ==
    /\ method \in Methods \cup {"none"} /\ windows \subseteq Window
    /\ committed \subseteq Arrays
    /\ report \in {"none", "ok", "error"} /\ pending \in BOOLEAN /\ aborted \in BOOLEAN
    /\ Idle /\ Running /\ EscapesOnlyWhere

\* What the method does next, within a bound that obeys the rules.
Stands(l) == /\ Obeys(method, todo, l) /\ Within(l)
             /\ \A t, k : Goes(todo, l, t, k) => SafeTo(method, t, k, {})

\* A method that runs stands at a bound that obeys the rules.
LEMMA SomeBound ==
    ASSUME Running, method # "none"
    PROVE  \E l : Stands(l)
  <1>1. PICK k : SafeTo(method, todo, k, {}) /\ Within(k)
    BY DEF Running
  <1>2. PICK C : Closed(method, C, {}) /\ Covers(C \cup {}, todo, k)
    BY <1>1, Zenon DEF SafeTo
  <1>3. C \cup {} = C
    OBVIOUS
  <1>4. PICK l : <<todo, l>> \in C /\ Tighter(k, l)
    BY <1>2, <1>3, Zenon DEF Covers
  <1>5. Obeys(method, todo, l) /\ \A t, i : Goes(todo, l, t, i) => SafeTo(method, t, i, {})
    BY <1>2, <1>4, Zenon DEF Closed, SafeTo
  <1>6. Within(l)
    BY <1>1, <1>4 DEF Within, Tighter
  <1> QED BY <1>5, <1>6 DEF Stands

\* A step that the rules know keeps the invariant.
LEMMA KnownStep ==
    ASSUME NEW l, Stands(l), method' = method, NEW k, Goes(todo, l, todo', k), Within(k)'
    PROVE  Running'
  <1>1. SafeTo(method, todo', k, {})
    BY Zenon DEF Stands
  <1>2. SafeTo(method', todo', k, {})
    BY <1>1
  <1> QED BY <1>2 DEF Running

\* Steps that leave arrays, resources, exceptions and reports alone.
LEMMA PlainKeeps ==
    ASSUME NEW l, Stands(l),
           Test \/ Plain \/ CxxCall \/ Branch \/ Again \/ \E test \in RangeTests : TestRange(test)
    PROVE  Running' /\ method' = method /\ UNCHANGED <<pinned, held, committed, report, pending, aborted>>
  <1>1. /\ method' = method /\ UNCHANGED <<pinned, held, committed, report, pending, aborted>>
        /\ Goes(todo, l, todo', l)
    <2>1. CASE Test \/ Plain \/ CxxCall
      BY <2>1 DEF Test, Plain, CxxCall, Continue, Otherwise, At, Goes, Effect
    <2>2. CASE Branch
      BY <2>2 DEF Branch, At, Goes, Effect
    <2>3. CASE Again
      BY <2>3 DEF Again, At, Goes, Effect
    <2>4. ASSUME NEW test \in RangeTests, TestRange(test)
          PROVE  /\ method' = method /\ UNCHANGED <<pinned, held, committed, report, pending, aborted>>
                 /\ Goes(todo, l, todo', l)
      BY <2>4 DEF TestRange, Continue, Otherwise, At, Goes, Effect
    <2> QED BY <2>1, <2>2, <2>3, <2>4
  <1>2. Within(l)'
    BY <1>1 DEF Stands, Within
  <1> QED BY <1>1, <1>2, KnownStep

\* An exception thrown or raised.
LEMMA RaisingKeeps ==
    ASSUME NEW l, Stands(l), Raise \/ CallThatRaises
    PROVE  Running'
  <1> DEFINE i == Bound(l.pinned, l.held, TRUE, l.output)
  <1>1. method' = method /\ UNCHANGED <<pinned, held, committed, report>>
    BY DEF Raise, CallThatRaises, Continue, Otherwise
  <1>2. (Goes(todo, l, todo', l) /\ UNCHANGED pending) \/ Goes(todo, l, todo', i)
    BY DEF Raise, CallThatRaises, Continue, Otherwise, At, Goes, Effect
  <1>3. i.pinned = l.pinned /\ i.held = l.held /\ i.pending = TRUE /\ i.output = l.output
    BY Zenon DEF Bound
  <1> HIDE DEF i
  <1>4. CASE Goes(todo, l, todo', l) /\ UNCHANGED pending
    <2>1. Within(l)'
      BY <1>1, <1>4 DEF Stands, Within
    <2> QED BY <1>1, <1>4, <2>1, KnownStep
  <1>5. CASE Goes(todo, l, todo', i)
    <2>1. Within(i)'
      BY <1>1, <1>3 DEF Stands, Within
    <2> QED BY <1>1, <1>5, <2>1, KnownStep
  <1> QED BY <1>2, <1>4, <1>5

\* A call of the engine, which is never made once the output is committed.
LEMMA EngineKeeps ==
    ASSUME NEW l, Stands(l), CallEngine
    PROVE  Running'
  <1> DEFINE i == Bound(l.pinned, l.held, l.pending, "called")
  <1>1. method' = method /\ UNCHANGED <<pinned, held, committed, pending>> /\ report' # "none"
    BY DEF CallEngine, Continue
  <1>2. Goes(todo, l, todo', i) /\ l.output # "committed"
    BY DEF CallEngine, Continue, At, Goes, Effect, Stands, Obeys, Owes
  <1>3. i.pinned = l.pinned /\ i.held = l.held /\ i.pending = l.pending /\ i.output = "called"
    BY BoundParts
  <1> HIDE DEF i
  <1>4. Within(i)'
    BY <1>1, <1>2, <1>3 DEF Stands, Within
  <1> QED BY <1>1, <1>2, <1>4, KnownStep

\* The test of its report.
LEMMA ReportKeeps ==
    ASSUME NEW l, Stands(l), TestReport, report \in {"none", "ok", "error"}
    PROVE  Running'
  <1> DEFINE z == IF l.output = "called" THEN "reported" ELSE l.output
             i == Bound(l.pinned, l.held, l.pending, z)
  <1>1. method' = method /\ UNCHANGED <<pinned, held, committed, report, pending>>
    BY DEF TestReport, Continue, Otherwise
  <1>2. IF report = "error" THEN Goes(todo, l, todo', l) ELSE Goes(todo, l, todo', i)
    BY DEF TestReport, Continue, Otherwise, At, Goes, Effect
  <1>3. i.pinned = l.pinned /\ i.held = l.held /\ i.pending = l.pending /\ i.output = z
    BY BoundParts
  <1> HIDE DEF i
  <1>4. CASE report = "error"
    <2>1. Within(l)'
      BY <1>1 DEF Stands, Within
    <2> QED BY <1>1, <1>2, <1>4, <2>1, KnownStep
  <1>5. CASE report # "error"
    <2>1. Within(i)'
      BY <1>1, <1>3, <1>5 DEF Stands, Within
    <2> QED BY <1>1, <1>2, <1>5, <2>1, KnownStep
  <1> QED BY <1>4, <1>5

\* An array pinned.
LEMMA PinKeeps ==
    ASSUME NEW l, Stands(l), PinArray
    PROVE  Running'
  <1> DEFINE i == Bound(l.pinned \cup {Arg}, l.held, l.pending, l.output)
  <1>1. method' = method /\ UNCHANGED <<held, committed, report, pending>>
    BY DEF PinArray, Continue, Otherwise
  <1>2. \/ Goes(todo, l, todo', l) /\ UNCHANGED pinned
        \/ Goes(todo, l, todo', i) /\ pinned' = pinned \cup {Arg}
    BY DEF PinArray, Continue, Otherwise, At, Arg, Goes, Effect
  <1>3. \E k : k = i
    OBVIOUS
  <1>4. i.pinned = l.pinned \cup {Arg} /\ i.held = l.held /\ i.pending = l.pending /\ i.output = l.output
    BY BoundParts
  <1> HIDE DEF i
  <1>5. PICK k : k = i
    BY <1>3
  <1>6. CASE Goes(todo, l, todo', l) /\ UNCHANGED pinned
    <2>1. Within(l)'
      BY <1>1, <1>6 DEF Stands, Within
    <2> QED BY <1>1, <1>6, <2>1, KnownStep
  <1>7. CASE Goes(todo, l, todo', i) /\ pinned' = pinned \cup {Arg}
    <2>1. Within(k)'
      BY <1>1, <1>4, <1>5, <1>7 DEF Stands, Within
    <2> QED BY <1>1, <1>5, <1>7, <2>1, KnownStep
  <1> QED BY <1>2, <1>6, <1>7

\* An array released, with its contents only after a success.
LEMMA ReleaseArrayKeeps ==
    ASSUME NEW l, Stands(l), ReleaseArray
    PROVE  Running' /\ Arg \in Arrays
  <1> DEFINE z == IF At("commit") THEN "committed" ELSE l.output
             i == Bound(l.pinned \ {Arg}, l.held, l.pending, z)
  <1>1. /\ method' = method /\ UNCHANGED <<held, report, pending>> /\ pinned' = pinned \ {Arg}
        /\ ~ At("commit") => UNCHANGED committed
    BY DEF ReleaseArray, Continue
  <1>2. Goes(todo, l, todo', i)
    BY DEF ReleaseArray, Continue, At, Arg, Goes, Effect
  <1>3. Arg \in Arrays /\ (At("commit") => l.output = "reported")
    BY DEF ReleaseArray, At, Arg, Stands, Obeys, Owes
  <1>4. i.pinned = l.pinned \ {Arg} /\ i.held = l.held /\ i.pending = l.pending /\ i.output = z
    BY BoundParts
  <1> HIDE DEF i
  <1>5. PICK k : k = i
    OBVIOUS
  <1>6. Within(k)'
    <2>1. CASE At("commit")
      BY <1>1, <1>3, <1>4, <1>5, <2>1 DEF Stands, Within
    <2>2. CASE ~ At("commit")
      BY <1>1, <1>3, <1>4, <1>5, <2>2 DEF Stands, Within
    <2> QED BY <2>1, <2>2
  <1> QED BY <1>1, <1>2, <1>3, <1>5, <1>6, KnownStep

\* A resource obtained or freed.
LEMMA ResourceKeeps ==
    ASSUME NEW l, Stands(l), Obtain \/ Release
    PROVE  Running'
  <1> DEFINE i == Bound(l.pinned, l.held \cup {Arg}, l.pending, l.output)
             j == Bound(l.pinned, l.held \ {Arg}, l.pending, l.output)
  <1>1. method' = method /\ UNCHANGED <<pinned, committed, report, pending>>
    BY DEF Obtain, Release, Continue, Otherwise
  <1>2. \/ Goes(todo, l, todo', l) /\ UNCHANGED held
        \/ Goes(todo, l, todo', i) /\ held' = held \cup {Arg}
        \/ Goes(todo, l, todo', j) /\ held' = held \ {Arg}
    BY DEF Obtain, Release, Continue, Otherwise, At, Arg, Goes, Effect
  <1>3. /\ i.pinned = l.pinned /\ i.held = l.held \cup {Arg} /\ i.pending = l.pending /\ i.output = l.output
        /\ j.pinned = l.pinned /\ j.held = l.held \ {Arg} /\ j.pending = l.pending /\ j.output = l.output
    BY BoundParts
  <1> HIDE DEF i, j
  <1>4. PICK k : k = i
    OBVIOUS
  <1>5. PICK n : n = j
    OBVIOUS
  <1>6. CASE Goes(todo, l, todo', l) /\ UNCHANGED held
    <2>1. Within(l)'
      BY <1>1, <1>6 DEF Stands, Within
    <2> QED BY <1>1, <1>6, <2>1, KnownStep
  <1>7. CASE Goes(todo, l, todo', i) /\ held' = held \cup {Arg}
    <2>1. Within(k)'
      BY <1>1, <1>3, <1>4, <1>7 DEF Stands, Within
    <2> QED BY <1>1, <1>4, <1>7, <2>1, KnownStep
  <1>8. CASE Goes(todo, l, todo', j) /\ held' = held \ {Arg}
    <2>1. Within(n)'
      BY <1>1, <1>3, <1>5, <1>8 DEF Stands, Within
    <2> QED BY <1>1, <1>5, <1>8, <2>1, KnownStep
  <1> QED BY <1>2, <1>6, <1>7, <1>8

-----------------------------------------------------------------------------
(* The methods.  Between two statements nothing is known of the output and   *)
(* no exception is pending; a failure may leave one.                         *)

Mid(p, h)  == Bound(p, h, FALSE, "none")
Late(p, h) == Bound(p, h, TRUE, "none")

\* The arrays p pinned and the resources h held, JNI calls are allowed.
Site(m, p, h) == p \subseteq Arrays /\ h \subseteq Resources /\ (p = {} \/ m \in NotQuiet)

Keeps(m, p, h, s)     == Takes(m, Mid(p, h), s, Mid(p, h))
Quits(m, p, h, s)     == Ends(m, Mid(p, h), s)
QuitsLate(m, p, h, s) == Ends(m, Late(p, h), s)

\* The bounds between two statements and after a failure.
LEMMA MidLate ==
    \A p, h : /\ Tighter(Mid(p, h), Late(p, h))
              /\ \A z \in {"none", "called", "reported"} : Tighter(Bound(p, h, FALSE, z), Mid(p, h))
  <1> SUFFICES ASSUME NEW p, NEW h
               PROVE  /\ Tighter(Mid(p, h), Late(p, h))
                      /\ \A z \in {"none", "called", "reported"} : Tighter(Bound(p, h, FALSE, z), Mid(p, h))
    OBVIOUS
  <1>1. ASSUME NEW z \in {"none", "called", "reported"}, NEW x,
               NEW k, k = Bound(p, h, FALSE, z), NEW l, l = Bound(p, h, x, "none")
        PROVE  Tighter(k, l)
    <2>1. k.pinned = p /\ l.pinned = p /\ k.held = h /\ l.held = h
      BY <1>1, Zenon DEF Bound
    <2>2. k.pending = FALSE /\ k.output = z /\ l.output = "none"
      BY <1>1, Zenon DEF Bound
    <2> QED BY <2>1, <2>2 DEF Tighter
  <1> QED BY <1>1 DEF Mid, Late

\* What a site allows.
LEMMA Sites ==
    ASSUME NEW m, NEW p, NEW h, Site(m, p, h)
    PROVE  /\ Fits(Bound(p, h, FALSE, "none")) /\ Fits(Bound(p, h, TRUE, "none"))
           /\ MayCall(m, p, FALSE) /\ MayRaise(m, p, FALSE)
  <1>1. MayCall(m, p, FALSE) /\ MayRaise(m, p, FALSE)
    BY DEF Site, MayCall, MayRaise
  <1>2. /\ Bound(p, h, FALSE, "none").pinned = p /\ Bound(p, h, FALSE, "none").held = h
        /\ Bound(p, h, TRUE, "none").pinned = p /\ Bound(p, h, TRUE, "none").held = h
    BY Zenon DEF Bound
  <1> QED BY <1>1, <1>2, Zenon DEF Site, Fits

\* Calls that cannot fail.
LEMMA KeepsCalls ==
    ASSUME NEW m, NEW p, NEW h, Site(m, p, h)
    PROVE  Keeps(m, p, h, <<>>) /\ Keeps(m, p, h, Vm) /\ Keeps(m, p, h, Lock)
  BY Sites, TakesNothing, TakesVm, TakesLock, Zenon DEF Keeps, Mid, Site

\* A step that may end the method with o.
LEMMA KeepsOr ==
    ASSUME NEW m, NEW p, NEW h, Site(m, p, h), NEW o
    PROVE  /\ Quits(m, p, h, o) =>
                 /\ Keeps(m, p, h, Check(o)) /\ Keeps(m, p, h, Cxx(o))
                 /\ \A test \in RangeTests : \A a : Keeps(m, p, h, Range(test, a, o))
           /\ QuitsLate(m, p, h, o) => Keeps(m, p, h, VmRaises(o))
  <1>1. ASSUME Quits(m, p, h, o)
        PROVE  /\ Keeps(m, p, h, Check(o)) /\ Keeps(m, p, h, Cxx(o))
               /\ \A test \in RangeTests : \A a : Keeps(m, p, h, Range(test, a, o))
    BY <1>1, Sites, TakesCheck, TakesCxx, TakesRange, Zenon DEF Keeps, Quits, Mid
  <1>2. ASSUME QuitsLate(m, p, h, o)
        PROVE  Keeps(m, p, h, VmRaises(o))
    BY <1>2, Sites, TakesRaises, Zenon DEF Keeps, QuitsLate, Mid, Late
  <1> QED BY <1>1, <1>2

\* Two ways on, a repetition, one after the other.
LEMMA KeepsBoth ==
    ASSUME NEW m, NEW p, NEW h, Site(m, p, h), NEW a, Keeps(m, p, h, a)
    PROVE  /\ Keeps(m, p, h, Maybe(a)) /\ Keeps(m, p, h, Loop(a))
           /\ \A b : Keeps(m, p, h, b) => Keeps(m, p, h, a \o b) /\ Keeps(m, p, h, Either(a, b))
  <1>1. Fits(Mid(p, h)) /\ Keeps(m, p, h, <<>>)
    BY Sites, KeepsCalls, Zenon DEF Mid
  <1>2. Keeps(m, p, h, Loop(a))
    BY <1>1, TakesLoop, Zenon DEF Keeps
  <1>3. ASSUME NEW b, Keeps(m, p, h, b)
        PROVE  Keeps(m, p, h, a \o b) /\ Keeps(m, p, h, Either(a, b))
    BY <1>1, <1>3, TakesBoth, TakesEither, Zenon DEF Keeps
  <1> QED BY <1>1, <1>2, <1>3, Zenon DEF Maybe

\* The last calls after a failure: an exception thrown, an array released, a
\* resource freed.
LEMMA QuitsThrowing ==
    ASSUME NEW m, NEW p, NEW h, Site(m, p, h), NEW s, QuitsLate(m, p, h, s)
    PROVE  /\ Quits(m, p, h, s) /\ Quits(m, p, h, Throw \o s)
           /\ m \in ThrowTwice => QuitsLate(m, p, h, Throw \o s)
  <1>1. Quits(m, p, h, s)
    BY MidLate, EndsWeaker, Zenon DEF Quits, QuitsLate
  <1>2. Quits(m, p, h, Throw \o s)
    <2>1. Takes(m, Mid(p, h), Throw, Late(p, h))
      BY Sites, TakesThrow, Zenon DEF Mid, Late
    <2> QED BY <2>1, EndsAfter, Zenon DEF Quits, QuitsLate
  <1>3. ASSUME m \in ThrowTwice
        PROVE  QuitsLate(m, p, h, Throw \o s)
    <2>0. MayRaise(m, p, TRUE)
      BY <1>3 DEF Site, MayRaise
    <2>1. Takes(m, Late(p, h), Throw, Late(p, h))
      BY <2>0, Sites, TakesThrow, Zenon DEF Late
    <2> QED BY <2>1, EndsAfter, Zenon DEF QuitsLate
  <1> QED BY <1>1, <1>2, <1>3

\* Returning at once.
LEMMA QuitsNow ==
    ASSUME NEW m, NEW h, Site(m, {}, h), h \subseteq (IF m \in LeakCctx THEN {"cctx"} ELSE {})
    PROVE  QuitsLate(m, {}, h, <<>>) /\ Quits(m, {}, h, <<>>) /\ Quits(m, {}, h, Throw)
           /\ (m \in ThrowTwice => QuitsLate(m, {}, h, Throw))
  <1>1. QuitsLate(m, {}, h, <<>>)
    BY EndsHere, Zenon DEF QuitsLate, Late
  <1>2. Throw \o <<>> = Throw
    BY DEF Throw, Step
  <1> QED BY <1>1, <1>2, QuitsThrowing

\* Between a call to the engine and the test of its report, and after it.
LEMMA KeepsEngine ==
    ASSUME NEW m, NEW p, NEW h, p \subseteq Arrays, h \subseteq Resources
    PROVE  Keeps(m, p, h, Engine) /\ \A o : Quits(m, p, h, o) => Keeps(m, p, h, Report(o))
  <1>1. Fits(Bound(p, h, FALSE, "none"))
    BY Zenon DEF Fits, Bound
  <1>2. Keeps(m, p, h, Engine)
    <2>1. Takes(m, Bound(p, h, FALSE, "none"), Engine, Bound(p, h, FALSE, "called"))
      BY <1>1, TakesEngine
    <2> QED BY <2>1, MidLate, TakesWeaker, TighterOrder DEF Keeps, Mid
  <1>3. ASSUME NEW o, Quits(m, p, h, o)
        PROVE  Keeps(m, p, h, Report(o))
    <2>1. Takes(m, Bound(p, h, FALSE, "none"), Report(o),
                Bound(p, h, FALSE, IF "none" = "called" THEN "reported" ELSE "none"))
      BY <1>1, <1>3, TakesReport DEF Quits, Mid
    <2> QED BY <2>1 DEF Keeps, Mid
  <1> QED BY <1>2, <1>3

\* Arrays pinned and released,
LEMMA MovesPinned ==
    ASSUME NEW m, NEW p, NEW h, p \subseteq Arrays, h \subseteq Resources, NEW a \in Arrays
    PROVE  /\ \A o : Quits(m, p, h, o) => Takes(m, Mid(p, h), Pin(a, o), Mid(p \cup {a}, h))
           /\ Takes(m, Mid(p, h), Unpin(a), Mid(p \ {a}, h))
           /\ Takes(m, Late(p, h), Unpin(a), Late(p \ {a}, h))
  <1>1. Fits(Bound(p, h, FALSE, "none")) /\ Fits(Bound(p, h, TRUE, "none"))
    BY Zenon DEF Fits, Bound
  <1>2. ASSUME NEW o, Quits(m, p, h, o)
        PROVE  Takes(m, Mid(p, h), Pin(a, o), Mid(p \cup {a}, h))
    BY <1>1, <1>2, TakesPin, Zenon DEF Mid, Quits
  <1> QED BY <1>1, <1>2, TakesUnpin, Zenon DEF Mid, Late

\* ... resources obtained and freed.
LEMMA MovesHeld ==
    ASSUME NEW m, NEW p, NEW h, p \subseteq Arrays, h \subseteq Resources, NEW r \in Resources
    PROVE  /\ \A o : Quits(m, p, h, o) => Takes(m, Mid(p, h), Get(r, o), Mid(p, h \cup {r}))
           /\ Takes(m, Mid(p, h), Free(r), Mid(p, h \ {r}))
           /\ Takes(m, Late(p, h), Free(r), Late(p, h \ {r}))
  <1>1. Fits(Bound(p, h, FALSE, "none")) /\ Fits(Bound(p, h, TRUE, "none"))
    BY Zenon DEF Fits, Bound
  <1>2. ASSUME NEW o, Quits(m, p, h, o)
        PROVE  Takes(m, Mid(p, h), Get(r, o), Mid(p, h \cup {r}))
    BY <1>1, <1>2, TakesGet, Zenon DEF Mid, Quits
  <1> QED BY <1>1, <1>2, TakesFree, Zenon DEF Mid, Late

\* A C++ exception that nothing handles.
LEMMA QuitsAborting ==
    ASSUME NEW m, NEW p, NEW h, p \subseteq Arrays, h \subseteq Resources, m \in MayAbort
    PROVE  Quits(m, p, h, Abort)
  <1>1. Fits(Mid(p, h))
    BY Zenon DEF Fits, Bound, Mid
  <1> QED BY <1>1, EndsAborting, Zenon DEF Quits

\* A method starts at a site.
LEMMA CleanSite == \A m : Site(m, {}, {}) /\ Clean = Mid({}, {})
  BY DEF Site, Clean, Mid

\* What keeps nothing pinned and nothing held may be a whole method.
LEMMA EndsClean ==
    ASSUME NEW m, NEW s, Keeps(m, {}, {}, s)
    PROVE  Ends(m, Clean, s) /\ Quits(m, {}, {}, s)
  <1>1. Quits(m, {}, {}, <<>>)
    BY CleanSite, QuitsNow, Zenon
  <1>2. Quits(m, {}, {}, s \o <<>>)
    BY <1>1, EndsAfter, Zenon DEF Keeps, Quits
  <1>3. s \o <<>> = s
    BY Join, Zenon DEF Keeps, Takes
  <1> QED BY <1>2, <1>3, CleanSite DEF Quits

\* With nothing pinned and nothing held a method may fail at any time, silently
\* or with an exception.
LEMMA Basics ==
    ASSUME NEW m
    PROVE  /\ Site(m, {}, {})
           /\ Quits(m, {}, {}, Quiet) /\ Quits(m, {}, {}, Throw) /\ QuitsLate(m, {}, {}, Quiet)
           /\ Keeps(m, {}, {}, Vm) /\ Keeps(m, {}, {}, Lock)
           /\ Keeps(m, {}, {}, Check(Quiet)) /\ Keeps(m, {}, {}, Require)
           /\ Keeps(m, {}, {}, VmRaises(Quiet)) /\ Keeps(m, {}, {}, Cxx(Throw))
           /\ m \in MayAbort => Keeps(m, {}, {}, Cxx(Abort))
           /\ Keeps(m, {}, {}, Engine) /\ Keeps(m, {}, {}, Report(Quiet)) /\ Keeps(m, {}, {}, Report(Throw))
           /\ Keeps(m, {}, {}, Open)
           /\ \A test \in RangeTests : \A a : Keeps(m, {}, {}, Range(test, a, Throw))
  <1>1. Site(m, {}, {})
    BY CleanSite, Zenon
  <1>2. Quits(m, {}, {}, Quiet) /\ Quits(m, {}, {}, Throw) /\ QuitsLate(m, {}, {}, Quiet)
    BY <1>1, QuitsNow, Zenon DEF Quiet
  <1>3. /\ Keeps(m, {}, {}, Vm) /\ Keeps(m, {}, {}, Lock)
        /\ Keeps(m, {}, {}, Check(Quiet)) /\ Keeps(m, {}, {}, Require)
        /\ Keeps(m, {}, {}, VmRaises(Quiet)) /\ Keeps(m, {}, {}, Cxx(Throw))
    BY <1>1, <1>2, KeepsCalls, KeepsOr, Zenon DEF Require
  <1>4. ASSUME m \in MayAbort PROVE Keeps(m, {}, {}, Cxx(Abort))
    <2>1. Quits(m, {}, {}, Abort)
      BY <1>4, QuitsAborting
    <2> QED BY <1>1, <2>1, KeepsOr, Zenon
  <1>5. Keeps(m, {}, {}, Engine) /\ Keeps(m, {}, {}, Report(Quiet)) /\ Keeps(m, {}, {}, Report(Throw))
    BY <1>2, KeepsEngine
  <1>6. Keeps(m, {}, {}, Open)
    BY <1>1, <1>3, KeepsBoth, Zenon DEF Open
  <1>7. \A test \in RangeTests : \A a : Keeps(m, {}, {}, Range(test, a, Throw))
    BY <1>1, <1>2, KeepsOr, Zenon
  <1> QED BY <1>1, <1>2, <1>3, <1>4, <1>5, <1>6, <1>7

\* The tests the methods name.
LEMMA NamedTests == {"arrayRange", "directRange", "directLength", "sliceRange"} \subseteq RangeTests
  BY DEF RangeTests

\* Direct buffers are not pinned.
LEMMA DirectBuffersEnd ==
    ASSUME NEW m
    PROVE  /\ Ends(m, Clean, compressDirect) /\ Ends(m, Clean, decompressDirect)
           /\ Ends(m, Clean, getDecompressedSizeDirect)
  <1>1. \A a : Keeps(m, {}, {}, Range("directRange", a, Throw))
    BY Basics, NamedTests
  <1>2. Keeps(m, {}, {}, compressDirect)
    BY <1>1, Basics, KeepsBoth, Zenon DEF compressDirect
  <1>3. Keeps(m, {}, {}, getDecompressedSizeDirect)
    BY <1>1, Basics, KeepsBoth, Zenon DEF getDecompressedSizeDirect
  <1> QED BY <1>2, <1>3, EndsClean, Zenon DEF decompressDirect

\* Parameters, serialization, profiles.
LEMMA SettingsEnd ==
    ASSUME NEW m
    PROVE  /\ m \in MayAbort => Ends(m, Clean, setParameter) /\ Ends(m, Clean, serialize)
                                 /\ Ends(m, Clean, resetNative)
           /\ Ends(m, Clean, maxCompressedSizeNative) /\ Ends(m, Clean, setDataArenaNative)
           /\ Ends(m, Clean, listProfilesNative)
  <1>1. ASSUME m \in MayAbort
        PROVE  Ends(m, Clean, setParameter) /\ Ends(m, Clean, serialize) /\ Ends(m, Clean, resetNative)
    <2>1. Keeps(m, {}, {}, setParameter) /\ Keeps(m, {}, {}, resetNative)
      BY <1>1, Basics, KeepsBoth, Zenon DEF setParameter, resetNative
    <2>2. Keeps(m, {}, {}, Check(VmRaises(Quiet)))
      BY Basics, EndsClean, KeepsOr, Zenon
    <2>3. Keeps(m, {}, {}, serialize)
      BY <1>1, <2>2, Basics, KeepsBoth, Zenon DEF serialize
    <2> QED BY <2>1, <2>3, EndsClean, Zenon
  <1>2. Keeps(m, {}, {}, maxCompressedSizeNative)
    BY Basics, KeepsBoth, Zenon DEF maxCompressedSizeNative
  <1>3. Keeps(m, {}, {}, setDataArenaNative)
    BY Basics, KeepsBoth, Zenon DEF setDataArenaNative
  <1>4. Keeps(m, {}, {}, listProfilesNative)
    BY Basics, KeepsBoth, Zenon DEF listProfilesNative
  <1> QED BY <1>1, <1>2, <1>3, <1>4, EndsClean, Zenon

\* With arrays pinned: what may fail without a JNI call.
LEMMA KeepsQuietly ==
    ASSUME NEW m, NEW p, NEW h, p \subseteq Arrays, h \subseteq Resources
    PROVE  /\ \A o : Quits(m, p, h, o) =>
                 Keeps(m, p, h, Check(o)) /\ Keeps(m, p, h, Cxx(o)) /\ Keeps(m, p, h, Report(o))
           /\ Keeps(m, p, h, Engine)
           /\ m \in MayAbort => Keeps(m, p, h, Cxx(Abort))
  <1>1. Fits(Bound(p, h, FALSE, "none"))
    BY Zenon DEF Fits, Bound
  <1>2. ASSUME NEW o, Quits(m, p, h, o)
        PROVE  Keeps(m, p, h, Check(o)) /\ Keeps(m, p, h, Cxx(o))
    BY <1>1, <1>2, TakesCheck, TakesCxx, Zenon DEF Keeps, Quits, Mid
  <1> QED BY <1>2, KeepsEngine, QuitsAborting

\* One array pinned, one resource obtained, and what ends the method then.
LEMMA PinOne ==
    ASSUME NEW m, NEW h, h \subseteq Resources, NEW a \in Arrays
    PROVE  /\ \A o : Quits(m, {}, h, o) => Takes(m, Mid({}, h), Pin(a, o), Mid({a}, h))
           /\ Takes(m, Mid({a}, h), Unpin(a), Mid({}, h))
           /\ Takes(m, Late({a}, h), Unpin(a), Late({}, h))
  <1>1. {} \cup {a} = {a} /\ {a} \ {a} = {}
    OBVIOUS
  <1>2. \A o : Quits(m, {}, h, o) => Takes(m, Mid({}, h), Pin(a, o), Mid({} \cup {a}, h))
    BY MovesPinned
  <1>3. /\ Takes(m, Mid({a}, h), Unpin(a), Mid({a} \ {a}, h))
        /\ Takes(m, Late({a}, h), Unpin(a), Late({a} \ {a}, h))
    BY MovesPinned
  <1> QED BY <1>1, <1>2, <1>3

LEMMA GetOne ==
    ASSUME NEW m, NEW p, NEW h, p \subseteq Arrays, h \subseteq Resources, NEW r \in Resources
    PROVE  /\ \A o : Quits(m, p, h, o) => Takes(m, Mid(p, h), Get(r, o), Mid(p, h \cup {r}))
           /\ r \notin h => /\ Takes(m, Mid(p, h \cup {r}), Free(r), Mid(p, h))
                            /\ Takes(m, Late(p, h \cup {r}), Free(r), Late(p, h))
  <1>1. r \notin h => (h \cup {r}) \ {r} = h
    OBVIOUS
  <1>2. \A o : Quits(m, p, h, o) => Takes(m, Mid(p, h), Get(r, o), Mid(p, h \cup {r}))
    BY MovesHeld
  <1>3. /\ Takes(m, Mid(p, h \cup {r}), Free(r), Mid(p, (h \cup {r}) \ {r}))
        /\ Takes(m, Late(p, h \cup {r}), Free(r), Late(p, (h \cup {r}) \ {r}))
    <2>1. h \cup {r} \subseteq Resources
      OBVIOUS
    <2> QED BY <2>1, MovesHeld
  <1> QED BY <1>1, <1>2, <1>3

\* A failure that releases everything.
LEMMA QuitsClean ==
    ASSUME NEW m, NEW p, NEW h, NEW s
    PROVE  /\ Takes(m, Mid(p, h), s, Mid({}, {})) => Quits(m, p, h, s) /\ Quits(m, p, h, s \o Throw)
           /\ Takes(m, Late(p, h), s, Late({}, {})) =>
                 /\ Quits(m, p, h, s) /\ QuitsLate(m, p, h, s)
                 /\ m \in ThrowTwice => QuitsLate(m, p, h, s \o Throw)
  <1>1. ASSUME Takes(m, Mid(p, h), s, Mid({}, {}))
        PROVE  Quits(m, p, h, s) /\ Quits(m, p, h, s \o Throw)
    <2>1. Quits(m, p, h, s \o Quiet) /\ Quits(m, p, h, s \o Throw)
      BY <1>1, Basics, EndsAfter, Zenon DEF Quits
    <2>2. s \o Quiet = s
      BY <1>1, Join, Zenon DEF Takes, Quiet
    <2> QED BY <2>1, <2>2
  <1>2. ASSUME Takes(m, Late(p, h), s, Late({}, {}))
        PROVE  /\ Quits(m, p, h, s) /\ QuitsLate(m, p, h, s)
               /\ m \in ThrowTwice => QuitsLate(m, p, h, s \o Throw)
    <2>1. QuitsLate(m, p, h, s \o Quiet)
      BY <1>2, Basics, EndsAfter, Zenon DEF QuitsLate
    <2>2. s \o Quiet = s
      BY <1>2, Join, Zenon DEF Takes, Quiet
    <2>3. ASSUME m \in ThrowTwice PROVE QuitsLate(m, {}, {}, Throw)
      BY <2>3, Basics, QuitsNow
    <2>4. ASSUME m \in ThrowTwice PROVE QuitsLate(m, p, h, s \o Throw)
      BY <1>2, <2>3, <2>4, EndsAfter, Zenon DEF QuitsLate
    <2>5. QuitsLate(m, p, h, s)
      BY <2>1, <2>2
    <2>6. Quits(m, p, h, s)
      BY <2>5, MidLate, EndsWeaker, Zenon DEF Quits, QuitsLate
    <2> QED BY <2>4, <2>5, <2>6
  <1> QED BY <1>1, <1>2

\* An array pinned and nothing held.
LEMMA PinnedAlone ==
    ASSUME NEW m, NEW a \in Arrays
    PROVE  /\ Takes(m, Mid({}, {}), Pin(a, Throw), Mid({a}, {}))
           /\ Takes(m, Mid({a}, {}), Unpin(a), Mid({}, {}))
           /\ Quits(m, {a}, {}, Unpin(a)) /\ Quits(m, {a}, {}, Unpin(a) \o Throw)
           /\ Keeps(m, {a}, {}, Engine) /\ Keeps(m, {a}, {}, Report(Unpin(a)))
           /\ Keeps(m, {a}, {}, Cxx(Unpin(a) \o Throw))
           /\ m \in MayAbort => Keeps(m, {a}, {}, Cxx(Abort))
  <1>1. {a} \subseteq Arrays /\ {} \subseteq Resources
    OBVIOUS
  <1>2. /\ Takes(m, Mid({}, {}), Pin(a, Throw), Mid({a}, {}))
        /\ Takes(m, Mid({a}, {}), Unpin(a), Mid({}, {}))
    BY <1>1, Basics, PinOne, Zenon
  <1>3. Quits(m, {a}, {}, Unpin(a)) /\ Quits(m, {a}, {}, Unpin(a) \o Throw)
    BY <1>2, QuitsClean, Zenon
  <1> QED BY <1>1, <1>2, <1>3, KeepsQuietly, Zenon

\* The result array and the copy into it.
LEMMA ResultsKeep ==
    ASSUME NEW m
    PROVE  /\ Keeps(m, {}, {}, NewResult(Quiet))
           /\ m \in UseUnallocated => Keeps(m, {}, {}, NewResultUnchecked)
  <1>1. Keeps(m, {}, {}, NewResult(Quiet))
    BY Basics, KeepsBoth, Zenon DEF NewResult
  <1>2. ASSUME m \in UseUnallocated
        PROVE  Keeps(m, {}, {}, NewResultUnchecked)
    <2>1. MayCall(m, {}, TRUE)
      BY <1>2 DEF MayCall
    <2>2. Takes(m, Late({}, {}), Vm, Late({}, {}))
      BY <2>1, Basics, Sites, TakesVm, Zenon DEF Late
    <2>3. QuitsLate(m, {}, {}, Vm)
      BY <2>2, QuitsClean, Zenon
    <2> QED BY <2>3, Basics, KeepsOr, KeepsBoth, Zenon DEF NewResultUnchecked
  <1> QED BY <1>1, <1>2

\* The arrays and resources the methods name.
LEMMA NamedArrays == Arrays = {"src", "dst", "input", "serialized", "description", "payload", "copy"}
  BY DEF Arrays

\* The methods that compress and decompress an array of bytes into a new one.
LEMMA NewArraysEnd ==
    ASSUME NEW m
    PROVE  /\ m \in UseUnallocated /\ m \in MayAbort =>
                 Ends(m, Clean, compress) /\ Ends(m, Clean, decompress)
           /\ Ends(m, Clean, getDecompressedSizeNative)
  <1> DEFINE a == "input"
             start == Open \o Require \o Vm
  <1>1. a \in Arrays
    BY NamedArrays
  <1>2. Keeps(m, {}, {}, start)
    BY Basics, KeepsBoth, Zenon
  <1>3. ASSUME m \in UseUnallocated, m \in MayAbort
        PROVE  Keeps(m, {}, {}, compress) /\ Keeps(m, {}, {}, decompress)
    <2>1. Keeps(m, {}, {}, Report(Quiet)) /\ Keeps(m, {}, {}, NewResultUnchecked)
      BY <1>3, Basics, ResultsKeep
    <2>2. Keeps(m, {}, {}, Either(NewResultUnchecked, VmRaises(Quiet)))
      BY <2>1, Basics, KeepsBoth, Zenon
    <2>3. Keeps(m, {}, {}, compress)
      BY <1>1, <1>2, <1>3, <2>1, PinnedAlone, TakesBoth, Zenon DEF compress, Keeps
    <2>4. Keeps(m, {}, {}, decompress)
      BY <1>1, <1>2, <1>3, <2>1, <2>2, PinnedAlone, TakesBoth, Zenon DEF decompress, Keeps
    <2> QED BY <2>3, <2>4
  <1>4. Keeps(m, {}, {}, getDecompressedSizeNative)
    BY <1>1, <1>2, Basics, PinnedAlone, TakesBoth, Zenon DEF getDecompressedSizeNative, Keeps
  <1> QED BY <1>3, <1>4, EndsClean, Zenon

LEMMA NamedResources ==
    Resources = {"chars", "key", "value", "frameInfo", "typedRef", "elements", "cctx", "tempDir", "buffers"}
  BY DEF Resources

\* A resource held and nothing pinned.
LEMMA HeldAlone ==
    ASSUME NEW m, NEW r \in Resources
    PROVE  /\ Site(m, {}, {r})
           /\ \A o : Quits(m, {}, {}, o) => Takes(m, Mid({}, {}), Get(r, o), Mid({}, {r}))
           /\ Takes(m, Mid({}, {r}), Free(r), Mid({}, {}))
           /\ Quits(m, {}, {r}, Free(r)) /\ Quits(m, {}, {r}, Free(r) \o Throw)
           /\ QuitsLate(m, {}, {r}, Free(r)) /\ Quits(m, {}, {r}, Throw \o Free(r))
           /\ m \in ThrowTwice => QuitsLate(m, {}, {r}, Throw \o Free(r))
  <1>1. {} \cup {r} = {r} /\ r \notin {} /\ {} \subseteq Arrays /\ {} \subseteq Resources
    OBVIOUS
  <1>2. Site(m, {}, {r})
    BY DEF Site
  <1>3. /\ \A o : Quits(m, {}, {}, o) => Takes(m, Mid({}, {}), Get(r, o), Mid({}, {r}))
        /\ Takes(m, Mid({}, {r}), Free(r), Mid({}, {}))
        /\ Takes(m, Late({}, {r}), Free(r), Late({}, {}))
    <2>1. /\ \A o : Quits(m, {}, {}, o) => Takes(m, Mid({}, {}), Get(r, o), Mid({}, {} \cup {r}))
          /\ Takes(m, Mid({}, {} \cup {r}), Free(r), Mid({}, {}))
          /\ Takes(m, Late({}, {} \cup {r}), Free(r), Late({}, {}))
      BY <1>1, GetOne, Zenon
    <2> QED BY <1>1, <2>1
  <1>4. Quits(m, {}, {r}, Free(r)) /\ Quits(m, {}, {r}, Free(r) \o Throw) /\ QuitsLate(m, {}, {r}, Free(r))
    BY <1>3, QuitsClean, Zenon
  <1> QED BY <1>2, <1>3, <1>4, QuitsThrowing, Zenon

\* The methods on arrays of numbers.
LEMMA NumbersEnd ==
    ASSUME NEW m
    PROVE  /\ m \in MayAbort => Ends(m, Clean, compressElementsNative)
           /\ m \in MayAbort =>
                 /\ Ends(m, Clean, decompressIntsNative) /\ Ends(m, Clean, decompressLongsNative)
                 /\ Ends(m, Clean, decompressFloatsNative) /\ Ends(m, Clean, decompressDoublesNative)
  <1> DEFINE h == {"elements"}
             t == "typedRef"
             after == Free("elements")
  <1>0. "elements" \in Resources /\ t \in Resources /\ t \notin h /\ h \subseteq Resources /\ "src" \in Arrays
    BY NamedResources, NamedArrays
  <1>1. ASSUME m \in MayAbort
        PROVE  Keeps(m, {}, {}, compressElementsNative)
    <2>1. /\ Takes(m, Mid({}, {}), Get("elements", Throw), Mid({}, h))
          /\ Takes(m, Mid({}, h), after, Mid({}, {}))
          /\ Site(m, {}, h) /\ Quits(m, {}, h, after) /\ QuitsLate(m, {}, h, after)
          /\ Quits(m, {}, h, Throw \o after)
      BY <1>0, Basics, HeldAlone, Zenon
    <2> DEFINE g == h \cup {t}
    <2>2. Takes(m, Mid({}, h), Get(t, Throw \o after), Mid({}, g)) /\ Takes(m, Mid({}, g), Free(t), Mid({}, h))
      BY <1>0, <2>1, GetOne
    <2>3. g \subseteq Resources /\ {} \subseteq Arrays
      BY <1>0
    <2>4. Keeps(m, {}, g, Engine)
      BY <2>3, KeepsEngine
    <2>5. Keeps(m, {}, h, Cxx(Abort)) /\ Keeps(m, {}, h, Report(after))
      BY <1>0, <1>1, <2>1, <2>3, KeepsQuietly
    <2>6. Keeps(m, {}, h, NewResult(after))
      BY <2>1, KeepsCalls, KeepsOr, KeepsBoth, Zenon DEF NewResult
    <2> HIDE DEF h, t, after, g
    <2>7. Keeps(m, {}, h, compressNumericCommon(after))
      BY <2>2, <2>4, <2>5, <2>6, TakesBoth, Zenon DEF compressNumericCommon, Keeps, t
    <2>8. Keeps(m, {}, {}, Open \o Vm \o Vm)
      BY Basics, KeepsBoth, Zenon
    <2> QED BY <2>1, <2>7, <2>8, TakesBoth, Zenon DEF compressElementsNative, Keeps, after
  <1>2. ASSUME m \in MayAbort
        PROVE  Keeps(m, {}, {}, decompressElements)
    BY <1>0, <1>2, Basics, PinnedAlone, ResultsKeep, TakesBoth, Zenon DEF decompressElements, Keeps
  <1>3. ASSUME m \in MayAbort
        PROVE  /\ Keeps(m, {}, {}, decompressIntsNative) /\ Keeps(m, {}, {}, decompressLongsNative)
               /\ Keeps(m, {}, {}, decompressFloatsNative) /\ Keeps(m, {}, {}, decompressDoublesNative)
    BY <1>2, <1>3, Basics, KeepsBoth, Zenon
       DEF decompressIntsNative, decompressLongsNative, decompressFloatsNative, decompressDoublesNative
  <1> QED BY <1>1, <1>3, EndsClean, Zenon

\* The methods that describe a frame; describeFrameNative throws, and makes its
\* result, with the frame pinned.
LEMMA FramesEnd ==
    ASSUME NEW m
    PROVE  /\ m \in NotQuiet => Ends(m, Clean, describeFrameNative)
           /\ Ends(m, Clean, describeFrameDirectNative)
  <1> DEFINE f == "frameInfo"
  <1>0. f \in Resources /\ "src" \in Arrays
    BY NamedResources, NamedArrays
  <1>1. ASSUME NEW p, NEW after, Site(m, p, {}), QuitsLate(m, p, {}, after), Site(m, p, {f})
        PROVE  Keeps(m, p, {}, describeFrameInternal(after))
    <2>1. {} \cup {f} = {f} /\ f \notin {} /\ p \subseteq Arrays /\ {f} \subseteq Resources
      BY <1>1 DEF Site
    <2>2. Quits(m, p, {}, after) /\ Quits(m, p, {}, Throw \o after)
      BY <1>1, QuitsThrowing, Zenon
    <2>3. /\ Takes(m, Mid(p, {}), Get(f, Throw \o after), Mid(p, {f}))
          /\ Takes(m, Mid(p, {f}), Free(f), Mid(p, {}))
      <3>1. /\ Takes(m, Mid(p, {}), Get(f, Throw \o after), Mid(p, {} \cup {f}))
            /\ Takes(m, Mid(p, {} \cup {f}), Free(f), Mid(p, {}))
        BY <1>0, <2>1, <2>2, GetOne, Zenon
      <3> QED BY <2>1, <3>1
    <2>4. Quits(m, p, {f}, Free(f) \o Throw \o after)
      <3>1. Takes(m, Mid(p, {}), Throw, Late(p, {}))
        BY <1>1, Sites, TakesThrow, Zenon DEF Mid, Late
      <3>2. Takes(m, Mid(p, {f}), Free(f) \o Throw, Late(p, {}))
        BY <2>3, <3>1, TakesBoth, Zenon
      <3> QED BY <1>1, <3>2, EndsAfter, Zenon DEF Quits, QuitsLate
    <2>5. Keeps(m, p, {f}, Check(Free(f) \o Throw \o after))
      BY <2>1, <2>4, KeepsQuietly
    <2>6. Keeps(m, p, {}, NewResult(after))
      BY <1>1, KeepsCalls, KeepsOr, KeepsBoth, Zenon DEF NewResult
    <2> QED BY <2>3, <2>5, <2>6, TakesBoth, Zenon DEF describeFrameInternal, Keeps
  <1>2. Ends(m, Clean, describeFrameDirectNative)
    <2>1. Site(m, {}, {f})
      BY <1>0, HeldAlone
    <2>2. Keeps(m, {}, {}, describeFrameInternal(Quiet))
      BY <1>1, <2>1, Basics, Zenon
    <2>3. \A a : Keeps(m, {}, {}, Range("directRange", a, Throw))
      BY Basics, NamedTests
    <2>4. Keeps(m, {}, {}, describeFrameDirectNative)
      BY <2>2, <2>3, Basics, KeepsBoth, Zenon DEF describeFrameDirectNative
    <2> QED BY <2>4, EndsClean
  <1>3. ASSUME m \in NotQuiet
        PROVE  Ends(m, Clean, describeFrameNative)
    <2> DEFINE p == {"src"}
    <2>1. Site(m, p, {}) /\ Site(m, p, {f})
      BY <1>0, <1>3 DEF Site
    <2>2. /\ Takes(m, Mid({}, {}), Pin("src", Throw), Mid(p, {}))
          /\ Takes(m, Mid(p, {}), Unpin("src"), Mid({}, {}))
      BY <1>0, PinnedAlone
    <2>3. QuitsLate(m, p, {}, Unpin("src"))
      <3>1. Takes(m, Late(p, {}), Unpin("src"), Late({}, {}))
        BY <1>0, PinOne
      <3> QED BY <3>1, QuitsClean, Zenon
    <2>4. Keeps(m, p, {}, describeFrameInternal(Unpin("src")))
      BY <1>1, <2>1, <2>3, Zenon
    <2>5. Keeps(m, {}, {}, Require \o Vm)
      BY Basics, KeepsBoth, Zenon
    <2>6. Keeps(m, {}, {}, describeFrameNative)
      BY <2>2, <2>4, <2>5, TakesBoth, Zenon DEF describeFrameNative, Keeps
    <2> QED BY <2>6, EndsClean
  <1> QED BY <1>2, <1>3

\* A Java string read, a message type named, the arrays that training returns.
LEMMA HelpersKeep ==
    ASSUME NEW m
    PROVE  /\ Keeps(m, {}, {}, ReadString(Quiet)) /\ Keeps(m, {}, {}, TypeName)
           /\ Keeps(m, {}, {}, NewResults(Quiet)) /\ Keeps(m, {}, {}, trainFromDirectoryImpl(Quiet))
           /\ Keeps(m, {}, {}, KnownType) /\ Keeps(m, {}, {}, Protocol)
  <1>0. "chars" \in Resources
    BY NamedResources
  <1>1. Quits(m, {}, {}, Throw \o Quiet)
    BY Basics, QuitsThrowing, Zenon
  <1>2. Keeps(m, {}, {}, ReadString(Quiet))
    BY <1>0, <1>1, Basics, HeldAlone, TakesBoth, Zenon DEF ReadString, Keeps
  <1>3. Keeps(m, {}, {}, TypeName)
    BY <1>2, Basics, KeepsBoth, Zenon DEF TypeName
  <1>4. Keeps(m, {}, {}, NewResults(Quiet))
    BY Basics, KeepsBoth, Zenon DEF NewResults
  <1>5. Keeps(m, {}, {}, trainFromDirectoryImpl(Quiet))
    BY <1>1, <1>4, Basics, KeepsOr, KeepsBoth, Zenon DEF trainFromDirectoryImpl
  <1>6. Keeps(m, {}, {}, KnownType) /\ Keeps(m, {}, {}, Protocol)
    BY Basics, KeepsBoth, Zenon DEF KnownType, Protocol
  <1> QED BY <1>2, <1>3, <1>4, <1>5, <1>6

\* Profiles and the compiler of data descriptions.
LEMMA ProfilesEnd ==
    ASSUME NEW m
    PROVE  /\ Ends(m, Clean, configureProfileNative)
           /\ m \in ThrowTwice => Ends(m, Clean, compileNative)
           /\ m \in MayAbort => Ends(m, Clean, configureSddlNative)
  <1>0. /\ "chars" \in Resources /\ "key" \in Resources /\ "value" \in Resources
        /\ "description" \in Arrays
    BY NamedResources, NamedArrays
  <1>1. Keeps(m, {}, {}, configureProfileNative)
    <2> DEFINE k == {"key"}
               kv == k \cup {"value"}
               noKey == Vm \o Get("value", Throw) \o Free("value") \o Throw
               noValue == Free("key") \o Throw
    <2>1. Quits(m, {}, {}, noKey)
      <3>1. Takes(m, Mid({}, {}), Vm \o Get("value", Throw) \o Free("value"), Mid({}, {}))
        BY <1>0, Basics, HeldAlone, TakesBoth, Zenon DEF Keeps
      <3> QED BY <3>1, QuitsClean, Zenon
    <2>2. /\ Takes(m, Mid({}, {}), Get("key", noKey), Mid({}, k))
          /\ Takes(m, Mid({}, k), Free("key"), Mid({}, {}))
          /\ Site(m, {}, k) /\ Quits(m, {}, k, noValue)
      BY <1>0, <2>1, HeldAlone, Zenon
    <2>3. Keeps(m, {}, k, Vm)
      BY <2>2, KeepsCalls, Zenon
    <2>4. /\ Takes(m, Mid({}, k), Get("value", noValue), Mid({}, kv))
          /\ Takes(m, Mid({}, kv), Free("value"), Mid({}, k))
          /\ Takes(m, Mid({}, kv), Free("key"), Mid({}, {"value"}))
          /\ Takes(m, Mid({}, {"value"}), Free("value"), Mid({}, {}))
      <3>1. "value" \notin k /\ k \subseteq Resources /\ {} \subseteq Arrays /\ kv = {"value"} \cup {"key"}
            /\ {"value"} \subseteq Resources /\ "key" \notin {"value"}
        BY <1>0
      <3>2. Takes(m, Mid({}, {"value"} \cup {"key"}), Free("key"), Mid({}, {"value"}))
        BY <1>0, <3>1, GetOne
      <3>3. /\ Takes(m, Mid({}, k), Get("value", noValue), Mid({}, kv))
            /\ Takes(m, Mid({}, kv), Free("value"), Mid({}, k))
        BY <1>0, <2>2, <3>1, GetOne
      <3>4. Takes(m, Mid({}, kv), Free("key"), Mid({}, {"value"}))
        BY <3>1, <3>2
      <3> QED BY <1>0, <3>3, <3>4, HeldAlone
    <2> HIDE DEF k, kv
    <2> DEFINE pair == Vm \o Vm \o Require \o Vm \o Get("key", noKey) \o Vm \o Get("value", noValue)
                          \o Free("key") \o Free("value")
    <2>5. Keeps(m, {}, {}, pair)
      <3>1. Keeps(m, {}, {}, Vm \o Vm \o Require \o Vm)
        BY Basics, KeepsBoth, Zenon
      <3> HIDE DEF noKey, noValue
      <3> QED BY <2>2, <2>3, <2>4, <3>1, TakesBoth, Zenon DEF Keeps
    <2>6. Keeps(m, {}, {}, Loop(pair))
      <3> HIDE DEF pair
      <3> QED BY <2>5, Basics, KeepsBoth, Zenon
    <2>7. Keeps(m, {}, {}, Open \o Require \o ReadString(Quiet) \o Require \o Vm \o Require)
      BY Basics, HelpersKeep, KeepsBoth, Zenon
    <2> QED BY <2>6, <2>7, Basics, KeepsBoth, Zenon DEF configureProfileNative
  <1>2. ASSUME m \in ThrowTwice
        PROVE  Keeps(m, {}, {}, compileNative)
    <2> DEFINE h == {"chars"}
    <2>1. /\ Takes(m, Mid({}, {}), Get("chars", Throw), Mid({}, h))
          /\ Takes(m, Mid({}, h), Free("chars"), Mid({}, {}))
          /\ Site(m, {}, h) /\ Quits(m, {}, h, Free("chars") \o Throw)
      BY <1>0, Basics, HeldAlone, Zenon
    <2>2. Keeps(m, {}, h, Cxx(Free("chars") \o Throw))
      BY <2>1, KeepsOr, Zenon
    <2>3. Keeps(m, {}, {}, NewResult(Throw))
      <3>1. QuitsLate(m, {}, {}, Throw)
        BY <1>2, Basics, QuitsNow
      <3> QED BY <3>1, Basics, KeepsOr, KeepsBoth, Zenon DEF NewResult
    <2>4. Keeps(m, {}, {}, Require \o Vm)
      BY Basics, KeepsBoth, Zenon
    <2> QED BY <2>1, <2>2, <2>3, <2>4, Basics, TakesBoth, Zenon DEF compileNative, Keeps
  <1>3. ASSUME m \in MayAbort
        PROVE  Keeps(m, {}, {}, configureSddlNative)
    <2>1. Keeps(m, {}, {}, Open \o Require \o Vm \o Require)
      BY Basics, KeepsBoth, Zenon
    <2> QED BY <1>0, <1>3, <2>1, Basics, PinnedAlone, TakesBoth, Zenon DEF configureSddlNative, Keeps
  <1> QED BY <1>1, <1>2, <1>3, EndsClean, Zenon

\* Training on files; the temporary directory is removed on every path.
LEMMA TrainingEnds ==
    ASSUME NEW m
    PROVE  /\ Ends(m, Clean, trainFromDirectoryNative)
           /\ m \in ThrowTwice /\ m \in MayAbort => Ends(m, Clean, trainNative)
  <1>1. Keeps(m, {}, {}, trainFromDirectoryNative)
    BY Basics, HelpersKeep, KeepsBoth, Zenon DEF trainFromDirectoryNative
  <1>2. ASSUME m \in ThrowTwice, m \in MayAbort
        PROVE  Keeps(m, {}, {}, trainNative)
    <2> DEFINE h == {"tempDir"}
               cleanup == Free("tempDir")
    <2>1. "tempDir" \in Resources
      BY NamedResources
    <2>2. /\ Takes(m, Mid({}, {}), Get("tempDir", Throw), Mid({}, h))
          /\ Takes(m, Mid({}, h), cleanup, Mid({}, {}))
          /\ Site(m, {}, h) /\ QuitsLate(m, {}, h, cleanup)
          /\ Quits(m, {}, h, Throw \o cleanup) /\ QuitsLate(m, {}, h, Throw \o cleanup)
      BY <1>2, <2>1, Basics, HeldAlone, Zenon
    <2>3. /\ Keeps(m, {}, h, Vm) /\ Keeps(m, {}, h, VmRaises(cleanup))
          /\ Keeps(m, {}, h, VmRaises(Throw \o cleanup)) /\ Keeps(m, {}, h, Check(Throw \o cleanup))
          /\ Keeps(m, {}, h, Cxx(Throw \o cleanup))
      BY <2>2, KeepsCalls, KeepsOr, Zenon
    <2>4. Keeps(m, {}, h, Cxx(Abort))
      <3>1. {} \subseteq Arrays /\ h \subseteq Resources
        BY <2>1
      <3> QED BY <1>2, <3>1, KeepsQuietly
    <2> HIDE DEF h
    <2>5. Keeps(m, {}, h, trainFromDirectoryImpl(cleanup))
      <3>1. Keeps(m, {}, h, NewResults(cleanup))
        BY <2>2, <2>3, KeepsBoth, Zenon DEF NewResults
      <3> QED BY <2>2, <2>3, <3>1, KeepsBoth, Zenon DEF trainFromDirectoryImpl
    <2> DEFINE write == Vm \o Maybe(VmRaises(Throw \o cleanup)) \o Vm \o Cxx(Abort)
                           \o Maybe(VmRaises(cleanup))
                           \o Check(Throw \o cleanup) \o Check(Throw \o cleanup)
    <2>6. Keeps(m, {}, h, Loop(write))
      <3>1. Keeps(m, {}, h, write)
        BY <2>2, <2>3, <2>4, KeepsBoth, Zenon
      <3> HIDE DEF write
      <3> QED BY <2>2, <3>1, KeepsBoth, Zenon
    <2>7. Keeps(m, {}, {}, Require \o Require \o ReadString(Quiet) \o Require)
      BY Basics, HelpersKeep, KeepsBoth, Zenon
    <2> QED BY <2>2, <2>3, <2>5, <2>6, <2>7, TakesBoth, Zenon DEF trainNative, Keeps
  <1> QED BY <1>1, <1>2, EndsClean, Zenon

\* One-shot compression with a profile: the handler of the allocation releases
\* the array but not the ZL_CCtx.
LEMMA WithProfileEnds ==
    ASSUME NEW m, m \in LeakCctx, m \in UseUnallocated
    PROVE  Ends(m, Clean, compressWithProfileNative)
  <1> DEFINE p == {"input"}
             h == {"cctx"}
             failed == Unpin("input") \o Throw
  <1>1. "input" \in Arrays /\ "cctx" \in Resources
    BY NamedArrays, NamedResources
  <1>2. p \subseteq Arrays /\ h \subseteq Resources /\ Site(m, {}, h) /\ {} \subseteq Resources
        /\ "cctx" \notin {} /\ {} \cup h = h
    BY <1>1 DEF Site
  <1>3. /\ Takes(m, Mid({}, {}), Pin("input", Throw), Mid(p, {}))
        /\ Quits(m, p, {}, failed) /\ Takes(m, Mid(p, h), Unpin("input"), Mid({}, h))
        /\ Takes(m, Mid({}, h), Free("cctx"), Mid({}, {}))
    BY <1>1, <1>2, PinnedAlone, PinOne, HeldAlone, Zenon
  <1>4. Quits(m, p, h, failed)
    <2>1. Quits(m, {}, h, Throw)
      BY <1>2, QuitsNow
    <2> QED BY <1>3, <2>1, EndsAfter, Zenon DEF Quits
  <1>5. Takes(m, Mid(p, {}), Get("cctx", failed), Mid(p, h)) /\ Takes(m, Mid(p, h), Free("cctx"), Mid(p, {}))
    <2>1. /\ Takes(m, Mid(p, {}), Get("cctx", failed), Mid(p, {} \cup h))
          /\ Takes(m, Mid(p, {} \cup h), Free("cctx"), Mid(p, {}))
      BY <1>1, <1>2, <1>3, GetOne, Zenon
    <2> QED BY <1>2, <2>1
  <1>6. Quits(m, p, h, Free("cctx") \o failed)
    BY <1>3, <1>5, EndsAfter, Zenon DEF Quits
  <1> HIDE DEF p, h
  <1>7. Keeps(m, p, {}, Cxx(failed))
    BY <1>2, <1>3, KeepsQuietly
  <1>8. Keeps(m, p, h, Check(Free("cctx") \o failed)) /\ Keeps(m, p, h, Cxx(failed)) /\ Keeps(m, p, h, Engine)
    BY <1>2, <1>4, <1>6, KeepsQuietly
  <1>9. Keeps(m, {}, {}, Require \o Require \o ReadString(Quiet) \o Require \o Vm)
    BY Basics, HelpersKeep, KeepsBoth, Zenon
  <1>10. Keeps(m, {}, {}, NewResultUnchecked) /\ Keeps(m, {}, {}, Report(Throw))
    BY Basics, ResultsKeep
  <1>11. Keeps(m, {}, {}, compressWithProfileNative)
    BY <1>3, <1>5, <1>7, <1>8, <1>9, <1>10, TakesBoth, Zenon DEF compressWithProfileNative, Keeps
  <1> QED BY <1>11, EndsClean

\* ... and with a serialized compressor, pinned with the input: two arrays.
LEMMA WithSerializedEnds ==
    ASSUME NEW m, m \in LeakCctx, m \in UseUnallocated, m \in NotQuiet
    PROVE  Ends(m, Clean, compressWithSerializedNative)
  <1> DEFINE p == {"serialized"}
             i == {"input"}
             b == p \cup i
             h == {"cctx"}
             failed == Unpin("serialized") \o Unpin("input") \o Throw
  <1>1. "input" \in Arrays /\ "serialized" \in Arrays /\ "cctx" \in Resources
    BY NamedArrays, NamedResources
  <1>2. /\ p \subseteq Arrays /\ i \subseteq Arrays /\ b \subseteq Arrays /\ h \subseteq Resources /\ {} \subseteq Resources
        /\ "cctx" \notin {} /\ {} \cup h = h /\ b \ p = i /\ p \cup {"input"} = b
        /\ Site(m, {}, h) /\ Site(m, p, {})
    BY <1>1 DEF Site
  <1>3. /\ Takes(m, Mid({}, {}), Pin("serialized", Throw), Mid(p, {}))
        /\ Quits(m, p, {}, Unpin("serialized") \o Throw)
        /\ Takes(m, Mid({}, h), Free("cctx"), Mid({}, {}))
    BY <1>1, PinnedAlone, HeldAlone, Zenon
  <1>4. Takes(m, Mid(p, {}), Pin("input", Unpin("serialized") \o Throw), Mid(b, {}))
    BY <1>1, <1>2, <1>3, MovesPinned
  <1>5. ASSUME NEW g, g = {} \/ g = h
        PROVE  /\ Takes(m, Mid(b, g), Unpin("serialized"), Mid(i, g))
               /\ Takes(m, Mid(i, g), Unpin("input"), Mid({}, g))
               /\ Quits(m, b, g, failed)
    <2>1. g \subseteq Resources /\ Site(m, {}, g) /\ g \subseteq (IF m \in LeakCctx THEN {"cctx"} ELSE {})
      BY <1>2, <1>5, CleanSite
    <2>2. Takes(m, Mid(b, g), Unpin("serialized"), Mid(i, g))
      BY <1>1, <1>2, <2>1, MovesPinned
    <2>3. Takes(m, Mid(i, g), Unpin("input"), Mid({}, g))
      BY <1>1, <2>1, PinOne
    <2>4. Quits(m, {}, g, Throw)
      BY <2>1, QuitsNow
    <2>5. Takes(m, Mid(b, g), Unpin("serialized") \o Unpin("input"), Mid({}, g))
      BY <2>2, <2>3, TakesBoth, Zenon
    <2>6. Quits(m, b, g, failed)
      BY <2>4, <2>5, EndsAfter, Zenon DEF Quits
    <2> QED BY <2>2, <2>3, <2>6
  <1>6. Takes(m, Mid(b, {}), Get("cctx", failed), Mid(b, h)) /\ Takes(m, Mid(b, h), Free("cctx"), Mid(b, {}))
    <2>0. Quits(m, b, {}, failed)
      BY <1>5
    <2>1. /\ Takes(m, Mid(b, {}), Get("cctx", failed), Mid(b, {} \cup h))
          /\ Takes(m, Mid(b, {} \cup h), Free("cctx"), Mid(b, {}))
      BY <1>1, <1>2, <2>0, GetOne, Zenon
    <2> QED BY <1>2, <2>1
  <1>7. Quits(m, b, {}, failed) /\ Quits(m, b, h, failed)
    BY <1>5
  <1>8. Quits(m, b, h, Free("cctx") \o failed)
    BY <1>6, <1>7, EndsAfter, Zenon DEF Quits
  <1>9. /\ Takes(m, Mid(b, h), Unpin("serialized"), Mid(i, h))
        /\ Takes(m, Mid(i, h), Unpin("input"), Mid({}, h))
    BY <1>5
  <1> HIDE DEF p, i, b, h
  <1>10. Keeps(m, p, {}, Vm)
    BY <1>2, KeepsCalls
  <1>11. Keeps(m, b, {}, Cxx(failed))
    BY <1>2, <1>7, KeepsQuietly
  <1>12. Keeps(m, b, h, Check(Free("cctx") \o failed)) /\ Keeps(m, b, h, Cxx(failed)) /\ Keeps(m, b, h, Engine)
    BY <1>2, <1>7, <1>8, KeepsQuietly
  <1>13. Keeps(m, {}, {}, Require \o Require \o Require \o ReadString(Quiet) \o Vm)
    BY Basics, HelpersKeep, KeepsBoth, Zenon
  <1>14. Keeps(m, {}, {}, NewResultUnchecked) /\ Keeps(m, {}, {}, Report(Throw))
    BY Basics, ResultsKeep
  <1>15. Keeps(m, {}, {}, compressWithSerializedNative)
    BY <1>3, <1>4, <1>6, <1>9, <1>10, <1>11, <1>12, <1>13, <1>14, TakesBoth, Zenon
       DEF compressWithSerializedNative, Keeps
  <1> QED BY <1>15, EndsClean

\* The caller's output array: its contents are kept only past the test of the
\* report.
LEMMA IntoArraysEnd ==
    ASSUME NEW m
    PROVE  Ends(m, Clean, compressIntoNative) /\ Ends(m, Clean, decompressIntoNative)
  <1> DEFINE s == {"src"}
             d == {"dst"}
             b == s \cup d
             Out(p, z) == Bound(p, {}, FALSE, z)
  <1>1. "src" \in Arrays /\ "dst" \in Arrays
    BY NamedArrays
  <1>2. /\ b \ {"src"} = d /\ s \cup {"dst"} = b /\ d \ {"dst"} = {}
        /\ s \subseteq Arrays /\ d \subseteq Arrays /\ b \subseteq Arrays /\ {} \subseteq Resources
    BY <1>1
  <1>3. Keeps(m, {}, {}, Open \o Range("arrayRange", "src", Throw) \o Range("arrayRange", "dst", Throw))
    <2>1. \A a : Keeps(m, {}, {}, Range("arrayRange", a, Throw))
      BY Basics, NamedTests
    <2> QED BY <2>1, Basics, KeepsBoth, Zenon
  <1>4. /\ Takes(m, Mid({}, {}), Pin("src", Throw), Mid(s, {}))
        /\ Quits(m, s, {}, Unpin("src") \o Throw) /\ Quits(m, d, {}, Unpin("dst"))
    BY <1>1, PinnedAlone
  <1>5. Takes(m, Mid(s, {}), Pin("dst", Unpin("src") \o Throw), Mid(b, {}))
    BY <1>1, <1>2, <1>4, MovesPinned
  <1>6. \A p, z : p \subseteq Arrays => Fits(Out(p, z))
    BY DEF Fits, Bound
  <1>7. /\ Takes(m, Out(b, "none"), Engine, Out(b, "called"))
        /\ Takes(m, Out(b, "called"), Unpin("src"), Out(b \ {"src"}, "called"))
        /\ Takes(m, Out(d, "reported"), Commit("dst"), Out(d \ {"dst"}, "committed"))
    BY <1>1, <1>2, <1>6, TakesEngine, TakesUnpin, TakesCommit
  <1>8. Takes(m, Out(d, "called"), Report(Unpin("dst")), Out(d, "reported"))
    <2>1. Ends(m, Out(d, "called"), Unpin("dst"))
      BY <1>4, MidLate, EndsWeaker DEF Quits
    <2>2. Takes(m, Out(d, "called"), Report(Unpin("dst")),
                Out(d, IF "called" = "called" THEN "reported" ELSE "called"))
      BY <1>2, <1>6, <2>1, TakesReport
    <2> QED BY <2>2
  <1>9. Ends(m, Out({}, "committed"), <<>>)
    BY EndsHere
  <1>10. Mid(b, {}) = Out(b, "none")
    BY DEF Mid
  <1>11. /\ Takes(m, Out(b, "called"), Unpin("src"), Out(d, "called"))
         /\ Takes(m, Out(d, "reported"), Commit("dst"), Out({}, "committed"))
    BY <1>2, <1>7
  <1> HIDE DEF s, d, b, Out
  <1>12. Takes(m, Mid({}, {}), compressIntoNative, Out({}, "committed"))
    BY <1>3, <1>4, <1>5, <1>7, <1>8, <1>10, <1>11, TakesBoth, Zenon DEF compressIntoNative, Keeps
  <1>13. compressIntoNative \o <<>> = compressIntoNative
    BY <1>12, Join, Zenon DEF Takes
  <1>14. Ends(m, Mid({}, {}), compressIntoNative)
    <2>1. Ends(m, Mid({}, {}), compressIntoNative \o <<>>)
      BY <1>9, <1>12, EndsAfter
    <2> QED BY <1>13, <2>1
  <1> QED BY <1>14, CleanSite DEF decompressIntoNative

\* copyArray, wherever its caller may make JNI calls.
LEMMA CopyKeeps ==
    ASSUME NEW m, NEW p, NEW h, Site(m, p, h), "copy" \notin p, NEW handler, NEW failed,
           Quits(m, p, h, handler), Quits(m, p, h, Throw \o failed)
    PROVE  Keeps(m, p, h, copyArray(handler, failed))
  <1> DEFINE c == p \cup {"copy"}
  <1>1. /\ "copy" \in Arrays /\ p \subseteq Arrays /\ c \subseteq Arrays /\ h \subseteq Resources
        /\ c \ {"copy"} = p
    BY NamedArrays DEF Site
  <1>2. Takes(m, Mid(p, h), Pin("copy", Throw \o failed), Mid(c, h))
    BY <1>1, MovesPinned
  <1>3. Takes(m, Mid(c, h), Unpin("copy"), Mid(c \ {"copy"}, h))
    BY <1>1, MovesPinned
  <1>4. Keeps(m, p, h, Pin("copy", Throw \o failed) \o Unpin("copy"))
    BY <1>1, <1>2, <1>3, TakesBoth DEF Keeps
  <1>5. Keeps(m, p, h, Vm) /\ Keeps(m, p, h, Cxx(handler))
    BY KeepsCalls, KeepsOr, Zenon
  <1> QED BY <1>4, <1>5, KeepsBoth, Zenon DEF copyArray

\* The conversion, its payload pinned or not; only its result is made in a way
\* that throws twice.
LEMMA ConversionKeeps ==
    ASSUME NEW m, NEW p, Site(m, p, {}), "copy" \notin p, NEW after, QuitsLate(m, p, {}, after)
    PROVE  /\ Keeps(m, p, {}, Serializer(after)) /\ Keeps(m, p, {}, ParseAndSerialise(after))
           /\ m \in ThrowTwice => /\ Keeps(m, p, {}, makeByteArray(after))
                                  /\ Keeps(m, p, {}, convertPayload(after))
  <1>1. Quits(m, p, {}, Throw \o after) /\ (m \in ThrowTwice => QuitsLate(m, p, {}, Throw \o after))
    BY QuitsThrowing, Zenon
  <1>2. Keeps(m, p, {}, copyArray(Throw \o after, after))
    BY <1>1, CopyKeeps
  <1>3. /\ Keeps(m, p, {}, Vm) /\ Keeps(m, p, {}, Lock)
        /\ Keeps(m, p, {}, Cxx(Throw \o after)) /\ Keeps(m, p, {}, Check(Throw \o after))
    BY <1>1, KeepsCalls, KeepsOr, Zenon
  <1>4. Keeps(m, p, {}, Serializer(after))
    BY <1>2, <1>3, KeepsBoth, Zenon DEF Serializer
  <1>5. Keeps(m, p, {}, ParseAndSerialise(after))
    BY <1>3, KeepsBoth, Zenon DEF ParseAndSerialise
  <1>6. ASSUME m \in ThrowTwice
        PROVE  Keeps(m, p, {}, makeByteArray(after)) /\ Keeps(m, p, {}, convertPayload(after))
    <2>1. Keeps(m, p, {}, VmRaises(Throw \o after))
      BY <1>1, <1>6, KeepsOr, Zenon
    <2>2. Keeps(m, p, {}, makeByteArray(after))
      BY <1>3, <2>1, KeepsBoth, Zenon DEF makeByteArray, NewResult
    <2>3. Keeps(m, p, {}, convertPayload(after))
      BY <1>4, <1>5, <2>2, KeepsBoth, Zenon DEF convertPayload
    <2> QED BY <2>2, <2>3
  <1> QED BY <1>4, <1>5, <1>6

\* The helpers of the conversions, with nothing pinned.
LEMMA BuffersKeep ==
    ASSUME NEW m
    PROVE  /\ Keeps(m, {}, {}, Serializer(Quiet)) /\ Keeps(m, {}, {}, ParseAndSerialise(Quiet))
           /\ Keeps(m, {}, {}, copyArray(Throw, Quiet)) /\ Keeps(m, {}, {}, writeDirectBuffer(Quiet))
           /\ m \in ThrowTwice => /\ Keeps(m, {}, {}, makeByteArray(Quiet))
                                  /\ Keeps(m, {}, {}, convertPayload(Quiet))
  <1>1. Quits(m, {}, {}, Throw \o Quiet)
    BY Basics, QuitsThrowing, Zenon
  <1>2. "copy" \notin {}
    OBVIOUS
  <1>3. Keeps(m, {}, {}, copyArray(Throw, Quiet))
    BY <1>1, <1>2, Basics, CopyKeeps, Zenon
  <1>4. Keeps(m, {}, {}, writeDirectBuffer(Quiet))
    <2>1. /\ \A a : Keeps(m, {}, {}, Range("directRange", a, Throw \o Quiet))
          /\ Keeps(m, {}, {}, Check(Throw \o Quiet))
      <3>1. "directRange" \in RangeTests
        BY NamedTests
      <3> QED BY <1>1, <3>1, Basics, KeepsOr, Zenon
    <2> QED BY <2>1, Basics, KeepsBoth, Zenon DEF writeDirectBuffer
  <1> QED BY <1>2, <1>3, <1>4, Basics, ConversionKeeps, Zenon

\* Conversions of protobuf messages.
LEMMA ConversionsEnd ==
    ASSUME NEW m
    PROVE  /\ m \in ThrowTwice /\ m \in NotQuiet =>
                 Ends(m, Clean, convertNative) /\ Ends(m, Clean, convertSliceNative)
           /\ m \in ThrowTwice => Ends(m, Clean, convertDirectNative) /\ Ends(m, Clean, profileNative)
           /\ Ends(m, Clean, convertDirectIntoNative)
  <1> DEFINE p == {"payload"}
  <1>1. "payload" \in Arrays /\ "copy" \notin p /\ p \subseteq Arrays /\ {} \subseteq Resources
    BY NamedArrays
  <1>2. /\ Takes(m, Mid({}, {}), Pin("payload", Throw), Mid(p, {}))
        /\ Takes(m, Mid(p, {}), Unpin("payload"), Mid({}, {}))
    BY <1>1, PinnedAlone
  <1>3. \A a : /\ Keeps(m, {}, {}, Range("sliceRange", a, Throw))
               /\ Keeps(m, {}, {}, Range("directLength", a, Throw))
    BY Basics, NamedTests
  <1>4. ASSUME m \in ThrowTwice, m \in NotQuiet
        PROVE  Keeps(m, {}, {}, convertNative) /\ Keeps(m, {}, {}, convertSliceNative)
    <2>1. Site(m, p, {})
      BY <1>1, <1>4 DEF Site
    <2>2. QuitsLate(m, p, {}, Unpin("payload"))
      <3>1. Takes(m, Late(p, {}), Unpin("payload"), Late({}, {}))
        BY <1>1, PinOne
      <3> QED BY <3>1, QuitsClean, Zenon
    <2> HIDE DEF p
    <2>3. Keeps(m, p, {}, convertPayload(Unpin("payload")))
      BY <1>1, <1>4, <2>1, <2>2, ConversionKeeps, Zenon
    <2>4. Keeps(m, p, {}, Cxx(Throw \o Unpin("payload")))
      BY <2>1, <2>2, QuitsThrowing, KeepsOr, Zenon
    <2>5. Keeps(m, {}, {}, Require \o Protocol \o Protocol \o TypeName \o Vm)
      BY Basics, HelpersKeep, KeepsBoth, Zenon
    <2>6. Keeps(m, {}, {}, Require \o Range("sliceRange", "payload", Throw) \o Protocol \o Protocol \o TypeName)
      BY <1>3, Basics, HelpersKeep, KeepsBoth, Zenon
    <2>7. Keeps(m, {}, {}, convertPayload(Quiet)) /\ Keeps(m, {}, {}, Vm)
      BY <1>4, BuffersKeep, Basics
    <2>8. Keeps(m, {}, {}, convertNative)
      BY <1>2, <2>3, <2>5, TakesBoth, Zenon DEF convertNative, Keeps
    <2>9. Keeps(m, {}, {}, convertSliceNative)
      BY <1>2, <2>4, <2>6, <2>7, TakesBoth, Zenon DEF convertSliceNative, Keeps
    <2> QED BY <2>8, <2>9
  <1>5. Keeps(m, {}, {}, Protocol \o Protocol \o Require \o TypeName)
    BY Basics, HelpersKeep, KeepsBoth, Zenon
  <1>6. ASSUME m \in ThrowTwice
        PROVE  Keeps(m, {}, {}, convertDirectNative) /\ Keeps(m, {}, {}, profileNative)
    <2>1. Keeps(m, {}, {}, makeByteArray(Quiet))
      BY <1>6, BuffersKeep
    <2>2. Keeps(m, {}, {}, convertDirectNative)
      BY <1>3, <2>1, Basics, HelpersKeep, BuffersKeep, KeepsBoth, Zenon DEF convertDirectNative
    <2> QED BY <2>1, <2>2 DEF profileNative
  <1>7. Keeps(m, {}, {}, convertDirectIntoNative)
    BY <1>3, Basics, HelpersKeep, BuffersKeep, KeepsBoth, Zenon DEF convertDirectIntoNative
  <1> QED BY <1>4, <1>6, <1>7, EndsClean, Zenon

\* Schemas, graphs and the training of conversions.
LEMMA SchemasEnd ==
    ASSUME NEW m
    PROVE  /\ m \in MayAbort => Ends(m, Clean, registerSchemaNative)
           /\ Ends(m, Clean, graphJsonNative) /\ Ends(m, Clean, graphJsonFromCompressorNative)
           /\ Ends(m, Clean, graphDetailJsonNative) /\ Ends(m, Clean, configureTrainingNative)
           /\ m \in ThrowTwice => Ends(m, Clean, trainProtobufNative)
  <1>1. ASSUME m \in MayAbort
        PROVE  Keeps(m, {}, {}, registerSchemaNative)
    <2>1. Quits(m, {}, {}, Throw \o Quiet) /\ "copy" \notin {}
      BY Basics, QuitsThrowing, Zenon
    <2>2. Quits(m, {}, {}, Abort)
      BY <1>1, QuitsAborting
    <2>3. Keeps(m, {}, {}, copyArray(Abort, Quiet))
      BY <2>1, <2>2, Basics, CopyKeeps, Zenon
    <2> QED BY <2>3, Basics, KeepsBoth, Zenon DEF registerSchemaNative
  <1>2. Keeps(m, {}, {}, graphJsonNative) /\ Keeps(m, {}, {}, graphDetailJsonNative)
    BY Basics, HelpersKeep, KeepsBoth, Zenon DEF graphJsonNative, graphDetailJsonNative
  <1>3. Keeps(m, {}, {}, graphJsonFromCompressorNative)
    BY Basics, BuffersKeep, KeepsBoth, Zenon DEF graphJsonFromCompressorNative
  <1>4. Keeps(m, {}, {}, configureTrainingNative)
    BY Basics, HelpersKeep, KeepsBoth, Zenon DEF configureTrainingNative
  <1>5. ASSUME m \in ThrowTwice
        PROVE  Keeps(m, {}, {}, trainProtobufNative)
    <2>1. QuitsLate(m, {}, {}, Maybe(Throw))
      <3>1. MayRaise(m, {}, TRUE) /\ Fits(Late({}, {}))
        <4>1. Fits(Bound({}, {}, TRUE, "none"))
          BY Basics, Sites
        <4> QED BY <1>5, <4>1 DEF MayRaise, Late
      <3>2. Takes(m, Late({}, {}), Throw, Late({}, {})) /\ Takes(m, Late({}, {}), <<>>, Late({}, {}))
        BY <3>1, TakesThrow, TakesNothing, Zenon DEF Late
      <3>3. Takes(m, Late({}, {}), Maybe(Throw), Late({}, {}))
        BY <3>1, <3>2, TakesEither, Zenon DEF Maybe
      <3> QED BY <3>3, QuitsClean, Zenon
    <2>2. Keeps(m, {}, {}, copyArray(Throw, Maybe(Throw)))
      <3>1. Quits(m, {}, {}, Throw \o Maybe(Throw)) /\ "copy" \notin {}
        BY <2>1, Basics, QuitsThrowing, Zenon
      <3> QED BY <3>1, Basics, CopyKeeps, Zenon
    <2>3. Keeps(m, {}, {}, Check(Throw))
      BY Basics, Zenon DEF Require
    <2> QED BY <2>2, <2>3, Basics, HelpersKeep, KeepsBoth, Zenon DEF trainProtobufNative
  <1> QED BY <1>1, <1>2, <1>3, <1>4, <1>5, EndsClean, Zenon

\* The direct buffers of a structured message are given back on every path.
LEMMA StructuredCompressKeeps ==
    ASSUME NEW m, m \in MayAbort
    PROVE  Keeps(m, {}, {}, structuredCompress)
  <1> DEFINE h == {"buffers"}
             failed == Free("buffers") \o Throw
             refused == Either(Throw, Quiet) \o Free("buffers")
             Read == Vm \o Check(refused)
  <1>1. "buffers" \in Resources /\ "copy" \notin {} /\ {} \subseteq Arrays /\ h \subseteq Resources
    BY NamedResources
  <1>2. /\ Takes(m, Mid({}, {}), Get("buffers", Quiet), Mid({}, h))
        /\ Takes(m, Mid({}, h), Free("buffers"), Mid({}, {}))
        /\ Site(m, {}, h) /\ Quits(m, {}, h, failed) /\ Quits(m, {}, h, Throw \o Free("buffers"))
        /\ QuitsLate(m, {}, h, Free("buffers"))
    BY <1>1, Basics, HeldAlone, Zenon
  <1>3. Quits(m, {}, h, refused)
    <2>1. Fits(Mid({}, h)) /\ Takes(m, Mid({}, h), Throw, Late({}, h))
      BY <1>2, Sites, TakesThrow, Zenon DEF Mid, Late
    <2>2. Takes(m, Mid({}, h), Quiet, Late({}, h))
      <3>1. Takes(m, Mid({}, h), Quiet, Mid({}, h))
        BY TakesNothing, Zenon DEF Quiet
      <3>2. Tighter(Mid({}, h), Mid({}, h)) /\ Tighter(Mid({}, h), Late({}, h))
        BY MidLate, TighterOrder, Zenon
      <3> QED BY <3>1, <3>2, TakesWeaker, Zenon
    <2>3. Takes(m, Mid({}, h), Either(Throw, Quiet), Late({}, h))
      BY <2>1, <2>2, TakesEither, Zenon
    <2> QED BY <1>2, <2>3, EndsAfter, Zenon DEF Quits, QuitsLate
  <1>4. Keeps(m, {}, h, Cxx(Abort))
    BY <1>1, KeepsQuietly
  <1>5. Keeps(m, {}, h, copyArray(failed, Free("buffers")))
    BY <1>1, <1>2, CopyKeeps, Zenon
  <1> HIDE DEF h
  <1>6. Keeps(m, {}, h, Vm) /\ Keeps(m, {}, h, Lock) /\ Keeps(m, {}, h, Cxx(failed))
    BY <1>2, KeepsCalls, KeepsOr, Zenon
  <1>7. Keeps(m, {}, h, Read)
    BY <1>2, <1>3, <1>6, KeepsOr, KeepsBoth, Zenon
  <1>8. Takes(m, Mid({}, {}), pinStructuredBuffers, Mid({}, h))
    <2> HIDE DEF Read
    <2> DEFINE fields == Read \o Cxx(Abort) \o Loop(Vm \o Read \o Read)
    <2>1. Keeps(m, {}, h, Maybe(fields))
      <3>1. Keeps(m, {}, h, fields)
        BY <1>2, <1>4, <1>6, <1>7, KeepsBoth, Zenon
      <3> HIDE DEF fields
      <3> QED BY <1>2, <3>1, KeepsBoth, Zenon
    <2>2. Keeps(m, {}, {}, Lock \o VmRaises(Quiet))
      BY Basics, KeepsBoth, Zenon
    <2>3. pinStructuredBuffers = Lock \o VmRaises(Quiet) \o Get("buffers", Quiet)
                                    \o Read \o Read \o Read \o Vm \o Maybe(fields)
      BY Zenon DEF pinStructuredBuffers, Read
    <2> HIDE DEF fields
    <2> QED BY <1>2, <1>6, <1>7, <2>1, <2>2, <2>3, TakesBoth, Zenon DEF Keeps
  <1> DEFINE copy == Maybe(copyArray(failed, Free("buffers")) \o Vm)
  <1>9. Keeps(m, {}, h, copy)
    BY <1>2, <1>5, <1>6, KeepsBoth, Zenon
  <1>10. structuredCompress = pinStructuredBuffers \o Cxx(failed)
                                \o copy \o Lock \o Cxx(failed) \o Free("buffers")
    BY Zenon DEF structuredCompress
  <1> HIDE DEF failed, Read, copy
  <1>11. Takes(m, Mid({}, {}), pinStructuredBuffers \o Cxx(failed) \o copy, Mid({}, h))
    BY <1>6, <1>8, <1>9, TakesBoth, Zenon DEF Keeps
  <1>12. Takes(m, Mid({}, {}), pinStructuredBuffers \o Cxx(failed) \o copy \o Lock \o Cxx(failed), Mid({}, h))
    BY <1>6, <1>11, TakesBoth, Zenon DEF Keeps
  <1> QED BY <1>2, <1>10, <1>12, TakesBoth, Zenon DEF Keeps

\* Structured messages.
LEMMA StructuredEnd ==
    ASSUME NEW m
    PROVE  /\ m \in MayAbort => Ends(m, Clean, compressStructuredIntoNative)
           /\ m \in MayAbort /\ m \in ThrowTwice => Ends(m, Clean, compressStructuredNative)
           /\ m \in ThrowTwice => /\ Ends(m, Clean, decompressStructuredNative)
                                  /\ Ends(m, Clean, compressStructuredSampleNative)
                                  /\ Ends(m, Clean, trainStructuredNative)
  <1>1. ASSUME m \in MayAbort
        PROVE  Keeps(m, {}, {}, compressStructuredIntoNative)
    <2>1. Keeps(m, {}, {}, structuredCompress)
      BY <1>1, StructuredCompressKeeps
    <2> QED BY <2>1, Basics, HelpersKeep, BuffersKeep, KeepsBoth, Zenon DEF compressStructuredIntoNative
  <1>2. ASSUME m \in MayAbort, m \in ThrowTwice
        PROVE  Keeps(m, {}, {}, compressStructuredNative)
    <2>1. Keeps(m, {}, {}, structuredCompress) /\ Keeps(m, {}, {}, makeByteArray(Quiet))
      BY <1>2, StructuredCompressKeeps, BuffersKeep
    <2> QED BY <2>1, Basics, HelpersKeep, KeepsBoth, Zenon DEF compressStructuredNative
  <1>3. ASSUME m \in ThrowTwice
        PROVE  /\ Keeps(m, {}, {}, decompressStructuredNative)
               /\ Keeps(m, {}, {}, compressStructuredSampleNative)
               /\ Keeps(m, {}, {}, trainStructuredNative)
    <2>1. Keeps(m, {}, {}, copyArray(Throw, Quiet)) /\ Keeps(m, {}, {}, makeByteArray(Quiet))
      BY <1>3, BuffersKeep
    <2>2. Keeps(m, {}, {}, copyArray(Throw, Throw))
      <3>1. Quits(m, {}, {}, Throw \o Throw) /\ "copy" \notin {}
        BY <1>3, Basics, QuitsNow, QuitsThrowing
      <3> QED BY <3>1, Basics, CopyKeeps, Zenon
    <2>3. Keeps(m, {}, {}, decompressStructuredNative)
      BY <2>1, Basics, HelpersKeep, KeepsBoth, Zenon DEF decompressStructuredNative
    <2>4. Keeps(m, {}, {}, Maybe(copyArray(Throw, Quiet) \o Vm))
      BY <2>1, Basics, KeepsBoth, Zenon
    <2>5. Keeps(m, {}, {}, compressStructuredSampleNative)
      BY <2>1, <2>4, Basics, HelpersKeep, KeepsBoth, Zenon DEF compressStructuredSampleNative
    <2>6. Keeps(m, {}, {}, Loop(Vm \o Require \o copyArray(Throw, Throw) \o Cxx(Throw)))
      BY <2>2, Basics, KeepsBoth, Zenon
    <2>7. Keeps(m, {}, {}, trainStructuredNative)
      BY <2>6, Basics, HelpersKeep, KeepsBoth, Zenon DEF trainStructuredNative
    <2> QED BY <2>3, <2>5, <2>7
  <1> QED BY <1>1, <1>2, <1>3, EndsClean, Zenon

\* From nothing pinned, held, pending or reported, every method ends within its
\* rules.
LEMMA EveryMethodEnds == \A m \in Methods : Ends(m, Clean, Program[m])
  <1> DEFINE Safe(m) == Ends(m, Clean, Program[m])
  <1>1. Safe("compressIntoNative") /\ Safe("decompressIntoNative")
    BY IntoArraysEnd DEF Program
  <1>2. Safe("compress") /\ Safe("decompress") /\ Safe("getDecompressedSizeNative")
    BY NewArraysEnd DEF Program, UseUnallocated, MayAbort
  <1>3. Safe("compressDirect") /\ Safe("decompressDirect") /\ Safe("getDecompressedSizeDirect")
    BY DirectBuffersEnd DEF Program
  <1>4. /\ Safe("compressElementsNative") /\ Safe("decompressIntsNative") /\ Safe("decompressLongsNative")
        /\ Safe("decompressFloatsNative") /\ Safe("decompressDoublesNative")
    BY NumbersEnd DEF Program, MayAbort
  <1>5. Safe("describeFrameNative") /\ Safe("describeFrameDirectNative")
    BY FramesEnd DEF Program, NotQuiet
  <1>6. /\ Safe("setParameter") /\ Safe("serialize") /\ Safe("resetNative") /\ Safe("maxCompressedSizeNative")
        /\ Safe("setDataArenaNative") /\ Safe("listProfilesNative")
    BY SettingsEnd DEF Program, MayAbort
  <1>7. Safe("configureProfileNative") /\ Safe("configureSddlNative") /\ Safe("compileNative")
    BY ProfilesEnd DEF Program, MayAbort, ThrowTwice
  <1>8. Safe("trainFromDirectoryNative") /\ Safe("trainNative")
    BY TrainingEnds DEF Program, MayAbort, ThrowTwice
  <1>9. Safe("compressWithProfileNative")
    BY WithProfileEnds DEF Program, LeakCctx, UseUnallocated
  <1>10. Safe("compressWithSerializedNative")
    BY WithSerializedEnds DEF Program, LeakCctx, UseUnallocated, NotQuiet
  <1>11. /\ Safe("convertNative") /\ Safe("convertSliceNative") /\ Safe("convertDirectNative")
         /\ Safe("convertDirectIntoNative") /\ Safe("profileNative")
    BY ConversionsEnd DEF Program, ThrowTwice, NotQuiet
  <1>12. /\ Safe("registerSchemaNative") /\ Safe("graphJsonNative") /\ Safe("graphJsonFromCompressorNative")
         /\ Safe("graphDetailJsonNative") /\ Safe("configureTrainingNative") /\ Safe("trainProtobufNative")
    BY SchemasEnd DEF Program, MayAbort, ThrowTwice
  <1>13. /\ Safe("compressStructuredNative") /\ Safe("compressStructuredIntoNative")
         /\ Safe("decompressStructuredNative") /\ Safe("compressStructuredSampleNative")
         /\ Safe("trainStructuredNative")
    BY StructuredEnd DEF Program, MayAbort, ThrowTwice
  <1> HIDE DEF Safe
  <1>14. \A m \in Methods : Safe(m)
    BY <1>1, <1>2, <1>3, <1>4, <1>5, <1>6, <1>7, <1>8, <1>9, <1>10, <1>11, <1>12, <1>13 DEF Methods, Program
  <1> QED BY <1>14 DEF Safe

-----------------------------------------------------------------------------
(* Every step of the calls keeps the invariant.                              *)

\* The first step of a method.
LEMMA StartKeeps ==
    ASSUME IInv, NEW m \in Methods, Start(m)
    PROVE  Running'
  <1>1. Ends(m, Clean, Program[m])
    BY EveryMethodEnds
  <1>2. SafeTo(m, Program[m], Clean, {})
    BY <1>1 DEF Ends
  <1>3. method' = m /\ todo' = Program[m]
    BY DEF Start
  <1>4. Within(Clean)'
    <2>1. /\ pinned = {} /\ held = {} /\ committed = {} /\ pending = FALSE
          /\ UNCHANGED <<pinned, held, committed, report, pending>>
      BY DEF Start, IInv, Idle
    <2>2. Clean.output = "none"
      BY DEF Clean, Bound
    <2> QED BY <2>1, <2>2 DEF Within
  <1>5. SafeTo(method', todo', Clean, {})
    BY <1>2, <1>3
  <1> QED BY <1>4, <1>5 DEF Running

\* Every step leaves the method a bound.
LEMMA StepRunning ==
    ASSUME IInv, [Next]_vars
    PROVE  Running'
  <1>1. CASE UNCHANGED vars
    BY <1>1 DEF vars, IInv, Running, Within
  <1>2. ASSUME NEW m \in Methods, Start(m)
        PROVE  Running'
    BY <1>2, StartKeeps
  <1>3. CASE Return
    BY <1>3 DEF Return, Running
  <1>4. CASE Terminate
    BY <1>4 DEF Terminate, IInv, Running, Within
  <1>5. CASE \/ Test \/ Plain \/ CxxCall \/ Branch \/ Again \/ \E test \in RangeTests : TestRange(test)
             \/ Raise \/ CallThatRaises \/ CallEngine \/ TestReport
             \/ PinArray \/ ReleaseArray \/ Obtain \/ Release
    <2>1. todo # <<>>
      BY <1>5 DEF Test, Plain, CxxCall, Branch, Again, TestRange, Raise, CallThatRaises, CallEngine,
                  TestReport, PinArray, ReleaseArray, Obtain, Release, At
    <2>2. method # "none"
      BY <2>1 DEF IInv, Idle
    <2>3. PICK l : Stands(l)
      BY <2>2, SomeBound DEF IInv
    <2>4. CASE Test \/ Plain \/ CxxCall \/ Branch \/ Again \/ \E test \in RangeTests : TestRange(test)
      BY <2>3, <2>4, PlainKeeps
    <2>5. CASE Raise \/ CallThatRaises
      BY <2>3, <2>5, RaisingKeeps
    <2>6. CASE CallEngine
      BY <2>3, <2>6, EngineKeeps
    <2>7. CASE TestReport
      BY <2>3, <2>7, ReportKeeps DEF IInv
    <2>8. CASE PinArray
      BY <2>3, <2>8, PinKeeps
    <2>9. CASE ReleaseArray
      BY <2>3, <2>9, ReleaseArrayKeeps
    <2>10. CASE Obtain \/ Release
      BY <2>3, <2>10, ResourceKeeps
    <2> QED BY <1>5, <2>4, <2>5, <2>6, <2>7, <2>8, <2>9, <2>10
  <1> QED BY <1>1, <1>2, <1>3, <1>4, <1>5 DEF Next

\* An accepted range is made of sizes, whatever the caller passed.
LEMMA StepWindows ==
    ASSUME windows \subseteq Window, [Next]_vars
    PROVE  windows' \subseteq Window'
  <1>1. CASE windows' = windows
    BY <1>1 DEF Window
  <1>2. CASE Return
    BY <1>2 DEF Return
  <1>3. ASSUME NEW test \in RangeTests, TestRange(test), windows' # windows
        PROVE  windows' \subseteq Window'
    <2>1. PICK size \in Size, offset \in JInt, length \in JInt :
            /\ Accepts(test, size, offset, length)
            /\ windows' = windows \cup
                 {[test |-> test, size |-> size, offset |-> offset, length |-> length]}
      BY <1>3 DEF TestRange
    <2>2. offset \in Size /\ length \in Size
      BY <2>1, MaxIntAssumption
         DEF Accepts, CheckArrayRange, EnsureDirectRange, CheckDirectLength, CheckSlice, Size, JInt
    <2>3. [test |-> test, size |-> size, offset |-> offset, length |-> length] \in Window
      BY <2>2 DEF Window
    <2> QED BY <2>1, <2>3 DEF Window
  <1> QED BY <1>1, <1>2, <1>3
          DEF Next, vars, Start, Test, Plain, CxxCall, Branch, Again, Raise, CallThatRaises, Terminate,
              CallEngine, TestReport, PinArray, ReleaseArray, Obtain, Release

\* Only arrays are committed.
LEMMA StepCommitted ==
    ASSUME IInv, [Next]_vars
    PROVE  committed' \subseteq Arrays
  <1>1. CASE ReleaseArray
    <2>1. todo # <<>>
      BY <1>1 DEF ReleaseArray, At
    <2>2. method # "none"
      BY <2>1 DEF IInv, Idle
    <2>3. PICK l : Stands(l)
      BY <2>2, SomeBound DEF IInv
    <2>4. Arg \in Arrays
      BY <1>1, <2>3, ReleaseArrayKeeps
    <2> QED BY <1>1, <2>4 DEF ReleaseArray, IInv
  <1>2. CASE Return
    BY <1>2 DEF Return
  <1>3. CASE committed' = committed
    BY <1>3 DEF IInv
  <1> QED BY <1>1, <1>2, <1>3
          DEF Next, vars, Start, Test, Plain, CxxCall, Branch, Again, Raise, CallThatRaises, Terminate,
              CallEngine, TestReport, PinArray, Obtain, Release, TestRange

\* A C++ exception leaves only a method that may.
LEMMA StepAborted ==
    ASSUME IInv, [Next]_vars
    PROVE  EscapesOnlyWhere'
  <1>1. CASE Terminate
    <2>1. todo # <<>> /\ Head(todo).op = "abort" /\ method' = method
      BY <1>1 DEF Terminate, At
    <2>2. method # "none"
      BY <2>1 DEF IInv, Idle
    <2>3. PICK l : Stands(l)
      BY <2>2, SomeBound DEF IInv
    <2>4. method \in MayAbort
      BY <2>1, <2>3 DEF Stands, Obeys, Owes
    <2> QED BY <2>1, <2>4 DEF EscapesOnlyWhere
  <1>2. CASE Return
    BY <1>2 DEF Return, EscapesOnlyWhere
  <1>3. ASSUME NEW m \in Methods, Start(m)
        PROVE  EscapesOnlyWhere'
    BY <1>3 DEF Start, IInv, Idle, EscapesOnlyWhere
  <1>4. CASE method' = method /\ aborted' = aborted
    BY <1>4 DEF IInv, EscapesOnlyWhere
  <1> QED BY <1>1, <1>2, <1>3, <1>4
          DEF Next, vars, Test, Plain, CxxCall, Branch, Again, Raise, CallThatRaises, Continue, Otherwise,
              CallEngine, TestReport, PinArray, ReleaseArray, Obtain, Release, TestRange

\* The other variables.
LEMMA StepRest ==
    ASSUME IInv, [Next]_vars
    PROVE  /\ method' \in Methods \cup {"none"} /\ Idle'
           /\ report' \in {"none", "ok", "error"} /\ pending' \in BOOLEAN /\ aborted' \in BOOLEAN
  <1>1. CASE UNCHANGED vars
    BY <1>1 DEF vars, IInv, Idle
  <1>2. ASSUME NEW m \in Methods, Start(m)
        PROVE  /\ method' \in Methods \cup {"none"} /\ Idle'
               /\ report' \in {"none", "ok", "error"} /\ pending' \in BOOLEAN /\ aborted' \in BOOLEAN
    <2>1. m # "none"
      BY DEF Methods, Program
    <2> QED BY <1>2, <2>1 DEF Start, IInv, Idle
  <1>3. CASE Return
    BY <1>3 DEF Return, Returning, IInv, Idle
  <1>4. CASE Terminate
    BY <1>4 DEF Terminate, At, IInv, Idle
  <1>5. CASE \/ Test \/ Plain \/ CxxCall \/ Branch \/ Again \/ \E test \in RangeTests : TestRange(test)
             \/ Raise \/ CallThatRaises \/ CallEngine \/ TestReport
             \/ PinArray \/ ReleaseArray \/ Obtain \/ Release
    <2>1. todo # <<>> /\ method' = method /\ aborted' = aborted
      BY <1>5 DEF Test, Plain, CxxCall, Branch, Again, TestRange, Raise, CallThatRaises, CallEngine,
                  TestReport, PinArray, ReleaseArray, Obtain, Release, At, Continue, Otherwise
    <2>2. method # "none"
      BY <2>1 DEF IInv, Idle
    <2>3. report' = report \/ report' \in {"ok", "error"}
      BY <1>5 DEF Test, Plain, CxxCall, Branch, Again, TestRange, Raise, CallThatRaises, CallEngine,
                  TestReport, PinArray, ReleaseArray, Obtain, Release
    <2>4. pending' = pending \/ pending' = TRUE
      BY <1>5 DEF Test, Plain, CxxCall, Branch, Again, TestRange, Raise, CallThatRaises, CallEngine,
                  TestReport, PinArray, ReleaseArray, Obtain, Release
    <2> QED BY <2>1, <2>2, <2>3, <2>4 DEF IInv, Idle
  <1> QED BY <1>1, <1>2, <1>3, <1>4, <1>5 DEF Next

\* The invariant is inductive.
LEMMA InitIInv == Init => IInv
  BY DEF Init, IInv, Idle, Running, EscapesOnlyWhere

LEMMA StepIInv == IInv /\ [Next]_vars => IInv'
  <1> SUFFICES ASSUME IInv, [Next]_vars PROVE IInv'
    OBVIOUS
  <1>1. windows \subseteq Window
    BY DEF IInv
  <1> QED BY <1>1, StepRunning, StepWindows, StepCommitted, StepAborted, StepRest DEF IInv, Arrays, Methods, Program

LEMMA Invariance == Spec => []IInv
  BY InitIInv, StepIInv, PTL DEF Spec

-----------------------------------------------------------------------------
(* What follows from it.                                                    *)

\* A method that runs is within a bound that obeys the rules.
LEMMA NowBound ==
    ASSUME IInv
    PROVE  (method = "none" /\ Idle) \/ \E l : Obeys(method, todo, l) /\ Within(l)
  BY SomeBound DEF IInv, Stands

\* The variables of a call have their types, whatever the method does.
THEOREM Typing == Spec => []TypeOK
  <1>1. IInv => TypeOK
    <2> SUFFICES ASSUME IInv PROVE TypeOK
      OBVIOUS
    <2>1. pinned \subseteq Arrays /\ held \subseteq Resources
      <3>1. CASE method = "none" /\ Idle
        BY <3>1 DEF Idle
      <3>2. ASSUME NEW l, Obeys(method, todo, l), Within(l)
            PROVE  pinned \subseteq Arrays /\ held \subseteq Resources
        BY <3>2 DEF Obeys, Fits, Within
      <3> QED BY <3>1, <3>2, NowBound
    <2>2. \A w \in windows : w.test \in RangeTests /\ {w.size, w.offset, w.length} \subseteq Size
      BY DEF IInv, Window
    <2> QED BY <2>1, <2>2 DEF TypeOK, IInv
  <1> QED BY <1>1, Invariance, PTL

\* A native method returns, on every path, with every array released and every
\* resource freed, but for the ZL_CCtx two of them forget.
THEOREM ReturnsEverything == Spec => []NothingLeftBehind
  <1>1. IInv => NothingLeftBehind
    <2> SUFFICES ASSUME IInv, Returning PROVE NothingLeftBehind
      BY DEF NothingLeftBehind
    <2>1. PICK l : Obeys(method, todo, l) /\ Within(l)
      BY NowBound DEF Returning
    <2>2. /\ pinned \subseteq l.pinned /\ held \subseteq l.held /\ l.pinned = {}
          /\ l.held \subseteq (IF method \in LeakCctx THEN {"cctx"} ELSE {})
      BY <2>1 DEF Returning, Obeys, Within
    <2> QED BY <2>2 DEF NothingLeftBehind
  <1> QED BY <1>1, Invariance, PTL

\* Java sees the output array change only if the engine reported success.
THEOREM CommitsOnlySuccess == Spec => []OutputOnlyOnSuccess
  <1>1. IInv => OutputOnlyOnSuccess
    <2> SUFFICES ASSUME IInv, committed # {} PROVE report = "ok"
      BY DEF OutputOnlyOnSuccess
    <2>1. PICK l : Within(l)
      BY NowBound DEF Idle
    <2> QED BY <2>1 DEF Within
  <1> QED BY <1>1, Invariance, PTL

\* Between GetPrimitiveArrayCritical and its release no JNI call is made and no
\* lock is taken, but by the four methods named.
THEOREM CriticalStaysQuiet == Spec => []QuietInCritical
  <1>1. IInv => QuietInCritical
    <2> SUFFICES ASSUME IInv, pinned # {}, NeedsVm \/ At("lock") PROVE method \in NotQuiet
      BY DEF QuietInCritical
    <2>1. PICK l : Obeys(method, todo, l) /\ Within(l)
      BY NowBound DEF Idle
    <2>2. todo # <<>> /\ Head(todo).op \in {"vm", "raises", "throw", "lock"}
      BY DEF NeedsVm, At
    <2>3. l.pinned # {}
      BY <2>1 DEF Within
    <2> QED BY <2>1, <2>2, <2>3 DEF Obeys, Owes
  <1> QED BY <1>1, Invariance, PTL

\* While an exception is pending no JNI call is made and none is thrown, but by
\* the methods named.
THEOREM PendingStopsCalls == Spec => []NoCallWhilePending
  <1>1. IInv => NoCallWhilePending
    <2> SUFFICES ASSUME IInv, pending PROVE NoCallWhilePending
      BY DEF NoCallWhilePending
    <2>1. PICK l : Obeys(method, todo, l) /\ Within(l)
      BY NowBound DEF Idle
    <2>2. l.pending # FALSE
      BY <2>1 DEF Within
    <2>3. ASSUME todo # <<>>
          PROVE  /\ Head(todo).op \in {"vm", "raises", "pin"} => method \in UseUnallocated
                 /\ Head(todo).op = "throw" => method \in ThrowTwice
      BY <2>1, <2>2, <2>3 DEF Obeys, Owes
    <2> QED BY <2>3 DEF NoCallWhilePending, At
  <1> QED BY <1>1, Invariance, PTL

\* A C++ exception leaves only the methods named.
THEOREM EscapesNowhereElse == Spec => []EscapesOnlyWhere
  <1>1. IInv => EscapesOnlyWhere
    BY DEF IInv
  <1> QED BY <1>1, Invariance, PTL

=============================================================================
