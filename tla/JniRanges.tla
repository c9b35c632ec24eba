----------------------------- MODULE JniRanges -----------------------------
(***************************************************************************)
(* The tests that decide whether an offset and a length lie inside a Java  *)
(* array or a direct buffer, with the width of their arithmetic, and the   *)
(* number a native method returns when the caller's buffer is too small.   *)
(***************************************************************************)
EXTENDS Integers

CONSTANT MaxInt   \* Integer.MAX_VALUE

ASSUME MaxIntAssumption == MaxInt \in Nat \ {0}

JInt == -(MaxInt + 1) .. MaxInt      \* the values of a jint
Size == 0 .. MaxInt                  \* what GetArrayLength and capacity() return

\* The sum of two jints, computed in a jint.
Wrap(x) == IF x > MaxInt THEN x - 2 * (MaxInt + 1)
           ELSE IF x < -(MaxInt + 1) THEN x + 2 * (MaxInt + 1) ELSE x

\* What every test below is meant to decide.
Inside(size, offset, length) == offset >= 0 /\ length >= 0 /\ offset + length <= size

\* Faults: the sum instead of the difference; no test of the signs.
CheckArrayRangeBySum(size, offset, length) ==
    offset >= 0 /\ length >= 0 /\ Wrap(offset + length) <= size
CheckArrayRangeUnsigned(size, offset, length) ==
    offset <= size /\ length <= Wrap(size - offset)

CheckArrayRange(size, offset, length) ==
    /\ offset >= 0 /\ length >= 0
    /\ offset <= size /\ length <= Wrap(size - offset)

\* The end is computed in a jlong, where two jints cannot overflow.
EnsureDirectRange(capacity, position, length) ==
    /\ position >= 0 /\ length >= 0
    /\ position + length <= capacity

\* convert(ByteBuffer, ...) and convertInto: the native side trusts this test.
CheckDirectLength(capacity, length) == length >= 0 /\ length <= capacity

\* convert(byte[], offset, length, ...) in Java, then convertSliceNative.
CheckSliceInJava(size, offset, length) ==
    offset >= 0 /\ length >= 0 /\ Wrap(offset + length) <= size
CheckSlice(size, offset, length) ==
    offset >= 0 /\ length >= 0 /\ offset <= size /\ Wrap(offset + length) <= size

EncodeRequiredLength(required) ==
    IF required > MaxInt - 1 THEN -(MaxInt + 1) ELSE -required - 1

=============================================================================
