----------------------------- MODULE BufferPool -----------------------------
(***************************************************************************)
(* OpenZLBufferManager: direct buffers kept for reuse, in each thread a    *)
(* list of buckets by capacity.  A bucket is a queue; a buffer too large   *)
(* for its bucket's predecessor and not too large for its bucket goes to   *)
(* it, whatever is larger to the last one.  Capacities are jints and the   *)
(* arithmetic keeps their width, but for roundedCapacity, which computes   *)
(* in a long.                                                              *)
(*                                                                         *)
(* The application releases a buffer it holds once and does not touch it   *)
(* afterwards; it may release it in another thread, drop it, or release a  *)
(* direct buffer that came from elsewhere.                                 *)
(***************************************************************************)
EXTENDS JniRanges, SequencesExt

CONSTANTS
    Threads, Buffers,
    Minimums, Alignments,     \* what the builder may be given
    Requests,                 \* capacities asked for
    BucketLimit               \* the number of buckets a thread has at most

ASSUME PoolAssumption ==
    /\ Minimums \subseteq JInt /\ Alignments \subseteq JInt /\ Requests \subseteq JInt
    /\ BucketLimit \in Nat \ {0}

VARIABLES
    manager,      \* its minimum capacity and alignment
    buckets,      \* PoolState.buckets of each thread; one not yet made is empty
    capacity,     \* of each buffer, 0 for one that is not allocated
    held,         \* buffers the application has
    ours          \* buffers this manager allocated

vars == <<manager, buckets, capacity, held, ours>>

(***************************************************************************)
(* The arithmetic of a manager m.                                          *)
(***************************************************************************)
Managers == [minimum   : {Max({1, n}) : n \in Minimums},
             alignment : {Max({1, n}) : n \in Alignments}]

\* Fault: the sum in an int.
RoundedInInt(m, requested) ==
    LET sum == Wrap(requested + m.alignment - 1)
    IN  IF sum < 0 THEN -(((-sum) \div m.alignment) * m.alignment)
        ELSE (sum \div m.alignment) * m.alignment

\* roundedCapacity, which throws when the result is no int.
Rounded(m, requested) == ((requested + m.alignment - 1) \div m.alignment) * m.alignment
Representable(m, requested) == Rounded(m, requested) <= MaxInt

\* The largest capacity meant for a bucket; "base << 1" drops the bit it shifts out.
Bases(m) ==
    LET base[i \in 0..BucketLimit] ==
            IF i = 0 THEN Rounded(m, m.minimum)
            ELSE Min({MaxInt, Wrap(base[i - 1] + base[i - 1])})
    IN  base
Base(m, i) == Bases(m)[i]

BucketCount(m) ==
    Min({ n \in 1..BucketLimit :
            n = BucketLimit \/ Base(m, n - 1) >= MaxInt \div 2 \/ Base(m, n) <= 0 })

\* bucketIndex
BucketIndex(m, size) ==
    Min({ i \in 0..(BucketCount(m) - 1) :
            Base(m, i) >= Rounded(m, size) \/ i + 1 = BucketCount(m) })

Indices == 0..(BucketCount(manager) - 1)

Init ==
    /\ manager \in Managers
    /\ buckets = [t \in Threads |-> [i \in 0..(BucketLimit - 1) |-> <<>>]]
    /\ capacity = [b \in Buffers |-> 0]
    /\ held = {} /\ ours = {}

(***************************************************************************)
(* borrow: the first buffer of the bucket that is large enough, else the   *)
(* first of the next bucket that has any, else a new one.                  *)
(***************************************************************************)
\* Faults: the bucket's own buffers are not measured; larger buckets are not
\* searched; the buffer found stays where it was.
PollUnmeasured(t, size) ==
    LET some == { j \in Indices : BucketIndex(manager, size) <= j /\ buckets[t][j] # <<>> }
    IN  IF some = {} THEN {} ELSE {<<Min(some), 1>>}
PollOwnBucket(t, size) ==
    LET own    == BucketIndex(manager, size)
        enough == { k \in DOMAIN buckets[t][own] : capacity[buckets[t][own][k]] >= size }
    IN  IF enough = {} THEN {} ELSE {<<own, Min(enough)>>}
TakeKeeping(t, place) ==
    /\ held' = held \cup {buckets[t][place[1]][place[2]]}
    /\ UNCHANGED <<buckets, capacity, ours>>

\* pollFromBucket: the bucket and the position of what it returns, if anything.
Poll(t, size) ==
    LET own    == BucketIndex(manager, size)
        enough == { k \in DOMAIN buckets[t][own] : capacity[buckets[t][own][k]] >= size }
        larger == { j \in Indices : own < j /\ buckets[t][j] # <<>> }
    IN  IF enough # {} THEN {<<own, Min(enough)>>}
        ELSE IF larger # {} THEN {<<Min(larger), 1>>} ELSE {}

Take(t, place) ==
    /\ held' = held \cup {buckets[t][place[1]][place[2]]}
    /\ buckets' = [buckets EXCEPT ![t][place[1]] = RemoveAt(@, place[2])]
    /\ UNCHANGED <<capacity, ours>>

allocateDirect(size) ==
    /\ \E b \in Buffers :
         /\ capacity[b] = 0
         /\ capacity' = [capacity EXCEPT ![b] = size]
         /\ held' = held \cup {b} /\ ours' = ours \cup {b}
    /\ UNCHANGED buckets

Required(minCapacity) == Max({minCapacity, manager.minimum})

acquire(t, minCapacity) ==
    LET size == Rounded(manager, Required(minCapacity))
    IN  /\ Representable(manager, Required(minCapacity))
        /\ \/ \E place \in Poll(t, size) : Take(t, place)
           \/ Poll(t, size) = {} /\ allocateDirect(size)
        /\ UNCHANGED manager

(***************************************************************************)
(* release, of a buffer of the application's.                              *)
(***************************************************************************)
Pool(t, b, size) ==
    /\ Representable(manager, manager.minimum) /\ Representable(manager, size)
    /\ buckets' = [buckets EXCEPT ![t][BucketIndex(manager, size)] = Append(@, b)]
    /\ UNCHANGED manager

release(t, b) ==
    /\ b \in held
    /\ Pool(t, b, capacity[b])
    /\ held' = held \ {b}
    /\ UNCHANGED <<capacity, ours>>

releaseForeign(t, b, size) ==
    /\ capacity[b] = 0
    /\ Pool(t, b, size)
    /\ capacity' = [capacity EXCEPT ![b] = size]
    /\ UNCHANGED <<held, ours>>

Pooled(t) == UNION { Range(buckets[t][i]) : i \in DOMAIN buckets[t] }

\* What nothing refers to is collected, and its address used again.
Collect(set) ==
    /\ capacity' = [b \in Buffers |-> IF b \in set THEN 0 ELSE capacity[b]]
    /\ ours' = ours \ set

\* The application forgets a buffer, as do compress and decompress with a
\* manager when the native call fails after acquire.
Drop(b) ==
    /\ b \in held
    /\ held' = held \ {b} /\ Collect({b})
    /\ UNCHANGED <<manager, buckets>>

\* close empties the pool of the thread that calls it.
close(t) ==
    /\ buckets' = [buckets EXCEPT ![t] = [i \in DOMAIN @ |-> <<>>]]
    /\ Collect(Pooled(t))
    /\ UNCHANGED <<manager, held>>

Next == \E t \in Threads :
    \/ \E n \in Requests : acquire(t, n)
    \/ \E b \in Buffers : release(t, b)
    \/ \E b \in Buffers, size \in 1..MaxInt : releaseForeign(t, b, size)
    \/ \E b \in Buffers : Drop(b)
    \/ close(t)

Spec == Init /\ [][Next]_vars

-----------------------------------------------------------------------------
(* Buffers have capacities that are jints, and what is held or pooled is    *)
(* allocated.                                                               *)
TypeOK ==
    /\ manager \in Managers
    /\ capacity \in [Buffers -> Size]
    /\ held \subseteq Buffers /\ ours \subseteq Buffers
    /\ DOMAIN buckets = Threads
    /\ \A t \in Threads : /\ DOMAIN buckets[t] = 0..(BucketLimit - 1)
                          /\ Pooled(t) \subseteq Buffers
    /\ \A b \in held \cup ours \cup UNION { Pooled(t) : t \in Threads } : capacity[b] > 0

(* A buffer is in one place: with the application, or once in one bucket of *)
(* one thread, also when threads release each other's buffers.              *)
OneHolder ==
    /\ \A t \in Threads : held \cap Pooled(t) = {}
    /\ \A t, u \in Threads : t # u => Pooled(t) \cap Pooled(u) = {}
    /\ \A t \in Threads : \A i, j \in DOMAIN buckets[t] :
         \A k \in DOMAIN buckets[t][i], l \in DOMAIN buckets[t][j] :
            buckets[t][i][k] = buckets[t][j][l] => i = j /\ k = l

(* Whatever is asked for, what acquire takes from the pool is large enough,  *)
(* whatever was released to it before, though only the buffers of one       *)
(* bucket are measured (pollFromBucket).                                    *)
PolledFits ==
    \A t \in Threads, n \in Requests : Representable(manager, Required(n)) =>
        \A place \in Poll(t, Rounded(manager, Required(n))) :
            capacity[buckets[t][place[1]][place[2]]] >= Required(n)

(* acquire allocates only when no buffer of the thread's pool has the       *)
(* rounded capacity: the buckets hide nothing, at any size.                 *)
AllocatesOnlyIfNoneFits ==
    \A t \in Threads, n \in Requests :
        LET size == Rounded(manager, Required(n))
        IN  Representable(manager, Required(n)) /\ Poll(t, size) = {} =>
                \A b \in Pooled(t) : capacity[b] < size

(* "Buffers not originally allocated by this manager are ignored": what the *)
(* Javadoc of release says.                                                 *)
ForeignIgnored == \A t \in Threads : Pooled(t) \subseteq ours

=============================================================================
