-------------------------- MODULE ExclusiveEngine ---------------------------
(***************************************************************************)
(* What a user of OpenZLCompressor may rely on, without threads, caches or *)
(* a Cleaner: a compressor that is not closed has an engine no other       *)
(* compressor has, and the graph and level of that engine change only      *)
(* because of calls made on this compressor, one at a time.                *)
(***************************************************************************)
CONSTANTS Objs, States, Graphs, Levels, Null, NoGraph

VARIABLES
    engine,   \* the engine each open compressor owns, Null when it has none
    graph,    \* the graph that engine runs, NoGraph when it has none
    level     \* its compression level

vars == <<engine, graph, level>>

Init ==
    /\ engine = [o \in Objs |-> Null]
    /\ graph = [o \in Objs |-> NoGraph]
    /\ level = [o \in Objs |-> Null]

\* A new compressor gets an engine nobody owns, on the graph it asked for.
Acquire(o, s, g, v) ==
    /\ engine[o] = Null
    /\ \A p \in Objs : engine[p] # s
    /\ engine' = [engine EXCEPT ![o] = s]
    /\ graph' = [graph EXCEPT ![o] = g]
    /\ level' = [level EXCEPT ![o] = v]

\* NoGraph is the outcome of a selection that failed half way.
Select(o, g) ==
    /\ engine[o] # Null
    /\ graph' = [graph EXCEPT ![o] = g]
    /\ UNCHANGED <<engine, level>>

SetLevel(o, v) ==
    /\ engine[o] # Null
    /\ level' = [level EXCEPT ![o] = v]
    /\ UNCHANGED <<engine, graph>>

Release(o) ==
    /\ engine[o] # Null
    /\ engine' = [engine EXCEPT ![o] = Null]
    /\ graph' = [graph EXCEPT ![o] = NoGraph]
    /\ level' = [level EXCEPT ![o] = Null]

Next == \E o \in Objs :
    \/ \E s \in States, g \in Graphs, v \in Levels : Acquire(o, s, g, v)
    \/ \E g \in Graphs \cup {NoGraph} : Select(o, g)
    \/ \E v \in Levels : SetLevel(o, v)
    \/ Release(o)

Spec == Init /\ [][Next]_vars

\* No two open compressors ever share an engine.
NoSharing == \A o, p \in Objs : engine[o] = engine[p] /\ engine[o] # Null => o = p

=============================================================================
