-------------------------- MODULE MCCompressorPool --------------------------
(* CompressorPool on small instances.                                      *)
EXTENDS CompressorPool, TLC

\* Threads, objects and engine addresses are interchangeable.
PoolSymmetry == Permutations(AppThreads) \cup Permutations(Objs) \cup Permutations(States)

=============================================================================
