---------------------------- MODULE MCBufferPool ----------------------------
EXTENDS BufferPool, TLC

MCRequests == -1..MaxInt

\* Threads and buffers are interchangeable.
BufferSymmetry == Permutations(Threads) \cup Permutations(Buffers)

=============================================================================
