--------------------------- MODULE MCNativeCalls ---------------------------
EXTENDS NativeCalls

\* An aborted process is the only state without a step.
=============================================================================
