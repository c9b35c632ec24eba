------------------------- MODULE MCTrainingRegistry -------------------------
(* TrainingRegistry on small instances.                                    *)
EXTENDS TrainingRegistry, TLC

ThreadSymmetry == Permutations(Threads)

=============================================================================
