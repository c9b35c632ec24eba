----------------------- MODULE TrainingRegistryProofs -----------------------
(***************************************************************************)
(* Proofs about TrainingRegistry, for any number of threads, any payload   *)
(* lengths and any thresholds.                                             *)
(***************************************************************************)
EXTENDS TrainingRegistry, TLAPS

\* There is one generation, it is published once, and only a published
\* compressor is ever copied.
PublishedOnce ==
    /\ serialized # 0 <=> trainingComplete
    /\ generation = IF trainingComplete THEN 1 ELSE 0
    /\ \A t \in Threads : at[t] \in Copied => trainingComplete

\* The inductive invariant.
IInv == TypeOK /\ PublishedOnce /\ SingleTrainer /\ EntryMatchesGeneration /\ SamplesBounded

-----------------------------------------------------------------------------

LEMMA InitIInv == Init => IInv
  <1> SUFFICES ASSUME Init
               PROVE  IInv
    OBVIOUS
  <1> USE TrainingAssumption DEF TrainingAssumption, Init
  <1>1. TypeOK
    BY DEF TypeOK, StateTypeOK, ThreadTypeOK, Points
  <1>2. PublishedOnce /\ SingleTrainer /\ EntryMatchesGeneration
    BY DEF PublishedOnce, SingleTrainer, EntryMatchesGeneration, Copied, Training
  <1>3. SamplesBounded
    BY DEF SamplesBounded
  <1> QED
    BY <1>1, <1>2, <1>3 DEF IInv

\* configureTraining only raises or lowers the threshold.
LEMMA ConfigureTrainingIInv ==
  ASSUME IInv, NEW m \in MinChoices, ConfigureTraining(m)
  PROVE  IInv'
  <1> USE TrainingAssumption DEF TrainingAssumption, IInv, TypeOK, StateTypeOK, ThreadTypeOK, Points,
          Applying, Copied, Training, Goto, stateVars, entryVars, copyVars, batchVars
  <1>1. TypeOK'
    BY DEF ConfigureTraining
  <1>2. PublishedOnce'
    BY DEF ConfigureTraining, PublishedOnce
  <1>3. SingleTrainer'
    BY DEF ConfigureTraining, SingleTrainer
  <1>4. EntryMatchesGeneration'
    BY DEF ConfigureTraining, EntryMatchesGeneration
  <1>5. SamplesBounded'
    BY DEF ConfigureTraining, SamplesBounded
  <1> QED
    BY <1>1, <1>2, <1>3, <1>4, <1>5

LEMMA StartConvertIInv ==
  ASSUME IInv, NEW t \in Threads, StartConvert(t)
  PROVE  IInv'
  <1> USE TrainingAssumption DEF TrainingAssumption, IInv, TypeOK, StateTypeOK, ThreadTypeOK, Points,
          Applying, Copied, Training, Goto, stateVars, entryVars, copyVars, batchVars
  <1>1. TypeOK'
    BY DEF StartConvert
  <1>2. PublishedOnce'
    BY DEF StartConvert, PublishedOnce
  <1>3. SingleTrainer'
    BY DEF StartConvert, SingleTrainer
  <1>4. EntryMatchesGeneration'
    BY DEF StartConvert, EntryMatchesGeneration
  <1>5. SamplesBounded'
    BY DEF StartConvert, SamplesBounded
  <1> QED
    BY <1>1, <1>2, <1>3, <1>4, <1>5

\* The copy is taken under the lock, of the generation it is labelled with.
LEMMA CopyTrainedIInv ==
  ASSUME IInv, NEW t \in Threads, CopyTrained(t)
  PROVE  IInv'
  <1> USE TrainingAssumption DEF TrainingAssumption, IInv, TypeOK, StateTypeOK, ThreadTypeOK, Points,
          Applying, Copied, Training, Goto, stateVars, entryVars, copyVars, batchVars
  <1>1. StateTypeOK'
    BY DEF CopyTrained, AfterApply
  <1>2. ThreadTypeOK'
    BY DEF CopyTrained, AfterApply
  <1>3. PublishedOnce'
    BY DEF CopyTrained, AfterApply, PublishedOnce
  <1>4. SingleTrainer'
    BY DEF CopyTrained, AfterApply, SingleTrainer
  <1>5. EntryMatchesGeneration'
    BY DEF CopyTrained, AfterApply, EntryMatchesGeneration
  <1>6. SamplesBounded'
    BY DEF CopyTrained, AfterApply, SamplesBounded
  <1> QED
    BY <1>1, <1>2, <1>3, <1>4, <1>5, <1>6

\* The published generation is still the one that was copied.
LEMMA InstallIInv ==
  ASSUME IInv, NEW t \in Threads, Install(t)
  PROVE  IInv'
  <1> USE TrainingAssumption DEF TrainingAssumption, IInv, TypeOK, StateTypeOK, ThreadTypeOK, Points,
          Applying, Copied, Training, Goto, stateVars, entryVars, copyVars, batchVars
  <1>1. TypeOK'
    BY DEF Install, AfterApply
  <1>2. PublishedOnce'
    BY DEF Install, AfterApply, PublishedOnce
  <1>3. SingleTrainer'
    BY DEF Install, AfterApply, SingleTrainer
  <1>4. EntryMatchesGeneration'
    BY DEF Install, AfterApply, EntryMatchesGeneration, PublishedOnce
  <1>5. SamplesBounded'
    BY DEF Install, AfterApply, SamplesBounded
  <1> QED
    BY <1>1, <1>2, <1>3, <1>4, <1>5

LEMMA InstallFailsIInv ==
  ASSUME IInv, NEW t \in Threads, InstallFails(t)
  PROVE  IInv'
  <1> USE TrainingAssumption DEF TrainingAssumption, IInv, TypeOK, StateTypeOK, ThreadTypeOK, Points,
          Applying, Copied, Training, Goto, stateVars, entryVars, copyVars, batchVars
  <1>1. TypeOK'
    BY DEF InstallFails, AfterApply
  <1>2. PublishedOnce'
    BY DEF InstallFails, AfterApply, PublishedOnce
  <1>3. SingleTrainer'
    BY DEF InstallFails, AfterApply, SingleTrainer
  <1>4. EntryMatchesGeneration'
    BY DEF InstallFails, AfterApply, EntryMatchesGeneration
  <1>5. SamplesBounded'
    BY DEF InstallFails, AfterApply, SamplesBounded
  <1> QED
    BY <1>1, <1>2, <1>3, <1>4, <1>5

\* The steps that only move on: NotASample, LeaveEarly, OfferWhenComplete,
\* OfferWhileTraining and Emit.
LEMMA MoveOnIInv ==
  ASSUME IInv, NEW t \in Threads, NEW point \in {"idle", "emit", "applyAgain"},
         at[t] \in {"offer", "emit"}, Goto(t, point),
         UNCHANGED <<stateVars, entryVars, copyVars, batchVars>>
  PROVE  IInv'
  <1> USE TrainingAssumption DEF TrainingAssumption, IInv, TypeOK, StateTypeOK, ThreadTypeOK, Points,
          Applying, Copied, Training, Goto, stateVars, entryVars, copyVars, batchVars
  <1>1. TypeOK'
    OBVIOUS
  <1>2. PublishedOnce'
    BY DEF PublishedOnce
  <1>3. SingleTrainer'
    BY DEF SingleTrainer
  <1>4. EntryMatchesGeneration'
    BY DEF EntryMatchesGeneration
  <1>5. SamplesBounded'
    BY DEF SamplesBounded
  <1> QED
    BY <1>1, <1>2, <1>3, <1>4, <1>5

\* A conversion takes the samples only when nobody trains.
LEMMA OfferSampleIInv ==
  ASSUME IInv, NEW t \in Threads, NEW length \in Lengths, OfferSample(t, length)
  PROVE  IInv'
  <1> USE TrainingAssumption DEF TrainingAssumption, IInv, TypeOK, StateTypeOK, ThreadTypeOK, Points,
          Applying, Copied, Training, Goto, stateVars, entryVars, copyVars, batchVars
  <1>1. StateTypeOK'
    <2>1. trainingComplete' \in BOOLEAN /\ trainingInProgress' \in BOOLEAN
      BY DEF OfferSample, Gather, TakeSamples
    <2>2. length \in Nat
      OBVIOUS
    <2>3. generation' \in Nat /\ serialized' \in Nat /\ minSamples' \in Nat \ {0}
      BY DEF OfferSample, Gather
    <2>4. samples' \in Nat /\ totalBytes' \in Nat
      BY <2>2 DEF OfferSample, Gather, Room, ThresholdReached, TakeSamples
    <2> QED
      BY <2>1, <2>3, <2>4
  <1>2. ThreadTypeOK'
    BY DEF OfferSample, Gather, TakeSamples
  <1>3. PublishedOnce'
    BY DEF OfferSample, Gather, TakeSamples, PublishedOnce
  <1>4. SingleTrainer'
    BY DEF OfferSample, Gather, TakeSamples, SingleTrainer
  <1>5. EntryMatchesGeneration'
    BY DEF OfferSample, Gather, TakeSamples, EntryMatchesGeneration
  <1>6. SamplesBounded'
    BY DEF OfferSample, Gather, Room, ThresholdReached, TakeSamples, SamplesBounded
  <1> QED
    BY <1>1, <1>2, <1>3, <1>4, <1>5, <1>6

LEMMA TrainSucceedsIInv ==
  ASSUME IInv, NEW t \in Threads, TrainSucceeds(t)
  PROVE  IInv'
  <1> USE TrainingAssumption DEF TrainingAssumption, IInv, TypeOK, StateTypeOK, ThreadTypeOK, Points,
          Applying, Copied, Training, Goto, stateVars, entryVars, copyVars, batchVars
  <1>1. TypeOK'
    BY DEF TrainSucceeds
  <1>2. PublishedOnce'
    BY DEF TrainSucceeds, PublishedOnce
  <1>3. SingleTrainer'
    BY DEF TrainSucceeds, SingleTrainer
  <1>4. EntryMatchesGeneration'
    BY DEF TrainSucceeds, EntryMatchesGeneration
  <1>5. SamplesBounded'
    BY DEF TrainSucceeds, SamplesBounded
  <1> QED
    BY <1>1, <1>2, <1>3, <1>4, <1>5

LEMMA TrainFailsIInv ==
  ASSUME IInv, NEW t \in Threads, TrainFails(t)
  PROVE  IInv'
  <1> USE TrainingAssumption DEF TrainingAssumption, IInv, TypeOK, StateTypeOK, ThreadTypeOK, Points,
          Applying, Copied, Training, Goto, stateVars, entryVars, copyVars, batchVars
  <1>1. TypeOK'
    BY DEF TrainFails
  <1>2. PublishedOnce'
    BY DEF TrainFails, PublishedOnce
  <1>3. SingleTrainer'
    BY DEF TrainFails, SingleTrainer
  <1>4. EntryMatchesGeneration'
    BY DEF TrainFails, EntryMatchesGeneration
  <1>5. SamplesBounded'
    BY DEF TrainFails, SamplesBounded
  <1> QED
    BY <1>1, <1>2, <1>3, <1>4, <1>5

\* The only trainer publishes, for the first time.
LEMMA PublishIInv ==
  ASSUME IInv, NEW t \in Threads, Publish(t)
  PROVE  IInv'
  <1> USE TrainingAssumption DEF TrainingAssumption, IInv, TypeOK, StateTypeOK, ThreadTypeOK, Points,
          Applying, Copied, Training, Goto, stateVars, entryVars, copyVars, batchVars
  <1>1. StateTypeOK'
    <2>1. trainingComplete' \in BOOLEAN /\ trainingInProgress' \in BOOLEAN
      BY DEF Publish
    <2>2. generation' \in Nat /\ serialized' \in Nat
      BY DEF Publish
    <2>3. samples' \in Nat /\ totalBytes' \in Nat /\ minSamples' \in Nat \ {0}
      BY DEF Publish
    <2> QED
      BY <2>1, <2>2, <2>3
  <1>2. ThreadTypeOK'
    BY DEF Publish
  <1>3. PublishedOnce'
    BY DEF Publish, PublishedOnce, SingleTrainer
  <1>4. SingleTrainer'
    BY DEF Publish, SingleTrainer
  <1>5. EntryMatchesGeneration'
    BY DEF Publish, EntryMatchesGeneration, PublishedOnce, SingleTrainer
  <1>6. SamplesBounded'
    BY DEF Publish, SamplesBounded
  <1> QED
    BY <1>1, <1>2, <1>3, <1>4, <1>5, <1>6

LEMMA ThreadExitIInv ==
  ASSUME IInv, NEW t \in Threads, ThreadExit(t)
  PROVE  IInv'
  <1> USE TrainingAssumption DEF TrainingAssumption, IInv, TypeOK, StateTypeOK, ThreadTypeOK, Points,
          Applying, Copied, Training, Goto, stateVars, entryVars, copyVars, batchVars
  <1>1. TypeOK'
    BY DEF ThreadExit
  <1>2. PublishedOnce'
    BY DEF ThreadExit, PublishedOnce
  <1>3. SingleTrainer'
    BY DEF ThreadExit, SingleTrainer
  <1>4. EntryMatchesGeneration'
    BY DEF ThreadExit, EntryMatchesGeneration
  <1>5. SamplesBounded'
    BY DEF ThreadExit, SamplesBounded
  <1> QED
    BY <1>1, <1>2, <1>3, <1>4, <1>5

-----------------------------------------------------------------------------

LEMMA StepIInv ==
  ASSUME IInv, [Next]_vars
  PROVE  IInv'
  <1>1. ASSUME NEW m \in MinChoices, ConfigureTraining(m)
        PROVE  IInv'
    BY <1>1, ConfigureTrainingIInv
  <1>2. ASSUME NEW t \in Threads, StartConvert(t) \/ Convert(t) \/ LeaveEarly(t) \/ ThreadExit(t)
        PROVE  IInv'
    <2>1. CASE StartConvert(t)
      BY <2>1, StartConvertIInv
    <2>2. CASE CopyTrained(t)
      BY <2>2, CopyTrainedIInv
    <2>3. CASE Install(t)
      BY <2>3, InstallIInv
    <2>4. CASE InstallFails(t)
      BY <2>4, InstallFailsIInv
    <2>5. CASE NotASample(t)
      BY <2>5, MoveOnIInv DEF NotASample
    <2>6. CASE LeaveEarly(t)
      BY <2>6, MoveOnIInv DEF LeaveEarly
    <2>7. CASE OfferWhenComplete(t)
      BY <2>7, MoveOnIInv DEF OfferWhenComplete
    <2>8. CASE OfferWhileTraining(t)
      BY <2>8, MoveOnIInv DEF OfferWhileTraining
    <2>9. ASSUME NEW length \in Lengths, OfferSample(t, length)
          PROVE  IInv'
      BY <2>9, OfferSampleIInv
    <2>10. CASE TrainSucceeds(t)
      BY <2>10, TrainSucceedsIInv
    <2>11. CASE TrainFails(t)
      BY <2>11, TrainFailsIInv
    <2>12. CASE Publish(t)
      BY <2>12, PublishIInv
    <2>13. CASE Emit(t)
      BY <2>13, MoveOnIInv DEF Emit
    <2>14. CASE ThreadExit(t)
      BY <2>14, ThreadExitIInv
    <2> QED
      BY <1>2, <2>1, <2>2, <2>3, <2>4, <2>5, <2>6, <2>7, <2>8, <2>9, <2>10, <2>11, <2>12,
         <2>13, <2>14 DEF Convert, Offer
  <1>3. CASE UNCHANGED vars
    BY <1>3 DEF IInv, TypeOK, StateTypeOK, ThreadTypeOK, PublishedOnce, SingleTrainer,
       EntryMatchesGeneration, SamplesBounded, vars, stateVars, entryVars, copyVars, batchVars
  <1> QED
    BY <1>1, <1>2, <1>3 DEF Next

THEOREM Invariance == Spec => []IInv
  <1> QED
    BY InitIInv, StepIInv, PTL DEF Spec

\* Every variable keeps its type.
THEOREM Typing == Spec => []TypeOK
  <1>1. IInv => TypeOK
    BY DEF IInv
  <1> QED
    BY <1>1, Invariance, PTL

\* One conversion at most trains a type, exactly while the flag says so.
THEOREM OneTrainer == Spec => []SingleTrainer
  <1>1. IInv => SingleTrainer
    BY DEF IInv
  <1> QED
    BY <1>1, Invariance, PTL

\* No thread ever pairs a compressor with a generation it does not belong to.
THEOREM NoMixUp == Spec => []EntryMatchesGeneration
  <1>1. IInv => EntryMatchesGeneration
    BY DEF IInv
  <1> QED
    BY <1>1, Invariance, PTL

\* The corpus stays within its limits whatever the threads do.
THEOREM CorpusBounded == Spec => []SamplesBounded
  <1>1. IInv => SamplesBounded
    BY DEF IInv
  <1> QED
    BY <1>1, Invariance, PTL

\* Once published a compressor is neither replaced nor withdrawn.
THEOREM Final == Spec => PublishedIsFinal
  <1> DEFINE Stays == serialized # 0 => /\ serialized' = serialized
                                        /\ generation' = generation
                                        /\ trainingComplete'
  <1>1. ASSUME IInv, [Next]_vars
        PROVE  [Stays]_vars
    <2>1. CASE UNCHANGED vars
      BY <2>1
    <2>2. ASSUME NEW t \in Threads, Publish(t)
          PROVE  Stays
      BY <1>1, <2>2 DEF Publish, IInv, PublishedOnce, SingleTrainer, Training
    <2>3. ASSUME NEW t \in Threads, NEW length \in Lengths, OfferSample(t, length)
          PROVE  Stays
      BY <1>1, <2>3 DEF OfferSample, Gather, IInv, PublishedOnce
    <2>4. ASSUME NEW t \in Threads,
                 \/ StartConvert(t) \/ CopyTrained(t) \/ Install(t) \/ InstallFails(t)
                 \/ NotASample(t) \/ LeaveEarly(t) \/ OfferWhenComplete(t) \/ OfferWhileTraining(t)
                 \/ TrainSucceeds(t) \/ TrainFails(t) \/ Emit(t) \/ ThreadExit(t)
          PROVE  Stays
      BY <1>1, <2>4 DEF StartConvert, CopyTrained, Install, InstallFails, NotASample, LeaveEarly,
         OfferWhenComplete, OfferWhileTraining, TrainSucceeds, TrainFails, Emit, ThreadExit,
         stateVars, IInv, PublishedOnce
    <2>5. ASSUME NEW m \in MinChoices, ConfigureTraining(m)
          PROVE  Stays
      BY <1>1, <2>5 DEF ConfigureTraining, IInv, PublishedOnce
    <2> QED
      BY <1>1, <2>1, <2>2, <2>3, <2>4, <2>5 DEF Next, Convert, Offer
  <1> QED
    BY <1>1, Invariance, PTL DEF Spec, PublishedIsFinal

=============================================================================
