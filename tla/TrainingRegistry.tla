-------------------------- MODULE TrainingRegistry --------------------------
(***************************************************************************)
(* CompressorTrainingRegistry of OpenZLProtobuf.cpp, for one message type: *)
(* conversions running in several threads contribute their protobuf        *)
(* payloads as samples; the conversion that reaches a threshold takes the  *)
(* samples away, trains a compressor outside the lock and publishes it;    *)
(* every thread installs the published compressor in its own thread_local  *)
(* serializer (SerializerCacheEntry) the next time it converts.            *)
(*                                                                         *)
(* Each critical section of the state's mutex is one action, and so is     *)
(* each stretch of code between two of them.  A trained compressor is      *)
(* represented by the number of samples it was trained from; 0 stands for  *)
(* the empty string and for a serializer's built-in compressor.            *)
(***************************************************************************)
EXTENDS Integers

CONSTANTS
    Threads,
    Lengths,         \* payload lengths that occur
    MinSampleBytes,  \* kMinTrainingSampleBytes
    TargetBytes,     \* kTargetTrainingCorpusBytes
    MaxSamples,      \* kMaxTrainingSamples
    DefaultMin,      \* kMinTrainingSamples
    MinChoices       \* arguments configureTraining is called with (bounds minSamples)

ASSUME TrainingAssumption ==
    /\ Lengths \subseteq Nat
    /\ MinSampleBytes \in Nat \ {0}
    /\ TargetBytes \in Nat \ {0}
    /\ MaxSamples \in Nat \ {0}
    /\ DefaultMin \in Nat \ {0}
    /\ MinChoices \subseteq Int

VARIABLES
    \* CompressorTrainingRegistry::State
    trainingComplete, trainingInProgress, generation, serialized,
    samples,             \* number of samples gathered
    totalBytes, minSamples,
    \* SerializerCacheEntry of each thread
    compressor, appliedGeneration,
    \* control and local variables of each conversion
    at,
    copied,              \* the serialized compressor applyTrainedCompressor copied
    copiedGeneration,
    batch,               \* samplesToTrain.size()
    batchMin,            \* minSamplesForTraining
    trained              \* what trainCompressorFromSamples returned

stateVars == <<trainingComplete, trainingInProgress, generation, serialized,
               samples, totalBytes, minSamples>>
entryVars == <<compressor, appliedGeneration>>
copyVars  == <<copied, copiedGeneration>>
batchVars == <<batch, batchMin, trained>>
vars      == <<stateVars, entryVars, at, copyVars, batchVars>>

Applying == {"apply", "applyAgain"}           \* about to lock in applyTrainedCompressor
Copied   == {"install", "installAgain"}       \* compressor copied, lock released
Training == {"training", "trained"}           \* between the two critical sections
Points   == {"idle", "offer", "emit"} \cup Applying \cup Copied \cup Training

StateTypeOK ==
    /\ trainingComplete \in BOOLEAN /\ trainingInProgress \in BOOLEAN
    /\ generation \in Nat /\ serialized \in Nat
    /\ samples \in Nat /\ totalBytes \in Nat /\ minSamples \in Nat \ {0}

ThreadTypeOK ==
    /\ at \in [Threads -> Points]
    /\ compressor \in [Threads -> Nat] /\ appliedGeneration \in [Threads -> Nat]
    /\ copied \in [Threads -> Nat] /\ copiedGeneration \in [Threads -> Nat]
    /\ batch \in [Threads -> Nat] /\ batchMin \in [Threads -> Nat] /\ trained \in [Threads -> Nat]

TypeOK == StateTypeOK /\ ThreadTypeOK

Init ==
    /\ trainingComplete = FALSE /\ trainingInProgress = FALSE
    /\ generation = 0 /\ serialized = 0
    /\ samples = 0 /\ totalBytes = 0 /\ minSamples = DefaultMin
    /\ compressor = [t \in Threads |-> 0]
    /\ appliedGeneration = [t \in Threads |-> 0]
    /\ at = [t \in Threads |-> "idle"]
    /\ copied = [t \in Threads |-> 0]
    /\ copiedGeneration = [t \in Threads |-> 0]
    /\ batch = [t \in Threads |-> 0]
    /\ batchMin = [t \in Threads |-> 0]
    /\ trained = [t \in Threads |-> 0]

Goto(t, point) == at' = [at EXCEPT ![t] = point]

-----------------------------------------------------------------------------
(* configureTrainingNative *)

\* Fault: no test for values that leave the default unchanged.
ConfigureTrainingUnchecked(m) ==
    /\ minSamples' = m
    /\ UNCHANGED <<trainingComplete, trainingInProgress, generation, serialized, samples,
                   totalBytes, entryVars, at, copyVars, batchVars>>

ConfigureTraining(m) ==
    /\ m > 0
    /\ minSamples' = m
    /\ UNCHANGED <<trainingComplete, trainingInProgress, generation, serialized, samples,
                   totalBytes, entryVars, at, copyVars, batchVars>>

-----------------------------------------------------------------------------
(* applyTrainedCompressor: copy under the lock, install outside it.         *)

\* serializerEntryForType, at the start of every conversion that names no
\* compressor of its own (and of graphJson and graphDetailJson).
StartConvert(t) ==
    /\ at[t] = "idle"
    /\ Goto(t, "apply")
    /\ UNCHANGED <<stateVars, entryVars, copyVars, batchVars>>

\* Where a conversion goes on after applyTrainedCompressor.
AfterApply(point) == IF point \in {"apply", "install"} THEN "offer" ELSE "emit"

\* Fault: off by one in the comparison of generations.
CopyTrainedLate(t) ==
    /\ at[t] \in Applying
    /\ IF trainingComplete /\ serialized # 0 /\ generation > appliedGeneration[t] + 1
       THEN /\ copied' = [copied EXCEPT ![t] = serialized]
            /\ copiedGeneration' = [copiedGeneration EXCEPT ![t] = generation]
            /\ Goto(t, IF at[t] = "apply" THEN "install" ELSE "installAgain")
       ELSE /\ UNCHANGED copyVars
            /\ Goto(t, AfterApply(at[t]))
    /\ UNCHANGED <<stateVars, entryVars, batchVars>>

CopyTrained(t) ==
    /\ at[t] \in Applying
    /\ IF trainingComplete /\ serialized # 0 /\ generation > appliedGeneration[t]
       THEN /\ copied' = [copied EXCEPT ![t] = serialized]
            /\ copiedGeneration' = [copiedGeneration EXCEPT ![t] = generation]
            /\ Goto(t, IF at[t] = "apply" THEN "install" ELSE "installAgain")
       ELSE /\ UNCHANGED copyVars
            /\ Goto(t, AfterApply(at[t]))
    /\ UNCHANGED <<stateVars, entryVars, batchVars>>

\* deserialize, setCompressor and configureSerializer succeed.
Install(t) ==
    /\ at[t] \in Copied
    /\ compressor' = [compressor EXCEPT ![t] = copied[t]]
    /\ appliedGeneration' = [appliedGeneration EXCEPT ![t] = copiedGeneration[t]]
    /\ Goto(t, AfterApply(at[t]))
    /\ UNCHANGED <<stateVars, copyVars, batchVars>>

\* Fault: the generation is recorded although nothing was installed.
InstallFailsRecorded(t) ==
    /\ at[t] \in Copied
    /\ appliedGeneration' = [appliedGeneration EXCEPT ![t] = copiedGeneration[t]]
    /\ Goto(t, AfterApply(at[t]))
    /\ UNCHANGED <<stateVars, compressor, copyVars, batchVars>>

\* An exception is swallowed and the serializer keeps its compressor.
InstallFails(t) ==
    /\ at[t] \in Copied
    /\ Goto(t, AfterApply(at[t]))
    /\ UNCHANGED <<stateVars, entryVars, copyVars, batchVars>>

-----------------------------------------------------------------------------
(* convertPayload: parse, maybeAugmentTraining, serialise *)

\* The payload does not parse, or the call was graphJson.
LeaveEarly(t) ==
    /\ at[t] = "offer"
    /\ Goto(t, "idle")
    /\ UNCHANGED <<stateVars, entryVars, copyVars, batchVars>>

\* Another input protocol, or a payload too short to be a sample.
NotASample(t) ==
    /\ at[t] = "offer"
    /\ Goto(t, "emit")
    /\ UNCHANGED <<stateVars, entryVars, copyVars, batchVars>>

\* First critical section, training already complete.
OfferWhenComplete(t) ==
    /\ at[t] = "offer"
    /\ trainingComplete
    /\ Goto(t, IF serialized # 0 /\ generation > appliedGeneration[t]
               THEN "applyAgain" ELSE "emit")
    /\ UNCHANGED <<stateVars, entryVars, copyVars, batchVars>>

\* First critical section, another conversion is training.
OfferWhileTraining(t) ==
    /\ at[t] = "offer"
    /\ ~trainingComplete /\ trainingInProgress
    /\ Goto(t, "emit")
    /\ UNCHANGED <<stateVars, entryVars, copyVars, batchVars>>

\* Fault: the byte count survives the samples it counts.
TakeSamplesOnly(t, count) ==
    /\ trainingInProgress' = TRUE
    /\ samples' = 0
    /\ UNCHANGED totalBytes
    /\ batch' = [batch EXCEPT ![t] = count]
    /\ batchMin' = [batchMin EXCEPT ![t] = minSamples]
    /\ Goto(t, "training")

\* Move all samples out of the registry and start training on them.
TakeSamples(t, count) ==
    /\ trainingInProgress' = TRUE
    /\ samples' = 0
    /\ totalBytes' = 0
    /\ batch' = [batch EXCEPT ![t] = count]
    /\ batchMin' = [batchMin EXCEPT ![t] = minSamples]
    /\ Goto(t, "training")

\* Fault: samples are kept beyond kMaxTrainingSamples.
AlwaysRoom == TRUE

Room == samples < MaxSamples

\* Fault: only the number of samples, not their bytes, triggers training.
ThresholdByCount(count, bytes) == count >= minSamples

ThresholdReached(count, bytes) == count >= minSamples \/ bytes >= TargetBytes

\* Keep the payload if there is room; train when a threshold is reached.
Gather(t, length) ==
    LET count == IF Room THEN samples + 1 ELSE samples
        bytes == IF Room THEN totalBytes + length ELSE totalBytes
    IN
    /\ at[t] = "offer"
    /\ length >= MinSampleBytes
    /\ IF ThresholdReached(count, bytes)
       THEN TakeSamples(t, count)
       ELSE /\ samples' = count
            /\ totalBytes' = bytes
            /\ UNCHANGED <<trainingInProgress, batch, batchMin>>
            /\ Goto(t, "emit")
    /\ UNCHANGED <<trainingComplete, generation, serialized, minSamples, entryVars, copyVars,
                   trained>>

\* Faults: one of the two flags is not consulted.
OfferSampleAlways(t, length)     == ~trainingInProgress /\ Gather(t, length)
OfferSampleWhileBusy(t, length)  == ~trainingComplete /\ Gather(t, length)

\* First critical section, gathering.
OfferSample(t, length) ==
    /\ ~trainingComplete /\ ~trainingInProgress
    /\ Gather(t, length)

\* trainCompressorFromSamples returns a compressor; it refuses a batch smaller
\* than the minimum read in the first critical section.
TrainSucceeds(t) ==
    /\ at[t] = "training"
    /\ batch[t] >= batchMin[t]
    /\ trained' = [trained EXCEPT ![t] = batch[t]]
    /\ Goto(t, "trained")
    /\ UNCHANGED <<stateVars, entryVars, copyVars, batch, batchMin>>

\* The batch is too small, no sample parses, training finds nothing or throws.
TrainFails(t) ==
    /\ at[t] = "training"
    /\ trained' = [trained EXCEPT ![t] = 0]
    /\ Goto(t, "trained")
    /\ UNCHANGED <<stateVars, entryVars, copyVars, batch, batchMin>>

\* Fault: a failed training leaves trainingInProgress set.
PublishStuck(t) ==
    /\ at[t] = "trained"
    /\ IF trained[t] # 0
       THEN /\ serialized' = trained[t]
            /\ trainingComplete' = TRUE
            /\ trainingInProgress' = FALSE
            /\ generation' = generation + 1
            /\ Goto(t, "applyAgain")
       ELSE /\ UNCHANGED <<trainingComplete, trainingInProgress, serialized, generation>>
            /\ Goto(t, "emit")
    /\ UNCHANGED <<samples, totalBytes, minSamples, entryVars, copyVars, batchVars>>

\* Second critical section: publish, or go back to gathering without the batch.
Publish(t) ==
    /\ at[t] = "trained"
    /\ trainingInProgress' = FALSE
    /\ IF trained[t] # 0
       THEN /\ serialized' = trained[t]
            /\ trainingComplete' = TRUE
            /\ generation' = generation + 1
            /\ Goto(t, "applyAgain")
       ELSE /\ trainingComplete' = FALSE
            /\ UNCHANGED <<serialized, generation>>
            /\ Goto(t, "emit")
    /\ UNCHANGED <<samples, totalBytes, minSamples, entryVars, copyVars, batchVars>>

\* serialiseMessage with the thread's serializer.
Emit(t) ==
    /\ at[t] = "emit"
    /\ Goto(t, "idle")
    /\ UNCHANGED <<stateVars, entryVars, copyVars, batchVars>>

\* The thread ends, its thread_local cache with it; another takes its place.
ThreadExit(t) ==
    /\ at[t] = "idle"
    /\ compressor' = [compressor EXCEPT ![t] = 0]
    /\ appliedGeneration' = [appliedGeneration EXCEPT ![t] = 0]
    /\ UNCHANGED <<stateVars, at, copyVars, batchVars>>

-----------------------------------------------------------------------------

Offer(t) ==
    \/ OfferWhenComplete(t)
    \/ OfferWhileTraining(t)
    \/ \E length \in Lengths : OfferSample(t, length)

Convert(t) ==
    \/ CopyTrained(t)
    \/ Install(t)
    \/ InstallFails(t)
    \/ NotASample(t)
    \/ Offer(t)
    \/ TrainSucceeds(t)
    \/ TrainFails(t)
    \/ Publish(t)
    \/ Emit(t)

Next ==
    \/ \E m \in MinChoices : ConfigureTraining(m)
    \/ \E t \in Threads : StartConvert(t) \/ Convert(t) \/ LeaveEarly(t) \/ ThreadExit(t)

Spec == Init /\ [][Next]_vars

\* Threads inside a conversion keep running; a thread that converts again and
\* again sooner or later brings a payload that is a sample, and training that is
\* tried again and again with enough samples sooner or later succeeds.
Fairness ==
    \A t \in Threads :
        /\ WF_vars(StartConvert(t))
        /\ WF_vars(Convert(t))
        /\ SF_vars(Offer(t))
        /\ SF_vars(TrainSucceeds(t))
        /\ SF_vars(Install(t))

FairSpec == Spec /\ Fairness

-----------------------------------------------------------------------------
(* Correctness *)

\* Exactly one conversion is between the two critical sections while
\* trainingInProgress is set, none otherwise: maybeAugmentTraining never trains
\* the same type twice at once and never leaves the flag set behind it.
SingleTrainer ==
    /\ trainingInProgress <=> \E t \in Threads : at[t] \in Training
    /\ \A t, u \in Threads : at[t] \in Training /\ at[u] \in Training => t = u
    /\ trainingInProgress => ~trainingComplete

\* A published compressor is final: no slower trainer replaces it and no failed
\* attempt withdraws it, so a thread that installed it is never out of date.
PublishedIsFinal ==
    [][serialized # 0 => /\ serialized' = serialized
                         /\ generation' = generation
                         /\ trainingComplete']_vars

\* The compressor in a thread's serializer, or on its way there, is the one of
\* the generation recorded with it, although both are copied under the lock and
\* installed outside it, and installing may fail.
EntryMatchesGeneration ==
    \A t \in Threads :
        /\ appliedGeneration[t] <= generation
        /\ compressor[t] = IF appliedGeneration[t] = 0 THEN 0 ELSE serialized
        /\ at[t] \in Copied => copied[t] = serialized /\ copiedGeneration[t] = generation

\* The registry never holds a full corpus nobody trains on, nor more samples
\* than kMaxTrainingSamples, nor the bytes of samples it no longer has.
SamplesBounded ==
    /\ samples <= MaxSamples
    /\ totalBytes < TargetBytes
    /\ samples = 0 <=> totalBytes = 0

\* Conversions that keep bringing samples end with a trained compressor, also
\* when configureTraining asked for more samples than are ever kept, provided
\* it is called again with a number that can be reached.
EventuallyTrained == <>[](minSamples <= MaxSamples) => <>trainingComplete

\* Once a compressor is published every thread that keeps converting installs
\* it, again after each failure and each exit.
EveryThreadInstalls == <>trainingComplete => \A t \in Threads : []<>(compressor[t] # 0)

=============================================================================
