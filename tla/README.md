# A TLA+ model of openzl-jni

openzl-jni is a Java binding of the OpenZL compression engine: JNI code in
`src/JNI/*.cpp` and `src/JNI/compressor/*.cpp`, Java classes in
`src/JNI/openzl-jni/src/main/java/io/github/hybledav/`. The engine itself, the
protobuf runtime and the JVM are not part of the repository. This directory
models the parts of the binding that hold state, model-checks them with TLC and
proves their main invariants with TLAPS.

## 1. Inventory

| Component | State | Operations | Modules |
|---|---|---|---|
| Engine pool and compressor lifecycle (`OpenZLNativeSupport.cpp`, `OpenZLCompressor.{java,cpp}`) | one engine pointer per thread (`tlsCachedState`), a process-wide LIFO of 8 (`globalCache`), the field `nativeHandle` and the `NativeHandleCleaner` of each object; per engine its graph, context and compressor | construct, configure (profile, SDDL, level), reset, compress/decompress, `close()`, reclamation by the Cleaner thread | `CompressorPool`, `ExclusiveEngine` |
| Compressor training registry (`OpenZLProtobuf.cpp` 352-862) | per message type: samples, byte count, flags, generation, the published compressor; per thread and type a serializer with the generation it has installed | configure, offer a sample, train, publish, install | `TrainingRegistry` |
| The native methods (`OpenZLCompressor.cpp`, `OpenZLProtobuf.cpp` 1838-2899, `JNI/compressor/`) | pinned arrays, strings, contexts and directories a call holds; pending exceptions | compress and decompress arrays, direct buffers and numbers; frame metadata; profiles and SDDL; conversions; training; introspection | `JniRanges`, `NativeSteps`, `NativeMethods`, `NativeCalls` |
| Structured codec (`OpenZLProtobuf.cpp` 555-647, 890-1836) | thread_local scratch vectors; the streams, cursors and calls of one decoding | encode a message as typed streams and decode it | `StructuredCodec` |
| Descriptor registry (`OpenZLProtobuf.cpp` 431-548, `OpenZLProtobuf.java`) | names remembered in Java, the descriptor database, messages cached per thread | register a schema, find a type, create a message | `SchemaRegistry` |
| Direct buffer pool (`OpenZLBufferManager.java`) | buckets of free buffers per thread | acquire, release, close | `BufferPool` |
| Offline training (`OpenZLCompressor.{java,cpp}`) | a temporary directory | write inputs, train, clean up | paths in `NativeMethods` |
| Native library loader (`OpenZLNative.java`) | the flag `LOADED` | extract, load, fall back | none |
| Codec benchmark, star catalogue utilities, build scripts | none that outlives a run | | none |

How they interact: every compression call works on an engine the pool hands out;
every conversion runs through the descriptor registry (`reusableMessage`), then the
training registry (`serializerEntryForType`, `maybeAugmentTraining`), and holds
its input pinned meanwhile; the structured codec shares the descriptor registry's
cached messages; managed compression takes its output from the buffer pool.

What makes each hard, and what correctness means for it:

- *Pool.* Constructors, closers and the Cleaner thread run concurrently and
  pass raw pointers through two caches. An engine must never be in two places,
  never be used after it was recycled, never be lost; a compressor must not
  notice that its engine had another owner.
- *Training registry.* Two critical sections with seconds of unlocked training
  between them, and a copy under the lock that is installed outside it. One
  trainer at a time, a published compressor is final, a thread never pairs a
  compressor with the wrong generation, and training happens in the end.
- *Native methods.* Each has a dozen ways to fail and owes the JVM the same on
  all of them: release what is pinned and held, make no call while an exception is
  pending or an array is pinned, access only the ranges it tested (with 32-bit
  sums), let no C++ exception out.
- *Structured codec.* Tags are computed twice, from the descriptor and from the
  message; streams may come back in another order and without tags; inputs refer
  to vectors that are used again. A message must come back as it went in.
- *Descriptor registry.* A failed registration leaves files behind, Java and the
  library each keep a set of what is known, threads cache what they found. A
  registration that returns must have worked, a type found must stay.
- *Buffer pool.* Buffers released in other threads and from other sources; bucket
  arithmetic in 32 bits. One holder per buffer, and always large enough.

`PROJECT.json` lists these as hazards at their lines, with the properties that
cover them or the reason none does.

## 2. Modules and their order

| Module | Extends | Runs | Proofs |
|---|---|---|---|
| `CompressorPool`, `ExclusiveEngine` (its abstract specification) | | `pool_*` | `CompressorPoolProofs`, `CompressorPoolRefinement` |
| `TrainingRegistry` | | `training_*` | `TrainingRegistryProofs` |
| `JniRanges`: range tests as operators | | through `NativeCalls`, `BufferPool` | `NativeCallsProofs` |
| `NativeSteps` (vocabulary), `NativeMethods` (the methods), `NativeCalls` (their execution) | `JniRanges` | `native_calls` | `NativeCallsProofs` |
| `StructuredCodec` | | `structured_codec` | `StructuredCodecProofs` |
| `SchemaRegistry` | | `schema_*` | `SchemaRegistryProofs` |
| `BufferPool` | `JniRanges` | `buffer_*` | `BufferPoolProofs` |

`SequenceFacts` has what two of the proof modules need about naturals and sequences.

The components were modelled in this order, which is that of the damage a mistake
does. Each `MC` module gives a module its small instance. No module that is proved
about declares a RECURSIVE operator. Operators marked *Fault* are variants of the
definition that follows them, with the mistake a change of that code could make; no
run uses them except to show that the properties notice. All components meet in
`NativeMethods`: where a method calls into the pool, a registry or the codec, it has
the steps of that call that matter to the JVM, and the component's own module has
what the call does to its state.

## 3. CompressorPool

`CompressorPool.tla` has one action per stretch of code between two points where
another thread can intervene: the mutex of the global cache, the monitor of
`destroyCompressorHandle`, entry to and exit from a native method.

| Model | Code |
|---|---|
| `tlsCachedState`, `globalCache`, `globalCacheSize` | the globals of those names |
| `nativeHandle`, `cleanerHandle`, `registered` | the field, `NativeHandleCleaner.handle`, membership in the Cleaner's list |
| `startingGraph`, `cctxGraph`, `level` | `NativeState::startingGraph`, the graph selected in `cctx`, `compressionLevel` of `NativeState::compressor` |
| `phase` | reachability of the object; a slot of `Objs` is reused after collection |
| `AcquireFromTls`, `AcquireFromGlobal`, `AcquireNew`, `PrepareCached`, `Construct` | `acquireState`, `nativeCreate`, the Java constructor |
| `EnterMethod` ... `MethodAborts` | `getState`, then the method; one action per effect a method has on the configuration |
| `CloseClean`, `CloseAgain`, `CleanerTakes` | `close()` that wins or loses the Cleanable, the Cleaner thread |
| `RecycleReset`, `ParkInTls`, `ParkInGlobal`, `Delete`, `AfterRecycle`, `ZeroHandle` | `recycleState`, the end of `run()` and of `close()` |
| `AcquireNewFails`, `PrepareCachedFails`, `ConfigureProfileFails`, `RecycleAborts` | an engine call throws, inside and outside a try block; a throwing `NativeState` constructor loses what it has of `cctx` and `dctx`, which no destructor frees (`allocated` counts an engine from its first context on) |
| `ThreadExit`, `BecomeUnreachable`, `Collect` | the runtime |

Assumptions on the environment: a thread inside an instance method keeps the
object reachable (the JNI reference does); a compressor is not shared between
threads except that `close()` may overlap `close()` (the class is documented for
single-threaded use, and its close path is the one part written for
concurrency); an exception that leaves a native method ends the process
(`aborted`), after which nothing is promised.

`ExclusiveEngine.tla` is what a user sees: a compressor that is not closed has an
engine no other compressor has, and graph and level change only through calls on
it. The refinement maps an object's engine to the handle its Cleanable will
return.

Runs, all on `MCCompressorPool`:

| Run | Instance | Shows |
|---|---|---|
| `pool_ownership` | 2 application threads + Cleaner, 3 objects, 4 engines, cache of 2, symmetry | `TypeOK`, `ExclusiveOwnership`, `NoUseAfterRecycle`, `CachedInSync`, `LeaksOnlyOnExitOrFailure` |
| `pool_config` | 1 application thread + Cleaner, 2 objects, 2 engines, 2 graphs, cache of 1, fairness | `RequestedGraph`, refinement of `ExclusiveEngine`, `DroppedIsReclaimed`, `ClosersReturn` |
| `pool_default_level`, `pool_reset_level` | 2 threads, 2 levels | violated: see section 10 |

The bounds reach the interesting cases: four engines fill a thread's cache and a
global cache of two and leave one to delete (every branch of `recycleState` is
taken, and the last-in-first-out order shows); two threads and the Cleaner give
two closers racing with a third recycler; two graphs tell an engine's owners
apart. `LeaksOnlyOnExitOrFailure` also says which engine is lost: the one in the cache of
the thread that exits, the one whose preparation fails, or the contexts of the one whose
constructor throws. The levels, of which `pool_config` has one to stay small, are told apart in
the two runs about them and in the theorem `Refines`, which has any number. Engine addresses are reused
after `Delete`, as an allocator does.

Fairness: a thread inside the code runs on; a thread waiting for the monitor gets
it sooner or later when it is free again and again (strong fairness of
`RecycleReset`: the monitor is held only for the length of `recycleState`); the
Cleaner thread serves its queue. Nothing obliges an application to call anything.

## 4. TrainingRegistry

One message type; types share nothing but the map that finds their state. Each
critical section of the state's mutex is one action, and so is each stretch
between two. A trained compressor is represented by the number of samples it was
trained from, 0 standing for the empty string.

| Model | Code |
|---|---|
| `StartConvert`, `CopyTrained`, `Install`, `InstallFails` | `serializerEntryForType`, `applyTrainedCompressor`: copy under the lock, install outside, swallow exceptions |
| `NotASample`, `OfferWhenComplete`, `OfferWhileTraining`, `OfferSample` | the early returns and the first critical section of `maybeAugmentTraining` |
| `TrainSucceeds`, `TrainFails` | `trainCompressorFromSamples` |
| `Publish` | the second critical section |
| `Emit`, `LeaveEarly` | the rest of `convertPayload` |
| `ConfigureTraining` | `configureTrainingNative` |
| `ThreadExit` | the thread_local cache of serializers goes |

| Run (module `MCTrainingRegistry`) | Instance | Shows |
|---|---|---|
| `training_live` | 2 threads, payloads too short, short and long, minimum 2 reconfigured to 1 or 4 or left alone, at most 2 samples, fairness | `TypeOK`, `SingleTrainer`, `EntryMatchesGeneration`, `SamplesBounded`, `PublishedIsFinal`, `EventuallyTrained`, `EveryThreadInstalls` |
| `training_large_payloads` | payloads as long as the byte target | violated: see section 10 |

The constants 4, 24, 1 KiB and 64 KiB become 2, 2, 1 and 4 in `training_live`. As in the
code, the largest number of the shortest samples does not reach the byte target, and
each of the three tests decides somewhere: with a minimum of 4, which no batch can have,
the registry fills up with two short samples and stays full (only the test for room
keeps it so), and two long ones reach the byte target and are refused by the training.
A minimum of 1 or 2 is reached by the count. `EventuallyTrained` therefore requires
training only if the minimum is, from some time on, at most the number of samples kept:
a registry that was full, or lost its batches, under a minimum that was too high
recovers. `training_large_payloads` has 2, 3, 1 and 4 with payloads that reach the
target alone. The theorems have any lengths and thresholds.
Fairness: threads convert again and again, and strong fairness of
`Offer`, `TrainSucceeds` and `Install` says that a thread that converts for ever
brings a usable payload sooner or later and that training or installing that can
succeed does not fail for ever. It does not make a refused batch succeed.

## 5. NativeCalls

`NativeMethods` writes each native method as the sequence of its steps:
tests, JNI calls, locks, pins, resources, engine calls, C++ calls that may throw. A
step that can fail carries the steps the code takes instead. `NativeCalls`
executes one method at a time and takes every outcome of every step: it
is the JVM, the engine and the allocator together, all of them free to fail. A
native method that returns with nothing left behind leaves nothing to the next one,
so one call at a time is enough; what calls do to each other is in the other
modules.

`JniRanges` has the tests of offsets and lengths with the arithmetic of the code:
`checkArrayRange` subtracts, `ensureDirectRange` adds in a `jlong`, the two slice
tests add in a `jint`.

Run `native_calls` checks, on all 44 methods, with a `jint` of 3 bits so that sums
overflow:

- `NothingLeftBehind`: every path releases what it pinned and frees what it holds.
  `compressWithProfileNative` and `compressWithSerializedNative` lose their
  `ZL_CCtx` when the output buffer cannot be allocated.
- `OutputOnlyOnSuccess`: Java sees the output array only after a successful report.
- `QuietInCritical`: no JNI call and no lock between `GetPrimitiveArrayCritical`
  and its release, except in `convertNative` (which trains and waits for locks
  while its payload is pinned), `convertSliceNative`, `describeFrameNative` and
  `compressWithSerializedNative`.
- `NoCallWhilePending`: no JNI call with an exception pending, except that four
  methods copy into an array that may not have been allocated, and that those of
  `ThrowTwice` throw over a pending exception.
- `AccessInside`: an accepted range lies in its array or buffer, except slices.
- `EscapesOnlyWhere`: the fifteen methods that can let a C++ exception out: in eleven
  nothing is caught around the call that throws, and the four that decompress numbers
  catch `std::bad_alloc` around `buffer.resize`, not the `std::length_error` of a size
  no vector can have.

The sets of exceptions are what the code does today: no path outside them breaks
the rule, and a method that starts to is found. A C++ exception is considered where
the amount allocated is decided by a payload or a sample, or where an engine
function throws; allocation of small fixed amounts is taken to succeed.
`CHECK_DEADLOCK FALSE` is set because a process that aborted stops.

## 6. StructuredCodec

A message is the sequence of tokens its writer emits, a value a sequence of 32-bit
words, a tag the path of a field (two paths are taken to hash differently; the
reader could not tell two fields of one tag apart). The writer,
`OpenZLStructuredProtoInputs`, is not in this repository and is modelled from what
the reader expects of it: `Write` is its step for one token, and a message is
`Legal` when each token fits the descriptor at its place. `SchemaAssumption` (a tree
of types), `MessagesAssumption` (well-formed messages of a type) and
`BatchAssumption` are all that is assumed. Clusters and the writer's states are recursive
functions, not operators, so that the module can be proved about.

| Model | Code |
|---|---|
| `createStructuredCompressorForType`, `collectStructuredFieldClusters` | the functions of those names |
| `buildStructuredInputs`, `Refill` | both overloads: control streams are copied into thread_local vectors, values are referred to in place |
| `Build`, `Train` | the loop over the samples of `trainStructuredNative`, then the trainer |
| `Compress` | `CCtx::compress`: the engine returns the streams in one of `Orders`, with or without tags |
| `Decode`, `IsControl`, `LooksLikeControl` | `decodeStructuredFrame`, `tryAssignStructuredControl`; `ordered` is the set of positions of `orderedValues` not yet handed out |
| `ReadStop`, `UnknownField`, `ReadMessage`, `ReadField`, `EndOfTypes` | one round of the loop of `readStructuredMessage`; `stack` holds its active calls |
| `requireStructuredCursor` | the function of that name |

Run `structured_codec` has a message type with a scalar, a repeated string and two
nested fields, one of them repeated; six messages, some of whose strings look like
control streams; all rotations and the reversal of the streams; batches of two
(330,471 states). It
shows `Faithful` (a message comes back as it was, whatever the engine does with
order and tags, and every stream is used up), `StreamsNotSwapped`,
`StreamsHaveClusters`, `LastSampleIntact` and `EveryCallEnds`. Fairness is that of
one sequential thread.

Two things it makes visible. Without tags, a value stream whose first word is the
magic number is taken for a control stream; `Ambiguous` is exactly that, and
`Faithful` excludes it. And in a training call the control streams of all samples
share the same scratch vectors: when training starts, only those of the last
sample are what they should be. `LastSampleIntact` therefore claims them for
the last sample only, and the value streams for all.

## 7. SchemaRegistry

A file is a name, the names it depends on and the types it declares; two files of
one name are two versions of a schema. `registerSchema`, `registerSchemaBytes`,
`registerSchemaInternal`, `registerDescriptorSetLocked`, `AddAll` are the stretches
between the two looks at `REGISTERED_FILE_NAMES` and the native lock;
`reusableMessage` is the first use of a type in a thread. Fallback to descriptors
compiled into the library is left out, and so is the pool's memory of
files it failed to load: a file whose dependency arrives later is taken to load.

Run `schema_registry` (two threads; a file, and a second one in two versions of
which one needs the first) shows `NamesInDatabase`, `RegisteredUnlessOther`,
`CachesAgree` and `TypesStay`. Two files give every combination of known,
unknown, incomplete and replaced; the two versions make a skipped registration
visible. Run `schema_reachable` is violated: see section 10.

## 8. BufferPool

`Base`, `BucketCount` and `BucketIndex` are the arithmetic of the buckets with an
`int` of the width `MaxInt` gives; `Poll` is `pollFromBucket`, `Pool` the release
into a bucket. A buffer may be released in another thread than the one that
acquired it, dropped (as managed compression does when the native call fails), or
come from elsewhere. That the application releases a buffer it holds, and once, is
assumed.

Run `buffer_pool` uses a 4-bit `int`, every request from -1 to the largest, minimums
and alignments from zero up, three buckets where the code has 16, two threads and
three buffers: `OneHolder`, `PolledFits` (only the buffers of one bucket are
measured, the others are trusted), `AllocatesOnlyIfNoneFits`. Three buckets are
enough for a bucket of its own, a next one and the open-ended last one; small
minimums reach the limit of buckets before the `int` overflows and large ones stop
at `MaxInt / 2`. `base << 1` cannot overflow: a bucket is only added
below `MaxInt / 2`. Run `buffer_foreign` is violated: see section 10.

A buffer released to another thread's pool stays there; nothing bounds how many
buffers a pool keeps.

## 9. Proofs

`CompressorPoolProofs` proves, for any finite or infinite sets of threads,
objects, engines and graphs and any positive cache size, from `PoolAssumption`
alone: `Typing` (`TypeOK`), `Ownership` (`ExclusiveOwnership`) and
`NoDanglingEngine` (`NoUseAfterRecycle`). The two safety invariants are not
inductive: that an engine a thread is about to park is nobody else's needs the
fact that the Cleanable it came from is no longer registered, that no method is
running in an object being closed, and that the field agrees with the cleaner's
handle until then. `IInv` adds `InObject` (what a thread's place says of the
object it is in), `AloneUnlessClosing`, `HandleAgrees` and `SlotsFilled`. There
is one lemma per action and one step per conjunct that the action can disturb;
the methods that only return share `MethodReturnsIInv`, and what changes neither
ownership nor control shares `UnchangedIInv`. `NoOtherLeak`
(`LeaksOnlyOnExitOrFailure`) follows from `StepLosesNothing`: every step except a
thread's exit, a failed preparation and a failed construction hands an engine from one
place to the next, or deletes it (`NothingLost`); and from one lemma for each of the
three, that it loses no engine but its own (`NothingElseLost`).

`CompressorPoolRefinement` first proves what a compressor finds in an engine that had
other owners: `GraphAsRequested` (`RequestedGraph`) and `CachesInSync`
(`CachedInSync`). The strengthening is `ConfigInv`, which adds `ParkedInSync` (the
engine a closer is about to park has been reset). The argument is
`EngineIsPrivate`: by ownership, the engine a thread configures, prepares or
recycles is carried by no other thread and waits in no cache, so nothing else
looks at what changes (`ConfigurePrivately`); and what reaches a cache comes from
`parking`.

It then proves `Refines`: the system implements
`ExclusiveEngine` (`ImplementsExclusiveEngine`). `Construct` is `Acquire`, the
configuring methods are `Select` and `SetLevel`, removing the Cleanable is
`Release`; preparing, resetting, parking and deleting are stutters because the
engine they touch belongs to no open compressor (`CarrierIsInvisible`,
`ParkingIsInvisible`). It needs, besides `IInv` and `ConfigInv`, that a
constructor in flight was called with a graph (`WantsGraph`).

`TrainingRegistryProofs` proves from `TrainingAssumption`, for any number of
threads, payload lengths and thresholds: `Typing`, `OneTrainer`
(`SingleTrainer`), `NoMixUp` (`EntryMatchesGeneration`), `CorpusBounded`
(`SamplesBounded`) and the action property `Final` (`PublishedIsFinal`). The
strengthening is `PublishedOnce`: there is one generation, and only a published
compressor is ever copied.

`NativeCallsProofs` proves for every width of `jint`, from `MaxIntAssumption` alone,
what each range test decides: `ArrayRangeExact`, `DirectRangeExact`,
`DirectLengthExact` are equivalences with lying inside; `SliceExactUnlessOverflow`
says when the slice tests are wrong; `RequiredLengthDecodes` that the negative
result of `encodeRequiredLength` determines the length. They give
`AccessesInside` (`AccessInside`), whatever methods are called in whatever
order.

Its second part proves what a method owes the JVM on every path: `Typing` (`TypeOK`),
`ReturnsEverything` (`NothingLeftBehind`), `CommitsOnlySuccess`
(`OutputOnlyOnSuccess`), `CriticalStaysQuiet` (`QuietInCritical`),
`PendingStopsCalls` (`NoCallWhilePending`) and `EscapesNowhereElse`
(`EscapesOnlyWhere`), all from one invariant. None of the six is inductive: whether
the next step is allowed depends on what the steps before it did. A `Bound` says what
may be pinned and held, whether an exception may be pending and what became of the
output; `Obeys` what the next step must satisfy within a bound. `SafeTo(m, s, l, {})`
says that from bound `l` the steps `s` never break the rules: there is a set of pairs
of remaining steps and bounds, closed under every step, in which each pair obeys.
The invariant `IInv` is that the method that runs has some bound that holds now
(`Within`) from which the steps it has left are safe. It quantifies over sets of pairs
without limit, so no run can evaluate it; what it implies is what `native_calls` checks.

That it is inductive has one lemma per kind of step (`PlainKeeps` ... `ResourceKeeps`).
That it holds when a method starts is `EveryMethodEnds`, where the methods come in. It
is proved as one would in a program logic: `Takes(m, l, s, k)` says that
the steps `s` lead from `l` to `k`, whatever follows them, and `Ends(m, l, s)` that
the method may end with them. There is a rule for each kind of step (`TakesVm` ...
`TakesFree`), for sequence (`TakesBoth`), for a choice (`TakesEither`) and for a loop
whose body keeps the bound (`TakesLoop`, where the closed set comes back to itself).
A helper is then proved once (`CopyKeeps`, `ConversionKeeps`,
`StructuredCompressKeeps`), wherever its caller is allowed JNI calls (`Site`), and a
method from its helpers. A method appears with the permissions its proof
needs (`m \in MayAbort`, `m \in ThrowTwice`, ...): these are the sets of the properties,
so the proof of a method that needs one it is not listed in does not go through.

`SchemaRegistryProofs` proves for any threads, files, versions and dependencies:
`TypeCorrect` (`TypeOK`), `FoundForEver` (`TypesStay`), `NamesAreInDatabase`
(`NamesInDatabase`), `RegisteredIsFound` (`RegisteredUnlessOther`) and
`CachesStayRight` (`CachesAgree`). The argument is that the database only grows,
and that finding a type is monotonic in it (`FindsGrows`); the strengthening `IInv`
says that a call about to record its names, or that has recorded them, has put
them in the database (`Handed`), and that a call for a file carries a complete
set of it (`Carried`).

`BufferPoolProofs` proves, for any threads, buffers, capacities, widths of `int`
and bucket limit: `Typing` (`TypeOK`), `Exclusive` (`OneHolder`), `LargeEnough`
(`PolledFits`) and `ReusesWhatFits` (`AllocatesOnlyIfNoneFits`). The strengthening
`Inv` adds to one holder that what is held or pooled has a capacity (`Allocated`), so
that an allocation, which takes a buffer of capacity 0, takes one that is nowhere, and
that every buffer lies in the bucket of its capacity (`Sorted`). The arithmetic is in
`BasesGrow`: the bases of the buckets that exist are positive and ascending, because
a bucket is only added below `MaxInt / 2` and while doubling has not overflowed. Then a bucket
past the one of the rounded request holds larger buffers only (`LaterIsLarger`), and an
earlier one smaller ones.

`StructuredCodecProofs` proves, for any schema, messages, orders of the streams and
length of a batch, from the three assumptions of section 6:

- `Typing` (`TypeOK`) and `LastIntact` (`LastSampleIntact`), from `Prepared`: each
  input's control streams refer to a scratch vector as it was when they were built
  or before, those of the last input to it as it is (`Young`, `Intact`).
- `Clustered` (`StreamsHaveClusters`): whatever the nesting, the path of an active
  call continued by a cluster of its type is a cluster of the root (`Calls`,
  `Deeper`), so the tag a writer puts on a stream is one
  `collectStructuredFieldClusters` finds, with its type.
- `RoundTrip` (`Faithful`) and `NotSwapped` (`StreamsNotSwapped`), from `Reading`.
  `Written(m)[n]` is the state of the writer after `n` tokens of `m`. The invariant
  says that a reader that has decoded `n` tokens has the stack of that state, and
  that what is left of every stream is what the writer appended later
  (`ControlsLeft`, `CursorsLeft`). One lemma per kind of token (`StopStep`,
  `OpenStep`, `FieldStep`) shows that the reader finds in the control streams what
  the writer's next token put there, finds the field's stream (`SlotCursor`) and takes its
  values from the front of it (`TakeCursor`). Without tags the cursor of a new field
  is the next of the streams in order; it is the right one because the writer
  creates streams in the order of first use, which is the order of `order`.

Recursive functions are unfolded, and invariants over the prefixes of a message
established, by induction over a set of naturals (`SetInduction` of
`SequenceFacts`), which the provers can do since no operator is a parameter of it.

Every invariant and action property of the passing runs is stated by a theorem. Only
model-checked are the liveness properties, since fairness is out of the prover's reach.
Documentation claims the code does not keep are refuted by TLC, not proved.

## 10. Where the code does something else than the text

- `pool_default_level`: README.md:184 says a compressor starts at the engine's
  default level. `NativeState::reset` resets the contexts, not the compressor
  that holds the level, so a new compressor on a recycled engine starts at the
  level its previous owner set.
- `pool_reset_level`: README.md:205 says levels are sticky until `reset()`; they
  outlive it, for the same reason. The test `resetPreservesChosenCompressionLevel` of
  `TestCompressionLevels` asserts that they do: test and code agree against the text.
- `training_large_payloads`: the comment in OpenZLProtobuf.cpp:854 says that
  after a failed training more samples are gathered. The failed batch is gone,
  and when three payloads already reach 64 KiB while four are required, every
  batch is refused: the type is never trained.
- `schema_reachable`: the Javadoc of `registerSchema` (OpenZLProtobuf.java:457) says
  it registers all descriptors reachable from the one supplied. A file whose name
  is known is skipped, in Java and in the database, also when it is another
  version: the call returns and the types only the new version has are unknown.
- `buffer_foreign`: the Javadoc of `release` (OpenZLBufferManager.java:62) says
  buffers not allocated by the manager are ignored. Every direct buffer is pooled.

## 11. Not modelled

The engine's compression and training algorithms, protobuf parsing, the JVM and the
writer of structured streams are external and appear as choices. The engine's table
of graphs, which grows with every `configureProfile` and survives recycling, and
the data arena of `setDataArenaNative` are the engine's.

`OpenZLNative` is a flag tested before and inside one synchronized block; no
interleaving can misuse it, and the rest extracts a file. The Java method `train`
writes, reads and deletes files in sequence; its directory stays behind when
writing an input fails, since the `try` begins after it. `JNI_OnLoad`, the
counters of the structured codec, `graphIdFromOrdinal` and `graphOrdinalFromId`
(constant tables) and the text of graph descriptions have no behaviour a property
could be about. Recursive message types make
`collectStructuredFieldClusters` recurse without end; the schemas of the model are
trees. `parseStructuredSample` adds two 32-bit sizes read from a sample; sizes are
not modelled, a sample is well formed or rejected. The benchmark, the star
catalogue utilities and the build scripts are sequential programs around the
binding.
