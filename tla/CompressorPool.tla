--------------------------- MODULE CompressorPool ---------------------------
(***************************************************************************)
(* The lifecycle of the native engines (NativeState) behind the Java class *)
(* OpenZLCompressor.                                                       *)
(*                                                                         *)
(* A constructor obtains an engine from the calling thread's one-element   *)
(* cache, else from the process-wide LIFO cache, else by allocating one    *)
(* (acquireState).  close(), or the java.lang.ref.Cleaner thread once the  *)
(* object is unreachable, resets the engine and parks it in the same two   *)
(* caches, or deletes it when both are full (recycleState).  Every other   *)
(* method reads the field nativeHandle and works on the engine it names.   *)
(*                                                                         *)
(* An action is one stretch of code between two points where another       *)
(* thread can intervene: the mutex of the global cache, the class monitor  *)
(* of destroyCompressorHandle, and the entry and exit of a native method.  *)
(***************************************************************************)
EXTENDS Integers

CONSTANTS
    AppThreads,      \* threads that run application code
    CleanerThread,   \* the single thread of java.lang.ref.Cleaner
    Objs,            \* slots for OpenZLCompressor objects; a slot is reused after collection
    States,          \* addresses NativeState can be allocated at (bounds allocation);
                     \* one whose contexts were lost is not used again
    Graphs,          \* graphs a compressor can start from
    Levels,          \* compression levels
    DefaultLevel,    \* the level a fresh openzl::Compressor reports
    MaxGlobalCache,  \* MAX_GLOBAL_CACHE
    Null, NoGraph, NoThread

Threads == AppThreads \cup {CleanerThread}
Slots   == 0 .. MaxGlobalCache - 1

ASSUME PoolAssumption ==
    /\ MaxGlobalCache \in Nat \ {0}
    /\ CleanerThread \notin AppThreads
    /\ NoThread \notin Threads
    /\ Null \notin States
    /\ Null \notin Objs
    /\ NoGraph \notin Graphs
    /\ DefaultLevel \in Levels

VARIABLES
    \* Java objects
    phase,           \* "none", "live" (reachable) or "unreachable"
    nativeHandle,    \* the field of that name
    cleanerHandle,   \* NativeHandleCleaner.handle of the object's cleaner
    registered,      \* its Cleanable is still in the Cleaner's list
    ctorGraph,       \* the final field graph
    \* native caches
    tlsCachedState,  \* one per thread
    globalCache, globalCacheSize,
    allocated,       \* engines whose cctx or dctx has been created and not freed
    \* engine configuration
    startingGraph,   \* NativeState::startingGraph
    cctxGraph,       \* the graph its compression context is set to run
    level,           \* compressionLevel of NativeState::compressor
    \* control
    at,              \* where each thread is
    objOf, stateOf, want,   \* the object, engine and graph it works with there
    destroyLock,     \* the monitor of the static synchronized destroyCompressorHandle
    aborted          \* a C++ exception left a native method: the process is gone

objVars    == <<phase, nativeHandle, cleanerHandle, registered, ctorGraph>>
cacheVars  == <<tlsCachedState, globalCache, globalCacheSize, allocated>>
configVars == <<startingGraph, cctxGraph, level>>
threadVars == <<at, objOf, stateOf, want, destroyLock>>
vars       == <<objVars, cacheVars, configVars, threadVars, aborted>>

InTransit == {"took", "built", "cleaning", "parking"}
Closing   == {"cleaning", "parking", "zeroing"}
Points    == {"idle", "using"} \cup InTransit \cup Closing

ObjTypeOK ==
    /\ phase \in [Objs -> {"none", "live", "unreachable"}]
    /\ nativeHandle \in [Objs -> States \cup {Null}]
    /\ cleanerHandle \in [Objs -> States \cup {Null}]
    /\ registered \in [Objs -> BOOLEAN]
    /\ ctorGraph \in [Objs -> Graphs \cup {NoGraph}]

CacheTypeOK ==
    /\ tlsCachedState \in [Threads -> States \cup {Null}]
    /\ globalCache \in [Slots -> States \cup {Null}]
    /\ globalCacheSize \in 0 .. MaxGlobalCache
    /\ allocated \subseteq States

ConfigTypeOK ==
    /\ startingGraph \in [States -> Graphs \cup {NoGraph}]
    /\ cctxGraph \in [States -> Graphs \cup {NoGraph}]
    /\ level \in [States -> Levels]

ThreadTypeOK ==
    /\ at \in [Threads -> Points]
    /\ objOf \in [Threads -> Objs \cup {Null}]
    /\ stateOf \in [Threads -> States \cup {Null}]
    /\ want \in [Threads -> Graphs \cup {NoGraph}]
    /\ destroyLock \in Threads \cup {NoThread}
    /\ aborted \in BOOLEAN

TypeOK == ObjTypeOK /\ CacheTypeOK /\ ConfigTypeOK /\ ThreadTypeOK

Init ==
    /\ phase = [o \in Objs |-> "none"]
    /\ nativeHandle = [o \in Objs |-> Null]
    /\ cleanerHandle = [o \in Objs |-> Null]
    /\ registered = [o \in Objs |-> FALSE]
    /\ ctorGraph = [o \in Objs |-> NoGraph]
    /\ tlsCachedState = [t \in Threads |-> Null]
    /\ globalCache = [i \in Slots |-> Null]
    /\ globalCacheSize = 0
    /\ allocated = {}
    /\ startingGraph = [s \in States |-> NoGraph]
    /\ cctxGraph = [s \in States |-> NoGraph]
    /\ level = [s \in States |-> DefaultLevel]
    /\ at = [t \in Threads |-> "idle"]
    /\ objOf = [t \in Threads |-> Null]
    /\ stateOf = [t \in Threads |-> Null]
    /\ want = [t \in Threads |-> NoGraph]
    /\ destroyLock = NoThread
    /\ aborted = FALSE

-----------------------------------------------------------------------------
(* Control helpers *)

Goto(t, point, o, s, g) ==
    /\ at' = [at EXCEPT ![t] = point]
    /\ objOf' = [objOf EXCEPT ![t] = o]
    /\ stateOf' = [stateOf EXCEPT ![t] = s]
    /\ want' = [want EXCEPT ![t] = g]

Return(t) == Goto(t, "idle", Null, Null, NoGraph)

NobodyIn(o) == \A u \in Threads : objOf[u] # o

\* Only closers are in o: the class is not thread safe, so a caller may let
\* close() overlap with another close() but with no other method.
OnlyClosersIn(o) == \A u \in Threads : objOf[u] = o => at[u] \in Closing

-----------------------------------------------------------------------------
(* new OpenZLCompressor(g): acquireState *)

\* Fault: the thread's cache keeps its pointer.
AcquireFromTlsKeeping(t, o, g) ==
    /\ at[t] = "idle" /\ phase[o] = "none" /\ NobodyIn(o)
    /\ tlsCachedState[t] # Null
    /\ Goto(t, "took", o, tlsCachedState[t], g)
    /\ UNCHANGED <<objVars, cacheVars, configVars, destroyLock, aborted>>

\* acquireState, first branch: the engine this thread parked last.
AcquireFromTls(t, o, g) ==
    /\ at[t] = "idle" /\ phase[o] = "none" /\ NobodyIn(o)
    /\ tlsCachedState[t] # Null
    /\ tlsCachedState' = [tlsCachedState EXCEPT ![t] = Null]
    /\ Goto(t, "took", o, tlsCachedState[t], g)
    /\ UNCHANGED <<objVars, globalCache, globalCacheSize, allocated, configVars,
                   destroyLock, aborted>>

\* Fault: the size is not decremented.
AcquireFromGlobalKeeping(t, o, g) ==
    /\ at[t] = "idle" /\ phase[o] = "none" /\ NobodyIn(o)
    /\ tlsCachedState[t] = Null
    /\ globalCacheSize > 0
    /\ Goto(t, "took", o, globalCache[globalCacheSize - 1], g)
    /\ UNCHANGED <<objVars, cacheVars, configVars, destroyLock, aborted>>

\* Second branch: pop the global cache under its mutex; the slot keeps its
\* pointer and only the size tells that it is free.
AcquireFromGlobal(t, o, g) ==
    /\ at[t] = "idle" /\ phase[o] = "none" /\ NobodyIn(o)
    /\ tlsCachedState[t] = Null
    /\ globalCacheSize > 0
    /\ globalCacheSize' = globalCacheSize - 1
    /\ Goto(t, "took", o, globalCache[globalCacheSize - 1], g)
    /\ UNCHANGED <<objVars, tlsCachedState, globalCache, allocated, configVars,
                   destroyLock, aborted>>

\* Third branch: new NativeState(g).
AcquireNew(t, o, g, s) ==
    /\ at[t] = "idle" /\ phase[o] = "none" /\ NobodyIn(o)
    /\ tlsCachedState[t] = Null
    /\ globalCacheSize = 0
    /\ s \notin allocated
    /\ allocated' = allocated \cup {s}
    /\ startingGraph' = [startingGraph EXCEPT ![s] = g]
    /\ cctxGraph' = [cctxGraph EXCEPT ![s] = g]
    /\ level' = [level EXCEPT ![s] = DefaultLevel]
    /\ Goto(t, "built", o, s, g)
    /\ UNCHANGED <<objVars, tlsCachedState, globalCache, globalCacheSize,
                   destroyLock, aborted>>

\* The constructor of NativeState throws, nativeCreate returns 0 and the Java
\* constructor throws.  cctx and dctx are raw pointers and no destructor runs for
\* a half-built object: what exists of them when one cannot be created, or when
\* applyDefaultParameters or configureGraph throws, is never freed.
AcquireNewFails(t) ==
    /\ at[t] = "idle"
    /\ tlsCachedState[t] = Null
    /\ globalCacheSize = 0
    /\ \/ UNCHANGED allocated       \* neither context existed yet
       \/ \E s \in States \ allocated : allocated' = allocated \cup {s}
    /\ UNCHANGED <<objVars, tlsCachedState, globalCache, globalCacheSize, configVars,
                   threadVars, aborted>>

\* Fault: reset() without setGraph(g), the previous owner's graph stays.
PrepareCachedNoSetGraph(t) ==
    /\ at[t] = "took"
    /\ cctxGraph' = [cctxGraph EXCEPT ![stateOf[t]] = startingGraph[stateOf[t]]]
    /\ Goto(t, "built", objOf[t], stateOf[t], want[t])
    /\ UNCHANGED <<objVars, cacheVars, startingGraph, level, destroyLock, aborted>>

\* A cached engine: reset() and then setGraph(g), outside any lock.
PrepareCached(t) ==
    /\ at[t] = "took"
    /\ startingGraph' = [startingGraph EXCEPT ![stateOf[t]] = want[t]]
    /\ cctxGraph' = [cctxGraph EXCEPT ![stateOf[t]] = want[t]]
    /\ Goto(t, "built", objOf[t], stateOf[t], want[t])
    /\ UNCHANGED <<objVars, cacheVars, level, destroyLock, aborted>>

\* ... or an engine call fails: nativeCreate catches the exception, returns 0,
\* and no pointer to the engine is left anywhere.
PrepareCachedFails(t) ==
    /\ at[t] = "took"
    /\ \E g \in {startingGraph[stateOf[t]], want[t]} :
          startingGraph' = [startingGraph EXCEPT ![stateOf[t]] = g]
    /\ cctxGraph' = [cctxGraph EXCEPT ![stateOf[t]] = NoGraph]
    /\ Return(t)
    /\ UNCHANGED <<objVars, cacheVars, level, destroyLock, aborted>>

\* The rest of the Java constructor: the field, the NativeHandleCleaner and its
\* registration, before any other thread can see the object.
Construct(t) ==
    /\ at[t] = "built"
    /\ phase' = [phase EXCEPT ![objOf[t]] = "live"]
    /\ nativeHandle' = [nativeHandle EXCEPT ![objOf[t]] = stateOf[t]]
    /\ cleanerHandle' = [cleanerHandle EXCEPT ![objOf[t]] = stateOf[t]]
    /\ registered' = [registered EXCEPT ![objOf[t]] = TRUE]
    /\ ctorGraph' = [ctorGraph EXCEPT ![objOf[t]] = want[t]]
    /\ Return(t)
    /\ UNCHANGED <<cacheVars, configVars, destroyLock, aborted>>

-----------------------------------------------------------------------------
(* Methods of an open compressor.  getState reads the handle on entry; a     *)
(* method that finds 0 returns at once and changes nothing (ensureState).    *)

EnterMethod(t, o) ==
    /\ at[t] = "idle" /\ phase[o] = "live" /\ NobodyIn(o)
    /\ nativeHandle[o] # Null
    /\ Goto(t, "using", o, nativeHandle[o], NoGraph)
    /\ UNCHANGED <<objVars, cacheVars, configVars, destroyLock, aborted>>

\* compress, decompress, getParameter, serialize, ...: whether they succeed or
\* fail they leave the configuration alone.
LeaveMethod(t) ==
    /\ at[t] = "using"
    /\ Return(t)
    /\ UNCHANGED <<objVars, cacheVars, configVars, destroyLock, aborted>>

SetParameter(t, v) ==
    /\ at[t] = "using"
    /\ level' = [level EXCEPT ![stateOf[t]] = v]
    /\ Return(t)
    /\ UNCHANGED <<objVars, cacheVars, startingGraph, cctxGraph, destroyLock, aborted>>

\* resetNative: NativeState::reset selects startingGraph again and does not
\* touch the parameters of the compressor.
Reset(t) ==
    /\ at[t] = "using"
    /\ cctxGraph' = [cctxGraph EXCEPT ![stateOf[t]] = startingGraph[stateOf[t]]]
    /\ Return(t)
    /\ UNCHANGED <<objVars, cacheVars, startingGraph, level, destroyLock, aborted>>

\* configureProfileNative and configureSddlNative when setGraph succeeds.
Configure(t, g) ==
    /\ at[t] = "using"
    /\ startingGraph' = [startingGraph EXCEPT ![stateOf[t]] = g]
    /\ cctxGraph' = [cctxGraph EXCEPT ![stateOf[t]] = g]
    /\ Return(t)
    /\ UNCHANGED <<objVars, cacheVars, level, destroyLock, aborted>>

\* configureProfileNative when configureGraph throws inside setGraph: the field
\* is already assigned, the context keeps its graph or has none.
ConfigureProfileFails(t, g) ==
    /\ at[t] = "using"
    /\ startingGraph' = [startingGraph EXCEPT ![stateOf[t]] = g]
    /\ \E h \in {cctxGraph[stateOf[t]], NoGraph} :
          cctxGraph' = [cctxGraph EXCEPT ![stateOf[t]] = h]
    /\ Return(t)
    /\ UNCHANGED <<objVars, cacheVars, level, destroyLock, aborted>>

\* resetNative, setParameter and configureSddlNative call the engine outside any
\* try block.
MethodAborts(t) ==
    /\ at[t] = "using"
    /\ aborted' = TRUE
    /\ UNCHANGED <<objVars, cacheVars, configVars, threadVars>>

-----------------------------------------------------------------------------
(* close() and the Cleaner *)

\* close() -> Cleanable.clean(): the thread that removes the Cleanable from the
\* Cleaner's list runs NativeHandleCleaner.run(); every other call is a no-op.
CloseClean(t, o) ==
    /\ at[t] = "idle" /\ phase[o] = "live" /\ OnlyClosersIn(o)
    /\ registered[o]
    /\ registered' = [registered EXCEPT ![o] = FALSE]
    /\ Goto(t, "cleaning", o, cleanerHandle[o], NoGraph)
    /\ UNCHANGED <<phase, nativeHandle, cleanerHandle, ctorGraph, cacheVars, configVars,
                   destroyLock, aborted>>

CloseAgain(t, o) ==
    /\ at[t] = "idle" /\ phase[o] = "live" /\ OnlyClosersIn(o)
    /\ ~registered[o]
    /\ Goto(t, "zeroing", o, Null, NoGraph)
    /\ UNCHANGED <<objVars, cacheVars, configVars, destroyLock, aborted>>

\* The Cleaner thread takes an unreachable object's Cleanable off its queue.
CleanerTakes(o) ==
    /\ at[CleanerThread] = "idle"
    /\ phase[o] = "unreachable" /\ registered[o]
    /\ registered' = [registered EXCEPT ![o] = FALSE]
    /\ Goto(CleanerThread, "cleaning", o, cleanerHandle[o], NoGraph)
    /\ UNCHANGED <<phase, nativeHandle, cleanerHandle, ctorGraph, cacheVars, configVars,
                   destroyLock, aborted>>

\* Fault: recycleState without reset().
RecycleNoReset(t) ==
    /\ at[t] = "cleaning"
    /\ destroyLock = NoThread
    /\ destroyLock' = t
    /\ Goto(t, "parking", objOf[t], stateOf[t], NoGraph)
    /\ UNCHANGED <<objVars, cacheVars, configVars, aborted>>

\* destroyCompressorHandle (static synchronized) -> recycleState: reset().
RecycleReset(t) ==
    /\ at[t] = "cleaning"
    /\ destroyLock = NoThread
    /\ destroyLock' = t
    /\ cctxGraph' = [cctxGraph EXCEPT ![stateOf[t]] = startingGraph[stateOf[t]]]
    /\ Goto(t, "parking", objOf[t], stateOf[t], NoGraph)
    /\ UNCHANGED <<objVars, cacheVars, startingGraph, level, aborted>>

\* destroyCompressorHandleNative has no try block around recycleState.
RecycleAborts(t) ==
    /\ at[t] = "cleaning"
    /\ destroyLock = NoThread
    /\ aborted' = TRUE
    /\ UNCHANGED <<objVars, cacheVars, configVars, threadVars>>

\* Fault: the Cleaner thread keeps the monitor.
AfterRecycleKeepingMonitor(t) ==
    LET o == objOf[t] IN
    /\ destroyLock' = IF t = CleanerThread THEN t ELSE NoThread
    /\ cleanerHandle' = [cleanerHandle EXCEPT ![o] = Null]
    /\ IF t = CleanerThread
       THEN /\ phase' = [phase EXCEPT ![o] = "none"]
            /\ nativeHandle' = [nativeHandle EXCEPT ![o] = Null]
            /\ ctorGraph' = [ctorGraph EXCEPT ![o] = NoGraph]
            /\ Return(t)
       ELSE /\ UNCHANGED <<phase, nativeHandle, ctorGraph>>
            /\ Goto(t, "zeroing", o, Null, NoGraph)

\* After recycleState: run() clears its handle; close() goes on to clear the
\* field, while for the Cleaner thread the object itself is gone.
AfterRecycle(t) ==
    LET o == objOf[t] IN
    /\ destroyLock' = NoThread
    /\ cleanerHandle' = [cleanerHandle EXCEPT ![o] = Null]
    /\ IF t = CleanerThread
       THEN /\ phase' = [phase EXCEPT ![o] = "none"]
            /\ nativeHandle' = [nativeHandle EXCEPT ![o] = Null]
            /\ ctorGraph' = [ctorGraph EXCEPT ![o] = NoGraph]
            /\ Return(t)
       ELSE /\ UNCHANGED <<phase, nativeHandle, ctorGraph>>
            /\ Goto(t, "zeroing", o, Null, NoGraph)

ParkInTls(t) ==
    /\ at[t] = "parking"
    /\ tlsCachedState[t] = Null
    /\ tlsCachedState' = [tlsCachedState EXCEPT ![t] = stateOf[t]]
    /\ AfterRecycle(t)
    /\ UNCHANGED <<registered, globalCache, globalCacheSize, allocated, configVars, aborted>>

\* Fault: off by one in the capacity test.
ParkInGlobalUnbounded(t) ==
    /\ at[t] = "parking"
    /\ tlsCachedState[t] # Null
    /\ globalCacheSize <= MaxGlobalCache
    /\ globalCache' = [globalCache EXCEPT ![globalCacheSize] = stateOf[t]]
    /\ globalCacheSize' = globalCacheSize + 1
    /\ AfterRecycle(t)
    /\ UNCHANGED <<registered, tlsCachedState, allocated, configVars, aborted>>

ParkInGlobal(t) ==
    /\ at[t] = "parking"
    /\ tlsCachedState[t] # Null
    /\ globalCacheSize < MaxGlobalCache
    /\ globalCache' = [globalCache EXCEPT ![globalCacheSize] = stateOf[t]]
    /\ globalCacheSize' = globalCacheSize + 1
    /\ AfterRecycle(t)
    /\ UNCHANGED <<registered, tlsCachedState, allocated, configVars, aborted>>

\* Fault: the engine that fits in no cache is forgotten.
DeleteForgets(t) ==
    /\ at[t] = "parking"
    /\ tlsCachedState[t] # Null
    /\ globalCacheSize = MaxGlobalCache
    /\ AfterRecycle(t)
    /\ UNCHANGED <<registered, tlsCachedState, globalCache, globalCacheSize, allocated,
                   configVars, aborted>>

Delete(t) ==
    /\ at[t] = "parking"
    /\ tlsCachedState[t] # Null
    /\ globalCacheSize = MaxGlobalCache
    /\ allocated' = allocated \ {stateOf[t]}
    /\ AfterRecycle(t)
    /\ UNCHANGED <<registered, tlsCachedState, globalCache, globalCacheSize, configVars, aborted>>

\* Fault: close() leaves the field alone.
ZeroHandleForgotten(t) ==
    /\ at[t] = "zeroing"
    /\ Return(t)
    /\ UNCHANGED <<objVars, cacheVars, configVars, destroyLock, aborted>>

\* The last line of close(): nativeHandle = 0.
ZeroHandle(t) ==
    /\ at[t] = "zeroing"
    /\ nativeHandle' = [nativeHandle EXCEPT ![objOf[t]] = Null]
    /\ Return(t)
    /\ UNCHANGED <<phase, cleanerHandle, registered, ctorGraph, cacheVars, configVars,
                   destroyLock, aborted>>

-----------------------------------------------------------------------------
(* The Java runtime *)

\* The last reference to o goes; a thread inside one of its methods holds one.
BecomeUnreachable(o) ==
    /\ phase[o] = "live" /\ NobodyIn(o)
    /\ phase' = [phase EXCEPT ![o] = "unreachable"]
    /\ UNCHANGED <<nativeHandle, cleanerHandle, registered, ctorGraph, cacheVars, configVars,
                   threadVars, aborted>>

\* A closed object has no Cleanable left and is simply collected.
Collect(o) ==
    /\ phase[o] = "unreachable" /\ ~registered[o] /\ NobodyIn(o)
    /\ phase' = [phase EXCEPT ![o] = "none"]
    /\ nativeHandle' = [nativeHandle EXCEPT ![o] = Null]
    /\ ctorGraph' = [ctorGraph EXCEPT ![o] = NoGraph]
    /\ UNCHANGED <<cleanerHandle, registered, cacheVars, configVars, threadVars, aborted>>

\* A thread ends (and another takes its place): the thread_local pointer goes
\* without the engine being freed.
ThreadExit(t) ==
    /\ at[t] = "idle"
    /\ tlsCachedState[t] # Null
    /\ tlsCachedState' = [tlsCachedState EXCEPT ![t] = Null]
    /\ UNCHANGED <<objVars, globalCache, globalCacheSize, allocated, configVars, threadVars,
                   aborted>>

-----------------------------------------------------------------------------

Acquire(t) == \E o \in Objs, g \in Graphs :
    \/ AcquireFromTls(t, o, g)
    \/ AcquireFromGlobal(t, o, g)
    \/ \E s \in States : AcquireNew(t, o, g, s)

\* What a thread inside a method goes on to do without choosing to.
Proceed(t) ==
    \/ PrepareCached(t)
    \/ PrepareCachedFails(t)
    \/ Construct(t)
    \/ LeaveMethod(t)
    \/ RecycleReset(t)
    \/ ParkInTls(t)
    \/ ParkInGlobal(t)
    \/ Delete(t)
    \/ ZeroHandle(t)

App(t) ==
    \/ Acquire(t)
    \/ AcquireNewFails(t)
    \/ \E o \in Objs : EnterMethod(t, o) \/ CloseClean(t, o) \/ CloseAgain(t, o)
    \/ \E v \in Levels : SetParameter(t, v)
    \/ Reset(t)
    \/ \E g \in Graphs : Configure(t, g) \/ ConfigureProfileFails(t, g)
    \/ MethodAborts(t)
    \/ ThreadExit(t)

Runtime == \E o \in Objs : BecomeUnreachable(o) \/ Collect(o)

Aborted == aborted /\ UNCHANGED vars

Next ==
    \/ /\ ~aborted
       /\ \/ \E t \in AppThreads : App(t)
          \/ \E t \in Threads : Proceed(t) \/ RecycleAborts(t)
          \/ \E o \in Objs : CleanerTakes(o)
          \/ Runtime
    \/ Aborted

\* Threads inside the code keep running, a thread waiting for a monitor gets it
\* sooner or later, and the Cleaner thread serves every entry of its queue;
\* nothing obliges an application to call anything.
Fairness ==
    /\ \A t \in Threads : WF_vars(~aborted /\ Proceed(t)) /\ SF_vars(~aborted /\ RecycleReset(t))
    /\ \A o \in Objs : SF_vars(~aborted /\ CleanerTakes(o))

Spec == Init /\ [][Next]_vars

FairSpec == Spec /\ Fairness

-----------------------------------------------------------------------------
(* Correctness *)

CachedSlots == 0 .. globalCacheSize - 1
Carries(t)  == at[t] \in InTransit

\* Every engine is in at most one place: owned by a compressor that is not
\* closed, carried by a thread between a cache and a compressor, in one
\* thread's cache or in one slot of the global cache (acquireState and
\* recycleState, OpenZLNativeSupport.cpp; close() and the Cleaner,
\* OpenZLCompressor.java).
OneOwner ==
    \A o, p \in Objs : registered[o] /\ registered[p] /\ cleanerHandle[o] = cleanerHandle[p] => o = p
OneCarrier ==
    \A t, u \in Threads : Carries(t) /\ Carries(u) /\ stateOf[t] = stateOf[u] => t = u
OneThreadCache ==
    \A t, u \in Threads :
        tlsCachedState[t] # Null /\ tlsCachedState[t] = tlsCachedState[u] => t = u
OneSlot ==
    \A i, j \in Slots :
        i < globalCacheSize /\ j < globalCacheSize /\ globalCache[i] = globalCache[j] => i = j
OwnedNotElsewhere ==
    \A o \in Objs : registered[o] =>
        /\ \A t \in Threads : Carries(t) => stateOf[t] # cleanerHandle[o]
        /\ \A t \in Threads : tlsCachedState[t] # cleanerHandle[o]
        /\ \A i \in Slots : i < globalCacheSize => globalCache[i] # cleanerHandle[o]
CarriedNotCached ==
    \A t \in Threads : Carries(t) =>
        /\ \A u \in Threads : tlsCachedState[u] # stateOf[t]
        /\ \A i \in Slots : i < globalCacheSize => globalCache[i] # stateOf[t]
CachedOnce ==
    \A u \in Threads, i \in Slots : i < globalCacheSize => globalCache[i] # tlsCachedState[u]

ExclusiveOwnership ==
    /\ OneOwner /\ OneCarrier /\ OneThreadCache /\ OneSlot
    /\ OwnedNotElsewhere /\ CarriedNotCached /\ CachedOnce

\* Nothing that can still be reached has been deleted: neither the engine a
\* native method in flight works on, nor the engine of an open compressor, nor
\* one in a cache.  The engine of a method in flight is also still its
\* object's own, although close() and the Cleaner recycle engines meanwhile.
NoUseAfterRecycle ==
    /\ \A t \in Threads : at[t] = "using" =>
          /\ registered[objOf[t]]
          /\ stateOf[t] = cleanerHandle[objOf[t]]
    /\ \A o \in Objs : registered[o] => cleanerHandle[o] \in allocated
    /\ \A t \in Threads : Carries(t) => stateOf[t] \in allocated
    /\ \A t \in Threads : tlsCachedState[t] # Null => tlsCachedState[t] \in allocated
    /\ \A i \in Slots : i < globalCacheSize => globalCache[i] \in allocated

\* An engine taken from a cache, whoever configured it before, runs the graph
\* the constructor asked for, both in its context and after the next reset().
RequestedGraph ==
    \A t \in Threads : at[t] = "built" =>
        /\ cctxGraph[stateOf[t]] = want[t]
        /\ startingGraph[stateOf[t]] = want[t]

\* An engine whose graph selection failed half way (setGraph assigns
\* startingGraph before configureGraph can throw) never waits in a cache in
\* that condition.
CachedInSync ==
    /\ \A t \in Threads : LET s == tlsCachedState[t] IN
          s # Null => cctxGraph[s] = startingGraph[s]
    /\ \A i \in Slots : LET s == globalCache[i] IN
          i < globalCacheSize => cctxGraph[s] = startingGraph[s]

\* Engines that are allocated and in no place can never be freed.
Reachable ==
    {cleanerHandle[o] : o \in {p \in Objs : registered[p]}}
    \cup {stateOf[t] : t \in {u \in Threads : Carries(u)}}
    \cup {tlsCachedState[t] : t \in Threads}
    \cup {globalCache[i] : i \in {j \in Slots : j < globalCacheSize}}
Leaked == allocated \ Reachable

\* An engine leaks only when its thread exits with it in the thread's cache, or
\* when constructing it or preparing it for a new compressor fails, and then no
\* other engine leaks with it; close(), concurrent closes, the Cleaner and full
\* caches never lose one.
LeaksOnlyOnExitOrFailure ==
    [][\A s \in Leaked' \ Leaked : \E t \in AppThreads :
          \/ ThreadExit(t) /\ s = tlsCachedState[t]
          \/ PrepareCachedFails(t) /\ s = stateOf[t]
          \/ AcquireNewFails(t) /\ s \notin allocated]_vars

\* A compressor dropped without close() gets its engine back into a cache (or
\* deleted) by the Cleaner thread, whatever monitor other closers hold, unless
\* the process aborts.
DroppedIsReclaimed ==
    \A o \in Objs :
        phase[o] = "unreachable" /\ registered[o] ~> phase[o] = "none" \/ aborted

\* A closer that has entered recycleState always gets out of close() again.
ClosersReturn ==
    \A t \in Threads : at[t] = "cleaning" ~> at[t] = "idle" \/ aborted

-----------------------------------------------------------------------------
(* What the documentation promises and the code does not do *)

\* README.md:184 "A compressor starts at the engine's default level".
StartsAtDefaultLevel ==
    \A t \in Threads : at[t] = "built" => level[stateOf[t]] = DefaultLevel

\* README.md:205 "All level changes are sticky until you call reset()".
ResetRestoresLevel ==
    [][\A t \in AppThreads : Reset(t) => level'[stateOf[t]] = DefaultLevel]_vars

\* docs/index.html:285 "Reset between experiments to clear the previous graph
\* state": after reset() the graph is again the one given to the constructor.
ResetClearsGraph ==
    [][\A t \in AppThreads : Reset(t) => cctxGraph'[stateOf[t]] = ctorGraph[objOf[t]]]_vars

-----------------------------------------------------------------------------
(* Refinement: the engine an open compressor owns is the one its Cleanable  *)
(* will return.                                                            *)

Owned(o) == IF registered[o] THEN cleanerHandle[o] ELSE Null

Abstract == INSTANCE ExclusiveEngine WITH
    engine <- [o \in Objs |-> Owned(o)],
    graph  <- [o \in Objs |-> IF registered[o] THEN cctxGraph[cleanerHandle[o]] ELSE NoGraph],
    level  <- [o \in Objs |-> IF registered[o] THEN level[cleanerHandle[o]] ELSE Null]

\* The pool, its caches and its threads are invisible: the system implements
\* ExclusiveEngine.
ImplementsExclusiveEngine == Abstract!Spec

=============================================================================
