---------------------- MODULE CompressorPoolRefinement ----------------------
(***************************************************************************)
(* What a compressor finds in an engine that had other owners before, and  *)
(* from it the refinement: CompressorPool implements ExclusiveEngine.      *)
(* Construct is Acquire, the methods that configure are Select and         *)
(* SetLevel, the removal of the Cleanable is Release, and everything else  *)
(* is invisible.                                                           *)
(***************************************************************************)
EXTENDS CompressorPoolProofs

-----------------------------------------------------------------------------
(* The configuration of engines.                                           *)

\* The engine a closer is about to park runs the graph it would run after a reset.
ParkedInSync ==
    \A t \in Threads : at[t] = "parking" => cctxGraph[stateOf[t]] = startingGraph[stateOf[t]]

\* Inductive together with IInv.
ConfigInv == RequestedGraph /\ CachedInSync /\ ParkedInSync

-----------------------------------------------------------------------------

LEMMA InitConfigInv == Init => ConfigInv
  BY PoolAssumption DEF Init, ConfigInv, RequestedGraph, CachedInSync, ParkedInSync, PoolAssumption, Slots

\* The engine a thread works on, prepares or recycles is in no other place.
LEMMA EngineIsPrivate ==
  ASSUME IInv, NEW t \in Threads, at[t] \in {"using", "took", "cleaning"}
  PROVE  /\ stateOf[t] \in States
         /\ \A u \in Threads : u # t /\ Carries(u) => stateOf[u] # stateOf[t]
         /\ \A u \in Threads : tlsCachedState[u] # stateOf[t]
         /\ \A i \in Slots : i < globalCacheSize => globalCache[i] # stateOf[t]
  <1> USE DEF IInv, TypeOK, ThreadTypeOK, Places, InObject, ExclusiveOwnership, Carries, InTransit
  <1>1. CASE at[t] = "using"
    <2>1. objOf[t] \in Objs /\ registered[objOf[t]] /\ stateOf[t] = cleanerHandle[objOf[t]]
      BY <1>1 DEF NoUseAfterRecycle
    <2> QED
      BY <1>1, <2>1 DEF OwnedNotElsewhere
  <1>2. CASE at[t] \in {"took", "cleaning"}
    BY <1>2 DEF OneCarrier, CarriedNotCached
  <1> QED
    BY <1>1, <1>2

\* Changing the configuration of that engine alone, and returning, or going on to
\* a point that asks nothing of it, disturbs nobody.
LEMMA ConfigurePrivately ==
  ASSUME IInv, ConfigInv, NEW t \in Threads, at[t] \in {"using", "took"},
         NEW g \in Graphs \cup {NoGraph}, NEW h \in Graphs \cup {NoGraph},
         startingGraph' = [startingGraph EXCEPT ![stateOf[t]] = g],
         cctxGraph' = [cctxGraph EXCEPT ![stateOf[t]] = h],
         Return(t), UNCHANGED cacheVars
  PROVE  ConfigInv'
  <1>0. /\ stateOf[t] \in States
        /\ \A u \in Threads : u # t /\ Carries(u) => stateOf[u] # stateOf[t]
        /\ \A u \in Threads : tlsCachedState[u] # stateOf[t]
        /\ \A i \in Slots : i < globalCacheSize => globalCache[i] # stateOf[t]
    BY EngineIsPrivate
  <1>a. \A s \in States : s # stateOf[t] =>
           startingGraph'[s] = startingGraph[s] /\ cctxGraph'[s] = cctxGraph[s]
    BY DEF IInv, TypeOK, ConfigTypeOK
  <1>b. \A u \in Threads : at'[u] \in {"built", "parking"} =>
           /\ u # t /\ at'[u] = at[u] /\ stateOf'[u] = stateOf[u] /\ want'[u] = want[u]
           /\ stateOf[u] \in States /\ stateOf[u] # stateOf[t]
    BY <1>0 DEF IInv, TypeOK, ThreadTypeOK, Places, InObject, Carries, InTransit, Return, Goto
  <1>1. RequestedGraph'
    BY <1>a, <1>b DEF ConfigInv, RequestedGraph
  <1>2. ParkedInSync'
    BY <1>a, <1>b DEF ConfigInv, ParkedInSync
  <1>3. CachedInSync'
    <2>1. UNCHANGED <<tlsCachedState, globalCache, globalCacheSize>>
      BY DEF cacheVars
    <2>2. \A u \in Threads : tlsCachedState[u] # Null => tlsCachedState[u] \in States
      BY DEF IInv, TypeOK, CacheTypeOK
    <2>3. \A i \in Slots : i < globalCacheSize => globalCache[i] \in States
      BY DEF IInv, Places, SlotsFilled
    <2> QED
      BY <1>0, <1>a, <2>1, <2>2, <2>3 DEF ConfigInv, CachedInSync
  <1> QED
    BY <1>1, <1>2, <1>3 DEF ConfigInv

\* Steps that change neither graphs nor caches, and bring no thread to a point
\* that asks something of its engine.
LEMMA SameConfigInv ==
  ASSUME IInv, ConfigInv, UNCHANGED <<startingGraph, cctxGraph>>,
         \A u \in Threads : at'[u] \in {"built", "parking"} =>
             at'[u] = at[u] /\ stateOf'[u] = stateOf[u] /\ want'[u] = want[u],
         UNCHANGED <<tlsCachedState, globalCache, globalCacheSize>>
  PROVE  ConfigInv'
  BY DEF ConfigInv, RequestedGraph, CachedInSync, ParkedInSync

LEMMA AcquireFromTlsConfigInv ==
  ASSUME IInv, ConfigInv, NEW t \in Threads, NEW o \in Objs, NEW g \in Graphs, AcquireFromTls(t, o, g)
  PROVE  ConfigInv'
  <1> USE DEF IInv, TypeOK, CacheTypeOK, ConfigTypeOK, ThreadTypeOK, Places, InObject, Carries, InTransit,
          Points, Goto, Return, cacheVars, configVars, threadVars
  <1>1. RequestedGraph'
    BY DEF AcquireFromTls, ConfigInv, RequestedGraph
  <1>2. CachedInSync'
    BY DEF AcquireFromTls, ConfigInv, CachedInSync, SlotsFilled
  <1>3. ParkedInSync'
    BY DEF AcquireFromTls, ConfigInv, ParkedInSync
  <1> QED
    BY <1>1, <1>2, <1>3 DEF ConfigInv

LEMMA AcquireFromGlobalConfigInv ==
  ASSUME IInv, ConfigInv, NEW t \in Threads, NEW o \in Objs, NEW g \in Graphs, AcquireFromGlobal(t, o, g)
  PROVE  ConfigInv'
  <1> USE DEF IInv, TypeOK, CacheTypeOK, ConfigTypeOK, ThreadTypeOK, Places, InObject, Carries, InTransit,
          Points, Goto, Return, cacheVars, configVars, threadVars
  <1>1. RequestedGraph'
    BY DEF AcquireFromGlobal, ConfigInv, RequestedGraph
  <1>2. CachedInSync'
    BY PoolAssumption DEF AcquireFromGlobal, ConfigInv, CachedInSync, SlotsFilled, PoolAssumption, Slots
  <1>3. ParkedInSync'
    BY DEF AcquireFromGlobal, ConfigInv, ParkedInSync
  <1> QED
    BY <1>1, <1>2, <1>3 DEF ConfigInv

\* A new engine is at an address no place refers to.
LEMMA AcquireNewConfigInv ==
  ASSUME IInv, ConfigInv, NEW t \in Threads, NEW o \in Objs, NEW g \in Graphs, NEW s \in States, AcquireNew(t, o, g, s)
  PROVE  ConfigInv'
  <1> USE DEF IInv, TypeOK, CacheTypeOK, ConfigTypeOK, ThreadTypeOK, Places, InObject, Carries, InTransit,
          Points, Goto, Return, cacheVars, configVars, threadVars
  <1>1. RequestedGraph'
    BY DEF AcquireNew, ConfigInv, RequestedGraph, NoUseAfterRecycle
  <1>2. CachedInSync'
    BY DEF AcquireNew, ConfigInv, CachedInSync, SlotsFilled, NoUseAfterRecycle
  <1>3. ParkedInSync'
    BY DEF AcquireNew, ConfigInv, ParkedInSync, NoUseAfterRecycle
  <1> QED
    BY <1>1, <1>2, <1>3 DEF ConfigInv

\* setGraph(g) after reset(): the graph asked for, whatever was there before.
LEMMA PrepareCachedConfigInv ==
  ASSUME IInv, ConfigInv, NEW t \in Threads, PrepareCached(t)
  PROVE  ConfigInv'
  <1>0. /\ stateOf[t] \in States
        /\ \A u \in Threads : u # t /\ Carries(u) => stateOf[u] # stateOf[t]
        /\ \A u \in Threads : tlsCachedState[u] # stateOf[t]
        /\ \A i \in Slots : i < globalCacheSize => globalCache[i] # stateOf[t]
    BY EngineIsPrivate DEF PrepareCached
  <1>a. \A s \in States : s # stateOf[t] =>
           startingGraph'[s] = startingGraph[s] /\ cctxGraph'[s] = cctxGraph[s]
    BY DEF PrepareCached, IInv, TypeOK, ConfigTypeOK
  <1>b. \A u \in Threads : u # t /\ at'[u] \in {"built", "parking"} =>
           /\ at'[u] = at[u] /\ stateOf'[u] = stateOf[u] /\ want'[u] = want[u]
           /\ stateOf[u] \in States /\ stateOf[u] # stateOf[t]
    BY <1>0 DEF PrepareCached, IInv, TypeOK, ThreadTypeOK, Places, InObject, Carries, InTransit, Goto
  <1>c. /\ at'[t] = "built" /\ stateOf'[t] = stateOf[t] /\ want'[t] = want[t]
        /\ startingGraph'[stateOf[t]] = want[t] /\ cctxGraph'[stateOf[t]] = want[t]
    BY <1>0 DEF PrepareCached, IInv, TypeOK, ThreadTypeOK, ConfigTypeOK, Goto
  <1>1. RequestedGraph'
    BY <1>a, <1>b, <1>c DEF ConfigInv, RequestedGraph
  <1>2. ParkedInSync'
    BY <1>a, <1>b, <1>c DEF ConfigInv, ParkedInSync
  <1>3. CachedInSync'
    <2>1. UNCHANGED <<tlsCachedState, globalCache, globalCacheSize>>
      BY DEF PrepareCached, cacheVars
    <2>2. \A u \in Threads : tlsCachedState[u] # Null => tlsCachedState[u] \in States
      BY DEF IInv, TypeOK, CacheTypeOK
    <2>3. \A i \in Slots : i < globalCacheSize => globalCache[i] \in States
      BY DEF IInv, Places, SlotsFilled
    <2> QED
      BY <1>0, <1>a, <2>1, <2>2, <2>3 DEF ConfigInv, CachedInSync
  <1> QED
    BY <1>1, <1>2, <1>3 DEF ConfigInv

\* reset() brings the two graphs of the engine together.
LEMMA RecycleResetConfigInv ==
  ASSUME IInv, ConfigInv, NEW t \in Threads, RecycleReset(t)
  PROVE  ConfigInv'
  <1>0. /\ stateOf[t] \in States
        /\ \A u \in Threads : u # t /\ Carries(u) => stateOf[u] # stateOf[t]
        /\ \A u \in Threads : tlsCachedState[u] # stateOf[t]
        /\ \A i \in Slots : i < globalCacheSize => globalCache[i] # stateOf[t]
    BY EngineIsPrivate DEF RecycleReset
  <1>a. \A s \in States : s # stateOf[t] =>
           startingGraph'[s] = startingGraph[s] /\ cctxGraph'[s] = cctxGraph[s]
    BY DEF RecycleReset, IInv, TypeOK, ConfigTypeOK
  <1>b. \A u \in Threads : u # t /\ at'[u] \in {"built", "parking"} =>
           /\ at'[u] = at[u] /\ stateOf'[u] = stateOf[u] /\ want'[u] = want[u]
           /\ stateOf[u] \in States /\ stateOf[u] # stateOf[t]
    BY <1>0 DEF RecycleReset, IInv, TypeOK, ThreadTypeOK, Places, InObject, Carries, InTransit, Goto
  <1>c. /\ at'[t] = "parking" /\ stateOf'[t] = stateOf[t]
        /\ startingGraph' = startingGraph /\ cctxGraph'[stateOf[t]] = startingGraph[stateOf[t]]
    BY <1>0 DEF RecycleReset, IInv, TypeOK, ThreadTypeOK, ConfigTypeOK, Goto
  <1>1. RequestedGraph'
    BY <1>a, <1>b, <1>c DEF ConfigInv, RequestedGraph
  <1>2. ParkedInSync'
    BY <1>a, <1>b, <1>c DEF ConfigInv, ParkedInSync
  <1>3. CachedInSync'
    <2>1. UNCHANGED <<tlsCachedState, globalCache, globalCacheSize>>
      BY DEF RecycleReset, cacheVars
    <2>2. \A u \in Threads : tlsCachedState[u] # Null => tlsCachedState[u] \in States
      BY DEF IInv, TypeOK, CacheTypeOK
    <2>3. \A i \in Slots : i < globalCacheSize => globalCache[i] \in States
      BY DEF IInv, Places, SlotsFilled
    <2> QED
      BY <1>0, <1>a, <2>1, <2>2, <2>3 DEF ConfigInv, CachedInSync
  <1> QED
    BY <1>1, <1>2, <1>3 DEF ConfigInv

\* A parked engine is in sync, because the closer reset it.
LEMMA ParkInTlsConfigInv ==
  ASSUME IInv, ConfigInv, NEW t \in Threads, ParkInTls(t)
  PROVE  ConfigInv'
  <1> USE DEF IInv, TypeOK, CacheTypeOK, ConfigTypeOK, ThreadTypeOK, Places, InObject, Carries, InTransit,
          Points, Goto, Return, cacheVars, configVars, threadVars
  <1>1. RequestedGraph'
    BY DEF ParkInTls, AfterRecycle, ConfigInv, RequestedGraph
  <1>2. CachedInSync'
    BY DEF ParkInTls, AfterRecycle, ConfigInv, CachedInSync, SlotsFilled, ParkedInSync
  <1>3. ParkedInSync'
    BY DEF ParkInTls, AfterRecycle, ConfigInv, ParkedInSync
  <1> QED
    BY <1>1, <1>2, <1>3 DEF ConfigInv

LEMMA ParkInGlobalConfigInv ==
  ASSUME IInv, ConfigInv, NEW t \in Threads, ParkInGlobal(t)
  PROVE  ConfigInv'
  <1> USE DEF IInv, TypeOK, CacheTypeOK, ConfigTypeOK, ThreadTypeOK, Places, InObject, Carries, InTransit,
          Points, Goto, Return, cacheVars, configVars, threadVars
  <1>1. RequestedGraph'
    BY DEF ParkInGlobal, AfterRecycle, ConfigInv, RequestedGraph
  <1>2. CachedInSync'
    BY PoolAssumption DEF ParkInGlobal, AfterRecycle, ConfigInv, CachedInSync, SlotsFilled, ParkedInSync, PoolAssumption, Slots
  <1>3. ParkedInSync'
    BY DEF ParkInGlobal, AfterRecycle, ConfigInv, ParkedInSync
  <1> QED
    BY <1>1, <1>2, <1>3 DEF ConfigInv

LEMMA ThreadExitConfigInv ==
  ASSUME IInv, ConfigInv, NEW t \in Threads, ThreadExit(t)
  PROVE  ConfigInv'
  <1> USE DEF IInv, TypeOK, CacheTypeOK, ConfigTypeOK, ThreadTypeOK, Places, InObject, Carries, InTransit,
          Points, Goto, Return, cacheVars, configVars, threadVars
  <1>1. RequestedGraph'
    BY DEF ThreadExit, ConfigInv, RequestedGraph
  <1>2. CachedInSync'
    BY DEF ThreadExit, ConfigInv, CachedInSync, SlotsFilled
  <1>3. ParkedInSync'
    BY DEF ThreadExit, ConfigInv, ParkedInSync
  <1> QED
    BY <1>1, <1>2, <1>3 DEF ConfigInv

-----------------------------------------------------------------------------

LEMMA StepConfigInv ==
  ASSUME IInv, ConfigInv, [Next]_vars
  PROVE  ConfigInv'
  <1>a. \A u \in Threads : stateOf[u] \in States =>
           /\ startingGraph[stateOf[u]] \in Graphs \cup {NoGraph}
           /\ cctxGraph[stateOf[u]] \in Graphs \cup {NoGraph}
    BY DEF IInv, TypeOK, ConfigTypeOK
  <1>b. \A u \in Threads : want[u] \in Graphs \cup {NoGraph}
    BY DEF IInv, TypeOK, ThreadTypeOK
  <1>c. ASSUME NEW t \in Threads, at[t] \in {"using", "took"}
        PROVE  stateOf[t] \in States
    BY <1>c, EngineIsPrivate
  <1>d. startingGraph \in [States -> Graphs \cup {NoGraph}]
        /\ cctxGraph \in [States -> Graphs \cup {NoGraph}]
    BY DEF IInv, TypeOK, ConfigTypeOK
  <1>e. at \in [Threads -> Points] /\ stateOf \in [Threads -> States \cup {Null}]
        /\ want \in [Threads -> Graphs \cup {NoGraph}]
    BY DEF IInv, TypeOK, ThreadTypeOK
  <1>1. ASSUME NEW t \in AppThreads, App(t)
        PROVE  ConfigInv'
    <2>0. t \in Threads
      BY DEF Threads
    <2>1. ASSUME NEW o \in Objs, NEW g \in Graphs, AcquireFromTls(t, o, g)
          PROVE  ConfigInv'
      BY <2>0, <2>1, AcquireFromTlsConfigInv
    <2>2. ASSUME NEW o \in Objs, NEW g \in Graphs, AcquireFromGlobal(t, o, g)
          PROVE  ConfigInv'
      BY <2>0, <2>2, AcquireFromGlobalConfigInv
    <2>3. ASSUME NEW o \in Objs, NEW g \in Graphs, NEW s \in States, AcquireNew(t, o, g, s)
          PROVE  ConfigInv'
      BY <2>0, <2>3, AcquireNewConfigInv
    <2>4. ASSUME NEW o \in Objs, EnterMethod(t, o) \/ CloseClean(t, o) \/ CloseAgain(t, o)
          PROVE  ConfigInv'
      BY <1>e, <2>0, <2>4, SameConfigInv
         DEF EnterMethod, CloseClean, CloseAgain, Goto, cacheVars, configVars
    <2>5. ASSUME NEW v \in Levels, SetParameter(t, v)
          PROVE  ConfigInv'
      BY <1>e, <2>0, <2>5, SameConfigInv DEF SetParameter, Return, Goto, cacheVars
    <2>6. CASE Reset(t)
      <3>1. at[t] = "using" /\ Return(t) /\ UNCHANGED cacheVars
        BY <2>6 DEF Reset
      <3>2. stateOf[t] \in States
        BY <1>c, <2>0, <3>1
      <3>3. startingGraph' = [startingGraph EXCEPT ![stateOf[t]] = startingGraph[stateOf[t]]]
        BY <1>d, <2>6, <3>2 DEF Reset
      <3>4. cctxGraph' = [cctxGraph EXCEPT ![stateOf[t]] = startingGraph[stateOf[t]]]
        BY <2>6 DEF Reset
      <3> QED
        BY <1>a, <2>0, <3>1, <3>2, <3>3, <3>4, ConfigurePrivately
    <2>7. ASSUME NEW g \in Graphs, Configure(t, g)
          PROVE  ConfigInv'
      BY <2>0, <2>7, ConfigurePrivately DEF Configure
    <2>8. ASSUME NEW g \in Graphs, ConfigureProfileFails(t, g)
          PROVE  ConfigInv'
      <3>1. at[t] = "using" /\ Return(t) /\ UNCHANGED cacheVars
            /\ startingGraph' = [startingGraph EXCEPT ![stateOf[t]] = g]
        BY <2>8 DEF ConfigureProfileFails
      <3>2. PICK h \in {cctxGraph[stateOf[t]], NoGraph} :
                   cctxGraph' = [cctxGraph EXCEPT ![stateOf[t]] = h]
        BY <2>8 DEF ConfigureProfileFails
      <3>3. h \in Graphs \cup {NoGraph}
        BY <1>a, <1>c, <2>0, <3>1
      <3> QED
        BY <2>0, <3>1, <3>2, <3>3, ConfigurePrivately
    <2>9. CASE AcquireNewFails(t) \/ MethodAborts(t)
      BY <2>9, SameConfigInv DEF AcquireNewFails, MethodAborts, cacheVars, configVars, threadVars
    <2>10. CASE ThreadExit(t)
      BY <2>0, <2>10, ThreadExitConfigInv
    <2> QED
      BY <1>1, <2>1, <2>2, <2>3, <2>4, <2>5, <2>6, <2>7, <2>8, <2>9, <2>10 DEF App, Acquire
  <1>2. ASSUME NEW t \in Threads, Proceed(t) \/ RecycleAborts(t)
        PROVE  ConfigInv'
    <2>1. CASE PrepareCached(t)
      BY <2>1, PrepareCachedConfigInv
    <2>2. CASE PrepareCachedFails(t)
      <3>1. at[t] = "took" /\ Return(t) /\ UNCHANGED cacheVars
            /\ cctxGraph' = [cctxGraph EXCEPT ![stateOf[t]] = NoGraph]
        BY <2>2 DEF PrepareCachedFails
      <3>2. PICK g \in {startingGraph[stateOf[t]], want[t]} :
                   startingGraph' = [startingGraph EXCEPT ![stateOf[t]] = g]
        BY <2>2 DEF PrepareCachedFails
      <3>3. g \in Graphs \cup {NoGraph}
        BY <1>a, <1>b, <1>c, <3>1
      <3> QED
        BY <3>1, <3>2, <3>3, ConfigurePrivately
    <2>3. CASE Construct(t) \/ LeaveMethod(t) \/ ZeroHandle(t)
      BY <1>e, <2>3, SameConfigInv
         DEF Construct, LeaveMethod, ZeroHandle, Return, Goto, cacheVars, configVars
    <2>4. CASE RecycleReset(t)
      BY <2>4, RecycleResetConfigInv
    <2>5. CASE ParkInTls(t)
      BY <2>5, ParkInTlsConfigInv
    <2>6. CASE ParkInGlobal(t)
      BY <2>6, ParkInGlobalConfigInv
    <2>7. CASE Delete(t)
      BY <1>e, <2>7, SameConfigInv DEF Delete, AfterRecycle, Return, Goto, configVars
    <2>8. CASE RecycleAborts(t)
      BY <2>8, SameConfigInv DEF RecycleAborts, cacheVars, configVars, threadVars
    <2> QED
      BY <1>2, <2>1, <2>2, <2>3, <2>4, <2>5, <2>6, <2>7, <2>8 DEF Proceed
  <1>3. ASSUME NEW o \in Objs, CleanerTakes(o) \/ BecomeUnreachable(o) \/ Collect(o)
        PROVE  ConfigInv'
    BY <1>e, <1>3, SameConfigInv
       DEF CleanerTakes, BecomeUnreachable, Collect, Goto, Threads, cacheVars, configVars, threadVars
  <1>4. CASE UNCHANGED vars
    BY <1>4, SameConfigInv DEF vars, cacheVars, configVars, threadVars
  <1> QED
    BY <1>1, <1>2, <1>3, <1>4 DEF Next, Runtime, Aborted

LEMMA ConfigInvariance == Spec => []ConfigInv
  <1> QED
    BY InitConfigInv, StepConfigInv, Invariance, PTL DEF Spec

\* A constructor always gets an engine on the graph it asked for, from whichever
\* cache it came and whatever its former owners did to it.
THEOREM GraphAsRequested == Spec => []RequestedGraph
  <1>1. ConfigInv => RequestedGraph
    BY DEF ConfigInv
  <1> QED
    BY <1>1, ConfigInvariance, PTL

\* No engine left half configured by a failed selection waits in a cache.
THEOREM CachesInSync == Spec => []CachedInSync
  <1>1. ConfigInv => CachedInSync
    BY DEF ConfigInv
  <1> QED
    BY <1>1, ConfigInvariance, PTL

-----------------------------------------------------------------------------
(* The refinement.                                                         *)

\* A constructor in flight was called with a graph.
WantsGraph == \A t \in Threads : at[t] \in {"took", "built"} => want[t] \in Graphs

\* What the abstract variables stand for.
Engine == [o \in Objs |-> Owned(o)]
Graph  == [o \in Objs |-> IF registered[o] THEN cctxGraph[cleanerHandle[o]] ELSE NoGraph]
Level  == [o \in Objs |-> IF registered[o] THEN level[cleanerHandle[o]] ELSE Null]

\* The abstract actions on them.
Acquires == \E p \in Objs, e \in States, g \in Graphs, v \in Levels :
    /\ Engine[p] = Null
    /\ \A q \in Objs : Engine[q] # e
    /\ Engine' = [Engine EXCEPT ![p] = e]
    /\ Graph' = [Graph EXCEPT ![p] = g]
    /\ Level' = [Level EXCEPT ![p] = v]

Selects == \E p \in Objs, g \in Graphs \cup {NoGraph} :
    /\ Engine[p] # Null
    /\ Graph' = [Graph EXCEPT ![p] = g]
    /\ Engine' = Engine /\ Level' = Level

SetsLevel == \E p \in Objs, v \in Levels :
    /\ Engine[p] # Null
    /\ Level' = [Level EXCEPT ![p] = v]
    /\ Engine' = Engine /\ Graph' = Graph

Releases == \E p \in Objs :
    /\ Engine[p] # Null
    /\ Engine' = [Engine EXCEPT ![p] = Null]
    /\ Graph' = [Graph EXCEPT ![p] = NoGraph]
    /\ Level' = [Level EXCEPT ![p] = Null]

Invisible == Engine' = Engine /\ Graph' = Graph /\ Level' = Level

LEMMA AbstractStep ==
  ASSUME Acquires \/ Selects \/ SetsLevel \/ Releases \/ Invisible
  PROVE  [Abstract!Next]_(Abstract!vars)
  <1> USE DEF Engine, Graph, Level, Owned
  <1>1. CASE Acquires
    BY <1>1 DEF Acquires, Abstract!Next, Abstract!Acquire
  <1>2. CASE Selects
    BY <1>2 DEF Selects, Abstract!Next, Abstract!Select
  <1>3. CASE SetsLevel
    BY <1>3 DEF SetsLevel, Abstract!Next, Abstract!SetLevel
  <1>4. CASE Releases
    BY <1>4 DEF Releases, Abstract!Next, Abstract!Release
  <1>5. CASE Invisible
    BY <1>5 DEF Invisible, Abstract!vars
  <1> QED
    BY <1>1, <1>2, <1>3, <1>4, <1>5

-----------------------------------------------------------------------------

LEMMA InitWantsGraph == Init => WantsGraph
  BY DEF Init, WantsGraph

LEMMA StepWantsGraph ==
  ASSUME IInv, WantsGraph, [Next]_vars
  PROVE  WantsGraph'
  <1> USE DEF IInv, TypeOK, ThreadTypeOK, WantsGraph, Goto, Return
  <1>1. ASSUME NEW t \in AppThreads, App(t)
        PROVE  WantsGraph'
    <2>0. t \in Threads
      BY DEF Threads
    <2>1. ASSUME NEW o \in Objs, NEW g \in Graphs,
                 AcquireFromTls(t, o, g) \/ AcquireFromGlobal(t, o, g)
          PROVE  WantsGraph'
      BY <2>0, <2>1 DEF AcquireFromTls, AcquireFromGlobal
    <2>2. ASSUME NEW o \in Objs, NEW g \in Graphs, NEW s \in States, AcquireNew(t, o, g, s)
          PROVE  WantsGraph'
      BY <2>0, <2>2 DEF AcquireNew
    <2>3. ASSUME NEW o \in Objs, EnterMethod(t, o) \/ CloseClean(t, o) \/ CloseAgain(t, o)
          PROVE  WantsGraph'
      BY <2>0, <2>3 DEF EnterMethod, CloseClean, CloseAgain
    <2>4. CASE \/ \E v \in Levels : SetParameter(t, v)
               \/ Reset(t)
               \/ \E g \in Graphs : Configure(t, g) \/ ConfigureProfileFails(t, g)
      <3>1. Return(t)
        BY <2>4 DEF SetParameter, Reset, Configure, ConfigureProfileFails
      <3> QED
        BY <2>0, <3>1
    <2>5. CASE AcquireNewFails(t) \/ MethodAborts(t) \/ ThreadExit(t)
      BY <2>5 DEF AcquireNewFails, MethodAborts, ThreadExit, threadVars
    <2> QED
      BY <1>1, <2>1, <2>2, <2>3, <2>4, <2>5 DEF App, Acquire
  <1>2. ASSUME NEW t \in Threads, Proceed(t) \/ RecycleAborts(t)
        PROVE  WantsGraph'
    <2>1. CASE PrepareCached(t)
      BY <2>1 DEF PrepareCached
    <2>2. CASE PrepareCachedFails(t) \/ Construct(t) \/ LeaveMethod(t) \/ ZeroHandle(t)
      <3>1. Return(t)
        BY <2>2 DEF PrepareCachedFails, Construct, LeaveMethod, ZeroHandle
      <3> QED
        BY <3>1
    <2>3. CASE RecycleReset(t)
      BY <2>3 DEF RecycleReset
    <2>4. CASE ParkInTls(t) \/ ParkInGlobal(t) \/ Delete(t)
      BY <2>4 DEF ParkInTls, ParkInGlobal, Delete, AfterRecycle
    <2>5. CASE RecycleAborts(t)
      BY <2>5 DEF RecycleAborts, threadVars
    <2> QED
      BY <1>2, <2>1, <2>2, <2>3, <2>4, <2>5 DEF Proceed
  <1>3. ASSUME NEW o \in Objs, CleanerTakes(o) \/ BecomeUnreachable(o) \/ Collect(o)
        PROVE  WantsGraph'
    BY <1>3 DEF CleanerTakes, BecomeUnreachable, Collect, threadVars, Threads
  <1>4. CASE UNCHANGED vars
    BY <1>4 DEF vars, threadVars
  <1> QED
    BY <1>1, <1>2, <1>3, <1>4 DEF Next, Runtime, Aborted

-----------------------------------------------------------------------------

\* The engine built for the constructor becomes the object's.
LEMMA ConstructAcquires ==
  ASSUME IInv, ConfigInv, WantsGraph, NEW t \in Threads, Construct(t)
  PROVE  Acquires
  <1> DEFINE o == objOf[t]
             s == stateOf[t]
  <1>1. o \in Objs /\ s \in States /\ ~registered[o]
    BY DEF Construct, IInv, TypeOK, ThreadTypeOK, Places, InObject, HandleAgrees, Carries, InTransit
  <1>2. cctxGraph[s] = want[t] /\ want[t] \in Graphs /\ level[s] \in Levels
    BY <1>1 DEF Construct, ConfigInv, RequestedGraph, WantsGraph, IInv, TypeOK, ConfigTypeOK
  <1>3. \A p \in Objs : Owned(p) # s
    BY <1>1, PoolAssumption DEF PoolAssumption, Owned, Construct, IInv, ExclusiveOwnership,
       OwnedNotElsewhere, Carries, InTransit
  <1>4. /\ registered' = [registered EXCEPT ![o] = TRUE]
        /\ cleanerHandle' = [cleanerHandle EXCEPT ![o] = s]
        /\ UNCHANGED <<cctxGraph, level>>
    BY DEF Construct, configVars
  <1>5. registered \in [Objs -> BOOLEAN] /\ cleanerHandle \in [Objs -> States \cup {Null}]
    BY DEF IInv, TypeOK, ObjTypeOK
  <1>6. Engine' = [Engine EXCEPT ![o] = s]
    BY <1>1, <1>4, <1>5 DEF Engine, Owned
  <1>7. Graph' = [Graph EXCEPT ![o] = want[t]]
    BY <1>1, <1>2, <1>4, <1>5 DEF Graph
  <1>8. Level' = [Level EXCEPT ![o] = level[s]]
    BY <1>1, <1>4, <1>5 DEF Level
  <1>9. Engine[o] = Null /\ \A p \in Objs : Engine[p] # s
    BY <1>1, <1>3 DEF Engine, Owned
  <1> HIDE DEF o, s
  <1> QED
    BY <1>1, <1>2, <1>6, <1>7, <1>8, <1>9 DEF Acquires

\* The engine a method works on is its object's and nobody else's.
LEMMA MethodOwns ==
  ASSUME IInv, NEW t \in Threads, at[t] = "using"
  PROVE  /\ objOf[t] \in Objs /\ stateOf[t] \in States
         /\ registered[objOf[t]] /\ cleanerHandle[objOf[t]] = stateOf[t]
         /\ Engine[objOf[t]] # Null
         /\ \A p \in Objs : registered[p] /\ p # objOf[t] => cleanerHandle[p] # stateOf[t]
  <1>1. objOf[t] \in Objs /\ stateOf[t] \in States
    BY DEF IInv, TypeOK, ThreadTypeOK, Places, InObject
  <1>2. registered[objOf[t]] /\ cleanerHandle[objOf[t]] = stateOf[t]
    BY DEF IInv, NoUseAfterRecycle
  <1>3. Engine[objOf[t]] # Null
    BY <1>1, <1>2, PoolAssumption DEF Engine, Owned, PoolAssumption
  <1> QED
    BY <1>1, <1>2, <1>3 DEF IInv, ExclusiveOwnership, OneOwner

\* Changing the graph of an engine in use is a Select on its object ...
LEMMA UsingSelects ==
  ASSUME IInv, NEW t \in Threads, at[t] = "using", NEW g \in Graphs \cup {NoGraph},
         cctxGraph' = [cctxGraph EXCEPT ![stateOf[t]] = g],
         UNCHANGED <<registered, cleanerHandle, level>>
  PROVE  Selects
  <1>0. cctxGraph \in [States -> Graphs \cup {NoGraph}]
        /\ cleanerHandle \in [Objs -> States \cup {Null}]
    BY DEF IInv, TypeOK, ObjTypeOK, ConfigTypeOK
  <1>1. Engine' = Engine /\ Level' = Level
    BY DEF Engine, Owned, Level
  <1>2. \A p \in Objs : registered[p] => cleanerHandle[p] \in States
    BY DEF IInv, Places, HandleAgrees
  <1>a. /\ objOf[t] \in Objs /\ stateOf[t] \in States
        /\ registered[objOf[t]] /\ cleanerHandle[objOf[t]] = stateOf[t]
        /\ \A p \in Objs : registered[p] /\ p # objOf[t] => cleanerHandle[p] # stateOf[t]
    BY MethodOwns
  <1>3. Graph' = [Graph EXCEPT ![objOf[t]] = g]
    BY <1>0, <1>2, <1>a DEF Graph
  <1>4. objOf[t] \in Objs /\ Engine[objOf[t]] # Null
    BY MethodOwns
  <1> QED
    BY <1>1, <1>3, <1>4 DEF Selects

\* ... and changing its level a SetLevel.
LEMMA UsingSetsLevel ==
  ASSUME IInv, NEW t \in AppThreads, NEW v \in Levels, SetParameter(t, v)
  PROVE  SetsLevel
  <1>0. level \in [States -> Levels] /\ t \in Threads /\ at[t] = "using"
    BY DEF IInv, TypeOK, ConfigTypeOK, Threads, SetParameter
  <1>1. UNCHANGED <<registered, cleanerHandle, cctxGraph>>
        /\ level' = [level EXCEPT ![stateOf[t]] = v]
    BY DEF SetParameter, objVars
  <1>2. Engine' = Engine /\ Graph' = Graph
    BY <1>1 DEF Engine, Owned, Graph
  <1>3. \A p \in Objs : registered[p] => cleanerHandle[p] \in States
    BY DEF IInv, Places, HandleAgrees
  <1>a. /\ objOf[t] \in Objs /\ stateOf[t] \in States
        /\ registered[objOf[t]] /\ cleanerHandle[objOf[t]] = stateOf[t]
        /\ \A p \in Objs : registered[p] /\ p # objOf[t] => cleanerHandle[p] # stateOf[t]
    BY <1>0, MethodOwns
  <1>4. Level' = [Level EXCEPT ![objOf[t]] = v]
    BY <1>0, <1>1, <1>3, <1>a DEF Level
  <1>5. objOf[t] \in Objs /\ Engine[objOf[t]] # Null
    BY <1>0, MethodOwns
  <1> QED
    BY <1>2, <1>4, <1>5 DEF SetsLevel

\* Removing the Cleanable is a Release.
LEMMA UnregisterReleases ==
  ASSUME IInv, NEW o \in Objs, registered[o], registered' = [registered EXCEPT ![o] = FALSE],
         UNCHANGED <<cleanerHandle, cctxGraph, level>>
  PROVE  Releases
  <1>0. registered \in [Objs -> BOOLEAN]
    BY DEF IInv, TypeOK, ObjTypeOK
  <1>1. Engine[o] # Null
    BY PoolAssumption DEF PoolAssumption, Engine, Owned, IInv, Places, HandleAgrees
  <1>2. Engine' = [Engine EXCEPT ![o] = Null]
    BY <1>0 DEF Engine, Owned
  <1>3. Graph' = [Graph EXCEPT ![o] = NoGraph]
    BY <1>0 DEF Graph
  <1>4. Level' = [Level EXCEPT ![o] = Null]
    BY <1>0 DEF Level
  <1> QED
    BY <1>1, <1>2, <1>3, <1>4 DEF Releases

\* A step is invisible if it leaves alone the handles of registered objects and
\* the configuration of the engines they own.
LEMMA StutterIsInvisible ==
  ASSUME registered' = registered,
         \A o \in Objs : registered[o] =>
             /\ cleanerHandle'[o] = cleanerHandle[o]
             /\ cctxGraph'[cleanerHandle[o]] = cctxGraph[cleanerHandle[o]]
             /\ level'[cleanerHandle[o]] = level[cleanerHandle[o]]
  PROVE  Invisible
  <1>1. Engine' = Engine
    BY DEF Engine, Owned
  <1>2. Graph' = Graph
    BY DEF Graph
  <1>3. Level' = Level
    BY DEF Level
  <1> QED
    BY <1>1, <1>2, <1>3 DEF Invisible

-----------------------------------------------------------------------------

LEMMA InitRefines == Init => Abstract!Init
  BY DEF Init, Abstract!Init, Owned

\* What a carrier does to the graph of its engine no owner sees.
LEMMA CarrierIsInvisible ==
  ASSUME IInv, NEW t \in Threads, Carries(t), NEW g,
         cctxGraph' = [cctxGraph EXCEPT ![stateOf[t]] = g],
         UNCHANGED <<registered, cleanerHandle, level>>
  PROVE  Invisible
  <1>1. \A o \in Objs : registered[o] => cleanerHandle[o] \in States /\ cleanerHandle[o] # stateOf[t]
    BY DEF IInv, Places, HandleAgrees, ExclusiveOwnership, OwnedNotElsewhere
  <1>2. cctxGraph \in [States -> Graphs \cup {NoGraph}]
    BY DEF IInv, TypeOK, ConfigTypeOK
  <1>3. \A o \in Objs : registered[o] => cctxGraph'[cleanerHandle[o]] = cctxGraph[cleanerHandle[o]]
    BY <1>1, <1>2
  <1> QED
    BY <1>3, StutterIsInvisible

\* A new engine is at an address no open compressor has.
LEMMA AcquireNewIsInvisible ==
  ASSUME IInv, NEW t \in Threads, NEW o \in Objs, NEW g \in Graphs, NEW s \in States,
         AcquireNew(t, o, g, s)
  PROVE  Invisible
  <1>1. \A p \in Objs : registered[p] => cleanerHandle[p] \in States /\ cleanerHandle[p] # s
    BY DEF AcquireNew, IInv, Places, HandleAgrees, NoUseAfterRecycle
  <1>2. /\ cctxGraph' = [cctxGraph EXCEPT ![s] = g]
        /\ level' = [level EXCEPT ![s] = DefaultLevel]
        /\ UNCHANGED <<registered, cleanerHandle>>
    BY DEF AcquireNew, objVars
  <1>3. cctxGraph \in [States -> Graphs \cup {NoGraph}] /\ level \in [States -> Levels]
    BY DEF IInv, TypeOK, ConfigTypeOK
  <1>4. \A p \in Objs : registered[p] =>
           /\ cctxGraph'[cleanerHandle[p]] = cctxGraph[cleanerHandle[p]]
           /\ level'[cleanerHandle[p]] = level[cleanerHandle[p]]
    BY <1>1, <1>2, <1>3
  <1> QED
    BY <1>2, <1>4, StutterIsInvisible

\* The handle a closer clears is that of an object it has already unregistered.
LEMMA ParkingIsInvisible ==
  ASSUME IInv, NEW t \in Threads, ParkInTls(t) \/ ParkInGlobal(t) \/ Delete(t)
  PROVE  Invisible
  <1>1. at[t] = "parking" /\ UNCHANGED <<registered, cctxGraph, level>>
        /\ cleanerHandle' = [cleanerHandle EXCEPT ![objOf[t]] = Null]
    BY DEF ParkInTls, ParkInGlobal, Delete, AfterRecycle, configVars
  <1>2. objOf[t] \in Objs /\ ~registered[objOf[t]]
    BY <1>1 DEF IInv, TypeOK, ThreadTypeOK, Places, InObject, Closing
  <1>3. cleanerHandle \in [Objs -> States \cup {Null}]
    BY DEF IInv, TypeOK, ObjTypeOK
  <1>4. \A o \in Objs : registered[o] => cleanerHandle'[o] = cleanerHandle[o]
    BY <1>1, <1>2, <1>3
  <1> QED
    BY <1>1, <1>4, StutterIsInvisible

LEMMA StepRefines ==
  ASSUME IInv, ConfigInv, WantsGraph, [Next]_vars
  PROVE  [Abstract!Next]_(Abstract!vars)
  <1> DEFINE Visible == Acquires \/ Selects \/ SetsLevel \/ Releases \/ Invisible
  <1>0. ASSUME UNCHANGED <<registered, cleanerHandle, cctxGraph, level>>
        PROVE  Visible
    BY <1>0, StutterIsInvisible
  <1>1. ASSUME NEW t \in AppThreads, App(t)
        PROVE  Visible
    <2>0. t \in Threads
      BY DEF Threads
    <2>1. ASSUME NEW o \in Objs, NEW g \in Graphs,
                 AcquireFromTls(t, o, g) \/ AcquireFromGlobal(t, o, g)
          PROVE  Visible
      BY <1>0, <2>1 DEF AcquireFromTls, AcquireFromGlobal, objVars, configVars
    <2>2. ASSUME NEW o \in Objs, NEW g \in Graphs, NEW s \in States, AcquireNew(t, o, g, s)
          PROVE  Visible
      BY <2>0, <2>2, AcquireNewIsInvisible
    <2>3. ASSUME NEW o \in Objs, EnterMethod(t, o) \/ CloseAgain(t, o)
          PROVE  Visible
      BY <1>0, <2>3 DEF EnterMethod, CloseAgain, objVars, configVars
    <2>4. ASSUME NEW o \in Objs, CloseClean(t, o)
          PROVE  Visible
      BY <2>4, UnregisterReleases DEF CloseClean, configVars
    <2>5. ASSUME NEW v \in Levels, SetParameter(t, v)
          PROVE  Visible
      BY <2>5, UsingSetsLevel
    <2>6. CASE Reset(t)
      <3>1. at[t] = "using" /\ UNCHANGED <<registered, cleanerHandle, level>>
            /\ cctxGraph' = [cctxGraph EXCEPT ![stateOf[t]] = startingGraph[stateOf[t]]]
        BY <2>6 DEF Reset, objVars
      <3>2. startingGraph[stateOf[t]] \in Graphs \cup {NoGraph}
        BY <2>0, <3>1, MethodOwns DEF IInv, TypeOK, ConfigTypeOK
      <3> QED
        BY <2>0, <3>1, <3>2, UsingSelects
    <2>7. ASSUME NEW g \in Graphs, Configure(t, g)
          PROVE  Visible
      BY <2>0, <2>7, UsingSelects DEF Configure, objVars
    <2>8. ASSUME NEW g \in Graphs, ConfigureProfileFails(t, g)
          PROVE  Visible
      <3>1. at[t] = "using" /\ UNCHANGED <<registered, cleanerHandle, level>>
        BY <2>8 DEF ConfigureProfileFails, objVars
      <3>2. PICK h \in {cctxGraph[stateOf[t]], NoGraph} :
                   cctxGraph' = [cctxGraph EXCEPT ![stateOf[t]] = h]
        BY <2>8 DEF ConfigureProfileFails
      <3>3. h \in Graphs \cup {NoGraph}
        BY <2>0, <3>1, MethodOwns DEF IInv, TypeOK, ConfigTypeOK
      <3> QED
        BY <2>0, <3>1, <3>2, <3>3, UsingSelects
    <2>9. CASE AcquireNewFails(t) \/ MethodAborts(t) \/ ThreadExit(t)
      BY <1>0, <2>9 DEF AcquireNewFails, MethodAborts, ThreadExit, objVars, configVars
    <2> HIDE DEF Visible
    <2> QED
      BY <1>1, <2>1, <2>2, <2>3, <2>4, <2>5, <2>6, <2>7, <2>8, <2>9 DEF App, Acquire
  <1>2. ASSUME NEW t \in Threads, Proceed(t) \/ RecycleAborts(t)
        PROVE  Visible
    <2>1. CASE PrepareCached(t)
      BY <2>1, CarrierIsInvisible DEF PrepareCached, Carries, InTransit, objVars
    <2>2. CASE PrepareCachedFails(t)
      BY <2>2, CarrierIsInvisible DEF PrepareCachedFails, Carries, InTransit, objVars
    <2>3. CASE RecycleReset(t)
      BY <2>3, CarrierIsInvisible DEF RecycleReset, Carries, InTransit, objVars
    <2>4. CASE Construct(t)
      BY <2>4, ConstructAcquires
    <2>5. CASE ParkInTls(t) \/ ParkInGlobal(t) \/ Delete(t)
      BY <2>5, ParkingIsInvisible
    <2>6. CASE LeaveMethod(t) \/ ZeroHandle(t) \/ RecycleAborts(t)
      BY <1>0, <2>6 DEF LeaveMethod, ZeroHandle, RecycleAborts, objVars, configVars
    <2> HIDE DEF Visible
    <2> QED
      BY <1>2, <2>1, <2>2, <2>3, <2>4, <2>5, <2>6 DEF Proceed
  <1>3. ASSUME NEW o \in Objs, CleanerTakes(o)
        PROVE  Visible
    BY <1>3, UnregisterReleases DEF CleanerTakes, configVars
  <1>4. ASSUME NEW o \in Objs, BecomeUnreachable(o) \/ Collect(o)
        PROVE  Visible
    BY <1>0, <1>4 DEF BecomeUnreachable, Collect, configVars
  <1>5. ASSUME UNCHANGED vars
        PROVE  Visible
    BY <1>0, <1>5 DEF vars, objVars, configVars
  <1>6. Visible
    <2> HIDE DEF Visible
    <2> QED
      BY <1>1, <1>2, <1>3, <1>4, <1>5 DEF Next, Runtime, Aborted
  <1> QED
    BY <1>6, AbstractStep

LEMMA WantsGraphInvariance == Spec => []WantsGraph
  BY InitWantsGraph, StepWantsGraph, Invariance, PTL DEF Spec

\* Whatever caches, closers and the Cleaner do, an open compressor behaves as if
\* it had an engine of its own that only calls on it configure.
THEOREM Refines == Spec => ImplementsExclusiveEngine
  BY InitRefines, StepRefines, WantsGraphInvariance, Invariance, ConfigInvariance, PTL
     DEF Spec, ImplementsExclusiveEngine, Abstract!Spec

=============================================================================
