------------------------ MODULE CompressorPoolProofs ------------------------
(***************************************************************************)
(* Proofs about CompressorPool, for any number of threads, objects and     *)
(* engines and any cache size.                                             *)
(***************************************************************************)
EXTENDS CompressorPool, TLAPS

(***************************************************************************)
(* What each thread's place in the code says of the object it is in.       *)
(***************************************************************************)
InObject ==
    \A t \in Threads :
        /\ at[t] = "idle" <=> objOf[t] = Null
        /\ Carries(t) \/ at[t] = "using" => stateOf[t] \in States
        /\ at[t] \in {"took", "built"} => phase[objOf[t]] = "none"
        /\ at[t] = "using" => phase[objOf[t]] = "live"
        /\ at[t] \in Closing =>
              /\ ~registered[objOf[t]]
              /\ phase[objOf[t]] = IF t = CleanerThread THEN "unreachable" ELSE "live"
        /\ t = CleanerThread => at[t] \in {"idle", "cleaning", "parking"}

\* Only closers share an object.
AloneUnlessClosing ==
    \A t, u \in Threads :
        /\ objOf[t] = objOf[u] /\ objOf[t] # Null /\ at[t] \notin Closing => t = u
        /\ objOf[t] = objOf[u] /\ objOf[t] # Null /\ t = CleanerThread => t = u

\* The field and the cleaner's handle agree until the object is closed, and the
\* field is 0 once every closer has left.
HandleAgrees ==
    \A o \in Objs :
        /\ registered[o] => phase[o] # "none" /\ cleanerHandle[o] \in States
        /\ registered[o] => nativeHandle[o] = cleanerHandle[o]
        /\ phase[o] = "live" /\ ~registered[o] /\ NobodyIn(o) => nativeHandle[o] = Null

SlotsFilled == \A i \in Slots : i < globalCacheSize => globalCache[i] \in States

Places == InObject /\ AloneUnlessClosing /\ HandleAgrees /\ SlotsFilled

\* The inductive invariant.
IInv == TypeOK /\ Places /\ ExclusiveOwnership /\ NoUseAfterRecycle

-----------------------------------------------------------------------------
(* Typing *)

LEMMA InitTypeOK == Init => TypeOK
  <1> SUFFICES ASSUME Init
               PROVE  TypeOK
    OBVIOUS
  <1>1. ObjTypeOK
    BY DEF Init, ObjTypeOK
  <1>2. CacheTypeOK
    BY PoolAssumption DEF Init, CacheTypeOK, PoolAssumption
  <1>3. ConfigTypeOK
    BY PoolAssumption DEF Init, ConfigTypeOK, PoolAssumption
  <1>4. ThreadTypeOK
    BY DEF Init, ThreadTypeOK, Points
  <1> QED
    BY <1>1, <1>2, <1>3, <1>4 DEF TypeOK

\* What AfterRecycle does to the types, whoever the closer is.
LEMMA RecycledTypeOK ==
  ASSUME TypeOK, NEW t \in Threads, at[t] = "parking", AfterRecycle(t),
         UNCHANGED <<registered, aborted>>
  PROVE  ObjTypeOK' /\ ThreadTypeOK'
  <1> USE DEF TypeOK, ObjTypeOK, ThreadTypeOK, AfterRecycle, Return, Goto
  <1>1. destroyLock' \in Threads \cup {NoThread} /\ aborted' \in BOOLEAN
    OBVIOUS
  <1>2. cleanerHandle' \in [Objs -> States \cup {Null}] /\ registered' \in [Objs -> BOOLEAN]
    OBVIOUS
  <1>3. CASE t = CleanerThread
    <2>1. ObjTypeOK'
      BY <1>2, <1>3
    <2>2. ThreadTypeOK'
      BY <1>1, <1>3 DEF Points
    <2> QED
      BY <2>1, <2>2
  <1>4. CASE t # CleanerThread
    <2>1. ObjTypeOK'
      BY <1>2, <1>4
    <2>2. objOf[t] \in Objs \cup {Null}
      OBVIOUS
    <2>3. ThreadTypeOK'
      BY <1>1, <1>4, <2>2 DEF Points, Closing
    <2> QED
      BY <2>1, <2>3
  <1> QED
    BY <1>3, <1>4

LEMMA StepTypeOK ==
  ASSUME TypeOK, [Next]_vars
  PROVE  TypeOK'
  <1> USE PoolAssumption DEF PoolAssumption, Points, InTransit, Closing, Slots, Return, Goto, objVars,
          cacheVars, configVars, threadVars
  <1>1. ASSUME NEW t \in AppThreads, App(t)
        PROVE  TypeOK'
    <2>0. t \in Threads
      BY DEF Threads
    <2>1. ASSUME NEW o \in Objs, NEW g \in Graphs, AcquireFromTls(t, o, g)
          PROVE  TypeOK'
      BY <2>0, <2>1 DEF TypeOK, ObjTypeOK, CacheTypeOK, ConfigTypeOK, ThreadTypeOK, AcquireFromTls
    <2>2. ASSUME NEW o \in Objs, NEW g \in Graphs, AcquireFromGlobal(t, o, g)
          PROVE  TypeOK'
      BY <2>0, <2>2 DEF TypeOK, ObjTypeOK, CacheTypeOK, ConfigTypeOK, ThreadTypeOK, AcquireFromGlobal
    <2>3. ASSUME NEW o \in Objs, NEW g \in Graphs, NEW s \in States, AcquireNew(t, o, g, s)
          PROVE  TypeOK'
      BY <2>0, <2>3 DEF TypeOK, ObjTypeOK, CacheTypeOK, ConfigTypeOK, ThreadTypeOK, AcquireNew
    <2>4. CASE AcquireNewFails(t)
      BY <2>4 DEF TypeOK, ObjTypeOK, CacheTypeOK, ConfigTypeOK, ThreadTypeOK, AcquireNewFails
    <2>5. ASSUME NEW o \in Objs, EnterMethod(t, o) \/ CloseClean(t, o) \/ CloseAgain(t, o)
          PROVE  TypeOK'
      <3>1. CASE EnterMethod(t, o)
        BY <2>0, <3>1 DEF TypeOK, ObjTypeOK, CacheTypeOK, ConfigTypeOK, ThreadTypeOK, EnterMethod
      <3>2. CASE CloseClean(t, o)
        BY <2>0, <3>2 DEF TypeOK, ObjTypeOK, CacheTypeOK, ConfigTypeOK, ThreadTypeOK, CloseClean
      <3>3. CASE CloseAgain(t, o)
        BY <2>0, <3>3 DEF TypeOK, ObjTypeOK, CacheTypeOK, ConfigTypeOK, ThreadTypeOK, CloseAgain
      <3> QED
        BY <2>5, <3>1, <3>2, <3>3
    <2>6. ASSUME NEW v \in Levels, SetParameter(t, v)
          PROVE  TypeOK'
      BY <2>0, <2>6 DEF TypeOK, ObjTypeOK, CacheTypeOK, ConfigTypeOK, ThreadTypeOK, SetParameter
    <2>7. CASE Reset(t)
      BY <2>0, <2>7 DEF TypeOK, ObjTypeOK, CacheTypeOK, ConfigTypeOK, ThreadTypeOK, Reset
    <2>8. ASSUME NEW g \in Graphs, Configure(t, g)
          PROVE  TypeOK'
      BY <2>0, <2>8 DEF TypeOK, ObjTypeOK, CacheTypeOK, ConfigTypeOK, ThreadTypeOK, Configure
    <2>9. ASSUME NEW g \in Graphs, ConfigureProfileFails(t, g)
          PROVE  TypeOK'
      <3>1. ObjTypeOK'
        BY <2>0, <2>9 DEF TypeOK, ObjTypeOK, CacheTypeOK, ConfigTypeOK, ThreadTypeOK, ConfigureProfileFails
      <3>2. CacheTypeOK'
        BY <2>0, <2>9 DEF TypeOK, ObjTypeOK, CacheTypeOK, ConfigTypeOK, ThreadTypeOK, ConfigureProfileFails
      <3>3. ConfigTypeOK'
        <4>1. PICK h \in {cctxGraph[stateOf[t]], NoGraph} :
                     cctxGraph' = [cctxGraph EXCEPT ![stateOf[t]] = h]
          BY <2>9 DEF ConfigureProfileFails
        <4>2. cctxGraph' \in [States -> Graphs \cup {NoGraph}]
          BY <4>1 DEF TypeOK, ConfigTypeOK
        <4>3. startingGraph' \in [States -> Graphs \cup {NoGraph}] /\ level' = level
          BY <2>9 DEF TypeOK, ConfigTypeOK, ConfigureProfileFails
        <4> QED
          BY <4>2, <4>3 DEF TypeOK, ConfigTypeOK
      <3>4. ThreadTypeOK'
        BY <2>0, <2>9 DEF TypeOK, ObjTypeOK, CacheTypeOK, ConfigTypeOK, ThreadTypeOK, ConfigureProfileFails
      <3> QED
        BY <3>1, <3>2, <3>3, <3>4 DEF TypeOK
    <2>10. CASE MethodAborts(t)
      BY <2>10 DEF TypeOK, ObjTypeOK, CacheTypeOK, ConfigTypeOK, ThreadTypeOK, MethodAborts
    <2>11. CASE ThreadExit(t)
      BY <2>0, <2>11 DEF TypeOK, ObjTypeOK, CacheTypeOK, ConfigTypeOK, ThreadTypeOK, ThreadExit
    <2> QED
      BY <1>1, <2>1, <2>2, <2>3, <2>4, <2>5, <2>6, <2>7, <2>8, <2>9, <2>10, <2>11
         DEF App, Acquire
  <1>2. ASSUME NEW t \in Threads, Proceed(t) \/ RecycleAborts(t)
        PROVE  TypeOK'
    <2>1. CASE PrepareCached(t)
      BY <2>1 DEF TypeOK, ObjTypeOK, CacheTypeOK, ConfigTypeOK, ThreadTypeOK, PrepareCached
    <2>2. CASE PrepareCachedFails(t)
      <3>1. ObjTypeOK'
        BY <2>2 DEF TypeOK, ObjTypeOK, CacheTypeOK, ConfigTypeOK, ThreadTypeOK, PrepareCachedFails
      <3>2. CacheTypeOK'
        BY <2>2 DEF TypeOK, ObjTypeOK, CacheTypeOK, ConfigTypeOK, ThreadTypeOK, PrepareCachedFails
      <3>3. ConfigTypeOK'
        <4>1. PICK g \in {startingGraph[stateOf[t]], want[t]} :
                     startingGraph' = [startingGraph EXCEPT ![stateOf[t]] = g]
          BY <2>2 DEF PrepareCachedFails
        <4>2. startingGraph' \in [States -> Graphs \cup {NoGraph}]
          BY <4>1 DEF TypeOK, ConfigTypeOK, ThreadTypeOK
        <4>3. cctxGraph' \in [States -> Graphs \cup {NoGraph}] /\ level' = level
          BY <2>2 DEF TypeOK, ConfigTypeOK, PrepareCachedFails
        <4> QED
          BY <4>2, <4>3 DEF TypeOK, ConfigTypeOK
      <3>4. ThreadTypeOK'
        BY <2>2 DEF TypeOK, ObjTypeOK, CacheTypeOK, ConfigTypeOK, ThreadTypeOK, PrepareCachedFails
      <3> QED
        BY <3>1, <3>2, <3>3, <3>4 DEF TypeOK
    <2>3. CASE Construct(t)
      BY <2>3 DEF TypeOK, ObjTypeOK, CacheTypeOK, ConfigTypeOK, ThreadTypeOK, Construct
    <2>4. CASE LeaveMethod(t)
      BY <2>4 DEF TypeOK, ObjTypeOK, CacheTypeOK, ConfigTypeOK, ThreadTypeOK, LeaveMethod
    <2>5. CASE RecycleReset(t)
      BY <2>5 DEF TypeOK, ObjTypeOK, CacheTypeOK, ConfigTypeOK, ThreadTypeOK, RecycleReset
    <2>6. CASE ParkInTls(t)
      <3>1. ObjTypeOK' /\ ThreadTypeOK'
        BY <2>6, RecycledTypeOK DEF ParkInTls
      <3>2. CacheTypeOK'
        BY <2>6 DEF TypeOK, CacheTypeOK, ThreadTypeOK, ParkInTls
      <3>3. ConfigTypeOK'
        BY <2>6 DEF TypeOK, ConfigTypeOK, ParkInTls
      <3> QED
        BY <3>1, <3>2, <3>3 DEF TypeOK
    <2>7. CASE ParkInGlobal(t)
      <3>1. ObjTypeOK' /\ ThreadTypeOK'
        BY <2>7, RecycledTypeOK DEF ParkInGlobal
      <3>2. CacheTypeOK'
        BY <2>7 DEF TypeOK, CacheTypeOK, ThreadTypeOK, ParkInGlobal
      <3>3. ConfigTypeOK'
        BY <2>7 DEF TypeOK, ConfigTypeOK, ParkInGlobal
      <3> QED
        BY <3>1, <3>2, <3>3 DEF TypeOK
    <2>8. CASE Delete(t)
      <3>1. ObjTypeOK' /\ ThreadTypeOK'
        BY <2>8, RecycledTypeOK DEF Delete
      <3>2. CacheTypeOK'
        BY <2>8 DEF TypeOK, CacheTypeOK, ThreadTypeOK, Delete
      <3>3. ConfigTypeOK'
        BY <2>8 DEF TypeOK, ConfigTypeOK, Delete
      <3> QED
        BY <3>1, <3>2, <3>3 DEF TypeOK
    <2>9. CASE ZeroHandle(t)
      BY <2>9 DEF TypeOK, ObjTypeOK, CacheTypeOK, ConfigTypeOK, ThreadTypeOK, ZeroHandle
    <2>10. CASE RecycleAborts(t)
      BY <2>10 DEF TypeOK, ObjTypeOK, CacheTypeOK, ConfigTypeOK, ThreadTypeOK, RecycleAborts
    <2> QED
      BY <1>2, <2>1, <2>2, <2>3, <2>4, <2>5, <2>6, <2>7, <2>8, <2>9, <2>10 DEF Proceed
  <1>3. ASSUME NEW o \in Objs, CleanerTakes(o) \/ BecomeUnreachable(o) \/ Collect(o)
        PROVE  TypeOK'
    <2>1. CASE CleanerTakes(o)
      BY <2>1 DEF TypeOK, ObjTypeOK, CacheTypeOK, ConfigTypeOK, ThreadTypeOK, CleanerTakes, Threads
    <2>2. CASE BecomeUnreachable(o)
      BY <2>2 DEF TypeOK, ObjTypeOK, CacheTypeOK, ConfigTypeOK, ThreadTypeOK, BecomeUnreachable
    <2>3. CASE Collect(o)
      BY <2>3 DEF TypeOK, ObjTypeOK, CacheTypeOK, ConfigTypeOK, ThreadTypeOK, Collect
    <2> QED
      BY <1>3, <2>1, <2>2, <2>3
  <1>4. CASE UNCHANGED vars
    BY <1>4 DEF TypeOK, ObjTypeOK, CacheTypeOK, ConfigTypeOK, ThreadTypeOK, vars
  <1> QED
    BY <1>1, <1>2, <1>3, <1>4 DEF Next, Runtime, Aborted

\* Every variable keeps its type.
THEOREM Typing == Spec => []TypeOK
  <1> QED
    BY InitTypeOK, StepTypeOK, PTL DEF Spec

-----------------------------------------------------------------------------
(* Ownership: one lemma per action, and under it one step per conjunct of   *)
(* the invariant that the action can disturb; the others come last.         *)

LEMMA InitIInv == Init => IInv
  <1> SUFFICES ASSUME Init
               PROVE  IInv
    OBVIOUS
  <1> USE PoolAssumption DEF PoolAssumption, Init, Carries, InTransit, Closing
  <1>1. TypeOK
    BY InitTypeOK
  <1>2. Places
    BY DEF Places, InObject, AloneUnlessClosing, HandleAgrees, SlotsFilled, Slots
  <1>3. ExclusiveOwnership
    BY DEF ExclusiveOwnership, OneOwner, OneCarrier, OneThreadCache, OneSlot, OwnedNotElsewhere,
       CarriedNotCached, CachedOnce, Slots
  <1>4. NoUseAfterRecycle
    BY DEF NoUseAfterRecycle, Slots
  <1> QED
    BY <1>1, <1>2, <1>3, <1>4 DEF IInv

\* What changes only the configuration of engines, only aborted, or loses contexts.
LEMMA UnchangedIInv ==
  ASSUME IInv, TypeOK', UNCHANGED <<objVars, tlsCachedState, globalCache, globalCacheSize, threadVars>>,
         allocated \subseteq allocated'
  PROVE  IInv'
  <1> USE DEF objVars, threadVars, Carries, NobodyIn
  <1>1. Places'
    BY DEF IInv, Places, InObject, AloneUnlessClosing, HandleAgrees, SlotsFilled
  <1>2. ExclusiveOwnership'
    BY DEF IInv, ExclusiveOwnership, OneOwner, OneCarrier, OneThreadCache, OneSlot,
       OwnedNotElsewhere, CarriedNotCached, CachedOnce
  <1>3. NoUseAfterRecycle'
    BY DEF IInv, NoUseAfterRecycle
  <1> QED
    BY <1>1, <1>2, <1>3 DEF IInv

\* A thread leaves a method: LeaveMethod, SetParameter, Reset, Configure and
\* ConfigureProfileFails.
LEMMA MethodReturnsIInv ==
  ASSUME IInv, TypeOK', NEW t \in Threads,
         at[t] = "using", Return(t), UNCHANGED <<objVars, cacheVars>>
  PROVE  IInv'
  <1> USE PoolAssumption DEF PoolAssumption, TypeOK, ObjTypeOK, CacheTypeOK, ThreadTypeOK, IInv,
          Places, ExclusiveOwnership, Carries, InTransit, Closing, Points, NobodyIn,
          OnlyClosersIn, Slots, Goto, Return, objVars, cacheVars, threadVars
  <1>1. InObject'
    BY DEF InObject
  <1>2. AloneUnlessClosing'
    BY DEF AloneUnlessClosing
  <1>3. HandleAgrees'
    BY DEF HandleAgrees, InObject, NoUseAfterRecycle
  <1>4. OneCarrier'
    BY DEF OneCarrier
  <1>5. OwnedNotElsewhere'
    BY DEF OwnedNotElsewhere
  <1>6. CarriedNotCached'
    BY DEF CarriedNotCached
  <1>7. NoUseAfterRecycle'
    BY DEF NoUseAfterRecycle
  <1>8. SlotsFilled' /\ OneOwner' /\ OneThreadCache' /\ OneSlot' /\ CachedOnce'
    BY DEF SlotsFilled, OneOwner, OneThreadCache, OneSlot, CachedOnce
  <1> QED
    BY <1>1, <1>2, <1>3, <1>4, <1>5, <1>6, <1>7, <1>8

\* The engine leaves the thread's cache as it enters the thread's hands.
LEMMA AcquireFromTlsIInv ==
  ASSUME IInv, TypeOK', NEW t \in AppThreads, NEW o \in Objs, NEW g \in Graphs, AcquireFromTls(t, o, g)
  PROVE  IInv'
  <1> USE PoolAssumption DEF PoolAssumption, TypeOK, ObjTypeOK, CacheTypeOK, ThreadTypeOK, IInv,
          Places, ExclusiveOwnership, Carries, InTransit, Closing, Points, NobodyIn,
          OnlyClosersIn, Slots, Goto, Return, objVars, cacheVars, threadVars
  <1>1. InObject'
    BY DEF AcquireFromTls, Threads, InObject
  <1>2. AloneUnlessClosing'
    BY DEF AcquireFromTls, Threads, AloneUnlessClosing
  <1>3. HandleAgrees'
    BY DEF AcquireFromTls, Threads, HandleAgrees, InObject
  <1>4. OneCarrier'
    BY DEF AcquireFromTls, Threads, OneCarrier, CarriedNotCached, InObject, OwnedNotElsewhere
  <1>5. OneThreadCache'
    BY DEF AcquireFromTls, Threads, OneThreadCache
  <1>6. OwnedNotElsewhere'
    BY DEF AcquireFromTls, Threads, OwnedNotElsewhere, InObject, NoUseAfterRecycle
  <1>7. CarriedNotCached'
    BY DEF AcquireFromTls, Threads, CarriedNotCached, OneThreadCache, CachedOnce, InObject
  <1>8. CachedOnce'
    BY DEF AcquireFromTls, Threads, CachedOnce, InObject, NoUseAfterRecycle
  <1>9. NoUseAfterRecycle'
    BY DEF AcquireFromTls, Threads, NoUseAfterRecycle
  <1>10. SlotsFilled' /\ OneOwner' /\ OneSlot'
    BY DEF AcquireFromTls, Threads, SlotsFilled, OneOwner, OneSlot
  <1> QED
    BY <1>1, <1>2, <1>3, <1>4, <1>5, <1>6, <1>7, <1>8, <1>9, <1>10

\* The slot keeps its pointer but is no longer below the size.
LEMMA AcquireFromGlobalIInv ==
  ASSUME IInv, TypeOK', NEW t \in AppThreads, NEW o \in Objs, NEW g \in Graphs, AcquireFromGlobal(t, o, g)
  PROVE  IInv'
  <1> USE PoolAssumption DEF PoolAssumption, TypeOK, ObjTypeOK, CacheTypeOK, ThreadTypeOK, IInv,
          Places, ExclusiveOwnership, Carries, InTransit, Closing, Points, NobodyIn,
          OnlyClosersIn, Slots, Goto, Return, objVars, cacheVars, threadVars
  <1>1. InObject'
    BY DEF AcquireFromGlobal, Threads, InObject, NoUseAfterRecycle
  <1>2. AloneUnlessClosing'
    BY DEF AcquireFromGlobal, Threads, AloneUnlessClosing
  <1>3. HandleAgrees'
    BY DEF AcquireFromGlobal, Threads, HandleAgrees, InObject
  <1>4. SlotsFilled'
    BY DEF AcquireFromGlobal, Threads, SlotsFilled
  <1>5. OneCarrier'
    BY DEF AcquireFromGlobal, Threads, OneCarrier, CarriedNotCached, InObject, OwnedNotElsewhere
  <1>6. OneSlot'
    BY DEF AcquireFromGlobal, Threads, OneSlot
  <1>7. OwnedNotElsewhere'
    BY DEF AcquireFromGlobal, Threads, OwnedNotElsewhere
  <1>8. CarriedNotCached'
    BY DEF AcquireFromGlobal, Threads, CarriedNotCached, OneSlot, CachedOnce, SlotsFilled,
       InObject
  <1>9. CachedOnce'
    BY DEF AcquireFromGlobal, Threads, CachedOnce
  <1>10. NoUseAfterRecycle'
    BY DEF AcquireFromGlobal, Threads, NoUseAfterRecycle
  <1>11. OneOwner' /\ OneThreadCache'
    BY DEF AcquireFromGlobal, Threads, OneOwner, OneThreadCache
  <1> QED
    BY <1>1, <1>2, <1>3, <1>4, <1>5, <1>6, <1>7, <1>8, <1>9, <1>10, <1>11

\* An address that is not allocated is in no place.
LEMMA AcquireNewIInv ==
  ASSUME IInv, TypeOK', NEW t \in AppThreads, NEW o \in Objs, NEW g \in Graphs, NEW s \in States, AcquireNew(t, o, g, s)
  PROVE  IInv'
  <1> USE PoolAssumption DEF PoolAssumption, TypeOK, ObjTypeOK, CacheTypeOK, ThreadTypeOK, IInv,
          Places, ExclusiveOwnership, Carries, InTransit, Closing, Points, NobodyIn,
          OnlyClosersIn, Slots, Goto, Return, objVars, cacheVars, threadVars
  <1>1. InObject'
    BY DEF AcquireNew, Threads, InObject
  <1>2. AloneUnlessClosing'
    BY DEF AcquireNew, Threads, AloneUnlessClosing
  <1>3. HandleAgrees'
    BY DEF AcquireNew, Threads, HandleAgrees, InObject
  <1>4. OneCarrier'
    BY DEF AcquireNew, Threads, OneCarrier, InObject, NoUseAfterRecycle
  <1>5. OwnedNotElsewhere'
    BY DEF AcquireNew, Threads, OwnedNotElsewhere, InObject, NoUseAfterRecycle
  <1>6. CarriedNotCached'
    BY DEF AcquireNew, Threads, CarriedNotCached, InObject, NoUseAfterRecycle
  <1>7. NoUseAfterRecycle'
    BY DEF AcquireNew, Threads, NoUseAfterRecycle
  <1>8. SlotsFilled' /\ OneOwner' /\ OneThreadCache' /\ OneSlot' /\ CachedOnce'
    BY DEF AcquireNew, Threads, SlotsFilled, OneOwner, OneThreadCache, OneSlot, CachedOnce
  <1> QED
    BY <1>1, <1>2, <1>3, <1>4, <1>5, <1>6, <1>7, <1>8

LEMMA PrepareCachedIInv ==
  ASSUME IInv, TypeOK', NEW t \in Threads, PrepareCached(t)
  PROVE  IInv'
  <1> USE PoolAssumption DEF PoolAssumption, TypeOK, ObjTypeOK, CacheTypeOK, ThreadTypeOK, IInv,
          Places, ExclusiveOwnership, Carries, InTransit, Closing, Points, NobodyIn,
          OnlyClosersIn, Slots, Goto, Return, objVars, cacheVars, threadVars
  <1>1. InObject'
    BY DEF PrepareCached, InObject
  <1>2. AloneUnlessClosing'
    BY DEF PrepareCached, AloneUnlessClosing
  <1>3. OneCarrier'
    BY DEF PrepareCached, OneCarrier
  <1>4. OwnedNotElsewhere'
    BY DEF PrepareCached, OwnedNotElsewhere
  <1>5. CarriedNotCached'
    BY DEF PrepareCached, CarriedNotCached
  <1>6. NoUseAfterRecycle'
    BY DEF PrepareCached, NoUseAfterRecycle
  <1>7. HandleAgrees' /\ SlotsFilled' /\ OneOwner' /\ OneThreadCache' /\ OneSlot' /\ CachedOnce'
    BY DEF PrepareCached, HandleAgrees, SlotsFilled, OneOwner, OneThreadCache, OneSlot, CachedOnce
  <1> QED
    BY <1>1, <1>2, <1>3, <1>4, <1>5, <1>6, <1>7

\* The engine is dropped.
LEMMA PrepareCachedFailsIInv ==
  ASSUME IInv, TypeOK', NEW t \in Threads, PrepareCachedFails(t)
  PROVE  IInv'
  <1> USE PoolAssumption DEF PoolAssumption, TypeOK, ObjTypeOK, CacheTypeOK, ThreadTypeOK, IInv,
          Places, ExclusiveOwnership, Carries, InTransit, Closing, Points, NobodyIn,
          OnlyClosersIn, Slots, Goto, Return, objVars, cacheVars, threadVars
  <1>1. InObject'
    BY DEF PrepareCachedFails, InObject
  <1>2. AloneUnlessClosing'
    BY DEF PrepareCachedFails, AloneUnlessClosing
  <1>3. HandleAgrees'
    BY DEF PrepareCachedFails, HandleAgrees, InObject
  <1>4. OneCarrier'
    BY DEF PrepareCachedFails, OneCarrier
  <1>5. OwnedNotElsewhere'
    BY DEF PrepareCachedFails, OwnedNotElsewhere
  <1>6. CarriedNotCached'
    BY DEF PrepareCachedFails, CarriedNotCached
  <1>7. NoUseAfterRecycle'
    BY DEF PrepareCachedFails, NoUseAfterRecycle
  <1>8. SlotsFilled' /\ OneOwner' /\ OneThreadCache' /\ OneSlot' /\ CachedOnce'
    BY DEF PrepareCachedFails, SlotsFilled, OneOwner, OneThreadCache, OneSlot, CachedOnce
  <1> QED
    BY <1>1, <1>2, <1>3, <1>4, <1>5, <1>6, <1>7, <1>8

\* The engine passes from the thread to the object.
LEMMA ConstructIInv ==
  ASSUME IInv, TypeOK', NEW t \in Threads, Construct(t)
  PROVE  IInv'
  <1> USE PoolAssumption DEF PoolAssumption, TypeOK, ObjTypeOK, CacheTypeOK, ThreadTypeOK, IInv,
          Places, ExclusiveOwnership, Carries, InTransit, Closing, Points, NobodyIn,
          OnlyClosersIn, Slots, Goto, Return, objVars, cacheVars, threadVars
  <1>1. InObject'
    BY DEF Construct, InObject, AloneUnlessClosing
  <1>2. AloneUnlessClosing'
    BY DEF Construct, AloneUnlessClosing
  <1>3. HandleAgrees'
    BY DEF Construct, HandleAgrees, InObject
  <1>4. OneOwner'
    BY DEF Construct, OneOwner, CarriedNotCached, InObject, OwnedNotElsewhere
  <1>5. OneCarrier'
    BY DEF Construct, OneCarrier
  <1>6. OwnedNotElsewhere'
    BY DEF Construct, OwnedNotElsewhere, CarriedNotCached, OneCarrier, InObject
  <1>7. CarriedNotCached'
    BY DEF Construct, CarriedNotCached
  <1>8. NoUseAfterRecycle'
    BY DEF Construct, NoUseAfterRecycle, InObject
  <1>9. SlotsFilled' /\ OneThreadCache' /\ OneSlot' /\ CachedOnce'
    BY DEF Construct, SlotsFilled, OneThreadCache, OneSlot, CachedOnce
  <1> QED
    BY <1>1, <1>2, <1>3, <1>4, <1>5, <1>6, <1>7, <1>8, <1>9

\* A handle that is not 0 is the engine of an object that is not closed.
LEMMA EnterMethodIInv ==
  ASSUME IInv, TypeOK', NEW t \in AppThreads, NEW o \in Objs, EnterMethod(t, o)
  PROVE  IInv'
  <1> USE PoolAssumption DEF PoolAssumption, TypeOK, ObjTypeOK, CacheTypeOK, ThreadTypeOK, IInv,
          Places, ExclusiveOwnership, Carries, InTransit, Closing, Points, NobodyIn,
          OnlyClosersIn, Slots, Goto, Return, objVars, cacheVars, threadVars
  <1>1. InObject'
    BY DEF EnterMethod, Threads, InObject
  <1>2. AloneUnlessClosing'
    BY DEF EnterMethod, Threads, AloneUnlessClosing
  <1>3. HandleAgrees'
    BY DEF EnterMethod, Threads, HandleAgrees, InObject
  <1>4. OneCarrier'
    BY DEF EnterMethod, Threads, OneCarrier
  <1>5. OwnedNotElsewhere'
    BY DEF EnterMethod, Threads, OwnedNotElsewhere
  <1>6. CarriedNotCached'
    BY DEF EnterMethod, Threads, CarriedNotCached
  <1>7. NoUseAfterRecycle'
    BY DEF EnterMethod, Threads, NoUseAfterRecycle, HandleAgrees, InObject, OwnedNotElsewhere
  <1>8. SlotsFilled' /\ OneOwner' /\ OneThreadCache' /\ OneSlot' /\ CachedOnce'
    BY DEF EnterMethod, Threads, SlotsFilled, OneOwner, OneThreadCache, OneSlot, CachedOnce
  <1> QED
    BY <1>1, <1>2, <1>3, <1>4, <1>5, <1>6, <1>7, <1>8

\* The engine passes from the object to the thread that removed the Cleanable.
LEMMA CloseCleanIInv ==
  ASSUME IInv, TypeOK', NEW t \in AppThreads, NEW o \in Objs, CloseClean(t, o)
  PROVE  IInv'
  <1> USE PoolAssumption DEF PoolAssumption, TypeOK, ObjTypeOK, CacheTypeOK, ThreadTypeOK, IInv,
          Places, ExclusiveOwnership, Carries, InTransit, Closing, Points, NobodyIn,
          OnlyClosersIn, Slots, Goto, Return, objVars, cacheVars, threadVars
  <1>1. InObject'
    BY DEF CloseClean, Threads, InObject, NoUseAfterRecycle
  <1>2. AloneUnlessClosing'
    BY DEF CloseClean, Threads, AloneUnlessClosing, InObject
  <1>3. HandleAgrees'
    BY DEF CloseClean, Threads, HandleAgrees, InObject
  <1>4. OneOwner'
    BY DEF CloseClean, Threads, OneOwner
  <1>5. OneCarrier'
    BY DEF CloseClean, Threads, OneCarrier, CarriedNotCached, InObject, OwnedNotElsewhere
  <1>6. OwnedNotElsewhere'
    BY DEF CloseClean, Threads, OwnedNotElsewhere, OneOwner, InObject, HandleAgrees
  <1>7. CarriedNotCached'
    BY DEF CloseClean, Threads, CarriedNotCached, InObject, OwnedNotElsewhere
  <1>8. NoUseAfterRecycle'
    BY DEF CloseClean, Threads, NoUseAfterRecycle
  <1>9. SlotsFilled' /\ OneThreadCache' /\ OneSlot' /\ CachedOnce'
    BY DEF CloseClean, Threads, SlotsFilled, OneThreadCache, OneSlot, CachedOnce
  <1> QED
    BY <1>1, <1>2, <1>3, <1>4, <1>5, <1>6, <1>7, <1>8, <1>9

LEMMA CloseAgainIInv ==
  ASSUME IInv, TypeOK', NEW t \in AppThreads, NEW o \in Objs, CloseAgain(t, o)
  PROVE  IInv'
  <1> USE PoolAssumption DEF PoolAssumption, TypeOK, ObjTypeOK, CacheTypeOK, ThreadTypeOK, IInv,
          Places, ExclusiveOwnership, Carries, InTransit, Closing, Points, NobodyIn,
          OnlyClosersIn, Slots, Goto, Return, objVars, cacheVars, threadVars
  <1>1. InObject'
    BY DEF CloseAgain, Threads, InObject
  <1>2. AloneUnlessClosing'
    BY DEF CloseAgain, Threads, AloneUnlessClosing, InObject
  <1>3. HandleAgrees'
    BY DEF CloseAgain, Threads, HandleAgrees, InObject
  <1>4. OneCarrier'
    BY DEF CloseAgain, Threads, OneCarrier
  <1>5. OwnedNotElsewhere'
    BY DEF CloseAgain, Threads, OwnedNotElsewhere
  <1>6. CarriedNotCached'
    BY DEF CloseAgain, Threads, CarriedNotCached
  <1>7. NoUseAfterRecycle'
    BY DEF CloseAgain, Threads, NoUseAfterRecycle
  <1>8. SlotsFilled' /\ OneOwner' /\ OneThreadCache' /\ OneSlot' /\ CachedOnce'
    BY DEF CloseAgain, Threads, SlotsFilled, OneOwner, OneThreadCache, OneSlot, CachedOnce
  <1> QED
    BY <1>1, <1>2, <1>3, <1>4, <1>5, <1>6, <1>7, <1>8

\* The same for the Cleaner thread and an unreachable object.
LEMMA CleanerTakesIInv ==
  ASSUME IInv, TypeOK', NEW o \in Objs, CleanerTakes(o)
  PROVE  IInv'
  <1> USE PoolAssumption DEF PoolAssumption, TypeOK, ObjTypeOK, CacheTypeOK, ThreadTypeOK, IInv,
          Places, ExclusiveOwnership, Carries, InTransit, Closing, Points, NobodyIn,
          OnlyClosersIn, Slots, Goto, Return, objVars, cacheVars, threadVars
  <1>1. InObject'
    BY DEF CleanerTakes, Threads, InObject, NoUseAfterRecycle
  <1>2. AloneUnlessClosing'
    BY DEF CleanerTakes, Threads, AloneUnlessClosing, InObject
  <1>3. HandleAgrees'
    BY DEF CleanerTakes, Threads, HandleAgrees, InObject
  <1>4. OneOwner'
    BY DEF CleanerTakes, Threads, OneOwner
  <1>5. OneCarrier'
    BY DEF CleanerTakes, Threads, OneCarrier, CarriedNotCached, InObject, OwnedNotElsewhere
  <1>6. OwnedNotElsewhere'
    BY DEF CleanerTakes, Threads, OwnedNotElsewhere, OneOwner, InObject, HandleAgrees
  <1>7. CarriedNotCached'
    BY DEF CleanerTakes, Threads, CarriedNotCached, InObject, OwnedNotElsewhere
  <1>8. NoUseAfterRecycle'
    BY DEF CleanerTakes, Threads, NoUseAfterRecycle, InObject
  <1>9. SlotsFilled' /\ OneThreadCache' /\ OneSlot' /\ CachedOnce'
    BY DEF CleanerTakes, Threads, SlotsFilled, OneThreadCache, OneSlot, CachedOnce
  <1> QED
    BY <1>1, <1>2, <1>3, <1>4, <1>5, <1>6, <1>7, <1>8, <1>9

LEMMA RecycleResetIInv ==
  ASSUME IInv, TypeOK', NEW t \in Threads, RecycleReset(t)
  PROVE  IInv'
  <1> USE PoolAssumption DEF PoolAssumption, TypeOK, ObjTypeOK, CacheTypeOK, ThreadTypeOK, IInv,
          Places, ExclusiveOwnership, Carries, InTransit, Closing, Points, NobodyIn,
          OnlyClosersIn, Slots, Goto, Return, objVars, cacheVars, threadVars
  <1>1. InObject'
    BY DEF RecycleReset, InObject
  <1>2. AloneUnlessClosing'
    BY DEF RecycleReset, AloneUnlessClosing
  <1>3. OneCarrier'
    BY DEF RecycleReset, OneCarrier
  <1>4. OwnedNotElsewhere'
    BY DEF RecycleReset, OwnedNotElsewhere
  <1>5. CarriedNotCached'
    BY DEF RecycleReset, CarriedNotCached
  <1>6. NoUseAfterRecycle'
    BY DEF RecycleReset, NoUseAfterRecycle
  <1>7. HandleAgrees' /\ SlotsFilled' /\ OneOwner' /\ OneThreadCache' /\ OneSlot' /\ CachedOnce'
    BY DEF RecycleReset, HandleAgrees, SlotsFilled, OneOwner, OneThreadCache, OneSlot, CachedOnce
  <1> QED
    BY <1>1, <1>2, <1>3, <1>4, <1>5, <1>6, <1>7

\* The engine passes from the closer to its thread's cache ...
LEMMA ParkInTlsIInv ==
  ASSUME IInv, TypeOK', NEW t \in Threads, ParkInTls(t)
  PROVE  IInv'
  <1> USE PoolAssumption DEF PoolAssumption, TypeOK, ObjTypeOK, CacheTypeOK, ThreadTypeOK, IInv,
          Places, ExclusiveOwnership, Carries, InTransit, Closing, Points, NobodyIn,
          OnlyClosersIn, Slots, Goto, Return, objVars, cacheVars, threadVars
  <1>1. InObject'
    BY DEF ParkInTls, AfterRecycle, InObject
  <1>2. AloneUnlessClosing'
    BY DEF ParkInTls, AfterRecycle, AloneUnlessClosing
  <1>3. HandleAgrees'
    BY DEF ParkInTls, AfterRecycle, HandleAgrees, InObject
  <1>4. OneOwner'
    BY DEF ParkInTls, AfterRecycle, OneOwner, InObject
  <1>5. OneCarrier'
    BY DEF ParkInTls, AfterRecycle, OneCarrier
  <1>6. OneThreadCache'
    BY DEF ParkInTls, AfterRecycle, OneThreadCache, CarriedNotCached, InObject, OwnedNotElsewhere
  <1>7. OwnedNotElsewhere'
    BY DEF ParkInTls, AfterRecycle, OwnedNotElsewhere, InObject
  <1>8. CarriedNotCached'
    BY DEF ParkInTls, AfterRecycle, CarriedNotCached, OneCarrier, InObject
  <1>9. CachedOnce'
    BY DEF ParkInTls, AfterRecycle, CachedOnce, CarriedNotCached, InObject, OwnedNotElsewhere
  <1>10. NoUseAfterRecycle'
    <2> USE DEF ParkInTls, AfterRecycle, NoUseAfterRecycle
    <2>1. stateOf[t] \in allocated /\ allocated' = allocated /\ ~registered[objOf[t]] /\ registered' = registered
      BY DEF InObject
    <2>2. \A u \in Threads : at'[u] = "using" =>
             registered'[objOf'[u]] /\ stateOf'[u] = cleanerHandle'[objOf'[u]]
      <3> SUFFICES ASSUME NEW u \in Threads, at'[u] = "using"
                   PROVE  registered'[objOf'[u]] /\ stateOf'[u] = cleanerHandle'[objOf'[u]]
        OBVIOUS
      <3>1. u # t /\ at[u] = "using" /\ objOf'[u] = objOf[u] /\ stateOf'[u] = stateOf[u]
        OBVIOUS
      <3>2. registered[objOf[u]] /\ stateOf[u] = cleanerHandle[objOf[u]] /\ objOf[u] \in Objs
        BY <3>1 DEF InObject
      <3> QED
        BY <2>1, <3>1, <3>2
    <2>3. \A o \in Objs : registered'[o] => cleanerHandle'[o] \in allocated'
      BY <2>1
    <2>4. ASSUME NEW u \in Threads, Carries(u)'
          PROVE  stateOf'[u] \in allocated'
      <3>1. u # t
        BY <2>4
      <3>2. Carries(u) /\ stateOf'[u] = stateOf[u]
        BY <2>4, <3>1
      <3> QED
        BY <2>1, <3>2
    <2>5. \A u \in Threads : tlsCachedState'[u] # Null => tlsCachedState'[u] \in allocated'
      BY <2>1
    <2>6. \A i \in Slots : i < globalCacheSize' => globalCache'[i] \in allocated'
      BY <2>1
    <2> QED
      BY <2>2, <2>3, <2>4, <2>5, <2>6
  <1>11. SlotsFilled' /\ OneSlot'
    BY DEF ParkInTls, AfterRecycle, SlotsFilled, OneSlot
  <1> QED
    BY <1>1, <1>2, <1>3, <1>4, <1>5, <1>6, <1>7, <1>8, <1>9, <1>10, <1>11

\* ... to the first free slot of the global cache ...
LEMMA ParkInGlobalIInv ==
  ASSUME IInv, TypeOK', NEW t \in Threads, ParkInGlobal(t)
  PROVE  IInv'
  <1> USE PoolAssumption DEF PoolAssumption, TypeOK, ObjTypeOK, CacheTypeOK, ThreadTypeOK, IInv,
          Places, ExclusiveOwnership, Carries, InTransit, Closing, Points, NobodyIn,
          OnlyClosersIn, Slots, Goto, Return, objVars, cacheVars, threadVars
  <1>1. InObject'
    BY DEF ParkInGlobal, AfterRecycle, InObject
  <1>2. AloneUnlessClosing'
    BY DEF ParkInGlobal, AfterRecycle, AloneUnlessClosing
  <1>3. HandleAgrees'
    BY DEF ParkInGlobal, AfterRecycle, HandleAgrees, InObject
  <1>4. SlotsFilled'
    BY DEF ParkInGlobal, AfterRecycle, SlotsFilled, InObject
  <1>5. OneOwner'
    BY DEF ParkInGlobal, AfterRecycle, OneOwner, InObject
  <1>6. OneCarrier'
    <2>1. \A u \in Threads : Carries(u)' => Carries(u) /\ stateOf'[u] = stateOf[u]
      BY DEF ParkInGlobal, AfterRecycle
    <2> QED
      BY <2>1 DEF OneCarrier
  <1>7. OneSlot'
    <2>1. \A i \in Slots : i < globalCacheSize => globalCache[i] # stateOf[t]
      BY DEF ParkInGlobal, CarriedNotCached
    <2>2. \A i \in Slots : i < globalCacheSize' =>
             \/ i < globalCacheSize /\ globalCache'[i] = globalCache[i]
             \/ i = globalCacheSize /\ globalCache'[i] = stateOf[t]
      BY DEF ParkInGlobal
    <2> QED
      BY <2>1, <2>2 DEF OneSlot
  <1>8. OwnedNotElsewhere'
    BY DEF ParkInGlobal, AfterRecycle, OwnedNotElsewhere, InObject
  <1>9. CarriedNotCached'
    BY DEF ParkInGlobal, AfterRecycle, CarriedNotCached, OneCarrier, InObject
  <1>10. CachedOnce'
    BY DEF ParkInGlobal, AfterRecycle, CachedOnce, CarriedNotCached, InObject, OwnedNotElsewhere
  <1>11. NoUseAfterRecycle'
    <2> USE DEF ParkInGlobal, AfterRecycle, NoUseAfterRecycle
    <2>1. stateOf[t] \in allocated /\ allocated' = allocated /\ ~registered[objOf[t]] /\ registered' = registered
      BY DEF InObject
    <2>2. \A u \in Threads : at'[u] = "using" =>
             registered'[objOf'[u]] /\ stateOf'[u] = cleanerHandle'[objOf'[u]]
      <3> SUFFICES ASSUME NEW u \in Threads, at'[u] = "using"
                   PROVE  registered'[objOf'[u]] /\ stateOf'[u] = cleanerHandle'[objOf'[u]]
        OBVIOUS
      <3>1. u # t /\ at[u] = "using" /\ objOf'[u] = objOf[u] /\ stateOf'[u] = stateOf[u]
        OBVIOUS
      <3>2. registered[objOf[u]] /\ stateOf[u] = cleanerHandle[objOf[u]] /\ objOf[u] \in Objs
        BY <3>1 DEF InObject
      <3> QED
        BY <2>1, <3>1, <3>2
    <2>3. \A o \in Objs : registered'[o] => cleanerHandle'[o] \in allocated'
      BY <2>1
    <2>4. ASSUME NEW u \in Threads, Carries(u)'
          PROVE  stateOf'[u] \in allocated'
      <3>1. u # t
        BY <2>4
      <3>2. Carries(u) /\ stateOf'[u] = stateOf[u]
        BY <2>4, <3>1
      <3> QED
        BY <2>1, <3>2
    <2>5. \A u \in Threads : tlsCachedState'[u] # Null => tlsCachedState'[u] \in allocated'
      BY <2>1
    <2>6. ASSUME NEW i \in Slots, i < globalCacheSize'
          PROVE  globalCache'[i] \in allocated'
      <3>1. CASE i = globalCacheSize
        BY <2>1, <3>1
      <3>2. CASE i # globalCacheSize
        <4>1. i < globalCacheSize /\ globalCache'[i] = globalCache[i]
          BY <2>6, <3>2
        <4> QED
          BY <2>1, <4>1
      <3> QED
        BY <3>1, <3>2
    <2> QED
      BY <2>2, <2>3, <2>4, <2>5, <2>6
  <1>12. OneThreadCache'
    BY DEF ParkInGlobal, AfterRecycle, OneThreadCache
  <1> QED
    BY <1>1, <1>2, <1>3, <1>4, <1>5, <1>6, <1>7, <1>8, <1>9, <1>10, <1>11, <1>12

\* ... or is deleted, when no other place holds it.
LEMMA DeleteIInv ==
  ASSUME IInv, TypeOK', NEW t \in Threads, Delete(t)
  PROVE  IInv'
  <1> USE PoolAssumption DEF PoolAssumption, TypeOK, ObjTypeOK, CacheTypeOK, ThreadTypeOK, IInv,
          Places, ExclusiveOwnership, Carries, InTransit, Closing, Points, NobodyIn,
          OnlyClosersIn, Slots, Goto, Return, objVars, cacheVars, threadVars
  <1>1. InObject'
    BY DEF Delete, AfterRecycle, InObject
  <1>2. AloneUnlessClosing'
    BY DEF Delete, AfterRecycle, AloneUnlessClosing
  <1>3. HandleAgrees'
    BY DEF Delete, AfterRecycle, HandleAgrees, InObject
  <1>4. OneOwner'
    BY DEF Delete, AfterRecycle, OneOwner, InObject
  <1>5. OneCarrier'
    BY DEF Delete, AfterRecycle, OneCarrier
  <1>6. OwnedNotElsewhere'
    BY DEF Delete, AfterRecycle, OwnedNotElsewhere, InObject
  <1>7. CarriedNotCached'
    BY DEF Delete, AfterRecycle, CarriedNotCached
  <1>8. NoUseAfterRecycle'
    <2>1. \A u \in Threads : at'[u] = "using" =>
             registered'[objOf'[u]] /\ stateOf'[u] = cleanerHandle'[objOf'[u]]
      BY DEF Delete, AfterRecycle, NoUseAfterRecycle, InObject
    <2>2. \A o \in Objs : registered'[o] => cleanerHandle'[o] \in allocated'
      BY DEF Delete, AfterRecycle, NoUseAfterRecycle, InObject, OwnedNotElsewhere
    <2>3. \A u \in Threads : Carries(u)' => stateOf'[u] \in allocated'
      BY DEF Delete, AfterRecycle, NoUseAfterRecycle, InObject, OneCarrier
    <2>4. \A u \in Threads : tlsCachedState'[u] # Null => tlsCachedState'[u] \in allocated'
      BY DEF Delete, AfterRecycle, NoUseAfterRecycle, InObject, CarriedNotCached
    <2>5. \A i \in Slots : i < globalCacheSize' => globalCache'[i] \in allocated'
      BY DEF Delete, AfterRecycle, NoUseAfterRecycle, InObject, CarriedNotCached
    <2> QED
      BY <2>1, <2>2, <2>3, <2>4, <2>5 DEF NoUseAfterRecycle
  <1>9. SlotsFilled' /\ OneThreadCache' /\ OneSlot' /\ CachedOnce'
    BY DEF Delete, AfterRecycle, SlotsFilled, OneThreadCache, OneSlot, CachedOnce
  <1> QED
    BY <1>1, <1>2, <1>3, <1>4, <1>5, <1>6, <1>7, <1>8, <1>9

LEMMA ZeroHandleIInv ==
  ASSUME IInv, TypeOK', NEW t \in Threads, ZeroHandle(t)
  PROVE  IInv'
  <1> USE PoolAssumption DEF PoolAssumption, TypeOK, ObjTypeOK, CacheTypeOK, ThreadTypeOK, IInv,
          Places, ExclusiveOwnership, Carries, InTransit, Closing, Points, NobodyIn,
          OnlyClosersIn, Slots, Goto, Return, objVars, cacheVars, threadVars
  <1>1. InObject'
    BY DEF ZeroHandle, InObject
  <1>2. AloneUnlessClosing'
    BY DEF ZeroHandle, AloneUnlessClosing
  <1>3. HandleAgrees'
    BY DEF ZeroHandle, HandleAgrees, InObject
  <1>4. OneCarrier'
    BY DEF ZeroHandle, OneCarrier
  <1>5. OwnedNotElsewhere'
    BY DEF ZeroHandle, OwnedNotElsewhere
  <1>6. CarriedNotCached'
    BY DEF ZeroHandle, CarriedNotCached
  <1>7. NoUseAfterRecycle'
    BY DEF ZeroHandle, NoUseAfterRecycle
  <1>8. SlotsFilled' /\ OneOwner' /\ OneThreadCache' /\ OneSlot' /\ CachedOnce'
    BY DEF ZeroHandle, SlotsFilled, OneOwner, OneThreadCache, OneSlot, CachedOnce
  <1> QED
    BY <1>1, <1>2, <1>3, <1>4, <1>5, <1>6, <1>7, <1>8

LEMMA BecomeUnreachableIInv ==
  ASSUME IInv, TypeOK', NEW o \in Objs, BecomeUnreachable(o)
  PROVE  IInv'
  <1> USE PoolAssumption DEF PoolAssumption, TypeOK, ObjTypeOK, CacheTypeOK, ThreadTypeOK, IInv,
          Places, ExclusiveOwnership, Carries, InTransit, Closing, Points, NobodyIn,
          OnlyClosersIn, Slots, Goto, Return, objVars, cacheVars, threadVars
  <1>1. InObject'
    BY DEF BecomeUnreachable, InObject
  <1>2. HandleAgrees'
    BY DEF BecomeUnreachable, HandleAgrees
  <1>3. AloneUnlessClosing' /\ SlotsFilled' /\ OneOwner' /\ OneCarrier' /\ OneThreadCache' 
       /\ OneSlot' /\ OwnedNotElsewhere' /\ CarriedNotCached' /\ CachedOnce' /\ NoUseAfterRecycle'
    BY DEF BecomeUnreachable, AloneUnlessClosing, SlotsFilled, OneOwner, OneCarrier,
       OneThreadCache, OneSlot, OwnedNotElsewhere, CarriedNotCached, CachedOnce, NoUseAfterRecycle
  <1> QED
    BY <1>1, <1>2, <1>3

LEMMA CollectIInv ==
  ASSUME IInv, TypeOK', NEW o \in Objs, Collect(o)
  PROVE  IInv'
  <1> USE PoolAssumption DEF PoolAssumption, TypeOK, ObjTypeOK, CacheTypeOK, ThreadTypeOK, IInv,
          Places, ExclusiveOwnership, Carries, InTransit, Closing, Points, NobodyIn,
          OnlyClosersIn, Slots, Goto, Return, objVars, cacheVars, threadVars
  <1>1. InObject'
    BY DEF Collect, InObject
  <1>2. HandleAgrees'
    BY DEF Collect, HandleAgrees
  <1>3. AloneUnlessClosing' /\ SlotsFilled' /\ OneOwner' /\ OneCarrier' /\ OneThreadCache' 
       /\ OneSlot' /\ OwnedNotElsewhere' /\ CarriedNotCached' /\ CachedOnce' /\ NoUseAfterRecycle'
    BY DEF Collect, AloneUnlessClosing, SlotsFilled, OneOwner, OneCarrier, OneThreadCache,
       OneSlot, OwnedNotElsewhere, CarriedNotCached, CachedOnce, NoUseAfterRecycle
  <1> QED
    BY <1>1, <1>2, <1>3

LEMMA ThreadExitIInv ==
  ASSUME IInv, TypeOK', NEW t \in AppThreads, ThreadExit(t)
  PROVE  IInv'
  <1> USE PoolAssumption DEF PoolAssumption, TypeOK, ObjTypeOK, CacheTypeOK, ThreadTypeOK, IInv,
          Places, ExclusiveOwnership, Carries, InTransit, Closing, Points, NobodyIn,
          OnlyClosersIn, Slots, Goto, Return, objVars, cacheVars, threadVars
  <1>1. OneThreadCache'
    BY DEF ThreadExit, Threads, OneThreadCache
  <1>2. OwnedNotElsewhere'
    BY DEF ThreadExit, Threads, OwnedNotElsewhere, InObject, NoUseAfterRecycle
  <1>3. CarriedNotCached'
    BY DEF ThreadExit, Threads, CarriedNotCached, InObject
  <1>4. CachedOnce'
    BY DEF ThreadExit, Threads, CachedOnce, InObject, NoUseAfterRecycle
  <1>5. NoUseAfterRecycle'
    BY DEF ThreadExit, Threads, NoUseAfterRecycle
  <1>6. InObject' /\ AloneUnlessClosing' /\ HandleAgrees' /\ SlotsFilled' /\ OneOwner' 
       /\ OneCarrier' /\ OneSlot'
    BY DEF ThreadExit, Threads, InObject, AloneUnlessClosing, HandleAgrees, SlotsFilled, OneOwner,
       OneCarrier, OneSlot
  <1> QED
    BY <1>1, <1>2, <1>3, <1>4, <1>5, <1>6

-----------------------------------------------------------------------------

LEMMA StepIInv ==
  ASSUME IInv, [Next]_vars
  PROVE  IInv'
  <1>0. TypeOK'
    BY StepTypeOK DEF IInv
  <1>1. ASSUME NEW t \in AppThreads, App(t)
        PROVE  IInv'
    <2>0. t \in Threads
      BY DEF Threads
    <2>1. ASSUME NEW o \in Objs, NEW g \in Graphs, AcquireFromTls(t, o, g)
          PROVE  IInv'
      BY <1>0, <2>1, AcquireFromTlsIInv
    <2>2. ASSUME NEW o \in Objs, NEW g \in Graphs, AcquireFromGlobal(t, o, g)
          PROVE  IInv'
      BY <1>0, <2>2, AcquireFromGlobalIInv
    <2>3. ASSUME NEW o \in Objs, NEW g \in Graphs, NEW s \in States, AcquireNew(t, o, g, s)
          PROVE  IInv'
      BY <1>0, <2>3, AcquireNewIInv
    <2>4. CASE AcquireNewFails(t)
      BY <1>0, <2>4, UnchangedIInv DEF AcquireNewFails
    <2>5. ASSUME NEW o \in Objs, EnterMethod(t, o)
          PROVE  IInv'
      BY <1>0, <2>5, EnterMethodIInv
    <2>6. ASSUME NEW o \in Objs, CloseClean(t, o)
          PROVE  IInv'
      BY <1>0, <2>6, CloseCleanIInv
    <2>7. ASSUME NEW o \in Objs, CloseAgain(t, o)
          PROVE  IInv'
      BY <1>0, <2>7, CloseAgainIInv
    <2>8. ASSUME NEW v \in Levels, SetParameter(t, v)
          PROVE  IInv'
      BY <1>0, <2>0, <2>8, MethodReturnsIInv DEF SetParameter
    <2>9. CASE Reset(t)
      BY <1>0, <2>0, <2>9, MethodReturnsIInv DEF Reset
    <2>10. ASSUME NEW g \in Graphs, Configure(t, g)
           PROVE  IInv'
      BY <1>0, <2>0, <2>10, MethodReturnsIInv DEF Configure
    <2>11. ASSUME NEW g \in Graphs, ConfigureProfileFails(t, g)
           PROVE  IInv'
      BY <1>0, <2>0, <2>11, MethodReturnsIInv DEF ConfigureProfileFails
    <2>12. CASE MethodAborts(t)
      BY <1>0, <2>12, UnchangedIInv DEF MethodAborts, cacheVars
    <2>13. CASE ThreadExit(t)
      BY <1>0, <2>13, ThreadExitIInv
    <2> QED
      BY <1>1, <2>1, <2>2, <2>3, <2>4, <2>5, <2>6, <2>7, <2>8, <2>9, <2>10, <2>11, <2>12, <2>13
         DEF App, Acquire
  <1>2. ASSUME NEW t \in Threads, Proceed(t) \/ RecycleAborts(t)
        PROVE  IInv'
    <2>1. CASE PrepareCached(t)
      BY <1>0, <2>1, PrepareCachedIInv
    <2>2. CASE PrepareCachedFails(t)
      BY <1>0, <2>2, PrepareCachedFailsIInv
    <2>3. CASE Construct(t)
      BY <1>0, <2>3, ConstructIInv
    <2>4. CASE LeaveMethod(t)
      BY <1>0, <2>4, MethodReturnsIInv DEF LeaveMethod
    <2>5. CASE RecycleReset(t)
      BY <1>0, <2>5, RecycleResetIInv
    <2>6. CASE ParkInTls(t)
      BY <1>0, <2>6, ParkInTlsIInv
    <2>7. CASE ParkInGlobal(t)
      BY <1>0, <2>7, ParkInGlobalIInv
    <2>8. CASE Delete(t)
      BY <1>0, <2>8, DeleteIInv
    <2>9. CASE ZeroHandle(t)
      BY <1>0, <2>9, ZeroHandleIInv
    <2>10. CASE RecycleAborts(t)
      BY <1>0, <2>10, UnchangedIInv DEF RecycleAborts, cacheVars
    <2> QED
      BY <1>2, <2>1, <2>2, <2>3, <2>4, <2>5, <2>6, <2>7, <2>8, <2>9, <2>10 DEF Proceed
  <1>3. ASSUME NEW o \in Objs, CleanerTakes(o) \/ BecomeUnreachable(o) \/ Collect(o)
        PROVE  IInv'
    BY <1>0, <1>3, CleanerTakesIInv, BecomeUnreachableIInv, CollectIInv
  <1>4. CASE UNCHANGED vars
    BY <1>0, <1>4, UnchangedIInv DEF vars, cacheVars
  <1> QED
    BY <1>1, <1>2, <1>3, <1>4 DEF Next, Runtime, Aborted

THEOREM Invariance == Spec => []IInv
  <1> QED
    BY InitIInv, StepIInv, PTL DEF Spec

\* No engine is ever in two places, however constructors, closers, the Cleaner
\* and exiting threads interleave.
THEOREM Ownership == Spec => []ExclusiveOwnership
  <1>1. IInv => ExclusiveOwnership
    BY DEF IInv
  <1> QED
    BY <1>1, Invariance, PTL

\* No engine is deleted or recycled under a method that uses it, nor while a
\* compressor or a cache still refers to it.
THEOREM NoDanglingEngine == Spec => []NoUseAfterRecycle
  <1>1. IInv => NoUseAfterRecycle
    BY DEF IInv
  <1> QED
    BY <1>1, Invariance, PTL

-----------------------------------------------------------------------------
(* Leaks *)

\* Some place refers to s.
Held(s) ==
    \/ \E o \in Objs : registered[o] /\ cleanerHandle[o] = s
    \/ \E t \in Threads : Carries(t) /\ stateOf[t] = s
    \/ \E t \in Threads : tlsCachedState[t] = s
    \/ \E i \in Slots : i < globalCacheSize /\ globalCache[i] = s

\* A step that keeps every engine it does not delete in some place, and gives a
\* place to every engine it allocates, leaks nothing.
NothingLost == \A s \in States : s \in allocated' /\ (Held(s) \/ s \notin allocated) => Held(s)'

\* The three ways an engine leaks, and which engine that is.
LostBy(t, s) ==
    \/ ThreadExit(t) /\ s = tlsCachedState[t]
    \/ PrepareCachedFails(t) /\ s = stateOf[t]
    \/ AcquireNewFails(t) /\ s \notin allocated

NothingElseLost ==
    \A s \in States : s \in allocated' /\ (Held(s) \/ s \notin allocated) =>
        Held(s)' \/ \E t \in AppThreads : LostBy(t, s)

LEMMA NothingElseLeaks ==
  ASSUME NothingElseLost, allocated' \subseteq States
  PROVE  \A s \in Leaked' \ Leaked : \E t \in AppThreads : LostBy(t, s)
  <1>1. \A s : Held(s) <=> s \in Reachable
    BY DEF Held, Reachable
  <1>2. \A s : Held(s)' <=> s \in Reachable'
    BY DEF Held, Reachable
  <1> QED
    BY <1>1, <1>2 DEF NothingElseLost, Leaked

\* Steps that change no place and allocate nothing.
LEMMA SamePlaces ==
  ASSUME UNCHANGED <<registered, cleanerHandle, cacheVars>>,
         \A t \in Threads : Carries(t) => Carries(t)' /\ stateOf'[t] = stateOf[t]
  PROVE  NothingLost
  <1>1. UNCHANGED <<tlsCachedState, globalCache, globalCacheSize, allocated>>
    BY DEF cacheVars
  <1> QED
    BY <1>1 DEF NothingLost, Held, Slots

LEMMA AcquireLosesNothing ==
  ASSUME IInv, NEW t \in Threads, NEW o \in Objs, NEW g \in Graphs,
         \/ AcquireFromTls(t, o, g)
         \/ AcquireFromGlobal(t, o, g)
         \/ \E s \in States : AcquireNew(t, o, g, s)
  PROVE  NothingLost
  <1> USE DEF IInv, TypeOK, ThreadTypeOK, CacheTypeOK, Carries, InTransit, Goto, objVars, cacheVars
  <1>0. /\ ~Carries(t) /\ Carries(t)'
        /\ \A u \in Threads : Carries(u) => Carries(u)' /\ stateOf'[u] = stateOf[u]
        /\ UNCHANGED <<registered, cleanerHandle, globalCache>>
    BY DEF AcquireFromTls, AcquireFromGlobal, AcquireNew
  <1>1. CASE AcquireFromTls(t, o, g)
    <2>1. /\ stateOf'[t] = tlsCachedState[t]
          /\ \A u \in Threads : u # t => tlsCachedState'[u] = tlsCachedState[u]
          /\ UNCHANGED <<globalCacheSize, allocated>>
      BY <1>1 DEF AcquireFromTls
    <2> QED
      BY <1>0, <2>1 DEF NothingLost, Held
  <1>2. CASE AcquireFromGlobal(t, o, g)
    <2>1. /\ stateOf'[t] = globalCache[globalCacheSize - 1]
          /\ globalCacheSize' = globalCacheSize - 1
          /\ UNCHANGED <<tlsCachedState, allocated>>
      BY <1>2 DEF AcquireFromGlobal
    <2>2. \A i \in Slots : i < globalCacheSize => i < globalCacheSize' \/ i = globalCacheSize - 1
      BY <2>1, PoolAssumption DEF PoolAssumption, Slots
    <2> QED
      BY <1>0, <2>1, <2>2 DEF NothingLost, Held
  <1>3. ASSUME NEW s \in States, AcquireNew(t, o, g, s)
        PROVE  NothingLost
    <2>1. /\ stateOf'[t] = s
          /\ allocated' = allocated \cup {s}
          /\ UNCHANGED <<tlsCachedState, globalCacheSize>>
      BY <1>3 DEF AcquireNew
    <2> QED
      BY <1>0, <2>1 DEF NothingLost, Held
  <1> QED
    BY <1>1, <1>2, <1>3

\* The engine passes from the constructor to the object.
LEMMA ConstructLosesNothing ==
  ASSUME IInv, NEW t \in Threads, Construct(t)
  PROVE  NothingLost
  <1> USE DEF IInv, TypeOK, ObjTypeOK, ThreadTypeOK
  <1>1. objOf[t] \in Objs /\ ~registered[objOf[t]]
    BY DEF Construct, Places, InObject, HandleAgrees, Carries, InTransit
  <1>2. /\ registered'[objOf[t]] /\ cleanerHandle'[objOf[t]] = stateOf[t]
        /\ \A o \in Objs : o # objOf[t] =>
              registered'[o] = registered[o] /\ cleanerHandle'[o] = cleanerHandle[o]
        /\ UNCHANGED <<tlsCachedState, globalCache, globalCacheSize, allocated>>
    BY <1>1 DEF Construct, cacheVars
  <1>3. \A u \in Threads : u # t => at'[u] = at[u] /\ stateOf'[u] = stateOf[u]
    BY DEF Construct, Return, Goto
  <1> QED
    BY <1>1, <1>2, <1>3 DEF NothingLost, Held, Carries, Slots

\* The engine passes from the object to the closer.
LEMMA UnregisterLosesNothing ==
  ASSUME IInv, NEW t \in Threads, NEW o \in Objs,
         at[t] = "idle", Goto(t, "cleaning", o, cleanerHandle[o], NoGraph),
         registered' = [registered EXCEPT ![o] = FALSE],
         UNCHANGED <<cleanerHandle, cacheVars>>
  PROVE  NothingLost
  <1> USE DEF IInv, TypeOK, ObjTypeOK, ThreadTypeOK
  <1>1. \A u \in Threads : u # t => at'[u] = at[u] /\ stateOf'[u] = stateOf[u]
    BY DEF Goto
  <1>2. at'[t] = "cleaning" /\ stateOf'[t] = cleanerHandle[o]
    BY DEF Goto
  <1>3. \A p \in Objs : p # o => registered'[p] = registered[p]
    OBVIOUS
  <1>4. UNCHANGED <<tlsCachedState, globalCache, globalCacheSize, allocated>>
    BY DEF cacheVars
  <1> QED
    BY <1>1, <1>2, <1>3, <1>4 DEF NothingLost, Held, Carries, InTransit, Slots

\* The engine passes from the closer to a cache, or is deleted.
LEMMA ParkingLosesNothing ==
  ASSUME IInv, NEW t \in Threads, ParkInTls(t) \/ ParkInGlobal(t) \/ Delete(t)
  PROVE  NothingLost
  <1> USE DEF IInv, TypeOK, ObjTypeOK, ThreadTypeOK, CacheTypeOK
  <1>1. at[t] = "parking" /\ AfterRecycle(t) /\ UNCHANGED registered
    BY DEF ParkInTls, ParkInGlobal, Delete
  <1>2. objOf[t] \in Objs /\ ~registered[objOf[t]]
    BY <1>1 DEF Places, InObject, Closing
  <1>3. \A o \in Objs : registered[o] => cleanerHandle'[o] = cleanerHandle[o]
    BY <1>1, <1>2 DEF AfterRecycle
  <1>4. \A u \in Threads : u # t => at'[u] = at[u] /\ stateOf'[u] = stateOf[u]
    BY <1>1 DEF AfterRecycle, Return, Goto
  <1>5. CASE ParkInTls(t)
    <2>1. /\ tlsCachedState[t] = Null /\ tlsCachedState'[t] = stateOf[t]
          /\ \A u \in Threads : u # t => tlsCachedState'[u] = tlsCachedState[u]
          /\ UNCHANGED <<globalCache, globalCacheSize, allocated>>
      BY <1>5 DEF ParkInTls
    <2> QED
      BY <1>1, <1>3, <1>4, <2>1, PoolAssumption DEF PoolAssumption, NothingLost, Held, Carries, Slots
  <1>6. CASE ParkInGlobal(t)
    <2>1. /\ globalCacheSize \in Slots /\ globalCache'[globalCacheSize] = stateOf[t]
          /\ globalCacheSize' = globalCacheSize + 1
          /\ \A i \in Slots : i # globalCacheSize => globalCache'[i] = globalCache[i]
          /\ UNCHANGED <<tlsCachedState, allocated>>
      BY <1>6, PoolAssumption DEF PoolAssumption, ParkInGlobal, Slots
    <2>2. \A i \in Slots : i < globalCacheSize => i < globalCacheSize' /\ i # globalCacheSize
      BY <2>1, PoolAssumption DEF PoolAssumption, Slots
    <2>3. globalCacheSize < globalCacheSize'
      BY <2>1
    <2> QED
      BY <1>1, <1>3, <1>4, <2>1, <2>2, <2>3 DEF NothingLost, Held, Carries
  <1>7. CASE Delete(t)
    <2>1. /\ allocated' = allocated \ {stateOf[t]}
          /\ UNCHANGED <<tlsCachedState, globalCache, globalCacheSize>>
      BY <1>7 DEF Delete
    <2> QED
      BY <1>1, <1>3, <1>4, <2>1 DEF NothingLost, Held, Carries, Slots
  <1> QED
    BY <1>5, <1>6, <1>7

\* Every step but the exit of a thread, a preparation and a construction that fail.
LEMMA StepLosesNothing ==
  ASSUME IInv, [Next]_vars,
         \A t \in AppThreads : ~ThreadExit(t) /\ ~PrepareCachedFails(t) /\ ~AcquireNewFails(t)
  PROVE  NothingLost
  <1>0. at \in [Threads -> Points] /\ stateOf \in [Threads -> States \cup {Null}]
    BY DEF IInv, TypeOK, ThreadTypeOK
  <1>1. ASSUME NEW t \in AppThreads, App(t)
        PROVE  NothingLost
    <2>0. t \in Threads
      BY DEF Threads
    <2>1. CASE Acquire(t)
      BY <2>0, <2>1, AcquireLosesNothing DEF Acquire
    <2>2. ASSUME NEW o \in Objs, CloseClean(t, o)
          PROVE  NothingLost
      BY <2>0, <2>2, UnregisterLosesNothing DEF CloseClean
    <2>3. ASSUME NEW o \in Objs, EnterMethod(t, o) \/ CloseAgain(t, o)
          PROVE  NothingLost
      BY <1>0, <2>0, <2>3, SamePlaces DEF EnterMethod, CloseAgain, Goto, Carries, InTransit, objVars
    <2>4. CASE \/ \E v \in Levels : SetParameter(t, v)
               \/ Reset(t)
               \/ \E g \in Graphs : Configure(t, g) \/ ConfigureProfileFails(t, g)
      <3>1. at[t] = "using" /\ Return(t) /\ UNCHANGED <<objVars, cacheVars>>
        BY <2>4 DEF SetParameter, Reset, Configure, ConfigureProfileFails
      <3> QED
        BY <1>0, <2>0, <3>1, SamePlaces DEF Return, Goto, Carries, InTransit, objVars
    <2>5. CASE MethodAborts(t)
      BY <2>5, SamePlaces DEF MethodAborts, Carries, objVars, threadVars
    <2> QED
      BY <1>1, <2>1, <2>2, <2>3, <2>4, <2>5 DEF App
  <1>2. ASSUME NEW t \in Threads, Proceed(t) \/ RecycleAborts(t)
        PROVE  NothingLost
    <2>1. CASE PrepareCached(t) \/ RecycleReset(t)
      BY <1>0, <2>1, SamePlaces DEF PrepareCached, RecycleReset, Goto, Carries, InTransit, objVars
    <2>2. CASE PrepareCachedFails(t)
      \* The Cleaner constructs nothing.
      BY <2>2 DEF PrepareCachedFails, Threads, IInv, Places, InObject
    <2>3. CASE Construct(t)
      BY <2>3, ConstructLosesNothing
    <2>4. CASE LeaveMethod(t) \/ ZeroHandle(t)
      BY <1>0, <2>4, SamePlaces DEF LeaveMethod, ZeroHandle, Return, Goto, Carries, InTransit, objVars
    <2>5. CASE ParkInTls(t) \/ ParkInGlobal(t) \/ Delete(t)
      BY <2>5, ParkingLosesNothing
    <2>6. CASE RecycleAborts(t)
      BY <2>6, SamePlaces DEF RecycleAborts, Carries, objVars, threadVars
    <2> QED
      BY <1>2, <2>1, <2>2, <2>3, <2>4, <2>5, <2>6 DEF Proceed
  <1>3. ASSUME NEW o \in Objs, CleanerTakes(o)
        PROVE  NothingLost
    BY <1>3, UnregisterLosesNothing DEF CleanerTakes, Threads
  <1>4. ASSUME NEW o \in Objs, BecomeUnreachable(o) \/ Collect(o)
        PROVE  NothingLost
    BY <1>4, SamePlaces DEF BecomeUnreachable, Collect, Carries, threadVars
  <1>5. ASSUME UNCHANGED vars
        PROVE  NothingLost
    BY <1>5, SamePlaces DEF vars, objVars, threadVars, Carries
  <1> QED
    BY <1>1, <1>2, <1>3, <1>4, <1>5 DEF Next, Runtime, Aborted

\* The three others lose one engine each.
LEMMA ExitLosesItsOwn ==
  ASSUME IInv, NEW t \in AppThreads, ThreadExit(t)
  PROVE  NothingElseLost
  <1>1. \A u \in Threads : tlsCachedState'[u] = tlsCachedState[u] \/ u = t
    BY DEF ThreadExit, IInv, TypeOK, CacheTypeOK
  <1>2. UNCHANGED <<registered, cleanerHandle, globalCache, globalCacheSize, allocated, at, stateOf>>
    BY DEF ThreadExit, objVars, threadVars
  <1> QED
    BY <1>1, <1>2 DEF NothingElseLost, LostBy, Held, Carries, Slots

LEMMA FailedPreparationLosesItsOwn ==
  ASSUME IInv, NEW t \in AppThreads, PrepareCachedFails(t)
  PROVE  NothingElseLost
  <1>1. \A u \in Threads : u # t => at'[u] = at[u] /\ stateOf'[u] = stateOf[u]
    BY DEF PrepareCachedFails, Return, Goto, IInv, TypeOK, ThreadTypeOK
  <1>2. UNCHANGED <<registered, cleanerHandle, tlsCachedState, globalCache, globalCacheSize, allocated>>
    BY DEF PrepareCachedFails, objVars, cacheVars
  <1> QED
    BY <1>1, <1>2 DEF NothingElseLost, LostBy, Held, Carries, Slots

LEMMA FailedConstructionLosesItsOwn ==
  ASSUME IInv, NEW t \in AppThreads, AcquireNewFails(t)
  PROVE  NothingElseLost
  <1>1. UNCHANGED <<registered, cleanerHandle, tlsCachedState, globalCache, globalCacheSize, at, stateOf>>
    BY DEF AcquireNewFails, objVars, threadVars
  <1>2. \A s : Held(s) => Held(s)'
    BY <1>1 DEF Held, Carries, Slots
  <1> QED
    BY <1>2 DEF NothingElseLost, LostBy

\* Closing, dropping and full caches never lose an engine, in any interleaving.
THEOREM NoOtherLeak == Spec => LeaksOnlyOnExitOrFailure
  <1> DEFINE Allowed == \A s \in Leaked' \ Leaked : \E t \in AppThreads : LostBy(t, s)
  <1>1. ASSUME IInv, IInv', [Next]_vars
        PROVE  Allowed
    <2>1. allocated' \subseteq States
      BY <1>1 DEF IInv, TypeOK, CacheTypeOK
    <2>2. CASE \A t \in AppThreads : ~ThreadExit(t) /\ ~PrepareCachedFails(t) /\ ~AcquireNewFails(t)
      <3>1. NothingLost
        BY <1>1, <2>2, StepLosesNothing
      <3>2. NothingElseLost
        BY <3>1 DEF NothingLost, NothingElseLost
      <3> QED
        BY <2>1, <3>2, NothingElseLeaks
    <2>3. ASSUME NEW t \in AppThreads, ThreadExit(t) \/ PrepareCachedFails(t) \/ AcquireNewFails(t)
          PROVE  Allowed
      <3>1. NothingElseLost
        BY <1>1, <2>3, ExitLosesItsOwn, FailedPreparationLosesItsOwn, FailedConstructionLosesItsOwn
      <3> QED
        BY <2>1, <3>1, NothingElseLeaks
    <2> QED
      BY <2>2, <2>3
  <1> HIDE DEF Allowed
  <1>2. IInv /\ IInv' /\ [Next]_vars => [Allowed]_vars
    BY <1>1
  <1>3. Spec => [][Allowed]_vars
    BY <1>2, Invariance, PTL DEF Spec
  <1> QED
    BY <1>3 DEF LeaksOnlyOnExitOrFailure, Allowed, LostBy

=============================================================================
