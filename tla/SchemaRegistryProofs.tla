------------------------ MODULE SchemaRegistryProofs ------------------------
(***************************************************************************)
(* Theorems about SchemaRegistry for any set of threads, files and types.  *)
(* Everything follows from two facts: the database only grows, and a name  *)
(* that Java remembers, or a call is about to record, is in it.            *)
(***************************************************************************)
EXTENDS SchemaRegistry, TLAPS

(* A larger database finds what a smaller one found, in the same file.     *)
LEMMA FindsGrows ==
    ASSUME NEW db, NEW more, db \subseteq more, NEW type, NEW f, Finds(db, type, f)
    PROVE  Finds(more, type, f)
  <1>1. PICK files \in SUBSET db : f \in files /\ Closed(files)
    BY DEF Finds, Loads
  <1>2. files \in SUBSET more
    OBVIOUS
  <1>3. Loads(more, f)
    BY <1>1, <1>2 DEF Loads
  <1> QED BY <1>3 DEF Finds

(* The database only grows, whether a registration returns or throws.      *)
LEMMA DatabaseGrows == [Next]_vars => file_db \subseteq file_db'
  <1> SUFFICES ASSUME [Next]_vars PROVE file_db \subseteq file_db'
    OBVIOUS
  <1>1. CASE UNCHANGED vars
    BY <1>1 DEF vars
  <1>2. ASSUME NEW t \in Threads, registerDescriptorSetLocked(t)
        PROVE  file_db \subseteq file_db'
    BY <1>2 DEF registerDescriptorSetLocked
  <1>3. ASSUME NEW t \in Threads,
               registerSchema(t) \/ registerSchemaBytes(t) \/ registerSchemaInternal(t)
               \/ NativeFails(t) \/ AddAll(t) \/ reusableMessage(t)
        PROVE  file_db \subseteq file_db'
    BY <1>3 DEF registerSchema, registerSchemaBytes, registerSchemaInternal, NativeFails,
                AddAll, reusableMessage
  <1> QED BY <1>1, <1>2, <1>3 DEF Next

(* A type that is found stays found with the same descriptor, also after    *)
(* calls that throw (registerDescriptorSetLocked).                          *)
THEOREM FoundForEver == Spec => TypesStay
  <1>1. [Next]_vars => [\A type \in Types, f \in Files :
                          Finds(file_db, type, f) => Finds(file_db', type, f)]_vars
    BY DatabaseGrows, FindsGrows
  <1> QED BY <1>1, PTL DEF Spec, TypesStay

-----------------------------------------------------------------------------
(* Types of the variables, without the monitor.                            *)
Types0 ==
    /\ names \subseteq NamesOf(Files) /\ file_db \subseteq Files
    /\ cached \in [Threads -> [Types -> Files \cup {NoFile}]]
    /\ at \in [Threads -> {"idle", "building", "native", "stored", "registered"}]
    /\ set \in [Threads -> SUBSET Files] /\ target \in [Threads -> Files \cup {NoFile}]
    /\ monitor \in Threads \cup {NoThread}
Held == \A t \in Threads : monitor = t <=> at[t] \in {"native", "stored"}

LEMMA Types0Init == Init => Types0 /\ Held
  BY SchemaAssumption DEF Init, Types0, Held

LEMMA DescriptorSetsAreFiles ==
    ASSUME NEW f \in Files, NEW files \in DescriptorSets(f)
    PROVE  files \in SUBSET Files /\ Complete(files, f)
  BY DEF DescriptorSets

(* Every step keeps the types and gives the monitor to one thread at most.  *)
LEMMA TypesStep == Types0 /\ Held /\ [Next]_vars => Types0' /\ Held'
  <1> SUFFICES ASSUME Types0, Held, [Next]_vars PROVE Types0' /\ Held'
    OBVIOUS
  <1> USE SchemaAssumption DEF Types0, Held
  <1>1. CASE UNCHANGED vars
    BY <1>1 DEF vars
  <1>2. ASSUME NEW t \in Threads, registerSchema(t) PROVE Types0' /\ Held'
    <2>1. PICK f \in Files : \E files \in DescriptorSets(f) :
            /\ target' = [target EXCEPT ![t] = f]
            /\ set' = [set EXCEPT ![t] = files]
            /\ Goto(t, IF NamesOf(files) \subseteq names THEN "registered" ELSE "building")
      BY <1>2 DEF registerSchema
    <2>2. PICK files \in DescriptorSets(f) :
            /\ target' = [target EXCEPT ![t] = f]
            /\ set' = [set EXCEPT ![t] = files]
            /\ Goto(t, IF NamesOf(files) \subseteq names THEN "registered" ELSE "building")
      BY <2>1
    <2>3. files \in SUBSET Files
      BY DescriptorSetsAreFiles
    <2> QED BY <1>2, <2>2, <2>3 DEF registerSchema, Goto
  <1>3. ASSUME NEW t \in Threads, registerSchemaBytes(t) PROVE Types0' /\ Held'
    BY <1>3 DEF registerSchemaBytes, Goto
  <1>4. ASSUME NEW t \in Threads, registerSchemaInternal(t) PROVE Types0' /\ Held'
    BY <1>4 DEF registerSchemaInternal, Goto, Returned
  <1>5. ASSUME NEW t \in Threads, NativeFails(t) PROVE Types0' /\ Held'
    BY <1>5 DEF NativeFails, Goto, Throws
  <1>6. ASSUME NEW t \in Threads, registerDescriptorSetLocked(t) PROVE Types0' /\ Held'
    BY <1>6 DEF registerDescriptorSetLocked, Added, Goto, Throws
  <1>7. ASSUME NEW t \in Threads, AddAll(t) PROVE Types0' /\ Held'
    BY <1>7 DEF AddAll, Goto, Returned, NamesOf
  <1>8. ASSUME NEW t \in Threads, reusableMessage(t) PROVE Types0' /\ Held'
    BY <1>8 DEF reusableMessage, Goto
  <1> QED BY <1>1, <1>2, <1>3, <1>4, <1>5, <1>6, <1>7, <1>8 DEF Next

(* The variables keep their types and the monitor excludes.                *)
THEOREM TypeCorrect == Spec => []TypeOK
  <1>1. Types0 /\ Held => TypeOK
    BY DEF Types0, Held, TypeOK
  <1> QED BY Types0Init, TypesStep, <1>1, PTL DEF Spec

-----------------------------------------------------------------------------
(* What makes the properties inductive: a call that is about to record its  *)
(* names, or has returned, has put them in the database; a call for a file  *)
(* carries a complete set of it.                                            *)
Handed == \A t \in Threads :
    at[t] \in {"stored", "registered"} => NamesOf(set[t]) \subseteq NamesOf(file_db)
Carried == \A t \in Threads :
    /\ at[t] = "registered" => target[t] # NoFile
    /\ at[t] # "idle" /\ target[t] # NoFile => Complete(set[t], target[t])

IInv == Types0 /\ NamesInDatabase /\ Handed /\ Carried

LEMMA AllNamesIn ==
    ASSUME NEW db, NEW files
    PROVE  NamesOf(files) \subseteq NamesOf(db \cup Added(db, files))
  BY DEF NamesOf, Added

LEMMA NamesGrow ==
    ASSUME NEW db, NEW more, db \subseteq more
    PROVE  NamesOf(db) \subseteq NamesOf(more)
  BY DEF NamesOf

LEMMA IInvInit == Init => IInv
  BY SchemaAssumption DEF Init, IInv, Types0, NamesInDatabase, Handed, Carried

LEMMA IInvStep == IInv /\ Held /\ [Next]_vars => IInv'
  <1> SUFFICES ASSUME IInv, Held, [Next]_vars PROVE IInv'
    OBVIOUS
  <1>t. Types0 /\ Types0'
    BY TypesStep DEF IInv
  <1>g. NamesOf(file_db) \subseteq NamesOf(file_db)'
    <2>1. NamesOf(file_db) \subseteq NamesOf(file_db')
      BY DatabaseGrows, NamesGrow
    <2> QED BY <2>1
  <1> SUFFICES NamesInDatabase' /\ Handed' /\ Carried'
    BY <1>t DEF IInv
  <1> USE DEF IInv, NamesInDatabase, Handed, Carried
  <1>1. CASE UNCHANGED vars
    BY <1>1 DEF vars
  <1>2. ASSUME NEW t \in Threads, registerSchema(t)
        PROVE  NamesInDatabase' /\ Handed' /\ Carried'
    <2>1. PICK f \in Files : \E files \in DescriptorSets(f) :
            /\ target' = [target EXCEPT ![t] = f]
            /\ set' = [set EXCEPT ![t] = files]
            /\ Goto(t, IF NamesOf(files) \subseteq names THEN "registered" ELSE "building")
      BY <1>2 DEF registerSchema
    <2>2. PICK files \in DescriptorSets(f) :
            /\ target' = [target EXCEPT ![t] = f]
            /\ set' = [set EXCEPT ![t] = files]
            /\ Goto(t, IF NamesOf(files) \subseteq names THEN "registered" ELSE "building")
      BY <2>1
    <2>3. Complete(files, f) /\ f # NoFile
      BY DescriptorSetsAreFiles, SchemaAssumption
    <2>4. names' = names /\ file_db' = file_db
      BY <1>2 DEF registerSchema
    <2>5. NamesInDatabase'
      BY <2>4
    <2>6. Handed'
      BY <2>2, <2>4, <1>t DEF Goto, Types0
    <2>7. Carried'
      BY <2>2, <2>3, <1>t DEF Goto, Types0
    <2> QED BY <2>5, <2>6, <2>7
  <1>3. ASSUME NEW t \in Threads, registerSchemaBytes(t)
        PROVE  NamesInDatabase' /\ Handed' /\ Carried'
    BY <1>3, <1>t DEF registerSchemaBytes, Goto, Types0
  <1>4. ASSUME NEW t \in Threads, registerSchemaInternal(t)
        PROVE  NamesInDatabase' /\ Handed' /\ Carried'
    BY <1>4, <1>t DEF registerSchemaInternal, Goto, Returned, Types0
  <1>5. ASSUME NEW t \in Threads, NativeFails(t)
        PROVE  NamesInDatabase' /\ Handed' /\ Carried'
    BY <1>5, <1>t DEF NativeFails, Goto, Throws, Types0
  <1>6. ASSUME NEW t \in Threads, registerDescriptorSetLocked(t)
        PROVE  NamesInDatabase' /\ Handed' /\ Carried'
    <2>1. /\ names' = names /\ set' = set /\ target' = target
          /\ at' = [at EXCEPT ![t] = "stored"] \/ at' = [at EXCEPT ![t] = "idle"]
          /\ file_db' = file_db \cup Added(file_db, set[t])
      BY <1>6 DEF registerDescriptorSetLocked, Goto, Throws
    <2>2. NamesOf(set[t]) \subseteq NamesOf(file_db)'
      BY <2>1, AllNamesIn
    <2>3. NamesInDatabase'
      BY <2>1, <1>g
    <2>4. Handed'
      <3> SUFFICES ASSUME NEW u \in Threads, at'[u] \in {"stored", "registered"}
                   PROVE  NamesOf(set[u]) \subseteq NamesOf(file_db)'
        BY <2>1
      <3>1. CASE u = t
        BY <3>1, <2>2
      <3>2. CASE u # t
        BY <3>2, <2>1, <1>g, <1>t DEF Types0
      <3> QED BY <3>1, <3>2
    <2>5. Carried'
      BY <2>1, <1>6, <1>t DEF Types0, registerDescriptorSetLocked
    <2> QED BY <2>3, <2>4, <2>5
  <1>7. ASSUME NEW t \in Threads, AddAll(t)
        PROVE  NamesInDatabase' /\ Handed' /\ Carried'
    BY <1>7, <1>t DEF AddAll, Goto, Returned, Types0
  <1>8. ASSUME NEW t \in Threads, reusableMessage(t)
        PROVE  NamesInDatabase' /\ Handed' /\ Carried'
    BY <1>8, <1>t DEF reusableMessage, Goto, Types0
  <1> QED BY <1>1, <1>2, <1>3, <1>4, <1>5, <1>6, <1>7, <1>8 DEF Next

(* A name Java remembers is in the database: no file is skipped that the    *)
(* library has not been given.                                              *)
THEOREM NamesAreInDatabase == Spec => []NamesInDatabase
  <1>1. IInv => NamesInDatabase
    BY DEF IInv
  <1> QED BY Types0Init, TypesStep, IInvInit, IInvStep, <1>1, PTL DEF Spec, IInv

(* When registerSchema(FileDescriptor) returns normally, the database has   *)
(* the file and all it reaches, and loads it, unless it already had another *)
(* version of one of the files.                                             *)
THEOREM RegisteredIsFound == Spec => []RegisteredUnlessOther
  <1>1. IInv => RegisteredUnlessOther
    <2> SUFFICES ASSUME IInv, NEW t \in Threads, at[t] = "registered",
                        \A f \in set[t] : ~ OtherVersion(f)
                 PROVE  set[t] \subseteq file_db /\ Loads(file_db, target[t])
      BY DEF RegisteredUnlessOther
    <2>1. Complete(set[t], target[t])
      BY DEF IInv, Carried
    <2>2. NamesOf(set[t]) \subseteq NamesOf(file_db)
      BY DEF IInv, Handed
    <2>3. ASSUME NEW f \in set[t] PROVE f \in file_db
      <3>1. PICK g \in file_db : g.name = f.name
        BY <2>2 DEF NamesOf
      <3> QED BY <3>1 DEF OtherVersion
    <2>4. set[t] \in SUBSET file_db
      BY <2>3
    <2> QED BY <2>1, <2>4 DEF Complete, Loads
  <1> QED BY Types0Init, TypesStep, IInvInit, IInvStep, <1>1, PTL DEF Spec, IInv

(* What a thread cached is what the registry finds now.                    *)
LEMMA CachesStep == Types0 /\ CachesAgree /\ [Next]_vars => CachesAgree'
  <1> SUFFICES ASSUME Types0, CachesAgree, [Next]_vars,
                      NEW u \in Threads, NEW ty \in Types, cached'[u][ty] # NoFile
               PROVE  Finds(file_db', ty, cached'[u][ty])
    BY DEF CachesAgree
  <1>1. ASSUME cached'[u][ty] = cached[u][ty]
        PROVE  Finds(file_db', ty, cached'[u][ty])
    <2>1. Finds(file_db, ty, cached[u][ty])
      BY <1>1 DEF CachesAgree
    <2> QED BY <2>1, <1>1, DatabaseGrows, FindsGrows
  <1>2. CASE UNCHANGED vars
    BY <1>2, <1>1 DEF vars
  <1>3. ASSUME NEW t \in Threads, reusableMessage(t)
        PROVE  Finds(file_db', ty, cached'[u][ty])
    <2>1. CASE UNCHANGED cached
      BY <2>1, <1>1
    <2>2. ASSUME NEW type \in Types, NEW f \in Files, Finds(file_db, type, f),
                 cached' = [cached EXCEPT ![t][type] = f]
          PROVE  Finds(file_db', ty, cached'[u][ty])
      <3>1. CASE u = t /\ ty = type
        <4>1. cached'[u][ty] = f /\ file_db' = file_db
          BY <3>1, <2>2, <1>3 DEF Types0, reusableMessage
        <4> QED BY <4>1, <3>1, <2>2
      <3>2. CASE ~ (u = t /\ ty = type)
        BY <3>2, <2>2, <1>1 DEF Types0
      <3> QED BY <3>1, <3>2
    <2> QED BY <2>1, <2>2, <1>3 DEF reusableMessage
  <1>4. ASSUME NEW t \in Threads,
               registerSchema(t) \/ registerSchemaBytes(t) \/ registerSchemaInternal(t)
               \/ NativeFails(t) \/ registerDescriptorSetLocked(t) \/ AddAll(t)
        PROVE  cached' = cached
    BY <1>4 DEF registerSchema, registerSchemaBytes, registerSchemaInternal, NativeFails,
                registerDescriptorSetLocked, AddAll
  <1> QED BY <1>1, <1>2, <1>3, <1>4 DEF Next

(* A thread's cached messages, which are never dropped, are of the          *)
(* descriptors the registry has (reusableMessage).                          *)
THEOREM CachesStayRight == Spec => []CachesAgree
  <1>1. Init => CachesAgree
    BY DEF Init, CachesAgree
  <1> QED BY Types0Init, TypesStep, CachesStep, <1>1, PTL DEF Spec

=============================================================================
