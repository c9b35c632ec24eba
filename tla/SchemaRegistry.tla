--------------------------- MODULE SchemaRegistry ---------------------------
(***************************************************************************)
(* Registration of protobuf schemas.  OpenZLProtobuf.java remembers the    *)
(* names of the files it has handed to the library and skips a set all of  *)
(* whose names it knows; DescriptorRegistry in OpenZLProtobuf.cpp adds the *)
(* files to a descriptor database and loads them; conversions look message *)
(* types up and each thread keeps what it found for ever (reusableMessage, *)
(* StructuredSerializerCacheEntry).                                        *)
(*                                                                         *)
(* A file is [name, deps, types]; two files of one name are two versions   *)
(* of a schema.  Each critical section of a lock is one action.            *)
(***************************************************************************)
CONSTANTS Threads, Files, Types, NoThread, NoFile

NamesOf(set) == { f.name : f \in set }

ASSUME SchemaAssumption ==
    /\ NoThread \notin Threads
    /\ NoFile \notin Files
    /\ \A f, g \in Files : f.types \cap g.types # {} => f.name = g.name

VARIABLES
    names,      \* REGISTERED_FILE_NAMES
    monitor,    \* the thread inside a block synchronized on it
    file_db,    \* DescriptorRegistry::file_db_
    cached,     \* the descriptor each thread has cached for each type
    at, set,    \* progress of each thread's call, and the set it registers
    target      \* the file of a registerSchema(FileDescriptor) call, or NoFile

vars == <<names, monitor, file_db, cached, at, set, target>>

(* A file loads when the files it depends on are there and load too.       *)
Closed(files) == \A f \in files : f.deps \subseteq NamesOf(files)
Loads(db, f)  == \E files \in SUBSET db : f \in files /\ Closed(files)

(* findDescriptorLocked                                                    *)
Finds(db, type, f) == f \in db /\ type \in f.types /\ Loads(db, f)

\* Fault: a set is passed over as a whole when one of its files is known.
AddedIfAllNew(db, files) ==
    IF \E f \in files : f.name \in NamesOf(db) THEN {} ELSE files

(* SimpleDescriptorDatabase::Add refuses a name it has.                    *)
Added(db, files) == { f \in files : f.name \notin NamesOf(db) }

(* collectFileNames and buildDescriptorSet: the file and all it reaches.   *)
OneVersion(files) == \A f, g \in files : f.name = g.name => f = g
Complete(files, f) == f \in files /\ Closed(files) /\ OneVersion(files)
DescriptorSets(f) ==
    { files \in SUBSET Files :
        Complete(files, f) /\ \A less \in SUBSET files : Complete(less, f) => less = files }

Init ==
    /\ names = {} /\ monitor = NoThread /\ file_db = {}
    /\ cached = [t \in Threads |-> [type \in Types |-> NoFile]]
    /\ at = [t \in Threads |-> "idle"]
    /\ set = [t \in Threads |-> {}]
    /\ target = [t \in Threads |-> NoFile]

Goto(t, point) == at' = [at EXCEPT ![t] = point]

(* registerSchema(FileDescriptor), up to the end of its synchronized block. *)
registerSchema(t) ==
    /\ at[t] = "idle" /\ monitor = NoThread
    /\ \E f \in Files : \E files \in DescriptorSets(f) :
         /\ target' = [target EXCEPT ![t] = f]
         /\ set' = [set EXCEPT ![t] = files]
         /\ Goto(t, IF NamesOf(files) \subseteq names THEN "registered" ELSE "building")
    /\ UNCHANGED <<names, monitor, file_db, cached>>

(* registerSchema(byte[]): any files, with or without those they need.     *)
registerSchemaBytes(t) ==
    /\ at[t] = "idle"
    /\ \E files \in SUBSET Files \ {{}} :
         OneVersion(files) /\ set' = [set EXCEPT ![t] = files]
    /\ target' = [target EXCEPT ![t] = NoFile]
    /\ Goto(t, "building")
    /\ UNCHANGED <<names, monitor, file_db, cached>>

Returned(t) == IF target[t] = NoFile THEN "idle" ELSE "registered"

\* Faults: the names are recorded before the library has the files; the
\* second look does not wait for the monitor.
registerSchemaRecordingFirst(t) ==
    /\ at[t] = "building" /\ monitor = NoThread
    /\ IF NamesOf(set[t]) \subseteq names
       THEN Goto(t, Returned(t)) /\ UNCHANGED <<monitor, names>>
       ELSE Goto(t, "native") /\ monitor' = t /\ names' = names \cup NamesOf(set[t])
    /\ UNCHANGED <<file_db, cached, set, target>>

registerSchemaUnguarded(t) ==
    /\ at[t] = "building"
    /\ IF NamesOf(set[t]) \subseteq names
       THEN Goto(t, Returned(t)) /\ UNCHANGED monitor
       ELSE Goto(t, "native") /\ monitor' = t
    /\ UNCHANGED <<names, file_db, cached, set, target>>

(* registerSchemaInternal: the second look, with the monitor held on.      *)
registerSchemaInternal(t) ==
    /\ at[t] = "building" /\ monitor = NoThread
    /\ IF NamesOf(set[t]) \subseteq names
       THEN Goto(t, Returned(t)) /\ UNCHANGED monitor
       ELSE Goto(t, "native") /\ monitor' = t
    /\ UNCHANGED <<names, file_db, cached, set, target>>

Throws(t) == Goto(t, "idle") /\ monitor' = NoThread

(* The library does not load, or the set is not copied or parsed.          *)
NativeFails(t) ==
    /\ at[t] = "native"
    /\ Throws(t)
    /\ UNCHANGED <<names, file_db, cached, set, target>>

\* Fault: a file replaces the version the database has.
registerReplacing(t) ==
    /\ at[t] = "native"
    /\ file_db' = { g \in file_db : g.name \notin NamesOf(set[t]) } \cup set[t]
    /\ IF Closed(file_db') THEN Goto(t, "stored") /\ UNCHANGED monitor ELSE Throws(t)
    /\ UNCHANGED <<names, cached, set, target>>

(* registerDescriptorSetLocked: every file is added, then, if any was new,  *)
(* every file of the set must load; what was added stays.                   *)
registerDescriptorSetLocked(t) ==
    /\ at[t] = "native"
    /\ LET added == Added(file_db, set[t])
           All   == \A f \in set[t] : \E g \in file_db' : g.name = f.name /\ Loads(file_db', g)
       IN  /\ file_db' = file_db \cup added
           /\ IF added = {} \/ All
              THEN Goto(t, "stored") /\ UNCHANGED monitor
              ELSE Throws(t)
    /\ UNCHANGED <<names, cached, set, target>>

AddAll(t) ==
    /\ at[t] = "stored"
    /\ names' = names \cup NamesOf(set[t])
    /\ monitor' = NoThread
    /\ Goto(t, Returned(t))
    /\ UNCHANGED <<file_db, cached, set, target>>

(* reusableMessage and structuredSerializerEntryForType: the first use of a *)
(* type in a thread looks it up, or throws; later uses do not look.         *)
reusableMessage(t) ==
    /\ at[t] \in {"idle", "registered"}
    /\ \E type \in Types :
         IF cached[t][type] # NoFile THEN UNCHANGED cached
         ELSE \/ \E f \in Files : /\ Finds(file_db, type, f)
                                  /\ cached' = [cached EXCEPT ![t][type] = f]
              \/ /\ \A f \in Files : ~ Finds(file_db, type, f)
                 /\ UNCHANGED cached
    /\ Goto(t, "idle")
    /\ UNCHANGED <<names, monitor, file_db, set, target>>

Next == \E t \in Threads :
    \/ registerSchema(t) \/ registerSchemaBytes(t)
    \/ registerSchemaInternal(t) \/ NativeFails(t) \/ registerDescriptorSetLocked(t) \/ AddAll(t)
    \/ reusableMessage(t)

Spec == Init /\ [][Next]_vars

-----------------------------------------------------------------------------
(* Variables keep their types, and the monitor is held exactly by the       *)
(* thread inside the library or on its way to record the names.             *)
TypeOK ==
    /\ names \subseteq NamesOf(Files) /\ file_db \subseteq Files
    /\ cached \in [Threads -> [Types -> Files \cup {NoFile}]]
    /\ at \in [Threads -> {"idle", "building", "native", "stored", "registered"}]
    /\ set \in [Threads -> SUBSET Files] /\ target \in [Threads -> Files \cup {NoFile}]
    /\ monitor \in Threads \cup {NoThread}
    /\ \A t \in Threads : monitor = t <=> at[t] \in {"native", "stored"}

(* Java never skips a file the library has not been given: a name it        *)
(* remembers is in the database, whichever calls failed, and where.         *)
NamesInDatabase == names \subseteq NamesOf(file_db)

(* When registerSchema(FileDescriptor) returns normally, the library has    *)
(* the file and all it reaches, so that its types are found, whatever other *)
(* threads registered, and however often incomplete sets failed before,     *)
(* unless it already had another version of one of the files.               *)
OtherVersion(f) == \E g \in file_db : g.name = f.name /\ g # f
RegisteredUnlessOther ==
    \A t \in Threads : at[t] = "registered" =>
        \/ \E f \in set[t] : OtherVersion(f)
        \/ set[t] \subseteq file_db /\ Loads(file_db, target[t])

(* A message a thread cached is of the descriptor the registry has now: the *)
(* caches, which are never emptied, need not be (reusableMessage).          *)
CachesAgree ==
    \A t \in Threads, type \in Types :
        cached[t][type] # NoFile => Finds(file_db, type, cached[t][type])

(* A type that is found is found with the same descriptor ever after, also  *)
(* after calls that throw (registerDescriptorSetLocked).                    *)
TypesStay ==
    [][\A type \in Types, f \in Files : Finds(file_db, type, f) => Finds(file_db', type, f)]_vars

(* "Registers all descriptors reachable from the supplied descriptor": what *)
(* the Javadoc of registerSchema says of a call that returns.               *)
RegistersAllReachable ==
    \A t \in Threads : at[t] = "registered" => set[t] \subseteq file_db

=============================================================================
