---------------------------- MODULE NativeCalls ----------------------------
(***************************************************************************)
(* One call of a native method, every way it can go: each test, each JNI   *)
(* call, each engine call and each allocation succeeds or fails.  Checked  *)
(* is what native code owes the JVM on every path: arrays pinned by        *)
(* GetPrimitiveArrayCritical released, resources freed, no other JNI call  *)
(* or lock between pinning and release, no JNI call while an exception is  *)
(* pending, and accesses only inside the ranges that were tested.          *)
(***************************************************************************)
EXTENDS NativeMethods, JniRanges

VARIABLES
    method,      \* the native method running, "none" between two calls
    todo,        \* the steps it has left
    pinned,      \* arrays between GetPrimitiveArrayCritical and its release
    held,        \* other resources it owns
    windows,     \* the ranges of arrays and buffers that passed their test
    committed,   \* arrays released with mode 0, whose contents Java sees
    report,      \* the last ZL_Report
    pending,     \* a Java exception is pending
    aborted      \* a C++ exception left the method

vars == <<method, todo, pinned, held, windows, committed, report, pending, aborted>>

Arrays    == {"src", "dst", "input", "serialized", "description", "payload", "copy"}
Resources == {"chars", "key", "value", "frameInfo", "typedRef", "elements",
              "cctx", "tempDir", "buffers"}

RangeTests == {"arrayRange", "directRange", "directLength", "sliceRange"}

Program == [
    compressIntoNative |-> compressIntoNative, decompressIntoNative |-> decompressIntoNative,
    compress |-> compress, decompress |-> decompress,
    getDecompressedSizeNative |-> getDecompressedSizeNative,
    compressDirect |-> compressDirect, decompressDirect |-> decompressDirect,
    getDecompressedSizeDirect |-> getDecompressedSizeDirect,
    compressElementsNative |-> compressElementsNative,
    decompressIntsNative |-> decompressIntsNative, decompressLongsNative |-> decompressLongsNative,
    decompressFloatsNative |-> decompressFloatsNative,
    decompressDoublesNative |-> decompressDoublesNative,
    describeFrameNative |-> describeFrameNative,
    describeFrameDirectNative |-> describeFrameDirectNative,
    setParameter |-> setParameter, serialize |-> serialize, resetNative |-> resetNative,
    maxCompressedSizeNative |-> maxCompressedSizeNative,
    configureProfileNative |-> configureProfileNative, configureSddlNative |-> configureSddlNative,
    setDataArenaNative |-> setDataArenaNative, listProfilesNative |-> listProfilesNative,
    compileNative |-> compileNative, trainFromDirectoryNative |-> trainFromDirectoryNative,
    trainNative |-> trainNative, compressWithProfileNative |-> compressWithProfileNative,
    compressWithSerializedNative |-> compressWithSerializedNative,
    convertNative |-> convertNative, convertSliceNative |-> convertSliceNative,
    convertDirectNative |-> convertDirectNative,
    convertDirectIntoNative |-> convertDirectIntoNative, profileNative |-> profileNative,
    registerSchemaNative |-> registerSchemaNative, graphJsonNative |-> graphJsonNative,
    graphJsonFromCompressorNative |-> graphJsonFromCompressorNative,
    graphDetailJsonNative |-> graphDetailJsonNative,
    configureTrainingNative |-> configureTrainingNative,
    trainProtobufNative |-> trainProtobufNative,
    compressStructuredNative |-> compressStructuredNative,
    compressStructuredIntoNative |-> compressStructuredIntoNative,
    decompressStructuredNative |-> decompressStructuredNative,
    compressStructuredSampleNative |-> compressStructuredSampleNative,
    trainStructuredNative |-> trainStructuredNative]

Methods == DOMAIN Program

TypeOK ==
    /\ method \in Methods \cup {"none"}
    /\ pinned \subseteq Arrays /\ committed \subseteq Arrays /\ held \subseteq Resources
    /\ \A w \in windows : w.test \in RangeTests /\ {w.size, w.offset, w.length} \subseteq Size
    /\ report \in {"none", "ok", "error"}
    /\ pending \in BOOLEAN /\ aborted \in BOOLEAN

Init ==
    /\ method = "none" /\ todo = <<>>
    /\ pinned = {} /\ held = {} /\ windows = {} /\ committed = {}
    /\ report = "none" /\ pending = FALSE /\ aborted = FALSE

Start(m) ==
    /\ method = "none"
    /\ method' = m /\ todo' = Program[m]
    /\ UNCHANGED <<pinned, held, windows, committed, report, pending, aborted>>

Returning == method # "none" /\ todo = <<>> /\ ~aborted

Return ==
    /\ Returning /\ method' = "none" /\ UNCHANGED todo
    /\ pinned' = {} /\ held' = {} /\ windows' = {} /\ committed' = {}
    /\ report' = "none" /\ pending' = FALSE /\ aborted' = FALSE

At(op)    == todo # <<>> /\ Head(todo).op = op
Arg       == Head(todo).arg
Continue  == todo' = Tail(todo) /\ UNCHANGED method
Otherwise == todo' = Head(todo).otherwise /\ UNCHANGED method

Test ==
    /\ At("check") /\ (Continue \/ Otherwise)
    /\ UNCHANGED <<pinned, held, windows, committed, report, pending, aborted>>

\* Calls without an effect on what is tracked here.
Plain ==
    /\ At("vm") \/ At("lock")
    /\ Continue
    /\ UNCHANGED <<pinned, held, windows, committed, report, pending, aborted>>

CxxCall ==
    /\ At("cxx") /\ (Continue \/ Otherwise)
    /\ UNCHANGED <<pinned, held, windows, committed, report, pending, aborted>>

Branch ==
    /\ At("either")
    /\ \E way \in {"body", "otherwise"} : todo' = Head(todo)[way] \o Tail(todo)
    /\ UNCHANGED <<method, pinned, held, windows, committed, report, pending, aborted>>

Again ==
    /\ At("loop")
    /\ todo' \in {Head(todo).body \o todo, Tail(todo)}
    /\ UNCHANGED <<method, pinned, held, windows, committed, report, pending, aborted>>

Raise ==
    /\ At("throw") /\ Continue
    /\ pending' = TRUE
    /\ UNCHANGED <<pinned, held, windows, committed, report, aborted>>

CallThatRaises ==
    /\ At("raises")
    /\ \/ Continue /\ UNCHANGED pending
       \/ Otherwise /\ pending' = TRUE
    /\ UNCHANGED <<pinned, held, windows, committed, report, aborted>>

Terminate ==
    /\ At("abort") /\ ~aborted
    /\ aborted' = TRUE
    /\ UNCHANGED <<method, todo, pinned, held, windows, committed, report, pending>>

CallEngine ==
    /\ At("engine") /\ Continue
    /\ report' \in {"ok", "error"}
    /\ UNCHANGED <<pinned, held, windows, committed, pending, aborted>>

TestReport ==
    /\ At("report")
    /\ IF report = "error" THEN Otherwise ELSE Continue
    /\ UNCHANGED <<pinned, held, windows, committed, report, pending, aborted>>

PinArray ==
    /\ At("pin")
    /\ \/ Continue /\ pinned' = pinned \cup {Arg}
       \/ Otherwise /\ UNCHANGED pinned
    /\ UNCHANGED <<held, windows, committed, report, pending, aborted>>

ReleaseArray ==
    /\ At("unpin") \/ At("commit")
    /\ Continue
    /\ pinned' = pinned \ {Arg}
    /\ committed' = IF At("commit") THEN committed \cup {Arg} ELSE committed
    /\ UNCHANGED <<held, windows, report, pending, aborted>>

Obtain ==
    /\ At("get")
    /\ \/ Continue /\ held' = held \cup {Arg}
       \/ Otherwise /\ UNCHANGED held
    /\ UNCHANGED <<pinned, windows, committed, report, pending, aborted>>

Release ==
    /\ At("free") /\ Continue
    /\ held' = held \ {Arg}
    /\ UNCHANGED <<pinned, windows, committed, report, pending, aborted>>

Accepts(test, size, offset, length) ==
    \/ test = "arrayRange"   /\ CheckArrayRange(size, offset, length)
    \/ test = "directRange"  /\ EnsureDirectRange(size, offset, length)
    \/ test = "directLength" /\ offset = 0 /\ CheckDirectLength(size, length)
    \/ test = "sliceRange"   /\ CheckSliceInJava(size, offset, length)
                             /\ CheckSlice(size, offset, length)

\* Offset and length are the caller's; an accepted range is what the method
\* then reads or writes.
TestRange(test) ==
    /\ At(test)
    /\ \/ /\ \E size \in Size, offset \in JInt, length \in JInt :
                /\ Accepts(test, size, offset, length)
                /\ windows' = windows \cup
                     {[test |-> test, size |-> size, offset |-> offset, length |-> length]}
          /\ Continue
       \/ Otherwise /\ UNCHANGED windows
    /\ UNCHANGED <<pinned, held, committed, report, pending, aborted>>

Next ==
    \/ \E m \in Methods : Start(m)
    \/ Return
    \/ Test \/ Plain \/ CxxCall \/ Branch \/ Again
    \/ Raise \/ CallThatRaises \/ Terminate
    \/ CallEngine \/ TestReport
    \/ PinArray \/ ReleaseArray \/ Obtain \/ Release
    \/ \E test \in RangeTests : TestRange(test)

Spec == Init /\ [][Next]_vars

(***************************************************************************)
(* Properties.  Where the code does not keep to a rule, the methods that   *)
(* break it are named: everything else does, on every path.                *)
(***************************************************************************)
NeedsVm == At("vm") \/ At("raises") \/ At("throw")

\* A method returns, normally or after any failure, with every array released
\* and every resource freed; only the two one-shot compressions forget their
\* ZL_CCtx, when the output buffer cannot be allocated.
LeakCctx == {"compressWithProfileNative", "compressWithSerializedNative"}
NothingLeftBehind ==
    Returning => /\ pinned = {}
                 /\ held \subseteq (IF method \in LeakCctx THEN {"cctx"} ELSE {})

\* The caller's output array changes only if the engine reported success.
OutputOnlyOnSuccess == committed # {} => report = "ok"

\* Between GetPrimitiveArrayCritical and its release there is no other JNI call
\* and no lock, which could wait for a garbage collection that waits for the
\* release; these four methods do not keep to it.
NotQuiet == {"convertNative", "convertSliceNative", "describeFrameNative",
             "compressWithSerializedNative"}
QuietInCritical == pinned # {} /\ (NeedsVm \/ At("lock")) => method \in NotQuiet

\* While an exception is pending no JNI call is made but those the JVM allows
\* then, except that four methods copy into an array they could not allocate,
\* and that some throw their own exception over the pending one.
UseUnallocated == {"compress", "decompress", "compressWithProfileNative",
                   "compressWithSerializedNative"}
ThrowTwice == {"compileNative", "trainNative", "profileNative", "trainProtobufNative",
               "trainStructuredNative", "convertNative", "convertSliceNative",
               "convertDirectNative", "compressStructuredNative",
               "decompressStructuredNative", "compressStructuredSampleNative"}
NoCallWhilePending ==
    /\ pending /\ (At("vm") \/ At("raises") \/ At("pin")) => method \in UseUnallocated
    /\ pending /\ At("throw") => method \in ThrowTwice

\* Every range that passed its test lies in its array or buffer, but for the
\* slices of convertSliceNative (SliceExactUnlessOverflow says which).
AccessInside ==
    \A w \in windows : w.test # "sliceRange" => Inside(w.size, w.offset, w.length)

\* A C++ exception leaves only these methods: in most nothing is caught around
\* the call that throws, in the four that decompress numbers only bad_alloc is.
MayAbort == {"compress", "decompress", "compressElementsNative",
             "decompressIntsNative", "decompressLongsNative", "decompressFloatsNative",
             "decompressDoublesNative", "setParameter", "serialize", "resetNative", "configureSddlNative", "trainNative", "registerSchemaNative",
             "compressStructuredNative", "compressStructuredIntoNative"}
EscapesOnlyWhere == aborted => method \in MayAbort

=============================================================================
