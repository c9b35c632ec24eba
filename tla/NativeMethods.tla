--------------------------- MODULE NativeMethods ---------------------------
(***************************************************************************)
(* The native methods of OpenZLCompressor, OpenZLSddl, OpenZLProtobuf and  *)
(* OpenZLStructuredProtoBridge as sequences of steps (NativeSteps).  In a  *)
(* helper, "after" is what its caller still does when the helper fails.    *)
(***************************************************************************)
EXTENDS NativeSteps

(***************************************************************************)
(* Helpers.                                                                *)
(***************************************************************************)
\* getState and ensureState: a closed compressor is refused on stderr only.
Open == Vm \o Check(Quiet)

\* Faults: a null array is used; the output is released with mode 0 before the
\* report is tested; an exception is thrown before the release; the handler
\* releases nothing.
NewResultUntested(after) == VmRaises(Vm \o after) \o Maybe(Vm)
CommitThenTest ==
    Open \o Range("arrayRange", "src", Throw) \o Range("arrayRange", "dst", Throw)
         \o Pin("src", Throw) \o Pin("dst", Unpin("src") \o Throw)
         \o Engine \o Unpin("src") \o Commit("dst") \o Report(Quiet)
configureSddlThrowingPinned ==
    Open \o Require \o Vm \o Require \o Pin("description", Throw)
         \o Engine \o Report(Throw \o Unpin("description")) \o Unpin("description")
         \o Cxx(Abort)
compileLeavingChars ==
    Require \o Vm \o Get("chars", Throw) \o Cxx(Throw) \o Free("chars")

\* The result array and the copy into it.
NewResult(after) == VmRaises(after) \o Maybe(Vm)
NewResultUnchecked == VmRaises(Vm) \o Vm

ReadString(after) == Vm \o Get("chars", Throw \o after) \o Free("chars")

\* Protobuf: parseProtocol, requireMessageType, copyArray, makeByteArray
Protocol          == Require
TypeName          == Require \o ReadString(Quiet) \o Require
copyArray(handler, failed) ==
    Vm \o Cxx(handler) \o Maybe(Pin("copy", Throw \o failed) \o Unpin("copy"))
makeByteArray(after) == NewResult(Throw \o after)

\* The array of byte arrays the training methods return.
NewResults(after) ==
    VmRaises(after) \o VmRaises(after) \o Loop(VmRaises(after) \o Maybe(Vm) \o Vm)

(***************************************************************************)
(* Byte arrays.                                                            *)
(***************************************************************************)
compressIntoNative ==
    Open \o Range("arrayRange", "src", Throw) \o Range("arrayRange", "dst", Throw)
         \o Pin("src", Throw) \o Pin("dst", Unpin("src") \o Throw)
         \o Engine \o Unpin("src") \o Report(Unpin("dst")) \o Commit("dst")

decompressIntoNative == compressIntoNative     \* the same calls around ZL_DCtx_decompress

compress ==
    Open \o Require \o Vm \o Pin("input", Throw)
         \o Cxx(Abort)                         \* outputScratch.ensure
         \o Engine \o Unpin("input") \o Report(Quiet) \o NewResultUnchecked

decompress ==
    Open \o Require \o Vm \o Pin("input", Throw)
         \o Engine \o Report(Unpin("input"))   \* ZL_getDecompressedSize
         \o Cxx(Abort)
         \o Engine \o Unpin("input") \o Report(Quiet) \o Either(NewResultUnchecked, VmRaises(Quiet))

getDecompressedSizeNative ==
    Open \o Require \o Vm \o Pin("input", Throw) \o Engine \o Unpin("input") \o Report(Quiet)

(***************************************************************************)
(* Direct buffers.                                                         *)
(***************************************************************************)
compressDirect ==
    Open \o Range("directRange", "src", Throw) \o Range("directRange", "dst", Throw)
         \o Vm \o Check(Quiet) \o Engine \o Report(Quiet)

decompressDirect == compressDirect             \* the same calls around ZL_DCtx_decompress

getDecompressedSizeDirect ==
    Open \o Range("directRange", "src", Throw) \o Vm \o Check(Quiet) \o Engine \o Report(Quiet)

(***************************************************************************)
(* Arrays of numbers.                                                      *)
(***************************************************************************)
compressNumericCommon(after) ==
    Cxx(Abort)                                 \* outputScratch.ensure
    \o Get("typedRef", Throw \o after) \o Engine \o Free("typedRef")
    \o Report(after) \o NewResult(after)

\* compressIntsNative and its three siblings
compressElementsNative ==
    Open \o Vm \o Vm \o Get("elements", Throw)
         \o compressNumericCommon(Free("elements")) \o Free("elements")

\* buffer.resize: the handlers catch std::bad_alloc, not std::length_error.
decompressElements ==
    Vm \o Pin("src", Throw) \o Engine \o Report(Unpin("src"))
       \o Cxx(Abort) \o Cxx(Unpin("src") \o Throw)
       \o Engine \o Unpin("src") \o Report(Quiet)
       \o Require \o Require                   \* type and width, number of elements
       \o NewResult(Quiet)

decompressIntsNative    == Open \o decompressElements
decompressLongsNative   == Open \o Require \o decompressElements
decompressFloatsNative  == Open \o Require \o decompressElements
decompressDoublesNative == Open \o Require \o decompressElements

(***************************************************************************)
(* Frame metadata.                                                         *)
(***************************************************************************)
describeFrameInternal(after) ==
    LET Read == Check(Free("frameInfo") \o Throw \o after)
    IN  Get("frameInfo", Throw \o after)
        \o Read \o Read \o Read                \* format version, outputs, at least one output
        \o Read \o Read                        \* decompressed size, output type
        \o Free("frameInfo") \o NewResult(after)

describeFrameNative ==
    Require \o Vm \o Pin("src", Throw) \o describeFrameInternal(Unpin("src")) \o Unpin("src")

describeFrameDirectNative ==
    Range("directRange", "src", Throw) \o Vm \o Check(Quiet) \o describeFrameInternal(Quiet)

(***************************************************************************)
(* Parameters, serialization, profiles and SDDL.                           *)
(***************************************************************************)
setParameter == Open \o Cxx(Abort)             \* and getParameter
serialize    == Vm \o Check(VmRaises(Quiet)) \o Cxx(Abort) \o VmRaises(Quiet)   \* and serializeToJson

maxCompressedSizeNative == Require \o Require

\* resetNative and destroyCompressorHandleNative
resetNative == Open \o Cxx(Abort)

configureProfileNative ==
    Open \o Require \o ReadString(Quiet)
         \o Require                            \* a known profile
         \o Vm \o Require                      \* as many keys as values
         \o Loop(Vm \o Vm \o Require           \* neither of them null
                 \o Vm \o Get("key", Vm \o Get("value", Throw) \o Free("value") \o Throw)
                 \o Vm \o Get("value", Free("key") \o Throw)
                 \o Free("key") \o Free("value"))
         \o Cxx(Throw)

configureSddlNative ==
    Open \o Require \o Vm \o Require \o Pin("description", Throw)
         \o Engine \o Unpin("description") \o Report(Throw)
         \o Cxx(Abort)                         \* setGraph, outside any try block

setDataArenaNative == Open \o Require \o Engine \o Report(Throw)

listProfilesNative == VmRaises(Quiet) \o VmRaises(Quiet) \o Loop(VmRaises(Quiet) \o Vm)

\* Fault: a handler for CompilerException only.
compileCatchingSome ==
    Require \o Vm \o Get("chars", Throw)
            \o Cxx(Abort) \o Cxx(Free("chars") \o Throw) \o Free("chars")
            \o Require \o NewResult(Throw)

compileNative ==
    Require \o Vm \o Get("chars", Throw) \o Cxx(Free("chars") \o Throw) \o Free("chars")
            \o Require \o NewResult(Throw)

(***************************************************************************)
(* Training and one-shot compression with a profile.                       *)
(***************************************************************************)
trainFromDirectoryImpl(after) ==
    Check(Throw \o after) \o Cxx(Throw \o after) \o NewResults(after)

trainFromDirectoryNative ==
    Require \o Require \o ReadString(Quiet) \o ReadString(Quiet) \o trainFromDirectoryImpl(Quiet)

trainNative ==
    LET cleanup == Free("tempDir")
    IN  Require \o Require \o ReadString(Quiet) \o Require \o Get("tempDir", Throw) \o Vm
        \o Loop(Vm \o Maybe(VmRaises(Throw \o cleanup))        \* NewByteArray(0) for null
                \o Vm \o Cxx(Abort)                            \* content.resize
                \o Maybe(VmRaises(cleanup))                    \* GetByteArrayRegion
                \o Check(Throw \o cleanup) \o Check(Throw \o cleanup))   \* open, write
        \o trainFromDirectoryImpl(cleanup) \o cleanup

compressWithProfileNative ==
    LET failed == Unpin("input") \o Throw
        Setup  == Check(Free("cctx") \o failed)
    IN  Require \o Require \o ReadString(Quiet) \o Require
        \o Vm \o Pin("input", Throw)
        \o Cxx(failed)                                         \* the profile's graph
        \o Get("cctx", failed)
        \o Setup \o Setup \o Setup \o Setup \o Setup           \* 3 parameters, compressor, graph
        \o Cxx(failed)                                         \* new uint8_t[bound]
        \o Engine \o Unpin("input") \o Free("cctx") \o Report(Throw) \o NewResultUnchecked

compressWithSerializedNative ==
    LET failed == Unpin("serialized") \o Unpin("input") \o Throw
        Setup  == Check(Free("cctx") \o failed)
    IN  Require \o Require \o Require \o ReadString(Quiet)
        \o Vm \o Pin("serialized", Throw)
        \o Vm \o Pin("input", Unpin("serialized") \o Throw)
        \o Cxx(failed)                                         \* deserialize
        \o Get("cctx", failed)
        \o Setup \o Setup \o Setup \o Setup                    \* 3 parameters, compressor
        \o Cxx(failed)                                         \* new uint8_t[bound]
        \o Engine \o Unpin("serialized") \o Unpin("input") \o Free("cctx")
        \o Report(Throw) \o NewResultUnchecked

(***************************************************************************)
(* Protobuf conversion.                                                    *)
(***************************************************************************)
\* The serializer: from the caller's compressor bytes, or the thread's own.
Serializer(after) ==
    Either(copyArray(Throw \o after, after) \o Cxx(Throw \o after), Lock \o Cxx(Throw \o after))

\* Parse, offer the payload to the training registry, serialise.
ParseAndSerialise(after) ==
    Lock \o Cxx(Throw \o after)                \* reusableMessage: unknown type
    \o Check(Throw \o after) \o Maybe(Lock) \o Vm
    \o Cxx(Throw \o after) \o Check(Throw \o after) \o Vm

convertPayload(after) == Serializer(after) \o ParseAndSerialise(after) \o makeByteArray(after)

convertNative ==
    Require \o Protocol \o Protocol \o TypeName
            \o Vm \o Pin("payload", Throw) \o convertPayload(Unpin("payload")) \o Unpin("payload")

convertSliceNative ==
    Require \o Range("sliceRange", "payload", Throw) \o Protocol \o Protocol \o TypeName
            \o Pin("payload", Throw)
            \o Cxx(Throw \o Unpin("payload"))  \* input.assign; raw is still alive
            \o Unpin("payload") \o Vm \o convertPayload(Quiet)

convertDirectNative ==
    Range("directLength", "payload", Throw) \o Vm \o Require
        \o Protocol \o Protocol \o Require \o TypeName
        \o Serializer(Quiet) \o ParseAndSerialise(Quiet) \o makeByteArray(Quiet)

\* writeDirectBuffer: too small a buffer is reported by a number.
writeDirectBuffer(after) ==
    Range("directRange", "output", Throw \o after) \o Check(Throw \o after)
    \o Maybe(Vm \o Check(Throw \o after))

convertDirectIntoNative ==
    Require \o Range("directLength", "payload", Throw) \o Require \o Vm \o Require
        \o Protocol \o Protocol \o Require \o TypeName
        \o Serializer(Quiet) \o ParseAndSerialise(Quiet) \o writeDirectBuffer(Quiet) \o Vm

\* directIntoProfileNative and structuredProfileNative
profileNative == makeByteArray(Quiet)

registerSchemaNative ==
    Require \o copyArray(Abort, Quiet) \o Vm \o Require \o Lock \o Cxx(Throw)

graphJsonNative == TypeName \o Lock \o Cxx(Throw) \o Require \o VmRaises(Quiet)
graphJsonFromCompressorNative ==
    Require \o copyArray(Throw, Quiet) \o Vm \o Cxx(Throw) \o VmRaises(Quiet)
graphDetailJsonNative ==                       \* ... a compressor, a starting graph
    TypeName \o Lock \o Cxx(Throw) \o Require \o Require \o VmRaises(Quiet)

configureTrainingNative == Check(Quiet) \o TypeName \o Lock

\* OpenZLProtobuf.train: a sample that could not be copied is parsed as if empty.
trainProtobufNative ==
    Require \o Vm \o Require \o Protocol \o TypeName
        \o Loop(Vm \o Require \o copyArray(Throw, Maybe(Throw))
                \o Lock \o Cxx(Throw) \o Check(Throw) \o Vm)
        \o Cxx(Throw) \o NewResults(Quiet)

(***************************************************************************)
(* Structured protobuf streams.                                            *)
(***************************************************************************)
KnownType == Lock \o Require                   \* DescriptorRegistry::hasType

\* ensureStructuredJniRefs and pinStructuredBuffers, whose failures do not all
\* throw; the reservation for fieldCount streams is outside any try block.
pinStructuredBuffers ==
    LET Read == Vm \o Check(Either(Throw, Quiet) \o Free("buffers"))
    IN  Lock \o VmRaises(Quiet) \o Get("buffers", Quiet)
        \o Read \o Read \o Read \o Vm
        \o Maybe(Read \o Cxx(Abort) \o Loop(Vm \o Read \o Read))

structuredCompress ==
    LET failed == Free("buffers") \o Throw
    IN  pinStructuredBuffers \o Cxx(failed)    \* buildStructuredInputs
        \o Maybe(copyArray(failed, Free("buffers")) \o Vm)
        \o Lock \o Cxx(failed) \o Free("buffers")

compressStructuredNative ==
    Require \o TypeName \o KnownType \o structuredCompress \o makeByteArray(Quiet)

compressStructuredIntoNative ==
    Require \o Require \o Require \o TypeName \o KnownType
        \o structuredCompress \o writeDirectBuffer(Quiet) \o Vm

decompressStructuredNative ==
    Require \o TypeName \o KnownType \o copyArray(Throw, Quiet) \o Vm
        \o Lock \o Cxx(Throw) \o makeByteArray(Quiet)

compressStructuredSampleNative ==
    Require \o TypeName \o KnownType \o copyArray(Throw, Quiet) \o Vm \o Cxx(Throw)
        \o Maybe(copyArray(Throw, Quiet) \o Vm) \o Lock \o Cxx(Throw) \o makeByteArray(Quiet)

\* A sample that could not be copied is parsed as the empty string, which throws.
trainStructuredNative ==
    Require \o Vm \o Require \o TypeName \o KnownType \o Lock \o Cxx(Throw)
        \o Loop(Vm \o Require \o copyArray(Throw, Throw) \o Cxx(Throw))
        \o Cxx(Throw) \o NewResults(Quiet)

=============================================================================
