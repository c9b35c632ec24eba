---------------------------- MODULE NativeSteps ----------------------------
(***************************************************************************)
(* The vocabulary native methods are written in.  A method is the sequence *)
(* of the calls it makes that matter to the JVM or to a resource; a step   *)
(* that can fail carries the calls made instead of the rest of the method. *)
(* Names, messages, sizes and the data compressed are left out.            *)
(*                                                                         *)
(* A C++ exception is considered where the code allocates an amount that a *)
(* payload or a sample decides, or calls an engine function that throws.   *)
(***************************************************************************)
EXTENDS Sequences

Step(op, arg, body, otherwise) ==
    << [op |-> op, arg |-> arg, body |-> body, otherwise |-> otherwise] >>

Quiet == <<>>                                            \* return a failure code only
Throw == Step("throw", "", <<>>, <<>>)                   \* throwNew and the like
Abort == Step("abort", "", <<>>, <<>>)                   \* no handler: std::terminate

Check(otherwise)       == Step("check", "", <<>>, otherwise)   \* a test, then return
Require                == Check(Throw)
Vm                     == Step("vm", "", <<>>, <<>>)     \* a JNI call that does not raise
VmRaises(otherwise)    == Step("raises", "", <<>>, otherwise)  \* ... or returns null and raises
Lock                   == Step("lock", "", <<>>, <<>>)   \* a std::mutex, taken and left
Cxx(handler)           == Step("cxx", "", <<>>, handler) \* may throw a C++ exception
Engine                 == Step("engine", "", <<>>, <<>>) \* returns a ZL_Report ...
Report(otherwise)      == Step("report", "", <<>>, otherwise)  \* ... tested by ZL_isError
Range(test, a, otherwise) == Step(test, a, <<>>, otherwise)

Pin(a, otherwise)      == Step("pin", a, <<>>, otherwise)  \* GetPrimitiveArrayCritical
Unpin(a)               == Step("unpin", a, <<>>, <<>>)     \* its release with JNI_ABORT
Commit(a)              == Step("commit", a, <<>>, <<>>)    \* its release with mode 0
Get(r, otherwise)      == Step("get", r, <<>>, otherwise)  \* any other resource
Free(r)                == Step("free", r, <<>>, <<>>)

Either(this, that)     == Step("either", "", this, that)
Maybe(body)            == Either(body, <<>>)
Loop(body)             == Step("loop", "", body, <<>>)

=============================================================================
