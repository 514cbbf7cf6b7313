------------------------------- MODULE C4Info -------------------------------
(***************************************************************************)
(* C4.getBuildInfo and C4.getVersion (native_c4.cc): LiteCore's           *)
(* c4_getBuildInfo() or c4_getVersion() result, a C4StringResult, is      *)
(* turned into a Java string by toJString and then freed with             *)
(* c4slice_free, which changes no state the model keeps.  Each native is   *)
(* an operator giving the set of outcomes of the call, in NativeGlue's     *)
(* form; the LiteCore result is a slice [null, s] of its bytes.            *)
(***************************************************************************)
EXTENDS Integers, Sequences

CONSTANT MemoryFailures   \* whether JNI and C++ allocations may fail

G == INSTANCE NativeGlue WITH Threads <- {}, ErrorTexts <- {}, DataCodes <- {},
                              MaxNesting <- 1,
                              attached <- <<>>, pending <- <<>>

\* Java_..._C4_getBuildInfo: toJString(env, c4_getBuildInfo()), then c4slice_free.
GetBuildInfo(result) == G!ToJString(result)

\* Java_..._C4_getVersion: toJString(env, c4_getVersion()), then c4slice_free.
GetVersion(result) == G!ToJString(result)
=============================================================================
