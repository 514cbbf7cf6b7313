------------------------------- MODULE Slices --------------------------------
(***************************************************************************)
(* The two slice classes of native_glue.hh, as the objects a native's     *)
(* code holds: jstringSlice (a std::string and a slice of it) and         *)
(* jbyteArraySlice (a slice of a Java byte[]'s elements, pinned by the    *)
(* JVM until the destructor releases them).  A client constructs objects *)
(* into free storage, move-constructs one from another (both have a move  *)
(* constructor and no copy constructor) and destroys them in any order,   *)
(* on one thread.  jbyteArraySlice::copy is one more client.              *)
(* A buffer is a record [at, id]: at is "heap", "pin", an object (the     *)
(* std::string's inline buffer inside that object) or Null.              *)
(***************************************************************************)
EXTENDS Integers, Sequences, FiniteSets

CONSTANTS
  Objects,         \* storage a client can construct a slice object in
  JavaStrings,     \* UTF-16 units of the strings passed to jstringSlice
  Arrays,          \* Java byte[] objects
  ArrayLength,     \* ArrayLength[a]: GetArrayLength(a)
  SsoCapacity,     \* the longest std::string held inside the object itself
  MemoryFailures,  \* the JVM may return NULL from GetByteArrayElements / GetPrimitiveArrayCritical
  MaxBuffers       \* ids for the heap and pinned buffers alive at once

VARIABLES
  obj,             \* obj[o]: the object constructed in o, or Free
  pins,            \* element buffers the JVM handed out and has not had released
  copied           \* what the latest jbyteArraySlice::copy returned

G == INSTANCE NativeGlue WITH Threads <- {}, ErrorTexts <- {}, DataCodes <- {},
                              MaxNesting <- 0, attached <- <<>>, pending <- <<>>

vars == <<obj, pins, copied>>

Free == [kind |-> "free"]
Null == [at |-> "null", id |-> 0]
NullRef == "null"                                  \* a null jbyteArray
\* A jstring argument: null, or a string with units s.
Jstrings == [null : {TRUE}, s : {<<>>}] \cup [null : {FALSE}, s : JavaStrings]
NullSlice == [buf |-> Null, size |-> 0]           \* kFLSliceNull
Buf(at, id) == [at |-> at, id |-> id]

\* Ids of the heap and pinned buffers some object or the JVM still holds.
UsedIds == {p.id : p \in pins} \cup
           {obj[o].str.id : o \in {x \in Objects : obj[x].kind = "str" /\ obj[x].str.at = "heap"}}
FreshIds == (1..MaxBuffers) \ UsedIds
Fresh == CHOOSE k \in FreshIds : \A j \in FreshIds : k <= j

(***************************************************************************)
(* jstringSlice(env, js): for a non-null string, _str = JstringToUTF8 (a   *)
(* std::string, inside the object when short enough, else on the heap)     *)
(* and _slice = FLStr(_str.c_str()), up to the first NUL; for null, the    *)
(* null slice.                                                             *)
(***************************************************************************)
NewStringSlice(o, js) ==
  /\ obj[o] = Free
  /\ FreshIds # {}
  /\ \/ /\ js.null
        /\ obj' = [obj EXCEPT ![o] = [kind |-> "str", str |-> Buf(o, 0), slice |-> NullSlice]]
     \/ /\ ~js.null
        /\ \E r \in G!JstringToUtf8(js.s) :
             LET str == IF Len(r.val) <= SsoCapacity THEN Buf(o, 0) ELSE Buf("heap", Fresh)
             IN  obj' = [obj EXCEPT ![o] = [kind |-> "str", str |-> str,
                                            slice |-> [buf |-> str, size |-> Len(G!UpToNul(r.val))]]]
  /\ UNCHANGED <<pins, copied>>

(***************************************************************************)
(* jstringSlice(jstringSlice &&s): _str(std::move(s._str)), _slice(s._slice), *)
(* then s._slice = kFLSliceNull.  Moving a std::string takes over a heap   *)
(* buffer but copies an inline one into the new object; s is left with an *)
(* empty inline string.                                                    *)
(***************************************************************************)
MoveStringSlice(o, s) ==
  /\ obj[o] = Free /\ obj[s].kind = "str"
  /\ obj' = [obj EXCEPT
               ![o] = [kind |-> "str", slice |-> obj[s].slice,
                       str |-> IF obj[s].str.at = "heap" THEN obj[s].str ELSE Buf(o, 0)],
               ![s] = [kind |-> "str", str |-> Buf(s, 0), slice |-> NullSlice]]
  /\ UNCHANGED <<pins, copied>>

(***************************************************************************)
(* jbyteArraySlice(env, jbytes, critical): the length is GetArrayLength   *)
(* (0 for null); a null or empty array gives the null slice; otherwise    *)
(* the elements, from GetPrimitiveArrayCritical or GetByteArrayElements,  *)
(* which return NULL when the JVM cannot provide them: the slice is then   *)
(* {NULL, length}.                                                         *)
(***************************************************************************)
Pinned(a, critical, k) == {Buf("pin", k)} \cup (IF MemoryFailures THEN {Null} ELSE {})

ByteSliceOf(a, critical, buf) ==
  [kind |-> "bytes", jbytes |-> a, critical |-> critical,
   slice |-> IF a = NullRef \/ ArrayLength[a] = 0 THEN NullSlice
             ELSE [buf |-> buf, size |-> ArrayLength[a]]]

\* The pins a new slice adds: the element buffer, unless it is NULL.
PinOf(a, critical, buf) ==
  IF buf = Null \/ a = NullRef \/ ArrayLength[a] = 0 THEN {}
  ELSE {[id |-> buf.id, array |-> a, critical |-> critical]}

NewByteSlice(o, a, critical) ==
  /\ obj[o] = Free
  /\ FreshIds # {}
  /\ \E buf \in Pinned(a, critical, Fresh) :
       /\ obj' = [obj EXCEPT ![o] = ByteSliceOf(a, critical, buf)]
       /\ pins' = pins \cup PinOf(a, critical, buf)
  /\ UNCHANGED copied

\* Mutant: the move constructor does not null the source's slice.
MoveByteSliceNoReset(o, s) ==
  /\ obj[o] = Free /\ obj[s].kind = "bytes"
  /\ obj' = [obj EXCEPT ![o] = obj[s]]
  /\ UNCHANGED <<pins, copied>>

(***************************************************************************)
(* jbyteArraySlice(jbyteArraySlice &&s): _slice, _env, _jbytes and         *)
(* _critical copied, then s._slice = kFLSliceNull.                         *)
(***************************************************************************)
MoveByteSlice(o, s) ==
  /\ obj[o] = Free /\ obj[s].kind = "bytes"
  /\ obj' = [obj EXCEPT ![o] = obj[s], ![s].slice = NullSlice]
  /\ UNCHANGED <<pins, copied>>

(***************************************************************************)
(* ~jbyteArraySlice(): if _slice.buf is not NULL, release it with          *)
(* ReleasePrimitiveArrayCritical or ReleaseByteArrayElements (JNI_ABORT),  *)
(* by _critical.  ~jstringSlice frees the std::string.                     *)
(***************************************************************************)
Release(o) ==
  IF obj[o].kind = "bytes" /\ obj[o].slice.buf # Null
    THEN pins \ {[id |-> obj[o].slice.buf.id, array |-> obj[o].jbytes,
                  critical |-> obj[o].critical]}
    ELSE pins

Destroy(o) ==
  /\ obj[o] # Free
  /\ obj' = [obj EXCEPT ![o] = Free]
  /\ pins' = Release(o)
  /\ UNCHANGED copied

(***************************************************************************)
(* jbyteArraySlice::copy(env, jbytes): a critical jbyteArraySlice on the   *)
(* stack, FLSlice_Copy of it, then its destructor.  The result is the     *)
(* array's bytes, the null slice for a null or empty array, or a copy of   *)
(* {NULL, length} when the JVM could not pin the elements.                *)
(***************************************************************************)
Copy(a) ==
  /\ FreshIds # {}
  /\ \E buf \in Pinned(a, TRUE, Fresh) :
       LET s == ByteSliceOf(a, TRUE, buf).slice
       IN  copied' = [array |-> a,
                      result |-> CASE s = NullSlice -> "null"
                                   [] s.buf = Null  -> "copyOfNull"
                                   [] OTHER         -> "bytes"]
  /\ UNCHANGED <<obj, pins>>

Init ==
  /\ obj = [o \in Objects |-> Free]
  /\ pins = {}
  /\ copied = [array |-> NullRef, result |-> "none"]

Next ==
  \/ \E o \in Objects :
       \/ \E js \in Jstrings : NewStringSlice(o, js)
       \/ \E a \in Arrays \cup {NullRef}, critical \in BOOLEAN : NewByteSlice(o, a, critical)
       \/ \E s \in Objects \ {o} : MoveStringSlice(o, s) \/ MoveByteSlice(o, s)
       \/ Destroy(o)
  \/ \E a \in Arrays \cup {NullRef} : Copy(a)

Spec == Init /\ [][Next]_vars
-----------------------------------------------------------------------------
LiveBytes == {o \in Objects : obj[o].kind = "bytes"}
Owners(p) == {o \in LiveBytes : obj[o].slice.buf = Buf("pin", p.id)}

(***************************************************************************)
(* Every element buffer the JVM has pinned belongs to exactly one live     *)
(* jbyteArraySlice, of that array and made with that critical flag, and   *)
(* every live slice's buffer is still pinned.  Through any order of moves *)
(* and destructions, each pin is therefore released exactly once, by the  *)
(* matching Release function: none leaks, none is released twice.        *)
(***************************************************************************)
PinsOwnedOnce ==
  /\ \A p \in pins :
       /\ Cardinality(Owners(p)) = 1
       /\ \A o \in Owners(p) : obj[o].jbytes = p.array /\ obj[o].critical = p.critical
  /\ \A o \in LiveBytes : obj[o].slice.buf.at = "pin" =>
       \E p \in pins : obj[o].slice.buf = Buf("pin", p.id)

(***************************************************************************)
(* A live jstringSlice's non-empty slice points into the string the object *)
(* itself holds (FLStr(_str.c_str()) in the constructor), also after the  *)
(* object was move-constructed from another.                              *)
(***************************************************************************)
StringSliceOwnsBuffer ==
  \A o \in Objects :
    obj[o].kind = "str" /\ obj[o].slice.size > 0 => obj[o].slice.buf = obj[o].str
=============================================================================
