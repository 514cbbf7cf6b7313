----------------------------- MODULE NativeGlue -----------------------------
(***************************************************************************)
(* The helpers of native_glue.cc, seen from one thread's JNI environment: *)
(* whether the thread is attached to the JVM and which exception, if any, *)
(* is pending on it.  The conversions and throwError are operators that    *)
(* return the SET of outcomes a call can have (a JNI allocation may fail,  *)
(* the C++ libraries differ), each outcome a record                       *)
(*    [exc:   the exception pending afterwards,                            *)
(*     val:   the value returned,                                          *)
(*     bad:   the JNI functions called while an exception was pending,     *)
(*     inval: the JNI functions called with a NULL they may not take].     *)
(* The JNI specification allows only a handful of functions (the Release* *)
(* family, ExceptionCheck, ExceptionOccurred, DeleteGlobalRef ...) while   *)
(* an exception is pending; every other call is recorded in "bad".        *)
(***************************************************************************)
EXTENDS Integers, Sequences, FiniteSets

CONSTANTS
  Threads,         \* all threads that run glue code
  ErrorTexts,      \* bytes c4error_getMessage may return for an error carrying data
  DataCodes,       \* the LiteCore error codes whose message carries such data
  MemoryFailures,  \* whether JNI and C++ allocations may fail in this model
  MaxNesting       \* how deep throwError may re-enter itself through a failed allocation

ASSUME MemoryFailures \in BOOLEAN /\ MaxNesting \in Nat

VARIABLES
  attached,   \* attached[t]: t is attached to the JVM (GetEnv returns JNI_OK)
  pending     \* pending[t]: the exception pending on t, or None

U == INSTANCE Utf

None     == "none"
\* Java exceptions the JVM itself raises.
OOM      == "OutOfMemoryError"
\* Codes of LiteCoreException; the exception carries the code it was thrown with.
LiteCoreCodes == {"UnexpectedError", "CorruptData", "MemoryError", "Crypto"} \cup DataCodes
Exceptions == {None, OOM, "NoSuchMethodError", "CallbackError"} \cup LiteCoreCodes

\* The message c4error_getMessage gives: fixed ASCII text, or text with data in it.
AsciiText == <<65>>
MessageOf(code) == IF code \in DataCodes THEN ErrorTexts ELSE {AsciiText}

\* The JNI calls f made with exception e pending.
Misuse(e, f) == IF e = None THEN {} ELSE {f}

\* Whether an allocation can fail: {FALSE} or BOOLEAN.
AllocFails == IF MemoryFailures THEN BOOLEAN ELSE {FALSE}

\* What AttachCurrentThread can return: success, or failure when JNI runs out of memory.
AttachResults == IF MemoryFailures THEN BOOLEAN ELSE {TRUE}

Null == "null"

\* A jstring a conversion returns: NULL, or a Java string of UTF-16 units.
NullJstring == [null |-> TRUE, units |-> <<>>]
Jstring(u) == [null |-> FALSE, units |-> u]

(***************************************************************************)
(* throwError converts its message with toJString, which calls throwError *)
(* again when the conversion runs out of memory: the two are mutually     *)
(* recursive.  The depth d counts the throwError calls under way; past    *)
(* MaxNesting allocations no longer fail.                                  *)
(***************************************************************************)
RECURSIVE Utf8ToJstringAt(_, _), ThrowErrorAt(_, _, _)

(***************************************************************************)
(* UTF8ToJstring(env, s, size), entered with no exception pending:        *)
(* from_bytes may throw (CorruptData) or run out of memory (MemoryError), *)
(* either turned into a LiteCoreException by throwError and NULL returned; *)
(* otherwise NewString, which returns NULL with OutOfMemoryError pending   *)
(* when it cannot allocate (throwError then returns at once).             *)
(***************************************************************************)
\* Mutant: the catch clauses return NULL without calling throwError.
Utf8ToJstringAtNoThrow(bytes, d) ==
  LET fails == IF d < MaxNesting THEN AllocFails ELSE {FALSE}
      silent == {[exc |-> None, val |-> NullJstring, bad |-> {}, inval |-> {}]}
      NewString(units) ==
        {[exc |-> IF oom THEN OOM ELSE None, val |-> IF oom THEN NullJstring ELSE Jstring(units),
          bad |-> {}, inval |-> {}] : oom \in fails}
  IN  UNION {IF r.ok THEN NewString(r.val) ELSE silent : r \in U!FromBytes(bytes)}
      \cup (IF TRUE \in fails THEN silent ELSE {})

Utf8ToJstringAt(bytes, d) ==
  LET fails == IF d < MaxNesting THEN AllocFails ELSE {FALSE}
      thrown(code) == {[o EXCEPT !.val = NullJstring] : o \in ThrowErrorAt(None, code, d)}
      NewString(units) ==
        {[exc |-> IF oom THEN OOM ELSE None, val |-> IF oom THEN NullJstring ELSE Jstring(units),
          bad |-> {}, inval |-> {}] : oom \in fails}
  IN  UNION {IF r.ok THEN NewString(r.val) ELSE thrown("CorruptData") : r \in U!FromBytes(bytes)}
      \cup (IF TRUE \in fails THEN thrown("MemoryError") ELSE {})

(***************************************************************************)
(* throwError(env, error): nothing if an exception is already pending;    *)
(* otherwise FindClass and GetStaticMethodID for LiteCoreException, the    *)
(* message converted by toJString (which may itself throw), and           *)
(* CallStaticVoidMethod(throwException), which leaves the LiteCoreException *)
(* pending.  If the conversion left an exception pending, that call is    *)
(* made with it pending, and which exception survives is up to the JVM.  *)
(***************************************************************************)
ThrowErrorAt(e, code, d) ==
  IF e # None THEN {[exc |-> e, val |-> "void", bad |-> {}, inval |-> {}]}
  ELSE UNION { { [exc |-> IF m.exc = None THEN code ELSE x,
                  val |-> "void",
                  bad |-> m.bad \cup Misuse(m.exc, "CallStaticVoidMethod"),
                  inval |-> m.inval]
                 : x \in {code, m.exc} }
               : m \in UNION {Utf8ToJstringAt(msg, d + 1) : msg \in MessageOf(code)} }

Utf8ToJstring(bytes) == Utf8ToJstringAt(bytes, 0)
ThrowError(e, code) == ThrowErrorAt(e, code, 0)

\* toJString(env, C4Slice s): NULL, with nothing thrown, for the null
\* slice; otherwise UTF8ToJstring of its bytes.  A slice is [null, s].
ToJString(slice) ==
  IF slice.null THEN {[exc |-> None, val |-> NullJstring, bad |-> {}, inval |-> {}]}
  ELSE Utf8ToJstring(slice.s)

(***************************************************************************)
(* JstringToUTF8(env, jstr), entered with no exception pending:           *)
(* GetStringLength, GetStringChars (NULL when it cannot allocate; whether *)
(* OutOfMemoryError is then pending differs between JVMs), to_bytes, and  *)
(* ReleaseStringChars, called even when GetStringChars gave NULL.  Every  *)
(* failure gives the empty string.                                        *)
(***************************************************************************)
JstringToUtf8(units) ==
  { [exc |-> IF oom THEN x ELSE None,
     val |-> IF oom \/ ~r.ok THEN <<>> ELSE r.val,
     bad |-> {},
     inval |-> IF oom THEN {"ReleaseStringChars"} ELSE {}]
    : oom \in AllocFails, x \in {None, OOM}, r \in U!ToBytes(units) }

(***************************************************************************)
(* jstringSlice(env, js): JstringToUTF8, then FLStr(_str.c_str()), which   *)
(* measures the C string with strlen: the slice ends at the first NUL.     *)
(* (A null js gives the null slice; callers model that case themselves.)  *)
(***************************************************************************)
UpToNul(b) ==
  IF \E i \in DOMAIN b : b[i] = 0
    THEN SubSeq(b, 1, (CHOOSE i \in DOMAIN b : b[i] = 0 /\ \A j \in 1..(i - 1) : b[j] # 0) - 1)
    ELSE b
JstringSlice(units) == {[o EXCEPT !.val = UpToNul(o.val)] : o \in JstringToUtf8(units)}

(***************************************************************************)
(* deleteGlobalRef(gRef) on thread t: GetEnv; if t is detached it is      *)
(* attached and, when that works, the reference deleted.  The thread is   *)
(* never detached again.  DeleteGlobalRef may be called with an exception *)
(* pending, so nothing else changes.                                      *)
(***************************************************************************)
DeleteGlobalRef(t) ==
  /\ ~attached[t]
  /\ \E ok \in AttachResults : attached' = [attached EXCEPT ![t] = ok]
  /\ UNCHANGED pending

=============================================================================
