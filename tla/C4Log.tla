-------------------------------- MODULE C4Log --------------------------------
(***************************************************************************)
(* The logging bridge of native_c4.cc.  Java threads call the C4Log       *)
(* native methods; LiteCore, on whatever thread logs, calls the trampoline *)
(* logCallback once setCallbackLevel has registered it.  setCallbackLevel *)
(* initialises the global class and method handles the trampoline uses    *)
(* without a lock, so it is split into one step per shared access:        *)
(*   "globalRef" line 252, "methodId" line 258, "register" line 267,      *)
(*   "setLevel" line 270.                                                  *)
(* Every other handler runs on one thread and touches only that thread's  *)
(* JNI state and LiteCore's own (locked) log state, so it is one action.  *)
(* LiteCore is the environment: its levels are variables and it calls the *)
(* callback when a message passes them.                                   *)
(***************************************************************************)
EXTENDS Integers, Sequences, FiniteSets

CONSTANTS
  JavaThreads,     \* threads of the JVM, always attached
  NativeThreads,   \* LiteCore's own threads, detached unless something attached them
  Domains,         \* log domains (model values)
  DomainNames,     \* DomainNames[d]: the Java string (UTF-16 units) naming domain d
  Levels,          \* C4LogLevel values used
  LogTexts,        \* UTF-8 bytes of messages LiteCore formats on its own threads
  JavaTexts,       \* UTF-16 units of messages Java passes to C4Log.log
  ErrorTexts, DataCodes, MemoryFailures, MaxNesting,
  LookupFails,     \* whether GetStaticMethodID can fail (the method was stripped)
  CallbackThrows,  \* whether the Java C4Log.logCallback can throw
  MaxCalls         \* setCallbackLevel calls per Java thread

ASSUME /\ JavaThreads \cap NativeThreads = {}
       /\ LookupFails \in BOOLEAN /\ CallbackThrows \in BOOLEAN
       /\ MaxCalls \in Nat
       \* Java names domains only by LogDomain enum names (comment at lines
       \* 140-141): ASCII, so their UTF-8 and Modified UTF-8 are the units.
       /\ \A d \in Domains : \A i \in DOMAIN DomainNames[d] : DomainNames[d][i] \in 1..127

VARIABLES
  attached, pending,     \* per-thread JNI state (NativeGlue)
  clsC4Log,              \* cls_C4Log: the global class reference, or Null
  mLogCallback,          \* m_C4Log_logCallback: the method ID, or Null
  registered,            \* LiteCore calls logCallback (c4log_writeToCallback done)
  callbackLevel,         \* LiteCore's callback level
  domainLevel,           \* LiteCore's level of each domain
  pc, arg, calls,        \* setCallbackLevel in progress on each Java thread
  \* History, for the properties:
  failed,                \* failed[t]: t's last setCallbackLevel hit a failing step
  threw,                 \* threw[t]: t's last setCallbackLevel returned with an exception
  reentered,             \* JNI functions called with an exception pending
  invalid,               \* JNI functions called with a NULL handle
  okReturned             \* some setCallbackLevel has returned without an exception

INSTANCE NativeGlue WITH Threads <- JavaThreads \cup NativeThreads

vars == <<attached, pending, clsC4Log, mLogCallback, registered, callbackLevel,
          domainLevel, pc, arg, calls, failed, threw,
          reentered, invalid, okReturned>>
logState == <<callbackLevel, domainLevel>>
history == <<failed, threw, reentered, invalid, okReturned>>

Threads == JavaThreads \cup NativeThreads
ClassRef  == "C4Log"
MethodRef == "logCallback"

\* Record what an outcome o of a glue helper did on thread t.
Note(t, o) ==
  /\ reentered' = reentered \cup o.bad
  /\ invalid' = invalid \cup o.inval

(***************************************************************************)
(* The trampoline logCallback entered on an ATTACHED thread t with e      *)
(* pending: the outcomes of the part after GetEnv.  With an exception     *)
(* pending it returns at once.  Otherwise the message goes through        *)
(* UTF8ToJstring, the domain name through NewStringUTF (NULL, with       *)
(* OutOfMemoryError pending, when it cannot allocate), and                *)
(* CallStaticVoidMethod(cls_C4Log, m_C4Log_logCallback) runs the Java     *)
(* callback, which may throw.  Nothing clears an exception left pending.  *)
(***************************************************************************)
Callback(e, bytes) ==
  IF e # None THEN {[exc |-> e, bad |-> {}, inval |-> {}]}
  ELSE { LET n == IF u.exc = None /\ oom THEN OOM ELSE u.exc   \* pending after NewStringUTF
         IN [exc   |-> IF n # None THEN n ELSE IF throws THEN "CallbackError" ELSE None,
             bad   |-> u.bad \cup Misuse(u.exc, "NewStringUTF")
                             \cup Misuse(n, "CallStaticVoidMethod"),
             inval |-> u.inval \cup (IF clsC4Log = Null \/ mLogCallback = Null
                                     THEN {"CallStaticVoidMethod"} ELSE {})]
         : u \in Utf8ToJstring(bytes), oom \in AllocFails,
           throws \in IF CallbackThrows THEN BOOLEAN ELSE {FALSE} }

\* LiteCore hands a message of domain d and level l to the callback.
Passes(d, l) == registered /\ l >= callbackLevel /\ l >= domainLevel[d]

(***************************************************************************)
(* logCallback on native thread n.  GetEnv; a detached thread is attached *)
(* (a failure is only logged), runs the callback with no exception        *)
(* pending, and is detached again, which discards any exception.  An      *)
(* attached thread keeps whatever the callback leaves pending.            *)
(***************************************************************************)
\* Lines 218-239 when n was detached and AttachCurrentThread worked: the
\* callback, then DetachCurrentThread.  An exception the callback left
\* pending ends with the thread's attachment; no caller sees it.
AttachedCall(n, bytes) ==
  /\ \E o \in Callback(None, bytes) : Note(n, o)
  /\ UNCHANGED <<attached, pending>>

LogCallback(n, bytes) ==
  \/ /\ ~attached[n]
     /\ FALSE \in AttachResults
     /\ UNCHANGED <<attached, pending, reentered, invalid>>
  \/ /\ ~attached[n]
     /\ TRUE \in AttachResults
     /\ AttachedCall(n, bytes)
  \/ /\ attached[n]
     /\ \E o \in Callback(pending[n], bytes) :
          /\ Note(n, o)
          /\ pending' = [pending EXCEPT ![n] = o.exc]
     /\ UNCHANGED attached

-----------------------------------------------------------------------------
(***************************************************************************)
(* Java threads.  A native call starts with no exception pending; when it *)
(* returns, its pending exception is thrown in Java (threw[t]).           *)
(***************************************************************************)
Idle(t) == pc[t] = "idle"

\* Mutant: the test of cls_C4Log inverted.
FirstStepInverted == IF clsC4Log # Null THEN "globalRef" ELSE "setLevel"

\* Line 251: only the call that finds cls_C4Log unset initialises the handles.
FirstStep == IF clsC4Log = Null THEN "globalRef" ELSE "setLevel"

SetCallbackLevel(t, l) ==
  /\ Idle(t) /\ calls[t] < MaxCalls
  /\ calls' = [calls EXCEPT ![t] = @ + 1]
  /\ arg' = [arg EXCEPT ![t] = l]
  /\ pc' = [pc EXCEPT ![t] = FirstStep]
  /\ failed' = [failed EXCEPT ![t] = FALSE]
  /\ UNCHANGED <<attached, pending, clsC4Log, mLogCallback, registered, logState,
                 threw, reentered, invalid, okReturned>>

\* Lines 252-256: NewGlobalRef; on failure throwError, and carry on.
SclGlobalRef(t) ==
  /\ pc[t] = "globalRef"
  /\ pc' = [pc EXCEPT ![t] = "methodId"]
  /\ \E fails \in AllocFails :
       \/ /\ ~fails
          /\ clsC4Log' = ClassRef
          /\ UNCHANGED <<pending, failed, reentered, invalid>>
       \/ /\ fails
          /\ clsC4Log' = Null
          /\ failed' = [failed EXCEPT ![t] = TRUE]
          /\ \E o \in ThrowError(pending[t], "UnexpectedError") :
               /\ Note(t, o)
               /\ pending' = [pending EXCEPT ![t] = o.exc]
  /\ UNCHANGED <<attached, mLogCallback, registered, logState, arg, calls,
                 threw, okReturned>>

(***************************************************************************)
(* Lines 258-265: GetStaticMethodID on whatever cls_C4Log now holds; a    *)
(* method that is not found leaves NoSuchMethodError pending, and         *)
(* throwError then returns at once.  Then carry on.                       *)
(***************************************************************************)
\* Mutant: a failed lookup that leaves no exception pending, and no throwError.
NotFoundNoThrow(t) ==
  /\ mLogCallback' = Null
  /\ failed' = [failed EXCEPT ![t] = TRUE]
  /\ UNCHANGED pending

\* The method is not found: NoSuchMethodError is pending, unless another was.
NotFound(t) ==
  /\ mLogCallback' = Null
  /\ failed' = [failed EXCEPT ![t] = TRUE]
  /\ pending' = [pending EXCEPT ![t] = IF @ = None THEN "NoSuchMethodError" ELSE @]

SclMethodId(t) ==
  /\ pc[t] = "methodId"
  /\ pc' = [pc EXCEPT ![t] = "register"]
  /\ reentered' = reentered \cup Misuse(pending[t], "GetStaticMethodID")
  /\ invalid' = IF clsC4Log = Null THEN invalid \cup {"GetStaticMethodID"} ELSE invalid
  /\ \E found \in IF LookupFails /\ clsC4Log # Null THEN BOOLEAN ELSE {clsC4Log # Null} :
       \/ /\ found
          /\ mLogCallback' = MethodRef
          /\ UNCHANGED <<pending, failed>>
       \/ ~found /\ NotFound(t)
  /\ UNCHANGED <<attached, clsC4Log, registered, logState, arg, calls,
                 threw, okReturned>>

\* Line 267: c4log_writeToCallback(level, logCallback, true).
SclRegister(t) ==
  /\ pc[t] = "register"
  /\ pc' = [pc EXCEPT ![t] = "setLevel"]
  /\ registered' = TRUE
  /\ callbackLevel' = arg[t]
  /\ UNCHANGED <<attached, pending, clsC4Log, mLogCallback, domainLevel,
                 arg, calls, history>>

\* Line 270: c4log_setCallbackLevel(level), and the return to Java.
SclSetLevel(t) ==
  /\ pc[t] = "setLevel"
  /\ pc' = [pc EXCEPT ![t] = "idle"]
  /\ callbackLevel' = arg[t]
  /\ threw' = [threw EXCEPT ![t] = (pending[t] # None)]
  /\ pending' = [pending EXCEPT ![t] = None]
  /\ okReturned' = (okReturned \/ pending[t] = None)
  /\ UNCHANGED <<attached, clsC4Log, mLogCallback, registered, domainLevel,
                 arg, calls, failed, reentered, invalid>>

(***************************************************************************)
(* Java_..._C4Log_log: jstringSlice of the message (JstringToUTF8),       *)
(* GetStringUTFChars of the domain, c4slog (which, on this same thread,   *)
(* calls logCallback when the message passes LiteCore's levels), and      *)
(* ReleaseStringUTFChars.                                                  *)
(***************************************************************************)
Log(t, d, l, text) ==
  /\ Idle(t)
  /\ \E m \in JstringSlice(text) :
       LET cb == IF Passes(d, l) THEN Callback(m.exc, m.val)
                 ELSE {[exc |-> m.exc, bad |-> {}, inval |-> {}]}
       IN  \E o \in cb :
             /\ reentered' = reentered \cup m.bad \cup o.bad \cup Misuse(m.exc, "GetStringUTFChars")
             /\ invalid' = invalid \cup m.inval \cup o.inval
  /\ UNCHANGED <<attached, pending, clsC4Log, mLogCallback, registered, logState,
                 pc, arg, calls, failed, threw, okReturned>>

(***************************************************************************)
(* jstringSlice(env, jdomain).c_str(): the slice's buffer, which is the    *)
(* converted name up to its first NUL, with what the conversion did.       *)
(* c4log_getDomain then finds the domain with that C name; when the        *)
(* conversion gave "" no domain of Domains has it.                        *)
(***************************************************************************)
DomainArg(d) == JstringSlice(DomainNames[d])

(***************************************************************************)
(* Java_..._C4Log_setLevel: the name through jstringSlice,                *)
(* c4log_getDomain(name, true), which creates a domain for an unknown      *)
(* name, and c4log_setLevel on it.  A name the conversion emptied sets the *)
(* level of a domain "" that nothing logs to.                             *)
(***************************************************************************)
SetLevel(t, d, l) ==
  /\ Idle(t)
  /\ \E o \in DomainArg(d) :
       /\ Note(t, o)
       /\ domainLevel' = [x \in Domains |-> IF DomainNames[x] = o.val THEN l ELSE domainLevel[x]]
  /\ UNCHANGED <<attached, pending, clsC4Log, mLogCallback, registered, callbackLevel,
                 pc, arg, calls, failed, threw, okReturned>>

(***************************************************************************)
(* Java_..._C4Log_getLevel: the name through jstringSlice, then            *)
(* c4log_getDomain(name, false) and c4log_getLevel, or -1 for no domain.   *)
(* LiteCore's state is only read; the level returned is not kept, as no    *)
(* property is about it.                                                   *)
(***************************************************************************)
GetLevel(t, d) ==
  /\ Idle(t)
  /\ \E o \in DomainArg(d) : Note(t, o)
  /\ UNCHANGED <<attached, pending, clsC4Log, mLogCallback, registered, logState,
                 pc, arg, calls, failed, threw, okReturned>>

-----------------------------------------------------------------------------
\* LiteCore logs on its own thread n.
NativeLog(n, d, l, bytes) ==
  /\ Passes(d, l)
  /\ LogCallback(n, bytes)
  /\ UNCHANGED <<clsC4Log, mLogCallback, registered, logState, pc, arg, calls,
                 failed, threw, okReturned>>

\* deleteGlobalRef on native thread n (a LiteCore thread releasing a Java object).
NativeDeleteGlobalRef(n) ==
  /\ DeleteGlobalRef(n)
  /\ UNCHANGED <<clsC4Log, mLogCallback, registered, logState, pc, arg, calls, history>>

-----------------------------------------------------------------------------
Init ==
  /\ attached = [t \in Threads |-> t \in JavaThreads]
  /\ pending = [t \in Threads |-> None]
  /\ clsC4Log = Null
  /\ mLogCallback = Null
  /\ registered = FALSE
  /\ callbackLevel \in Levels
  /\ domainLevel \in [Domains -> Levels]
  /\ pc = [t \in JavaThreads |-> "idle"]
  /\ arg = [t \in JavaThreads |-> CHOOSE l \in Levels : TRUE]
  /\ calls = [t \in JavaThreads |-> 0]
  /\ failed = [t \in JavaThreads |-> FALSE]
  /\ threw = [t \in JavaThreads |-> FALSE]
  /\ reentered = {}
  /\ invalid = {}
  /\ okReturned = FALSE

\* The steps of a setCallbackLevel call already under way.
SclStep(t) == SclGlobalRef(t) \/ SclMethodId(t) \/ SclRegister(t) \/ SclSetLevel(t)

Next ==
  \/ \E t \in JavaThreads :
       \/ SclStep(t)
       \/ \E l \in Levels : SetCallbackLevel(t, l)
       \/ \E d \in Domains, l \in Levels, x \in JavaTexts : Log(t, d, l, x)
       \/ \E d \in Domains, l \in Levels : SetLevel(t, d, l)
       \/ \E d \in Domains : GetLevel(t, d)
  \/ \E n \in NativeThreads :
       \/ \E d \in Domains, l \in Levels, x \in LogTexts : NativeLog(n, d, l, x)
       \/ NativeDeleteGlobalRef(n)

(***************************************************************************)
(* A Java thread inside setCallbackLevel is scheduled by the OS and runs  *)
(* on: weak fairness for each started call.  Nothing obliges anyone to    *)
(* call or to log.                                                         *)
(***************************************************************************)
Fairness == \A t \in JavaThreads : WF_vars(SclStep(t))

Spec == Init /\ [][Next]_vars /\ Fairness
-----------------------------------------------------------------------------
(***************************************************************************)
(* A setCallbackLevel call that hit a failure (NewGlobalRef or            *)
(* GetStaticMethodID) returns to Java with an exception, even when        *)
(* throwError fails on the way.                                           *)
(***************************************************************************)
NoSilentFailure ==
  \A t \in JavaThreads : Idle(t) /\ failed[t] => threw[t]

(***************************************************************************)
(* Once a setCallbackLevel call has returned without an exception, the    *)
(* Java callback is eventually registered with LiteCore, whichever call   *)
(* passed the test of cls_C4Log first.                                    *)
(***************************************************************************)
EventuallyRegistered == okReturned ~> registered

(***************************************************************************)
(* spec.md section 5: callback delivery "must avoid re-entering the       *)
(* managed runtime while a pending exception is set".  No JNI function    *)
(* other than the exception-safe ones is called with one pending.         *)
(***************************************************************************)
NoCallWithPendingException == reentered = {}

(***************************************************************************)
(* spec.md section 5: callback delivery attaches the invoking thread when  *)
(* it is not attached and detaches it again, so a LiteCore thread keeps no *)
(* JNI state between messages.  No exception is left pending on a         *)
(* LiteCore thread: no Java code runs there to see it, and logCallback     *)
(* drops every later message on that thread while it is pending           *)
(* ("Cannot log while an exception is outstanding").                       *)
(***************************************************************************)
NoExceptionStrandedOnNativeThread == \A n \in NativeThreads : pending[n] = None

(***************************************************************************)
(* No JNI function is called with a NULL class, method or buffer: the     *)
(* callback is never run through a method ID that lookup failed to find,  *)
(* which is what the tests of cls_C4Log and m_C4Log_logCallback in        *)
(* setCallbackLevel (lines 253 and 262) are there for.                     *)
(***************************************************************************)
NoCallThroughNullHandle == invalid = {}
=============================================================================
