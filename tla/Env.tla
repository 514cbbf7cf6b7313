--------------------------------- MODULE Env ---------------------------------
(***************************************************************************)
(* C4.setenv and C4.getenv (native_c4.cc): Java reads and writes the       *)
(* process environment through the C library.  Names and values cross the  *)
(* boundary twice: Java string -> JstringToUTF8 -> setenv, and getenv ->   *)
(* NewStringUTF -> Java string.                                            *)
(* State: environ, the C environment (per C name: {} unset, or {bytes}),    *)
(* and got, what each thread's latest getenv returned.  Each call is one   *)
(* action: nothing in the glue is shared between its steps.  The spec is   *)
(* checked to implement JavaEnv, the environment as a map of Java strings. *)
(***************************************************************************)
EXTENDS Integers, Sequences, FiniteSets

CONSTANTS
  JavaThreads,
  Names,           \* UTF-16 units of variable names Java uses
  Values,          \* UTF-16 units of values Java sets
  Msvc             \* the build uses _putenv_s (Windows) rather than setenv

ASSUME Msvc \in BOOLEAN

VARIABLES
  environ,         \* environ[b]: the value bytes of C variable b, {} if unset
  got,             \* got[t]: t's latest getenv: the name and the result
  setArgs          \* the arguments of the latest setenv call (its interface event)

G == INSTANCE NativeGlue WITH Threads <- JavaThreads, ErrorTexts <- {}, DataCodes <- {},
                              MemoryFailures <- FALSE, MaxNesting <- 0,
                              attached <- [t \in JavaThreads |-> TRUE],
                              pending <- [t \in JavaThreads |-> "none"]
U == INSTANCE Utf

vars == <<environ, got, setArgs>>

\* Every C name a Java name can turn into.
CNames == {G!UpToNul(r.val) : r \in UNION {U!ToBytes(n) : n \in Names}}

\* What getenv hands back to Java: null, a string, or an abort of the VM.
NullResult  == [kind |-> "null", s |-> <<>>]
AbortResult == [kind |-> "abort", s |-> <<>>]
StringResult(s) == [kind |-> "string", s |-> s]
NoGet == [name |-> <<>>, ret |-> NullResult]
NoSet == [name |-> <<>>, value |-> <<>>, overwrite |-> 0]

(***************************************************************************)
(* NewStringUTF decodes Modified UTF-8: the one-, two- and three-byte      *)
(* sequences of UTF-8, but not the four-byte ones (a supplementary         *)
(* character is two three-byte surrogates there).  Given real UTF-8 with a *)
(* four-byte sequence, ART's CheckJNI aborts (the comment above            *)
(* UTF8ToJstring in native_glue.cc); no JVM returns the right string.      *)
(* NewStringUTF(NULL) returns NULL.                                         *)
(***************************************************************************)
\* Mutant: the bytes taken one per char (Latin-1), not decoded.
NewStringUTFLatin1(val) ==
  IF val = {} THEN {NullResult} ELSE {StringResult(CHOOSE x \in val : TRUE)}

NewStringUTF(val) ==
  IF val = {} THEN {NullResult}
  ELSE LET b == CHOOSE x \in val : TRUE
       IN  IF \E i \in DOMAIN b : b[i] >= 240 THEN {AbortResult}
           ELSE {StringResult(r.val) : r \in U!FromBytes(b) \ {U!Fail}}

(***************************************************************************)
(* Java_..._C4_setenv(name, value, overwrite): both strings through        *)
(* jstringSlice, then setenv(name, value, overwrite), or _putenv_s(name,    *)
(* value), which always overwrites.  setenv refuses an empty name          *)
(* (EINVAL); its result is ignored.                                         *)
(***************************************************************************)
\* Mutant: overwrite ignored, as _putenv_s does, on every build.
SetenvAlwaysOverwrite(t, n, v, overwrite) ==
  /\ \E nm \in G!JstringSlice(n), vl \in G!JstringSlice(v) :
       environ' = IF nm.val = <<>> THEN environ
                  ELSE [environ EXCEPT ![nm.val] = {vl.val}]
  /\ setArgs' = [name |-> n, value |-> v, overwrite |-> overwrite]
  /\ UNCHANGED got

Setenv(t, n, v, overwrite) ==
  /\ \E nm \in G!JstringSlice(n), vl \in G!JstringSlice(v) :
       environ' = IF nm.val = <<>> \/ (~Msvc /\ overwrite = 0 /\ environ[nm.val] # {})
                    THEN environ
                    ELSE [environ EXCEPT ![nm.val] = {vl.val}]
  /\ setArgs' = [name |-> n, value |-> v, overwrite |-> overwrite]
  /\ UNCHANGED got

\* What getenv(jstringSlice(name)) and NewStringUTF can give Java for n.
Lookup(n) ==
  UNION {NewStringUTF(IF nm.val = <<>> THEN {} ELSE environ[nm.val]) : nm \in G!JstringSlice(n)}

\* Java_..._C4_getenv(name): NewStringUTF(getenv(jstringSlice(name))).
Getenv(t, n) ==
  /\ \E r \in Lookup(n) : got' = [got EXCEPT ![t] = [name |-> n, ret |-> r]]
  /\ UNCHANGED <<environ, setArgs>>

Init ==
  /\ environ = [b \in CNames \ {<<>>} |-> {}]
  /\ got = [t \in JavaThreads |-> NoGet]
  /\ setArgs = NoSet

Next ==
  \E t \in JavaThreads, n \in Names :
    \/ \E v \in Values, overwrite \in {0, 1} : Setenv(t, n, v, overwrite)
    \/ Getenv(t, n)

Spec == Init /\ [][Next]_vars
-----------------------------------------------------------------------------
Results == {NullResult, AbortResult} \cup {StringResult(v) : v \in Values}

TypeOK ==
  /\ environ \in [CNames \ {<<>>} -> SUBSET Seq(0..255)]
  /\ got \in [JavaThreads -> [name : Names, ret : Results] \cup {NoGet}]
  /\ setArgs \in [name : Names, value : Values, overwrite : {0, 1}] \cup {NoSet}

(***************************************************************************)
(* The environment as Java sees it through C4.getenv: for each Java name, *)
(* what getenv returns for it now.  Names and values in the model convert *)
(* one way only, so Lookup(n) has one element.                            *)
(***************************************************************************)
EnvView == [n \in Names |-> CHOOSE r \in Lookup(n) : TRUE]

JE == INSTANCE JavaEnv WITH env <- EnvView, Unset <- NullResult, AsResult <- StringResult

(***************************************************************************)
(* C4.setenv and C4.getenv implement a map from Java strings to Java      *)
(* strings: under the mapping EnvView, every setenv is JavaEnv's Set      *)
(* (overwrite 0 keeps an existing value) and every getenv returns what    *)
(* the last effective setenv of that name stored, or null.  This covers   *)
(* the conversions both ways, setenv's overwrite test and names that      *)
(* collide once converted.                                                *)
(***************************************************************************)
EnvRefinesJavaEnv == JE!Spec
=============================================================================
