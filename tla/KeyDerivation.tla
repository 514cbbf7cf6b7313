---------------------------- MODULE KeyDerivation ----------------------------
(***************************************************************************)
(* The key natives: C4Key.pbkdf2 and C4Key.deriveKeyFromPassword          *)
(* (native_c4.cc), and getEncryptionKey (native_glue.cc), which turns the  *)
(* key bytes Java passes into a C4EncryptionKey.  All three are pure       *)
(* functions of their arguments, modelled as operators returning what the  *)
(* call produces.  PBKDF2 itself (mbedtls) and c4key_setPassword           *)
(* (LiteCore) are not modelled: an outcome records the inputs they are     *)
(* given, which determine the key.                                          *)
(***************************************************************************)
EXTENDS Integers, Sequences

CONSTANTS
  KeySize,         \* sizeof(C4EncryptionKey.bytes)
  MemoryFailures   \* whether JNI and C++ allocations may fail

\* A Java reference argument: null, or a string or array with contents s.
NullRef == [null |-> TRUE, s |-> <<>>]
Ref(x) == [null |-> FALSE, s |-> x]
NoAlgorithm == "None"       \* kC4EncryptionNone

S == INSTANCE SequencesExt
G == INSTANCE NativeGlue WITH Threads <- {}, ErrorTexts <- {}, DataCodes <- {},
                              MaxNesting <- 0,
                              attached <- <<>>, pending <- <<>>

(***************************************************************************)
(* GetStringUTFChars: the Modified UTF-8 of a Java string, each UTF-16     *)
(* unit encoded on its own (a surrogate is three bytes, U+0000 two).       *)
(***************************************************************************)
ModifiedUtf8Unit(u) ==
  CASE u = 0      -> <<192, 128>>
    [] u < 128    -> <<u>>
    [] u < 2048   -> <<192 + u \div 64, 128 + (u % 64)>>
    [] OTHER      -> <<224 + u \div 4096, 128 + ((u \div 64) % 64), 128 + (u % 64)>>
ModifiedUtf8(s) == S!FlattenSeq([i \in DOMAIN s |-> ModifiedUtf8Unit(s[i])])

NoKey == [kind |-> "null", pw |-> <<>>, salt |-> <<>>, iter |-> 0, len |-> 0]

(***************************************************************************)
(* Java_..._C4Key_pbkdf2(password, salt, iteration, keyLen): NULL for a    *)
(* null password or salt; the password bytes are GetStringUTFChars, their  *)
(* count GetStringLength (UTF-16 units); the salt is copied whole;         *)
(* mbedtls_pkcs5_pbkdf2_hmac (SHA-1) derives keyLen bytes, returned in a   *)
(* new byte array.  A negative keyLen makes new[] throw, and the C++       *)
(* exception escaping the JNI function aborts the process.                 *)
(***************************************************************************)
Pbkdf2(password, salt, iteration, keyLen) ==
  CASE password.null \/ salt.null -> NoKey
    [] keyLen < 0 -> [NoKey EXCEPT !.kind = "abort"]
    [] OTHER -> [kind |-> "key",
                 pw |-> SubSeq(ModifiedUtf8(password.s), 1, Len(password.s)),
                 salt |-> salt.s, iter |-> iteration, len |-> keyLen]

(***************************************************************************)
(* Java_..._C4Key_deriveKeyFromPassword(password, algorithm): the password *)
(* through jstringSlice (JstringToUTF8: real UTF-8, "" when it cannot be   *)
(* converted, a null slice for a null string) and c4key_setPassword, which *)
(* refuses kC4EncryptionNone.  The set of possible results.                *)
(***************************************************************************)
DeriveKeyFromPassword(password, algorithm) ==
  IF algorithm = NoAlgorithm THEN {NoKey}
  ELSE IF password.null THEN {[NoKey EXCEPT !.kind = "key"]}
  ELSE {[NoKey EXCEPT !.kind = "key", !.pw = r.val] : r \in G!JstringSlice(password.s)}

(***************************************************************************)
(* The JNI calls the key natives make themselves, as outcomes             *)
(* [exc, val, bad, inval] in the manner of NativeGlue: the exception       *)
(* pending at the end, the result, the calls made with an exception        *)
(* pending, and the calls handed a NULL array or buffer.  "abort" is a C++ *)
(* exception (bad_alloc) escaping the JNI function.                       *)
(***************************************************************************)
NoCalls == [exc |-> G!None, val |-> G!Null, bad |-> {}, inval |-> {}]

(***************************************************************************)
(* NewByteArray(keyLen) and SetByteArrayRegion(result, ...), entered with  *)
(* exception e pending.  NewByteArray returns NULL with OutOfMemoryError  *)
(* pending when it cannot allocate; the result is written without a test. *)
(***************************************************************************)
ReturnKeyArray(e) ==
  { [exc |-> IF oom /\ e = G!None THEN G!OOM ELSE e,
     val |-> IF oom THEN G!Null ELSE "array",
     bad |-> G!Misuse(e, "NewByteArray")
             \cup G!Misuse(IF oom THEN G!OOM ELSE e, "SetByteArrayRegion"),
     inval |-> IF oom THEN {"SetByteArrayRegion"} ELSE {}]
    : oom \in G!AllocFails }

(***************************************************************************)
(* C4Key.pbkdf2: GetStringUTFChars (NULL with OutOfMemoryError pending     *)
(* when it cannot allocate, and not tested), GetStringLength,              *)
(* GetArrayLength, new[] for the salt, GetByteArrayRegion, new[] for the   *)
(* key, then mbedtls_md_setup (which fails when mbedtls cannot allocate:   *)
(* NULL is returned with nothing thrown) and the hash, which reads the     *)
(* password through the pointer GetStringUTFChars returned.  SHA-1 is      *)
(* compiled in, so mbedtls_md_info_from_type never gives NULL.             *)
(***************************************************************************)
Pbkdf2Calls(password, salt, keyLen) ==
  IF password.null \/ salt.null THEN {NoCalls}
  ELSE UNION {
    LET e == IF noChars THEN G!OOM ELSE G!None
        upTo(fs, v) == [exc |-> e, val |-> v, bad |-> UNION {G!Misuse(e, f) : f \in fs},
                        inval |-> {}]
        read == {"GetStringLength", "GetArrayLength", "GetByteArrayRegion"}
        hashed == IF noChars /\ password.s # <<>> THEN {"mbedtls_pkcs5_pbkdf2_hmac"} ELSE {}
    IN  CASE saltFails              -> {upTo({"GetStringLength", "GetArrayLength"}, "abort")}
          [] keyFails \/ keyLen < 0 -> {upTo(read, "abort")}
          [] setupFails             -> {upTo(read, G!Null)}
          [] OTHER -> {[r EXCEPT !.bad = upTo(read, G!Null).bad \cup @, !.inval = hashed \cup @]
                       : r \in ReturnKeyArray(e)}
    : noChars \in G!AllocFails, saltFails \in G!AllocFails,
      keyFails \in G!AllocFails, setupFails \in G!AllocFails }

(***************************************************************************)
(* C4Key.deriveKeyFromPassword: jstringSlice (which may leave an exception *)
(* pending: see JstringToUtf8), c4key_setPassword (no JNI; it refuses      *)
(* kC4EncryptionNone, and NULL is returned), then the key array.  Only the *)
(* native's own calls are recorded; jstringSlice's are NativeGlue's.       *)
(***************************************************************************)
DeriveKeyCalls(password, algorithm) ==
  LET pending == IF password.null THEN {G!None} ELSE {o.exc : o \in G!JstringSlice(password.s)}
  IN  IF algorithm = NoAlgorithm THEN {[NoCalls EXCEPT !.exc = e] : e \in pending}
      ELSE UNION {ReturnKeyArray(e) : e \in pending}

(***************************************************************************)
(* jbyteArraySlice(env, jbytes), not critical, as getEncryptionKey makes   *)
(* it: the null slice for a null or empty array; otherwise the elements,   *)
(* or {NULL, length} when GetByteArrayElements cannot provide them, with   *)
(* or without OutOfMemoryError pending (JVMs differ).  Outcomes [slice, exc]. *)
(***************************************************************************)
JbyteArraySlice(bytes) ==
  IF bytes.null \/ bytes.s = <<>> THEN {[slice |-> NullRef, exc |-> G!None]}
  ELSE {[slice |-> bytes, exc |-> G!None]}
       \cup {[slice |-> [null |-> TRUE, s |-> bytes.s], exc |-> e]
             : e \in IF MemoryFailures THEN {G!None, G!OOM} ELSE {}}

(***************************************************************************)
(* getEncryptionKey(keyAlg, jKeyBytes, outKey): for an encrypting          *)
(* algorithm, the bytes through jbyteArraySlice; a NULL buffer or more     *)
(* than KeySize bytes is refused with throwError(Crypto) and false;        *)
(* otherwise the key is zeroed and the bytes copied to its start.  For     *)
(* kC4EncryptionNone nothing is read.  The set of possible results.       *)
(***************************************************************************)
\* Mutant: the size test off by one (>= for >).
GetEncryptionKeyOffByOne(keyAlg, keyBytes) ==
  IF keyAlg = NoAlgorithm THEN {[ok |-> TRUE, exc |-> G!None, key |-> <<>>]}
  ELSE UNION {
    IF r.slice.null \/ Len(keyBytes.s) >= KeySize
      THEN {[ok |-> FALSE, exc |-> o.exc, key |-> <<>>] : o \in G!ThrowError(r.exc, "Crypto")}
      ELSE {[ok |-> TRUE, exc |-> G!None,
             key |-> keyBytes.s \o [i \in 1..(KeySize - Len(keyBytes.s)) |-> 0]]}
    : r \in JbyteArraySlice(keyBytes) }

GetEncryptionKey(keyAlg, keyBytes) ==
  IF keyAlg = NoAlgorithm THEN {[ok |-> TRUE, exc |-> G!None, key |-> <<>>]}
  ELSE UNION {
    IF r.slice.null \/ Len(keyBytes.s) > KeySize
      THEN {[ok |-> FALSE, exc |-> o.exc, key |-> <<>>] : o \in G!ThrowError(r.exc, "Crypto")}
      ELSE {[ok |-> TRUE, exc |-> G!None,
             key |-> keyBytes.s \o [i \in 1..(KeySize - Len(keyBytes.s)) |-> 0]]}
    : r \in JbyteArraySlice(keyBytes) }
=============================================================================
