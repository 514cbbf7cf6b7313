--------------------------- MODULE MCConversions ---------------------------
(***************************************************************************)
(* Checks the natives that are pure functions over every small input,    *)
(* one input per initial state of a spec that never changes state:        *)
(* getBuildInfo and getVersion (C4Info) on LiteCore texts of up to four   *)
(* bytes, and the key natives of KeyDerivation on passwords of up to two  *)
(* UTF-16 units and key arrays of up to KeySize + 1 bytes.                *)
(***************************************************************************)
EXTENDS KeyDerivation, SequencesExt, FiniteSets

\* The LiteCore texts: the UTF-8 of A, e-acute and U+1F600, and FF (never
\* valid), up to four bytes, which includes every sequence cut off at the end.
TextBytes == {65, 195, 169, 240, 159, 152, 128, 255}
MaxTextBytes == 4
TextInputs == [kind : {"bytes"}, s : SeqOf(TextBytes, MaxTextBytes)]

VARIABLE input     \* the input the properties are checked on

\* "A", e-acute, U+0000, and the two halves of U+1F600.
MCUnits == {65, 233, 0, 55357, 56832}
MCAsciiUnits == {65, 66}
KeyByteValues == {0, 1, 2, 255}
Algorithms == {NoAlgorithm, "AES256"}

CONSTANT PasswordUnits

\* getBuildInfo and getVersion with every JNI and C++ allocation allowed to fail.
I == INSTANCE C4Info WITH MemoryFailures <- TRUE

KeyInputs ==
  [kind : {"password"}, s : {Ref(x) : x \in SeqOf(PasswordUnits, 2)} \cup {NullRef}]
  \cup [kind : {"key"}, alg : Algorithms,
        s : {Ref(x) : x \in SeqOf(KeyByteValues, KeySize + 1)} \cup {NullRef}]

Init == input \in TextInputs \cup KeyInputs
Next == UNCHANGED input
Spec == Init /\ [][Next]_input

(***************************************************************************)
(* getEncryptionKey takes a key for an encrypting algorithm exactly when   *)
(* Java passes 1 to KeySize bytes, and the C key is then those bytes       *)
(* followed by zeros up to KeySize; any other array, null included, is     *)
(* refused with a Crypto LiteCoreException and never read past its end.    *)
(***************************************************************************)
EncryptionKeyTaken ==
  input.kind = "key" /\ input.alg # NoAlgorithm =>
    \A r \in GetEncryptionKey(input.alg, input.s) :
      LET k == input.s.s
          fits == ~input.s.null /\ Len(k) \in 1..KeySize
      IN  /\ r.ok = fits
          /\ fits => /\ Len(r.key) = KeySize
                     /\ SubSeq(r.key, 1, Len(k)) = k
                     /\ \A i \in (Len(k) + 1)..KeySize : r.key[i] = 0
          /\ ~fits => r.exc = "Crypto"

(***************************************************************************)
(* The comment in C4Key.pbkdf2 cites RFC 2898, whose PBKDF2 takes the      *)
(* password as an octet string: pbkdf2 hashes the same bytes for a         *)
(* password as deriveKeyFromPassword hands LiteCore, its UTF-8.            *)
(***************************************************************************)
SamePasswordBytes ==
  input.kind = "password" =>
    \A d \in DeriveKeyFromPassword(input.s, "AES256") :
      Pbkdf2(input.s, Ref(<<1>>), 1, KeySize).pw = d.pw

(***************************************************************************)
(* The JNI rules (no call but exception handling and releases while an     *)
(* exception is pending; no array function on a NULL array), which the     *)
(* glue's own toJByteArray keeps by testing NewByteArray's result: pbkdf2  *)
(* and deriveKeyFromPassword never call JNI with an exception pending and  *)
(* never hand a NULL array or password buffer on.                         *)
(***************************************************************************)
KeyNativesCallJniSafely ==
  input.kind = "password" =>
    \A o \in Pbkdf2Calls(input.s, Ref(<<1>>), KeySize) \cup DeriveKeyCalls(input.s, "AES256") :
      o.bad = {} /\ o.inval = {}
(***************************************************************************)
(* The JNI contract of a native returning a String, for C4.getBuildInfo   *)
(* and C4.getVersion over every LiteCore text of the inputs, with every   *)
(* allocation allowed to fail: Java gets null exactly when an exception   *)
(* is pending (CorruptData for a text from_bytes rejects, MemoryError     *)
(* from a failed conversion, OutOfMemoryError from NewString, or whatever *)
(* a failing throwError leaves) and a string exactly when none is.        *)
(***************************************************************************)
InfoStringsReported ==
  input.kind = "bytes" =>
    \A r \in I!GetBuildInfo(Ref(input.s)) \cup I!GetVersion(Ref(input.s)) :
      r.val.null <=> r.exc # I!G!None
=============================================================================
