-------------------------------- MODULE Utf --------------------------------
(***************************************************************************)
(* The two string conversions of native_glue.cc.  UTF8ToJstring turns the *)
(* UTF-8 bytes LiteCore hands over into the UTF-16 code units of a Java    *)
(* String with                                                              *)
(*     wstring_convert<codecvt_utf8_utf16<char16_t>>().from_bytes(...)     *)
(* and JstringToUTF8 goes back with .to_bytes(...).  Both are modelled by  *)
(* what the codecvt facet does, byte by byte (the libstdc++ algorithm, the *)
(* one a non-MSVC build links), and by what wstring_convert then does with *)
(* the facet's ok / partial / error result.                                *)
(*                                                                         *)
(* Where libc++ (the Android NDK) is known to differ from libstdc++, at a *)
(* sequence cut off by the end of the input, the operator returns both     *)
(* outcomes: a result is Ok(units) or Fail (wstring_convert threw          *)
(* std::range_error).  libc++'s other differences (it rejects encoded      *)
(* surrogates, ED A0..BF) are not modelled.                                *)
(***************************************************************************)
EXTENDS Integers, Sequences

Ok(s) == [ok |-> TRUE, val |-> s]
Fail  == [ok |-> FALSE, val |-> <<>>]

\* Results of read_utf8_code_point that are not code points.
Invalid    == -1
Incomplete == -2

MaxCode     == 1114111          \* 0x10FFFF, max_code_point
IsCont(b)   == b \div 64 = 2    \* (b & 0xC0) == 0x80
IsHigh(u)   == u \in 55296..56319  \* 0xD800..0xDBFF
IsLow(u)    == u \in 56320..57343  \* 0xDC00..0xDFFF

(***************************************************************************)
(* read_utf8_code_point.  The lead byte fixes the length of the sequence  *)
(* (0: the byte cannot start one); each byte that is there is checked in  *)
(* order, the second one also against overlong forms and code points past *)
(* U+10FFFF; a sequence cut short by the end of input is Incomplete.      *)
(***************************************************************************)
SeqLen(c1) ==
  CASE c1 < 128 -> 1 [] c1 < 194 -> 0 [] c1 < 224 -> 2
    [] c1 < 240 -> 3 [] c1 < 245 -> 4 [] OTHER -> 0

ByteOk(c1, k, c) ==
  /\ IsCont(c)
  /\ k = 2 => /\ ~(c1 = 224 /\ c < 160)     \* E0 overlong
              /\ ~(c1 = 240 /\ c < 144)     \* F0 overlong
              /\ ~(c1 = 244 /\ c >= 144)    \* F4 beyond U+10FFFF

\* The subtracted constants 0x3080, 0xE2080 and 0x3C82080 of the facet.
LeadOffset == <<0, 12416, 925824, 63447168>>

ReadUtf8(b, i) ==
  LET n     == SeqLen(b[i])
      avail == Len(b) - i + 1
      have  == IF n < avail THEN n ELSE avail
      c     == LET RECURSIVE Acc(_)
                   Acc(k) == IF k = 0 THEN 0 ELSE Acc(k - 1) * 64 + b[i + k - 1]
               IN  Acc(n) - LeadOffset[n]
  IN  IF n = 0 \/ \E k \in 2..have : ~ByteOk(b[i], k, b[i + k - 1])
        THEN Invalid
      ELSE IF avail < n THEN Incomplete
      ELSE IF c > MaxCode THEN Invalid
      ELSE c

\* write_utf16_code_point: one unit, or a surrogate pair (LEAD_OFFSET = 0xD7C0).
WriteUtf16(c) ==
  IF c <= 65535 THEN <<c>> ELSE <<55232 + c \div 1024, 56320 + (c % 1024)>>

(***************************************************************************)
(* utf16_in: decode from position i on, appending to out; the facet      *)
(* result is "ok", "partial" (input ends inside a sequence) or "error".   *)
(***************************************************************************)
RECURSIVE Utf16In(_, _, _)
Utf16In(b, i, out) ==
  IF i > Len(b) THEN [res |-> "ok", out |-> out]
  ELSE LET c == ReadUtf8(b, i)
       IN  IF c = Incomplete THEN [res |-> "partial", out |-> out]
           ELSE IF c = Invalid THEN [res |-> "error", out |-> out]
           ELSE Utf16In(b, i + SeqLen(b[i]), out \o WriteUtf16(c))

(***************************************************************************)
(* wstring_convert::from_bytes.  An error throws.  A partial result (the  *)
(* bytes end inside a sequence) throws under libc++, and under libstdc++  *)
(* returns what was converted before the cut.                              *)
(***************************************************************************)
FromBytes(b) ==
  LET r == Utf16In(b, 1, <<>>)
  IN  CASE r.res = "ok"      -> {Ok(r.out)}
        [] r.res = "error"   -> {Fail}
        [] r.res = "partial" -> {Fail, Ok(r.out)}

\* write_utf8_code_point.
WriteUtf8(c) ==
  CASE c < 128   -> <<c>>
    [] c < 2048  -> <<192 + c \div 64, 128 + (c % 64)>>
    [] c < 65536 -> <<224 + c \div 4096, 128 + ((c \div 64) % 64), 128 + (c % 64)>>
    [] OTHER     -> <<240 + c \div 262144, 128 + ((c \div 4096) % 64),
                      128 + ((c \div 64) % 64), 128 + (c % 64)>>

(***************************************************************************)
(* utf16_out: encode units from position i on.  A low surrogate with no   *)
(* high one before it, or a high one followed by anything but a low one,  *)
(* is an error; a high surrogate as the very last unit stops the           *)
(* conversion ("stop": libstdc++ reports ok, libc++ partial).              *)
(***************************************************************************)
RECURSIVE Utf16Out(_, _, _)
Utf16Out(u, i, out) ==
  IF i > Len(u) THEN [res |-> "ok", out |-> out]
  ELSE IF IsHigh(u[i]) /\ i = Len(u) THEN [res |-> "stop", out |-> out]
  ELSE IF IsLow(u[i]) \/ (IsHigh(u[i]) /\ ~IsLow(u[i + 1]))
    THEN [res |-> "error", out |-> out]
  ELSE IF IsHigh(u[i])
    THEN Utf16Out(u, i + 2,
                  out \o WriteUtf8(65536 + (u[i] - 55296) * 1024 + (u[i + 1] - 56320)))
  ELSE Utf16Out(u, i + 1, out \o WriteUtf8(u[i]))

\* wstring_convert::to_bytes.
ToBytes(u) ==
  LET r == Utf16Out(u, 1, <<>>)
  IN  CASE r.res = "ok"    -> {Ok(r.out)}
        [] r.res = "error" -> {Fail}
        [] r.res = "stop"  -> {Fail, Ok(r.out)}
=============================================================================
