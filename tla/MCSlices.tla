------------------------------- MODULE MCSlices -------------------------------
EXTENDS Slices

CONSTANTS a0, a1   \* an empty byte[] and one of two bytes

MCArrays == {a0, a1}
MCArrayLength == [a \in MCArrays |-> IF a = a0 THEN 0 ELSE 2]
\* "A", whose UTF-8 fits in the object, and "AB", which does not (SsoCapacity = 1).
MCStrings == {<<65>>, <<65, 66>>}
\* Only strings long enough to live on the heap.
MCLongStrings == {<<65, 66>>}
=============================================================================
