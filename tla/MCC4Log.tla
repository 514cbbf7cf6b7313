------------------------------- MODULE MCC4Log -------------------------------
(***************************************************************************)
(* The logging bridge with two Java threads, so that two setCallbackLevel *)
(* calls can race, and one LiteCore thread.                                *)
(***************************************************************************)
EXTENDS C4Log

\* The name of the one domain: "DB".
MCDomainNames == [d \in Domains |-> <<68, 66>>]

\* Log messages LiteCore formats: ASCII, and a byte that is never UTF-8.
MCLogTexts == {<<65>>, <<255>>}
\* Java messages: ASCII, and a lone high surrogate.
MCJavaTexts == {<<65>>, <<55357>>}
\* The message of a data-carrying error: ASCII, or a cut-off UTF-8 sequence.
MCErrorTexts == {<<65>>, <<195>>}
=============================================================================
