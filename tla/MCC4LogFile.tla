---------------------------- MODULE MCC4LogFile ----------------------------
EXTENDS C4LogFile

\* The paths "A" and U+1F600 (a surrogate pair), and "A" followed by a lone
\* high surrogate, which a Java String may hold.
MCPaths == {<<65>>, <<55357, 56832>>, <<65, 55357>>}
MCHeaders == {<<65>>}
\* c4error_getMessage text: ASCII, or bytes that are not valid UTF-8.
MCErrorTexts == {<<65>>, <<195>>}
=============================================================================
