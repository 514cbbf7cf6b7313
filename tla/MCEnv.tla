-------------------------------- MODULE MCEnv --------------------------------
EXTENDS Env

\* Names "A" and "B"; "A" followed by a lone high surrogate.
MCNames == {<<65>>, <<66>>}
MCSurrogateNames == MCNames \cup {<<65, 55357>>}
\* Values "x" and e-acute; U+1F600 as a surrogate pair.
MCValues == {<<120>>, <<233>>}
MCSupplementaryValues == MCValues \cup {<<55357, 56832>>}
=============================================================================
