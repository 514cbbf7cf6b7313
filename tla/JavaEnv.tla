-------------------------------- MODULE JavaEnv --------------------------------
(***************************************************************************)
(* What a Java caller of C4.setenv and C4.getenv relies on: the process    *)
(* environment as a map from Java names to Java strings.  setenv with      *)
(* overwrite 0 keeps a value already set; getenv returns the value, or     *)
(* null for a name never set.  Env is shown to implement this spec.        *)
(***************************************************************************)
CONSTANTS
  JavaThreads,
  Names,           \* Java strings used as variable names
  Values,          \* Java strings used as values
  Unset,           \* what getenv returns for a name with no value (null)
  AsResult(_)      \* what getenv returns for a name whose value is v

VARIABLES
  env,             \* env[n]: Unset, or AsResult(v) for the value v set last
  got,             \* got[t]: t's latest getenv, [name, ret]
  setArgs          \* the arguments of the latest setenv, [name, value, overwrite]

vars == <<env, got, setArgs>>

NoSet == [name |-> <<>>, value |-> <<>>, overwrite |-> 0]

Init ==
  /\ env = [n \in Names |-> Unset]
  /\ got \in [JavaThreads -> {[name |-> <<>>, ret |-> Unset]}]
  /\ setArgs = NoSet

Set(n, v, overwrite) ==
  /\ env' = IF overwrite = 0 /\ env[n] # Unset THEN env ELSE [env EXCEPT ![n] = AsResult(v)]
  /\ setArgs' = [name |-> n, value |-> v, overwrite |-> overwrite]
  /\ UNCHANGED got

Get(t, n) ==
  /\ got' = [got EXCEPT ![t] = [name |-> n, ret |-> env[n]]]
  /\ UNCHANGED <<env, setArgs>>

Next ==
  \E t \in JavaThreads, n \in Names :
    \/ \E v \in Values, overwrite \in {0, 1} : Set(n, v, overwrite)
    \/ Get(t, n)

Spec == Init /\ [][Next]_vars
=============================================================================
