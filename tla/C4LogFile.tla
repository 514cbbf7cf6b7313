------------------------------ MODULE C4LogFile ------------------------------
(***************************************************************************)
(* The binary log file natives of native_c4.cc: setBinaryFileLevel and     *)
(* writeToBinaryFile.  Each runs on the calling Java thread, converts its  *)
(* strings with the glue helpers and makes one call into LiteCore, which   *)
(* holds its own lock, so each is one action.  LiteCore is the             *)
(* environment: c4log_writeToBinaryFile accepts the options (and then logs *)
(* to that path at that level) or fails with an error code.               *)
(* Per Java thread, "last" records what the thread's latest call asked     *)
(* for, what LiteCore answered and which exception Java then saw.          *)
(***************************************************************************)
EXTENDS Integers, Sequences

CONSTANTS
  JavaThreads,
  Levels,          \* C4LogLevel values used
  Paths,           \* UTF-16 units of directory paths Java passes
  Headers,         \* UTF-16 units of header texts Java passes
  FileCodes,       \* codes c4log_writeToBinaryFile can fail with
  ErrorTexts, DataCodes, MemoryFailures, MaxNesting

VARIABLES
  binaryLevel,     \* LiteCore's binary file level
  logPath,         \* the directory LiteCore writes binary logs to: {} or {bytes}
  last             \* last[t]: t's latest writeToBinaryFile, or NoCall

G == INSTANCE NativeGlue WITH Threads <- JavaThreads,
                              attached <- [t \in JavaThreads |-> TRUE],
                              pending <- [t \in JavaThreads |-> "none"]

ASSUME FileCodes \subseteq G!LiteCoreCodes

vars == <<binaryLevel, logPath, last>>

NoCall == [path |-> <<>>, accepted |-> TRUE, code |-> G!None, exc |-> G!None]
Calls  == [path : Paths, accepted : BOOLEAN, code : {G!None} \cup FileCodes,
           exc : G!Exceptions]

(***************************************************************************)
(* What Java_..._C4Log_writeToBinaryFile leaves pending after its two       *)
(* jstringSlice conversions: the path's conversion may leave               *)
(* OutOfMemoryError pending, and the header is then converted with it      *)
(* still pending (which keeps it).                                         *)
(***************************************************************************)
Converted(path, header) ==
  { [path |-> p.val, exc |-> IF p.exc # G!None THEN p.exc ELSE h.exc]
    : p \in G!JstringSlice(path), h \in G!JstringSlice(header) }

(***************************************************************************)
(* Java_..._C4Log_writeToBinaryFile(path, level, rotations, size, plain,   *)
(* header): the options hold the converted path and header; if LiteCore  *)
(* rejects them, throwError with its error.  The call returns to Java     *)
(* with whatever exception is then pending.  s is the converted options.  *)
(***************************************************************************)
\* c4log_writeToBinaryFile accepts: LiteCore now logs to s.path at level l.
Accepted(t, path, s, l) ==
  /\ binaryLevel' = l /\ logPath' = {s.path}
  /\ last' = [last EXCEPT ![t] = [path |-> path, accepted |-> TRUE, code |-> G!None, exc |-> s.exc]]

Rejected(t, path, s, c) ==
  /\ \E o \in G!ThrowError(s.exc, c) :
       last' = [last EXCEPT ![t] = [path |-> path, accepted |-> FALSE, code |-> c, exc |-> o.exc]]
  /\ UNCHANGED <<binaryLevel, logPath>>

WriteToBinaryFile(t, path, header, l) ==
  \E s \in Converted(path, header) :
    \/ Accepted(t, path, s, l)
    \/ \E c \in FileCodes : Rejected(t, path, s, c)

\* Java_..._C4Log_setBinaryFileLevel: c4log_setBinaryFileLevel(level).
SetBinaryFileLevel(t, l) ==
  /\ binaryLevel' = l
  /\ UNCHANGED <<logPath, last>>

Init ==
  /\ binaryLevel \in Levels
  /\ logPath = {}
  /\ last = [t \in JavaThreads |-> NoCall]

Next ==
  \E t \in JavaThreads, l \in Levels :
    \/ SetBinaryFileLevel(t, l)
    \/ \E p \in Paths, h \in Headers : WriteToBinaryFile(t, p, h, l)

Spec == Init /\ [][Next]_vars
-----------------------------------------------------------------------------
=============================================================================
