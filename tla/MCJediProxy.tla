---------------------------- MODULE MCJediProxy ----------------------------
(***************************************************************************)
(* Instances of JediProxy for TLC.                                         *)
(***************************************************************************)
EXTENDS JediProxy

OneKind == {"completions"}
TwoKinds == {"completions", "hover"}

\* Each fault is in one of the two runs: the end of the extension in the one of
\* the queue, those of the Python process in the one that follows requests to
\* their end.
QueueFaults == {"dispose"}
SpawnFaults == {"badPath", "spawnError", "crash", "noAnswer"}
NoFaults == {}
=============================================================================
