--------------------------- MODULE MCDebugSession ---------------------------
(* DebugSession with a few files, lines and requests.                      *)
EXTENDS DebugSession, TLC

CONSTANTS f1, f2
=============================================================================
