-------------------------- MODULE MCDebuggerThreads --------------------------
(***************************************************************************)
(* Two threads for TLC.                                                    *)
(***************************************************************************)
EXTENDS DebuggerThreads

CONSTANTS m, u, e1, e2

\* The second stop may be one of every kind.
TwoStops == <<{"breakpoint"}, {"breakpoint", "zombie", "exception"}>>
=============================================================================
