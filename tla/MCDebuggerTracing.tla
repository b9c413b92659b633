-------------------------- MODULE MCDebuggerTracing --------------------------
(***************************************************************************)
(* Two files of two lines, a library, and two breakpoints on one line.     *)
(***************************************************************************)
EXTENDS DebuggerTracing

\* Both are on the first line of the module that is imported.
OneLine == [b \in Breakpoints |-> <<"module", 1>>]
=============================================================================
