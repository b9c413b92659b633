------------------------ MODULE MCTerminalExecution ------------------------
(***************************************************************************)
(* Files and selections for TLC.                                           *)
(***************************************************************************)
EXTENDS TerminalExecution

CONSTANTS f, s1, s2, t1, t2, user
=============================================================================
