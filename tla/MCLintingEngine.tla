-------------------------- MODULE MCLintingEngine --------------------------
(* The instances of LintingEngine that TLC checks.                         *)
EXTENDS LintingEngine

CONSTANTS d1, d2, p1, p2
=============================================================================
