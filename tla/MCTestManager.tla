--------------------------- MODULE MCTestManager ---------------------------
(* The instances of TestManager that TLC checks.                           *)
EXTENDS TestManager

CONSTANTS d1, d2, d3, r1, r2
=============================================================================
