-------------------------- MODULE MCPythonProcess --------------------------
(* PythonProcess with a few evaluations and expansions.                    *)
EXTENDS PythonProcess, TLC

CONSTANTS x1, x2, e1, e2
=============================================================================
