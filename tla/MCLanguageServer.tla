-------------------------- MODULE MCLanguageServer --------------------------
(***************************************************************************)
(* Three interpreters for TLC: one has no data, and another cannot be told *)
(* apart from it by its hash, as the times of its executable are unknown.  *)
(***************************************************************************)
EXTENDS LanguageServer

Named == {"python", "venv", "script"}
Script == {"script"}
Times == [i \in Named |-> IF i = "python" THEN "times" ELSE ""]
=============================================================================
