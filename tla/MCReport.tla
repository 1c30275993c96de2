------------------------------ MODULE MCReport ------------------------------
EXTENDS Report

(* One case alone, and one registered with a case of its own for a role. *)
MCCaseOf == <<{"a"}, {"a", "b"}>>
MCRole   == <<"", "readonly">>
=============================================================================
