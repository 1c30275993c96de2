----------------------------- MODULE MCTempGraph -----------------------------
(* A root template that refers to one other profile. *)
EXTENDS TempGraph

MCDeps == <<{}, {1}>>
=============================================================================
