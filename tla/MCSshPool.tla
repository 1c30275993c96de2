------------------------------ MODULE MCSshPool ------------------------------
(* A process with two workers that reuses sessions, and one that does not. *)
EXTENDS SshPool

CONSTANTS A, B, a1, a2, b1

MCProcOf == [w \in Workers |-> IF w = b1 THEN B ELSE A]
MCMax == [p \in Procs |-> IF p = A THEN Cardinality(Tokens) ELSE 1]
=============================================================================
