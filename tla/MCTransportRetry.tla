-------------------------- MODULE MCTransportRetry --------------------------
(* TransportRetry with two retries, the second wait longer than the first. *)
EXTENDS TransportRetry

MCDelays == <<1, 2>>
=============================================================================
