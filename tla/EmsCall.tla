------------------------------ MODULE EmsCall ------------------------------
(***************************************************************************)
(* What one HTTP call to the EMS promises its caller, whatever the         *)
(* transport does (docs/adr/0002, clients/ems_api_client.py:181-200): the  *)
(* EMS sees a mutating request at most once and a read at most MaxSeen     *)
(* times, only a request the EMS has seen is answered, and the caller gets *)
(* an answer or an exception.  This is the call that module SessionCache   *)
(* takes as one step, and that module TransportRetry implements.           *)
(***************************************************************************)
EXTENDS Naturals

CONSTANTS Threads, MaxSeen

Methods == {"GET", "MUT"}   \* GET stands for GET and HEAD, MUT for the others

VARIABLES
  phase,    \* is the thread's call under way?
  meth,     \* the method of its latest call
  seen,     \* how often the EMS has seen that call's request
  result    \* how the call ended

callVars == <<phase, meth, seen, result>>

Submit(t) ==
  /\ phase[t] = "idle"
  /\ phase' = [phase EXCEPT ![t] = "pending"]
  /\ \E m \in Methods : meth' = [meth EXCEPT ![t] = m]
  /\ seen' = [seen EXCEPT ![t] = 0]
  /\ result' = [result EXCEPT ![t] = "none"]

Deliver(t) ==
  /\ phase[t] = "pending"
  /\ seen[t] < IF meth[t] = "MUT" THEN 1 ELSE MaxSeen
  /\ seen' = [seen EXCEPT ![t] = @ + 1]
  /\ UNCHANGED <<phase, meth, result>>

Return(t) ==
  /\ phase[t] = "pending" /\ seen[t] > 0
  /\ phase' = [phase EXCEPT ![t] = "idle"]
  /\ result' = [result EXCEPT ![t] = "returned"]
  /\ UNCHANGED <<meth, seen>>

Raise(t) ==
  /\ phase[t] = "pending"
  /\ phase' = [phase EXCEPT ![t] = "idle"]
  /\ result' = [result EXCEPT ![t] = "raised"]
  /\ UNCHANGED <<meth, seen>>

Init ==
  /\ phase = [t \in Threads |-> "idle"]
  /\ meth = [t \in Threads |-> "GET"]
  /\ seen = [t \in Threads |-> 0]
  /\ result = [t \in Threads |-> "none"]

Next == \E t \in Threads : Submit(t) \/ Deliver(t) \/ Return(t) \/ Raise(t)

Spec == Init /\ [][Next]_callVars
=============================================================================
