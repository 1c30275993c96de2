--------------------------- MODULE TransportRetry ---------------------------
(***************************************************************************)
(* EmsApiClient._request_with_transport_retry and _pace                    *)
(* (clients/ems_api_client.py:181-263): one HTTP call is sent, resent      *)
(* after the transport errors that make this safe, and every start waits   *)
(* for a slot of the process-wide pacing.  Each transport error leaves a   *)
(* ConnectionEvent (utils/reporting.py) whose action and recovered flag    *)
(* the report header counts.                                               *)
(*                                                                         *)
(* Time is kept as saturating ages and remaining sleeps, so no clock has   *)
(* to be bounded: a tick passes for every thread at once.                  *)
(***************************************************************************)
EXTENDS Integers, Sequences

CONSTANTS
  Threads,    \* threads that share the pacing
  NoThread,   \* _PACING_LOCK's owner when it is free
  Delays,     \* retry_delays, in ticks
  Interval,   \* min_request_interval, in ticks (0: no pacing)
  MaxCalls    \* bound on the calls the threads make

Methods == {"GET", "MUT"}   \* GET stands for SAFE_TRANSPORT_RETRY_METHODS

ASSUME DelaysAssumption == Delays \in Seq(Nat) /\ Interval \in Nat
ASSUME BoundAssumption == MaxCalls \in Nat
ASSUME ThreadAssumption == NoThread \notin Threads

VARIABLES
  pc, meth,
  attempt,      \* the loop's counter
  events,       \* the ConnectionEvents of the call, in order
  result,       \* how the call ended
  left,         \* ticks left of the thread's sleep
  pacer,        \* the thread that holds _PACING_LOCK
  sinceStart,   \* ticks since _last_request_started, at most Interval
  \* history and bounds
  seen,         \* how often the EMS has seen the call's request
  slotAge,      \* ticks since the thread's own latest slot, at most Interval
  budget        \* calls still allowed

pacing == <<pacer, sinceStart, slotAge>>
vars == <<pc, meth, attempt, events, result, left, pacer, sinceStart, seen, slotAge, budget>>

MaxAttempts == Len(Delays) + 1

\* What requests.request raises.  The connect timeout leaves the EMS without
\* the request; the other ConnectionErrors and Timeouts (refused, reset,
\* dropped, read timeout) tell nothing; a body that breaks off is a
\* ChunkedEncodingError, which the handler does not catch.
Errors == {"connectTimeout", "dropped"}

Goto(t, label) == pc' = [pc EXCEPT ![t] = label]

Request(t) ==
  /\ pc[t] = "idle" /\ budget > 0
  /\ Goto(t, "pace")
  /\ \E m \in Methods : meth' = [meth EXCEPT ![t] = m]
  /\ attempt' = [attempt EXCEPT ![t] = 1]
  /\ events' = [events EXCEPT ![t] = <<>>]
  /\ result' = [result EXCEPT ![t] = "none"]
  /\ seen' = [seen EXCEPT ![t] = 0]
  /\ budget' = budget - 1
  /\ UNCHANGED <<left, pacing>>

\* _pace: the wait is computed and slept under the lock.
PaceUnlocked(t) ==                         \* mutant: the lock is not awaited
  /\ pc[t] = "pace"
  /\ Goto(t, "slot")
  /\ left' = [left EXCEPT ![t] = Interval - sinceStart]
  /\ UNCHANGED <<meth, attempt, events, result, pacing, seen, budget>>

Pace(t) ==
  /\ pc[t] = "pace"
  /\ IF Interval = 0
     THEN Goto(t, "start") /\ UNCHANGED <<left, pacer>>
     ELSE /\ pacer = NoThread /\ pacer' = t
          /\ left' = [left EXCEPT ![t] = Interval - sinceStart]
          /\ Goto(t, "slot")
  /\ UNCHANGED <<meth, attempt, events, result, sinceStart, seen, slotAge, budget>>

TakeSlotLocked(t) ==                       \* mutant: the lock is kept
  /\ pc[t] = "slot" /\ left[t] = 0
  /\ sinceStart' = 0
  /\ slotAge' = [slotAge EXCEPT ![t] = 0]
  /\ Goto(t, "start")
  /\ UNCHANGED <<meth, attempt, events, result, left, pacer, seen, budget>>

TakeSlot(t) ==
  /\ pc[t] = "slot" /\ left[t] = 0
  /\ sinceStart' = 0
  /\ slotAge' = [slotAge EXCEPT ![t] = 0]
  /\ pacer' = NoThread
  /\ Goto(t, "start")
  /\ UNCHANGED <<meth, attempt, events, result, left, seen, budget>>

\* requests.request is under way ...
Send(t) ==
  /\ pc[t] = "start"
  /\ Goto(t, "sent")
  /\ UNCHANGED <<meth, attempt, events, result, left, pacing, seen, budget>>

\* ... and reaches the EMS.
EmsSees(t) ==
  /\ pc[t] = "sent"
  /\ Goto(t, "seen")
  /\ seen' = [seen EXCEPT ![t] = @ + 1]
  /\ UNCHANGED <<meth, attempt, events, result, left, pacing, budget>>

\* The answer: every event of the call becomes a recovered one.
MarkRecoveredLast(s) ==                    \* mutant: only the last event
  IF s = <<>> THEN s ELSE [s EXCEPT ![Len(s)].recovered = TRUE]
MarkRecovered(s) == [i \in DOMAIN s |-> [s[i] EXCEPT !.recovered = TRUE]]

Answered(t) ==
  /\ pc[t] = "seen"
  /\ events' = [events EXCEPT ![t] = MarkRecovered(@)]
  /\ result' = [result EXCEPT ![t] = "returned"]
  /\ Goto(t, "idle")
  /\ UNCHANGED <<meth, attempt, left, pacing, seen, budget>>

\* retryable
SafeToResendAny(m, e) == m = "GET" \/ e \in Errors   \* mutant: any transport error
SafeToResend(m, e) == m = "GET" \/ e = "connectTimeout"

WillRetry(t, e) == SafeToResend(meth[t], e) /\ attempt[t] < MaxAttempts

Record(t, action) ==
  events' = [events EXCEPT ![t] = Append(@, [action |-> action, recovered |-> FALSE])]

CanRaise(t, e) ==
  \/ pc[t] = "sent" /\ e \in Errors
  \/ pc[t] = "seen" /\ e = "dropped"

ErrorRetried(t) ==
  /\ \E e \in Errors : CanRaise(t, e) /\ WillRetry(t, e)
  /\ Record(t, "retried")
  /\ left' = [left EXCEPT ![t] = Delays[attempt[t]]]
  /\ Goto(t, "backoff")
  /\ UNCHANGED <<meth, attempt, result, pacing, seen, budget>>

ErrorRaised(t) ==
  /\ \E e \in Errors : CanRaise(t, e) /\ ~WillRetry(t, e)
  /\ Record(t, "raised")
  /\ result' = [result EXCEPT ![t] = "raised"]
  /\ Goto(t, "idle")
  /\ UNCHANGED <<meth, attempt, left, pacing, seen, budget>>

BodyBreaksOff(t) ==
  /\ pc[t] = "seen"
  /\ result' = [result EXCEPT ![t] = "broken"]
  /\ Goto(t, "idle")
  /\ UNCHANGED <<meth, attempt, events, left, pacing, seen, budget>>

BackoffEnds(t) ==
  /\ pc[t] = "backoff" /\ left[t] = 0
  /\ attempt' = [attempt EXCEPT ![t] = @ + 1]
  /\ Goto(t, "pace")
  /\ UNCHANGED <<meth, events, result, left, pacing, seen, budget>>

OlderUncapped(age) == IF age <= Interval THEN age + 1 ELSE age   \* mutant: late cap
Older(age) == IF age < Interval THEN age + 1 ELSE age

Tick ==
  /\ sinceStart < Interval \/ \E t \in Threads : left[t] > 0
  /\ left' = [t \in Threads |-> IF left[t] > 0 THEN left[t] - 1 ELSE 0]
  /\ sinceStart' = Older(sinceStart)
  /\ slotAge' = [t \in Threads |-> Older(slotAge[t])]
  /\ UNCHANGED <<pc, meth, attempt, events, result, pacer, seen, budget>>

Init ==
  /\ pc = [t \in Threads |-> "idle"]
  /\ meth = [t \in Threads |-> "GET"]
  /\ attempt = [t \in Threads |-> 1]
  /\ events = [t \in Threads |-> <<>>]
  /\ result = [t \in Threads |-> "none"]
  /\ left = [t \in Threads |-> 0]
  /\ pacer = NoThread
  /\ sinceStart = Interval
  /\ seen = [t \in Threads |-> 0]
  /\ slotAge = [t \in Threads |-> Interval]
  /\ budget = MaxCalls

Step(t) ==
  \/ Pace(t) \/ TakeSlot(t) \/ Send(t) \/ EmsSees(t)
  \/ Answered(t) \/ ErrorRetried(t) \/ ErrorRaised(t) \/ BodyBreaksOff(t)
  \/ BackoffEnds(t)

Finished == budget = 0 /\ (\A t \in Threads : pc[t] = "idle") /\ UNCHANGED vars

Next ==
  \/ \E t \in Threads : Request(t) \/ Step(t)
  \/ Tick
  \/ Finished

Spec == Init /\ [][Next]_vars

\* Threads run, requests.request has a timeout, and time passes.
FairSpec == Spec /\ (\A t \in Threads : WF_vars(Step(t))) /\ WF_vars(Tick)

-----------------------------------------------------------------------------
(* Properties *)

Event == [action : {"retried", "raised"}, recovered : BOOLEAN]

\* Every variable has its type.
TypeOK ==
  /\ pc \in [Threads -> {"idle", "pace", "slot", "start", "sent", "seen", "backoff"}]
  /\ meth \in [Threads -> Methods]
  /\ attempt \in [Threads -> 1..MaxAttempts]
  /\ events \in [Threads -> Seq(Event)]
  /\ result \in [Threads -> {"none", "returned", "raised", "broken"}]
  /\ left \in [Threads -> Nat]
  /\ pacer \in Threads \cup {NoThread}
  /\ sinceStart \in 0..Interval
  /\ seen \in [Threads -> Nat]
  /\ slotAge \in [Threads -> 0..Interval]
  /\ budget \in Nat

\* The call keeps EmsCall's promise: however often it is resent, the EMS sees
\* a mutating request at most once (ADR 0002: "EMS may already have applied
\* it, so it is not resent"), and an answer is the answer to a request seen.
Call == INSTANCE EmsCall WITH
  phase <- [t \in Threads |-> IF pc[t] = "idle" THEN "idle" ELSE "pending"],
  result <- [t \in Threads |-> IF result[t] = "broken" THEN "raised" ELSE result[t]],
  MaxSeen <- MaxAttempts

ImplementsCall == Call!Spec

Actions(t) == {events[t][i].action : i \in DOMAIN events[t]}
Recovered(t) == {events[t][i].recovered : i \in DOMAIN events[t]}

\* The report header is right about every call (ADR 0002: every transport
\* error, recovered or not, is recorded): one event for each failed attempt,
\* all of them recovered exactly when the call returned, and "raised" exactly
\* on the last event of a call that a transport error ended.
LedgerTellsOutcome ==
  \A t \in Threads :
    LET n == Len(events[t]) IN
    /\ Recovered(t) \subseteq {result[t] = "returned"}
    /\ \A i \in 1..n : events[t][i].action = "raised" <=> result[t] = "raised" /\ i = n
    /\ n = IF result[t] = "raised" \/ pc[t] = "backoff" THEN attempt[t] ELSE attempt[t] - 1

\* Slots are Interval apart, whichever threads take them and whatever retries
\* they come from (ADR 0002: at least this many seconds, process-wide).
SlotsApart ==
  [][\A t \in Threads : (pc[t] = "slot" /\ pc'[t] = "start")
       => \A u \in Threads : slotAge[u] = Interval]_vars

\* Every call ends, even when every attempt fails.
CallsEnd == \A t \in Threads : pc[t] # "idle" ~> pc[t] = "idle"

-----------------------------------------------------------------------------
(* The inductive invariant of the proofs *)

\* The lock belongs to the thread that waits for its slot, which sleeps until
\* the last slot is Interval old.
PacingInv ==
  \A t \in Threads :
    /\ pc[t] = "slot" <=> pacer = t
    /\ pc[t] = "slot" => left[t] = Interval - sinceStart
    /\ sinceStart <= slotAge[t]

\* How often the EMS can have seen the request at each point of the loop.
DeliveryInv ==
  \A t \in Threads :
    /\ pc[t] # "idle" => result[t] = "none"
    /\ pc[t] \in {"pace", "slot", "start", "sent"} => seen[t] < attempt[t]
    /\ pc[t] = "seen" => seen[t] \in 1..attempt[t]
    /\ pc[t] = "backoff" => seen[t] <= attempt[t] /\ attempt[t] < MaxAttempts
    /\ meth[t] = "MUT" /\ pc[t] \notin {"seen", "idle"} => seen[t] = 0

IInv == TypeOK /\ PacingInv /\ DeliveryInv /\ LedgerTellsOutcome
=============================================================================
