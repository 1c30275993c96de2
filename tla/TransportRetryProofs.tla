----------------------- MODULE TransportRetryProofs -----------------------
(***************************************************************************)
(* The transport's inductive invariant, the truth of its event ledger, the *)
(* distance of its slots, and that it implements EmsCall, for every set of *)
(* threads, all retry delays, every pacing interval and every bound.       *)
(***************************************************************************)
EXTENDS TransportRetry, SequenceTheorems, TLAPS

\* MaxAttempts is a positive number, and each attempt before the last has a
\* delay.
LEMMA Attempts ==
  /\ MaxAttempts \in Nat \ {0}
  /\ \A n \in 1..MaxAttempts : n < MaxAttempts => Delays[n] \in Nat
<1>1. Len(Delays) \in Nat /\ \A n \in 1..Len(Delays) : Delays[n] \in Nat
  BY DelaysAssumption, LenProperties, ElementOfSeq DEF DelaysAssumption
<1> QED
  BY <1>1 DEF MaxAttempts

\* What Record does to a sequence of events.
LEMMA Recorded ==
  ASSUME NEW s \in Seq(Event), NEW a \in {"retried", "raised"}
  PROVE  LET e == [action |-> a, recovered |-> FALSE] IN
         /\ Append(s, e) \in Seq(Event)
         /\ Len(Append(s, e)) = Len(s) + 1
         /\ Append(s, e)[Len(s) + 1] = e
         /\ \A i \in 1..Len(s) : Append(s, e)[i] = s[i]
<1> DEFINE e == [action |-> a, recovered |-> FALSE]
<1>1. e \in Event
  BY DEF Event
<1> HIDE DEF e
<1>2. /\ Append(s, e) \in Seq(Event)
      /\ Len(Append(s, e)) = Len(s) + 1
      /\ Append(s, e)[Len(s) + 1] = e
      /\ \A i \in 1..Len(s) : Append(s, e)[i] = s[i]
  BY <1>1, AppendProperties
<1> QED
  BY <1>2 DEF e

\* What MarkRecovered does: every event recovered, nothing else changed.
LEMMA Marked ==
  ASSUME NEW s \in Seq(Event)
  PROVE  /\ MarkRecovered(s) \in Seq(Event)
         /\ Len(MarkRecovered(s)) = Len(s)
         /\ \A i \in 1..Len(s) : /\ MarkRecovered(s)[i].recovered = TRUE
                                 /\ MarkRecovered(s)[i].action = s[i].action
<1> DEFINE m == MarkRecovered(s)
<1>1. Len(s) \in Nat /\ DOMAIN s = 1..Len(s) /\ \A i \in 1..Len(s) : s[i] \in Event
  BY LenProperties, ElementOfSeq
<1>2. m = [i \in 1..Len(s) |-> [s[i] EXCEPT !.recovered = TRUE]]
  BY <1>1 DEF MarkRecovered
<1> HIDE DEF m
<1>3. \A i \in 1..Len(s) : /\ m[i] \in Event
                           /\ m[i].recovered = TRUE /\ m[i].action = s[i].action
  BY <1>1, <1>2 DEF Event
<1>4. m \in [1..Len(s) -> Event]
  BY <1>2, <1>3
<1>5. m \in Seq(Event) /\ Len(m) = Len(s)
  BY <1>1, <1>4
<1> QED
  BY <1>3, <1>5 DEF m

\* Every action leaves every variable in its type.
LEMMA TypeStep == IInv /\ [Next]_vars => TypeOK'
<1> SUFFICES ASSUME IInv, [Next]_vars PROVE TypeOK'
  OBVIOUS
<1> USE DEF IInv, TypeOK, Methods, pacing, Goto
<1>0. Interval \in Nat
  BY DelaysAssumption DEF DelaysAssumption
<1>1. ASSUME NEW t \in Threads, Request(t) PROVE TypeOK'
  BY <1>1, EmptySeq, Attempts DEF Request
<1>2. ASSUME NEW t \in Threads, Step(t) PROVE TypeOK'
  <2>1. CASE Pace(t)
    <3>1. pc' = [pc EXCEPT ![t] = "slot"] \/ pc' = [pc EXCEPT ![t] = "start"]
      BY <2>1 DEF Pace
    <3>2. left' = left \/ left' = [left EXCEPT ![t] = Interval - sinceStart]
      BY <2>1 DEF Pace
    <3>3. Interval - sinceStart \in Nat
      BY <1>0
    <3>4. pacer' = pacer \/ pacer' = t
      BY <2>1 DEF Pace
    <3>5. UNCHANGED <<meth, attempt, events, result, sinceStart, seen, slotAge, budget>>
      BY <2>1 DEF Pace
    <3> QED
      BY <3>1, <3>2, <3>3, <3>4, <3>5
  <2>2. CASE TakeSlot(t)
    BY <1>0, <2>2 DEF TakeSlot
  <2>3. CASE Send(t)
    BY <2>3 DEF Send
  <2>4. CASE EmsSees(t)
    <3>1. /\ pc' = [pc EXCEPT ![t] = "seen"] /\ seen' = [seen EXCEPT ![t] = @ + 1]
          /\ UNCHANGED <<meth, attempt, events, result, left, pacing, budget>>
      BY <2>4 DEF EmsSees
    <3>2. seen[t] + 1 \in Nat
      OBVIOUS
    <3>3. seen' \in [Threads -> Nat]
      BY <3>1, <3>2
    <3> QED
      BY <3>1, <3>3
  <2>5. CASE Answered(t)
    <3>1. MarkRecovered(events[t]) \in Seq(Event)
      BY Marked
    <3> QED
      BY <2>5, <3>1 DEF Answered
  <2>6. CASE ErrorRetried(t)
    <3>1. Append(events[t], [action |-> "retried", recovered |-> FALSE]) \in Seq(Event)
      BY Recorded
    <3>2. Delays[attempt[t]] \in Nat
      BY <2>6, Attempts DEF ErrorRetried, WillRetry
    <3> QED
      BY <2>6, <3>1, <3>2 DEF ErrorRetried, Record
  <2>7. CASE ErrorRaised(t)
    <3>1. Append(events[t], [action |-> "raised", recovered |-> FALSE]) \in Seq(Event)
      BY Recorded
    <3> QED
      BY <2>7, <3>1 DEF ErrorRaised, Record
  <2>8. CASE BodyBreaksOff(t)
    BY <2>8 DEF BodyBreaksOff
  <2>9. CASE BackoffEnds(t)
    <3>1. attempt[t] + 1 \in 1..MaxAttempts
      BY <2>9, Attempts DEF BackoffEnds, DeliveryInv
    <3> QED
      BY <2>9, <3>1 DEF BackoffEnds
  <2> QED
    BY <1>2, <2>1, <2>2, <2>3, <2>4, <2>5, <2>6, <2>7, <2>8, <2>9 DEF Step
<1>3. CASE Tick
  <2>1. \A age \in 0..Interval : Older(age) \in 0..Interval
    BY <1>0 DEF Older
  <2>2. sinceStart' \in 0..Interval /\ slotAge' \in [Threads -> 0..Interval]
    BY <1>3, <2>1 DEF Tick
  <2>3. left' \in [Threads -> Nat]
    BY <1>3 DEF Tick
  <2>4. UNCHANGED <<pc, meth, attempt, events, result, pacer, seen, budget>>
    BY <1>3 DEF Tick
  <2> QED
    BY <2>2, <2>3, <2>4
<1>4. CASE Finished \/ UNCHANGED vars
  BY <1>4 DEF Finished, vars
<1> QED
  BY <1>1, <1>2, <1>3, <1>4 DEF Next

\* The lock serialises the pacing, and a sleeping thread wakes up when the
\* last slot is Interval old.
LEMMA PacingStep == IInv /\ [Next]_vars => PacingInv'
<1> SUFFICES ASSUME IInv, [Next]_vars PROVE PacingInv'
  OBVIOUS
<1> USE DelaysAssumption, ThreadAssumption
    DEF IInv, TypeOK, PacingInv, Goto, DelaysAssumption, ThreadAssumption
<1>1. ASSUME NEW t \in Threads, Request(t) PROVE PacingInv'
  BY <1>1 DEF Request, pacing
<1>2. ASSUME NEW t \in Threads, Step(t) PROVE PacingInv'
  <2>1. CASE Pace(t)
    BY <2>1 DEF Pace
  <2>2. CASE TakeSlot(t)
    BY <2>2 DEF TakeSlot
  <2>3. CASE Send(t)
    BY <2>3 DEF Send, pacing
  <2>4. CASE EmsSees(t)
    BY <2>4 DEF EmsSees, pacing
  <2>5. CASE Answered(t)
    BY <2>5 DEF Answered, pacing
  <2>6. CASE ErrorRetried(t)
    BY <2>6 DEF ErrorRetried, CanRaise, pacing
  <2>7. CASE ErrorRaised(t)
    BY <2>7 DEF ErrorRaised, CanRaise, pacing
  <2>8. CASE BodyBreaksOff(t)
    BY <2>8 DEF BodyBreaksOff, pacing
  <2>9. CASE BackoffEnds(t)
    BY <2>9 DEF BackoffEnds, pacing
  <2> QED
    BY <1>2, <2>1, <2>2, <2>3, <2>4, <2>5, <2>6, <2>7, <2>8, <2>9 DEF Step
<1>3. CASE Tick
  BY <1>3 DEF Tick, Older
<1>4. CASE Finished \/ UNCHANGED vars
  BY <1>4 DEF Finished, vars
<1> QED
  BY <1>1, <1>2, <1>3, <1>4 DEF Next

\* The EMS sees at most one request for each attempt, and none of a mutating
\* call that may still be resent.
LEMMA DeliveryStep == IInv /\ [Next]_vars => DeliveryInv'
<1> SUFFICES ASSUME IInv, [Next]_vars PROVE DeliveryInv'
  OBVIOUS
<1> USE DEF IInv, TypeOK, DeliveryInv, Methods, Goto
<1>0. MaxAttempts \in Nat \ {0}
  BY Attempts
<1>1. ASSUME NEW t \in Threads, Request(t) PROVE DeliveryInv'
  BY <1>0, <1>1 DEF Request
<1>2. ASSUME NEW t \in Threads, Step(t) PROVE DeliveryInv'
  <2>1. CASE Pace(t)
    BY <1>0, <2>1 DEF Pace
  <2>2. CASE TakeSlot(t)
    BY <1>0, <2>2 DEF TakeSlot
  <2>3. CASE Send(t)
    BY <1>0, <2>3 DEF Send
  <2>4. CASE EmsSees(t)
    <3>1. /\ pc[t] = "sent" /\ pc' = [pc EXCEPT ![t] = "seen"]
          /\ seen' = [seen EXCEPT ![t] = @ + 1] /\ UNCHANGED <<meth, attempt, result>>
      BY <2>4 DEF EmsSees
    <3>2. seen[t] + 1 \in 1..attempt[t] /\ result[t] = "none"
      BY <1>0, <3>1
    <3> QED
      BY <1>0, <3>1, <3>2
  <2>5. CASE Answered(t)
    BY <1>0, <2>5 DEF Answered
  <2>6. CASE ErrorRetried(t)
    BY <1>0, <2>6 DEF ErrorRetried, CanRaise, WillRetry, SafeToResend, Errors
  <2>7. CASE ErrorRaised(t)
    BY <1>0, <2>7 DEF ErrorRaised
  <2>8. CASE BodyBreaksOff(t)
    BY <1>0, <2>8 DEF BodyBreaksOff
  <2>9. CASE BackoffEnds(t)
    BY <1>0, <2>9 DEF BackoffEnds
  <2> QED
    BY <1>2, <2>1, <2>2, <2>3, <2>4, <2>5, <2>6, <2>7, <2>8, <2>9 DEF Step
<1>3. CASE Tick
  BY <1>0, <1>3 DEF Tick
<1>4. CASE Finished \/ UNCHANGED vars
  BY <1>0, <1>4 DEF Finished, vars
<1> QED
  BY <1>1, <1>2, <1>3, <1>4 DEF Next

\* The ledger, with the sets of its statement taken apart.
LedgerOf(t) ==
  LET n == Len(events[t]) IN
  /\ \A i \in 1..n : events[t][i].recovered = (result[t] = "returned")
  /\ \A i \in 1..n : events[t][i].action = "raised" <=> result[t] = "raised" /\ i = n
  /\ n = IF result[t] = "raised" \/ pc[t] = "backoff" THEN attempt[t] ELSE attempt[t] - 1

\* LedgerTellsOutcome says LedgerOf of every thread.
LEMMA LedgerApart == TypeOK => (LedgerTellsOutcome <=> \A t \in Threads : LedgerOf(t))
<1> SUFFICES ASSUME TypeOK, NEW t \in Threads
             PROVE  Recovered(t) \subseteq {result[t] = "returned"}
                      <=> \A i \in 1..Len(events[t]) : events[t][i].recovered = (result[t] = "returned")
  BY Zenon DEF LedgerTellsOutcome, LedgerOf
<1>1. DOMAIN events[t] = 1..Len(events[t])
  BY LenProperties DEF TypeOK
<1> QED
  BY <1>1, Zenon DEF Recovered

\* The ledger stays right in every step.
LEMMA LedgerStep == IInv /\ [Next]_vars => LedgerTellsOutcome'
<1>a. TypeOK' => (LedgerTellsOutcome' <=> (\A t \in Threads : LedgerOf(t))')
  BY LedgerApart, PTL
<1> SUFFICES ASSUME IInv, [Next]_vars, NEW t \in Threads PROVE LedgerOf(t)'
  BY <1>a, TypeStep
<1>0. TypeOK /\ DeliveryInv /\ LedgerOf(t)
  BY LedgerApart DEF IInv
<1>k. ASSUME UNCHANGED <<events[t], result[t], attempt[t]>>,
             (pc[t] # "backoff" /\ pc'[t] # "backoff") \/ UNCHANGED pc[t]
      PROVE  LedgerOf(t)'
  BY <1>0, <1>k DEF LedgerOf
<1>1. ASSUME NEW u \in Threads, Request(u) PROVE LedgerOf(t)'
  <2>1. CASE u = t
    BY <1>0, <1>1, <2>1, EmptySeq DEF Request, Goto, LedgerOf, TypeOK
  <2>2. CASE u # t
    BY <1>0, <1>1, <1>k, <2>2 DEF Request, Goto, TypeOK
  <2> QED
    BY <2>1, <2>2
<1>2. ASSUME NEW u \in Threads, Step(u) PROVE LedgerOf(t)'
  <2>1. CASE u # t
    <3>1. UNCHANGED <<events[t], result[t], attempt[t], pc[t]>>
      BY <1>0, <1>2, <2>1
         DEF TypeOK, Goto, Step, Pace, TakeSlot, Send, EmsSees, Answered, ErrorRetried,
             ErrorRaised, Record, BodyBreaksOff, BackoffEnds
    <3> QED
      BY <3>1, <1>k
  <2>2. CASE u = t /\ (Pace(t) \/ TakeSlot(t) \/ Send(t) \/ EmsSees(t))
    BY <1>0, <1>k, <2>2 DEF TypeOK, Goto, Pace, TakeSlot, Send, EmsSees
  <2>3. CASE u = t /\ Answered(t)
    <3>1. events[t] \in Seq(Event) /\ events'[t] = MarkRecovered(events[t])
      BY <1>0, <2>3 DEF TypeOK, Answered
    <3>2. /\ Len(events'[t]) = Len(events[t])
          /\ \A i \in 1..Len(events[t]) : /\ events'[t][i].recovered = TRUE
                                          /\ events'[t][i].action = events[t][i].action
      BY <3>1, Marked
    <3>3. result[t] = "none" /\ result'[t] = "returned" /\ attempt' = attempt
          /\ pc[t] = "seen" /\ pc'[t] = "idle"
      BY <1>0, <2>3 DEF TypeOK, Answered, Goto, DeliveryInv
    <3> QED
      BY <1>0, <3>2, <3>3 DEF LedgerOf
  <2>4. CASE u = t /\ (ErrorRetried(t) \/ ErrorRaised(t))
    <3>1. PICK a \in {"retried", "raised"} :
            /\ events'[t] = Append(events[t], [action |-> a, recovered |-> FALSE])
            /\ result'[t] = IF a = "raised" THEN "raised" ELSE "none"
            /\ pc'[t] = IF a = "raised" THEN "idle" ELSE "backoff"
      BY <1>0, <2>4 DEF TypeOK, DeliveryInv, ErrorRetried, ErrorRaised, CanRaise, Record, Goto
    <3>2. result[t] = "none" /\ pc[t] # "backoff" /\ attempt' = attempt
      BY <1>0, <2>4 DEF TypeOK, DeliveryInv, ErrorRetried, ErrorRaised, CanRaise
    <3>3. events[t] \in Seq(Event) /\ attempt[t] \in Nat /\ Len(events[t]) \in Nat
      BY <1>0, Attempts, LenProperties DEF TypeOK
    <3> DEFINE e == [action |-> a, recovered |-> FALSE]
    <3>4. /\ Len(events'[t]) = Len(events[t]) + 1
          /\ events'[t][Len(events[t]) + 1] = e
          /\ \A i \in 1..Len(events[t]) : events'[t][i] = events[t][i]
      BY <3>1, <3>3, Recorded
    <3> DEFINE n == Len(events[t])
    <3>5. \A i \in 1..n : events'[t][i].recovered = FALSE /\ events'[t][i].action # "raised"
      BY <1>0, <3>2, <3>4 DEF LedgerOf
    <3>6. events'[t][n + 1].recovered = FALSE /\ events'[t][n + 1].action = a
      BY <3>4
    <3>7. n = attempt[t] - 1 /\ Len(events'[t]) = n + 1
      BY <1>0, <3>2, <3>4 DEF LedgerOf
    <3>8. 1..(n + 1) = (1..n) \cup {n + 1} /\ n + 1 \notin 1..n
      BY <3>3
    <3>9. \A i \in 1..Len(events'[t]) : events'[t][i].recovered = (result'[t] = "returned")
      BY <3>1, <3>5, <3>6, <3>7, <3>8
    <3>10. \A i \in 1..Len(events'[t]) :
             events'[t][i].action = "raised" <=> result'[t] = "raised" /\ i = Len(events'[t])
      BY <3>1, <3>5, <3>6, <3>7, <3>8
    <3>11. Len(events'[t]) = attempt'[t]
           /\ (result'[t] = "raised" \/ pc'[t] = "backoff")
      BY <3>1, <3>2, <3>3, <3>7
    <3> QED
      BY <3>9, <3>10, <3>11 DEF LedgerOf
  <2>5. CASE u = t /\ BodyBreaksOff(t)
    BY <1>0, <2>5 DEF TypeOK, DeliveryInv, BodyBreaksOff, Goto, LedgerOf
  <2>6. CASE u = t /\ BackoffEnds(t)
    <3>1. /\ UNCHANGED <<events, result>> /\ result[t] = "none"
          /\ pc[t] = "backoff" /\ pc'[t] = "pace"
          /\ attempt[t] \in Nat /\ attempt'[t] = attempt[t] + 1
      BY <1>0, <2>6, Attempts DEF TypeOK, DeliveryInv, BackoffEnds, Goto
    <3> QED
      BY <1>0, <3>1 DEF LedgerOf
  <2> QED
    BY <1>2, <2>1, <2>2, <2>3, <2>4, <2>5, <2>6 DEF Step
<1>3. CASE Tick \/ Finished \/ UNCHANGED vars
  BY <1>3, <1>k DEF Tick, Finished, vars
<1> QED
  BY <1>1, <1>2, <1>3 DEF Next

\* The initial states satisfy the invariant.
LEMMA InitInv == Init => IInv
<1> SUFFICES ASSUME Init PROVE IInv
  OBVIOUS
<1>1. TypeOK
  BY Attempts, EmptySeq, DelaysAssumption, BoundAssumption
     DEF Init, TypeOK, Methods, DelaysAssumption, BoundAssumption
<1>2. PacingInv
  <2> SUFFICES ASSUME NEW t \in Threads
               PROVE  pc[t] # "slot" /\ pacer # t /\ sinceStart <= slotAge[t]
    BY Zenon DEF PacingInv
  <2> QED
    BY DelaysAssumption, ThreadAssumption DEF Init, DelaysAssumption, ThreadAssumption
<1>3. DeliveryInv
  BY DEF Init, DeliveryInv
<1>4. LedgerTellsOutcome
  BY <1>1, LedgerApart, EmptySeq DEF Init, LedgerOf
<1> QED
  BY <1>1, <1>2, <1>3, <1>4 DEF IInv

\* The inductive invariant holds in every reachable state: the types, who
\* holds the pacing lock and how long it sleeps, how often the EMS has seen a
\* request, and what the event ledger says.
THEOREM Invariance == Spec => []IInv
<1>1. IInv /\ [Next]_vars => IInv'
  BY TypeStep, PacingStep, DeliveryStep, LedgerStep DEF IInv
<1> QED
  BY InitInv, <1>1, PTL DEF Spec

\* Type correctness.
THEOREM TypeCorrect == Spec => []TypeOK
<1>1. IInv => TypeOK
  BY DEF IInv
<1> QED
  BY Invariance, <1>1, PTL

\* However the calls of any number of threads interleave and whichever errors
\* they meet, the connection events of a call tell how it ended.
THEOREM LedgerIsRight == Spec => []LedgerTellsOutcome
<1>1. IInv => LedgerTellsOutcome
  BY DEF IInv
<1> QED
  BY Invariance, <1>1, PTL

\* _pace keeps the slots of all threads min_request_interval apart.
THEOREM SlotsKeptApart == Spec => SlotsApart
<1>1. ASSUME IInv, [Next]_vars, NEW t \in Threads, pc[t] = "slot", pc'[t] = "start",
             NEW u \in Threads
      PROVE  slotAge[u] = Interval
  <2>1. left[t] = 0
    <3>1. ASSUME NEW v \in Threads, Request(v) PROVE FALSE
      BY <1>1, <3>1 DEF Request, Goto, IInv, TypeOK
    <3>2. ASSUME NEW v \in Threads, Step(v), ~TakeSlot(v) PROVE FALSE
      BY <1>1, <3>2
         DEF IInv, TypeOK, Goto, Step, Pace, Send, EmsSees, Answered, ErrorRetried,
             ErrorRaised, CanRaise, BodyBreaksOff, BackoffEnds
    <3>3. CASE Tick \/ Finished \/ UNCHANGED vars
      BY <1>1, <3>3 DEF Tick, Finished, vars
    <3>4. ASSUME NEW v \in Threads, TakeSlot(v) PROVE left[t] = 0
      BY <1>1, <3>4 DEF TakeSlot, Goto, IInv, TypeOK
    <3> QED
      BY <1>1, <3>1, <3>2, <3>3, <3>4 DEF Next
  <2>2. sinceStart = Interval - left[t] /\ sinceStart <= slotAge[u] /\ slotAge[u] <= Interval
    BY <1>1, DelaysAssumption DEF IInv, TypeOK, PacingInv, DelaysAssumption
  <2> QED
    BY <2>1, <2>2, <1>1, DelaysAssumption DEF IInv, TypeOK, DelaysAssumption
<1>2. IInv /\ [Next]_vars =>
        [\A t \in Threads : (pc[t] = "slot" /\ pc'[t] = "start")
           => \A u \in Threads : slotAge[u] = Interval]_vars
  BY <1>1
<1> QED
  BY Invariance, <1>2, PTL DEF Spec, SlotsApart

-----------------------------------------------------------------------------
(* TransportRetry implements EmsCall *)

Phase == [t \in Threads |-> IF pc[t] = "idle" THEN "idle" ELSE "pending"]
Outcome == [t \in Threads |-> IF result[t] = "broken" THEN "raised" ELSE result[t]]

\* A step that only moves on inside a call, or changes what EmsCall does not
\* see, is a stutter.
LEMMA Stutters ==
  ASSUME TypeOK, TypeOK', UNCHANGED <<meth, seen, result>>,
         \A t \in Threads : pc[t] = "idle" <=> pc'[t] = "idle"
  PROVE  UNCHANGED Call!callVars
<1>1. Phase' = Phase /\ Outcome' = Outcome
  BY DEF Phase, Outcome
<1> QED
  BY <1>1 DEF Call!callVars, Phase, Outcome

\* Each step of a thread is a step of EmsCall, or a stutter.
LEMMA CallStep ==
  ASSUME IInv, IInv', NEW t \in Threads, Request(t) \/ Step(t)
  PROVE  Call!Next \/ UNCHANGED Call!callVars
<1> USE DEF IInv
<1>1. CASE Request(t)
  <2>1. Phase[t] = "idle" /\ Phase' = [Phase EXCEPT ![t] = "pending"]
    BY <1>1 DEF Request, Goto, Phase, TypeOK
  <2>2. Outcome' = [Outcome EXCEPT ![t] = "none"]
    BY <1>1 DEF Request, Outcome, TypeOK
  <2>3. /\ seen' = [seen EXCEPT ![t] = 0]
        /\ \E m \in Call!Methods : meth' = [meth EXCEPT ![t] = m]
    BY <1>1 DEF Request, Methods, Call!Methods
  <2>4. Call!Submit(t)
    BY <2>1, <2>2, <2>3 DEF Call!Submit, Phase, Outcome
  <2> QED
    BY <2>4 DEF Call!Next
<1>2. CASE Pace(t) \/ TakeSlot(t) \/ Send(t) \/ ErrorRetried(t) \/ BackoffEnds(t)
  <2>1. UNCHANGED <<meth, seen, result>>
    BY <1>2 DEF Pace, TakeSlot, Send, ErrorRetried, BackoffEnds, pacing
  <2>2. \A u \in Threads : pc[u] = "idle" <=> pc'[u] = "idle"
    BY <1>2 DEF Pace, TakeSlot, Send, ErrorRetried, CanRaise, BackoffEnds, Goto, TypeOK
  <2> QED
    BY <2>1, <2>2, Stutters
<1>3. CASE EmsSees(t)
  <2>1. Phase[t] = "pending" /\ Phase' = Phase /\ Outcome' = Outcome
    BY <1>3 DEF EmsSees, Goto, Phase, Outcome, TypeOK
  <2>2. seen[t] < IF meth[t] = "MUT" THEN 1 ELSE MaxAttempts
    <3>1. /\ seen[t] \in Nat /\ attempt[t] \in 1..MaxAttempts /\ MaxAttempts \in Nat
          /\ seen[t] < attempt[t] /\ (meth[t] = "MUT" => seen[t] = 0)
      BY <1>3, Attempts DEF EmsSees, DeliveryInv, TypeOK
    <3> QED
      BY <3>1
  <2>3. seen' = [seen EXCEPT ![t] = @ + 1] /\ meth' = meth
    BY <1>3 DEF EmsSees
  <2>4. Call!Deliver(t)
    BY <2>1, <2>2, <2>3 DEF Call!Deliver, Phase, Outcome
  <2> QED
    BY <2>4 DEF Call!Next
<1>4. CASE Answered(t)
  <2>1. Phase[t] = "pending" /\ Phase' = [Phase EXCEPT ![t] = "idle"]
    BY <1>4 DEF Answered, Goto, Phase, TypeOK
  <2>2. Outcome' = [Outcome EXCEPT ![t] = "returned"]
    BY <1>4 DEF Answered, Outcome, TypeOK
  <2>3. seen[t] > 0 /\ UNCHANGED <<meth, seen>>
    BY <1>4 DEF Answered, DeliveryInv, TypeOK
  <2>4. Call!Return(t)
    BY <2>1, <2>2, <2>3 DEF Call!Return, Phase, Outcome
  <2> QED
    BY <2>4 DEF Call!Next
<1>5. CASE ErrorRaised(t) \/ BodyBreaksOff(t)
  <2>1. Phase[t] = "pending" /\ Phase' = [Phase EXCEPT ![t] = "idle"]
    BY <1>5 DEF ErrorRaised, CanRaise, BodyBreaksOff, Goto, Phase, TypeOK
  <2>2. Outcome' = [Outcome EXCEPT ![t] = "raised"]
    BY <1>5 DEF ErrorRaised, BodyBreaksOff, Outcome, TypeOK
  <2>3. UNCHANGED <<meth, seen>>
    BY <1>5 DEF ErrorRaised, BodyBreaksOff
  <2>4. Call!Raise(t)
    BY <2>1, <2>2, <2>3 DEF Call!Raise, Phase, Outcome
  <2> QED
    BY <2>4 DEF Call!Next
<1> QED
  BY <1>1, <1>2, <1>3, <1>4, <1>5 DEF Step

\* Every behaviour of the retry loop and the pacing is one of EmsCall: the
\* EMS sees a mutating request at most once, whatever the transport does, and
\* only a request that it has seen is answered.
THEOREM Implementation == Spec => ImplementsCall
<1>1. Init => Call!Init
  BY DEF Init, Call!Init
<1>2. IInv /\ IInv' /\ [Next]_vars => [Call!Next]_Call!callVars
  <2> SUFFICES ASSUME IInv, IInv', [Next]_vars
               PROVE  Call!Next \/ UNCHANGED Call!callVars
    OBVIOUS
  <2>1. CASE \E t \in Threads : Request(t) \/ Step(t)
    BY <2>1, CallStep
  <2>2. CASE Tick \/ Finished \/ UNCHANGED vars
    <3>1. UNCHANGED <<meth, seen, result, pc>>
      BY <2>2 DEF Tick, Finished, vars
    <3> QED
      BY <3>1, Stutters DEF IInv
  <2> QED
    BY <2>1, <2>2 DEF Next
<1> QED
  BY Invariance, <1>1, <1>2, PTL DEF Spec, ImplementsCall, Call!Spec
=============================================================================
