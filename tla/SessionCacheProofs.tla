------------------------- MODULE SessionCacheProofs -------------------------
(***************************************************************************)
(* Type correctness, the inductive invariant of SessionCache and the       *)
(* safety properties that follow from it, for every set of threads, roles  *)
(* and session ids, every lifetime, refresh age and latency that satisfy   *)
(* TimeAssumption, and every bound.                                        *)
(***************************************************************************)
EXTENDS SessionCache, TLAPS

\* Every action leaves every variable in its type.
LEMMA TypeStep == IInv /\ [Next]_vars => TypeOK'
<1> SUFFICES ASSUME IInv, [Next]_vars PROVE TypeOK'
  OBVIOUS
<1> USE DEF IInv, TypeOK, CallInv, CallOK, PC, Methods,
            manager, call, ems, history, Finish, Goto, GotoWith, LockFree, Pop,
            EmsLogout, LogoutRaises, EmsLogin, Arrives
<1>1. ASSUME NEW t \in Threads, Step(t) PROVE TypeOK'
  <2>1. CASE ResolveHit(t)
    BY <2>1 DEF ResolveHit
  <2>2. CASE ResolveMiss(t)
    BY <2>2 DEF ResolveMiss
  <2>3. CASE ResolveStale(t)
    BY <2>3 DEF ResolveStale
  <2>4. CASE Evict(t)
    BY <2>4 DEF Evict
  <2>5. CASE LoginApplied(t)
    BY <2>5 DEF LoginApplied
  <2>6. CASE LoginRaises(t)
    BY <2>6 DEF LoginRaises
  <2>7. CASE CachedLoginReturns(t)
    BY <2>7 DEF CachedLoginReturns, AfterRefresh
  <2>8. CASE Send(t)
    BY <2>8 DEF Send
  <2>9. CASE RefreshReuse(t)
    BY <2>9 DEF RefreshReuse, AfterRefresh
  <2>10. CASE RefreshLogin(t)
    BY <2>10 DEF RefreshLogin
  <2>11. CASE Resend(t)
    BY <2>11 DEF Resend
  <2>12. CASE DiscardNothing(t)
    BY <2>12 DEF DiscardNothing
  <2>13. CASE Discard(t)
    BY <2>13 DEF Discard
  <2>14. CASE DiscardLogout(t)
    BY <2>14 DEF DiscardLogout
  <2>15. CASE FreshLoginReturns(t)
    BY <2>15 DEF FreshLoginReturns
  <2>16. CASE CloseLogout(t)
    <3>1. closed' \in BOOLEAN
      BY <2>16 DEF CloseLogout
    <3>2. state' \in [Sid -> {"unused", "active", "gone"}] /\ born' = born /\ leaked' \subseteq Sid
      BY <2>16 DEF CloseLogout
    <3>3. closing' \subseteq Sid /\ abandoned' \subseteq Sid
      BY <2>16 DEF CloseLogout
    <3> QED
      BY <2>16, <3>1, <3>2, <3>3 DEF CloseLogout
  <2>17. CASE CloseReturns(t)
    BY <2>17 DEF CloseReturns
  <2> QED
    BY <1>1, <2>1, <2>2, <2>3, <2>4, <2>5, <2>6, <2>7, <2>8, <2>9, <2>10, <2>11, <2>12, <2>13, <2>14, <2>15, <2>16, <2>17 DEF Step
<1>2. ASSUME NEW t \in Threads, Operation(t) PROVE TypeOK'
  <2>1. CASE StartRequest(t)
    BY <2>1 DEF StartRequest, Start
  <2>2. CASE StartFresh(t)
    BY <2>2 DEF StartFresh, Start
  <2>3. CASE FreshExit(t)
    BY <2>3 DEF FreshExit
  <2>4. CASE Close(t)
    BY <2>4 DEF Close, CachedIds
  <2> QED
    BY <1>2, <2>1, <2>2, <2>3, <2>4 DEF Operation
<1>3. ASSUME NEW s \in Sid, EmsDrops(s) PROVE TypeOK'
  BY <1>3 DEF EmsDrops
<1>4. CASE Tick
  BY <1>4 DEF Tick
<1>5. CASE Finished \/ UNCHANGED vars
  BY <1>5 DEF Finished, vars
<1> QED
  BY <1>1, <1>2, <1>3, <1>4, <1>5 DEF Next

\* Every action keeps the critical sections exclusive.
LEMMA LockStep == IInv /\ [Next]_vars => LockInv'
<1> SUFFICES ASSUME IInv, [Next]_vars PROVE LockInv'
  OBVIOUS
<1> USE ThreadAssumption DEF IInv, TypeOK, LockInv, Locked, PC, CallInv, CallOK, ThreadAssumption,
            manager, call, ems, history, Finish, Goto, GotoWith, LockFree, Pop,
            EmsLogout, LogoutRaises, EmsLogin, Arrives
<1>1. ASSUME NEW t \in Threads, Step(t) PROVE LockInv'
  <2>1. CASE ResolveHit(t)
    BY <2>1 DEF ResolveHit
  <2>2. CASE ResolveMiss(t)
    BY <2>2 DEF ResolveMiss
  <2>3. CASE ResolveStale(t)
    BY <2>3 DEF ResolveStale
  <2>4. CASE Evict(t)
    BY <2>4 DEF Evict
  <2>5. CASE LoginApplied(t)
    BY <2>5 DEF LoginApplied
  <2>6. CASE LoginRaises(t)
    BY <2>6 DEF LoginRaises
  <2>7. CASE CachedLoginReturns(t)
    BY <2>7 DEF CachedLoginReturns, AfterRefresh
  <2>8. CASE Send(t)
    BY <2>8 DEF Send
  <2>9. CASE RefreshReuse(t)
    BY <2>9 DEF RefreshReuse, AfterRefresh
  <2>10. CASE RefreshLogin(t)
    BY <2>10 DEF RefreshLogin
  <2>11. CASE Resend(t)
    BY <2>11 DEF Resend
  <2>12. CASE DiscardNothing(t)
    BY <2>12 DEF DiscardNothing
  <2>13. CASE Discard(t)
    BY <2>13 DEF Discard
  <2>14. CASE DiscardLogout(t)
    BY <2>14 DEF DiscardLogout
  <2>15. CASE FreshLoginReturns(t)
    BY <2>15 DEF FreshLoginReturns
  <2>16. CASE CloseLogout(t)
    BY <2>16 DEF CloseLogout
  <2>17. CASE CloseReturns(t)
    BY <2>17 DEF CloseReturns
  <2> QED
    BY <1>1, <2>1, <2>2, <2>3, <2>4, <2>5, <2>6, <2>7, <2>8, <2>9, <2>10, <2>11, <2>12, <2>13, <2>14, <2>15, <2>16, <2>17 DEF Step
<1>2. ASSUME NEW t \in Threads, Operation(t) PROVE LockInv'
  <2>1. CASE StartRequest(t)
    BY <2>1 DEF StartRequest, Start
  <2>2. CASE StartFresh(t)
    BY <2>2 DEF StartFresh, Start
  <2>3. CASE FreshExit(t)
    BY <2>3 DEF FreshExit
  <2>4. CASE Close(t)
    BY <2>4 DEF Close, CachedIds
  <2> QED
    BY <1>2, <2>1, <2>2, <2>3, <2>4 DEF Operation
<1>3. ASSUME NEW s \in Sid, EmsDrops(s) PROVE LockInv'
  BY <1>3 DEF EmsDrops
<1>4. CASE Tick
  BY <1>4 DEF Tick
<1>5. CASE Finished \/ UNCHANGED vars
  BY <1>5 DEF Finished, vars
<1> QED
  BY <1>1, <1>2, <1>3, <1>4, <1>5 DEF Next

\* What an action can do to the EMS's table: a session, once issued, keeps
\* its login time and never comes back to life.
OnceIssued(s) ==
  state[s] # "unused" =>
    /\ state'[s] # "unused" /\ born'[s] = born[s]
    /\ state'[s] = "active" => state[s] = "active"

\* Every action treats the EMS's table so, and the clock never goes back.
LEMMA EmsStep == IInv /\ [Next]_vars => (\A x \in Sid : OnceIssued(x)) /\ clock' \in Nat /\ clock' >= clock
<1> SUFFICES ASSUME IInv, [Next]_vars PROVE (\A x \in Sid : OnceIssued(x)) /\ clock' \in Nat /\ clock' >= clock
  OBVIOUS
<1> USE DEF IInv, TypeOK, OnceIssued,
            manager, call, ems, history, Finish, Goto, GotoWith, LockFree, Pop,
            EmsLogout, LogoutRaises, EmsLogin, Arrives
<1>1. ASSUME NEW t \in Threads, Step(t) PROVE (\A x \in Sid : OnceIssued(x)) /\ clock' \in Nat /\ clock' >= clock
  <2>1. CASE ResolveHit(t)
    BY <2>1 DEF ResolveHit
  <2>2. CASE ResolveMiss(t)
    BY <2>2 DEF ResolveMiss
  <2>3. CASE ResolveStale(t)
    BY <2>3 DEF ResolveStale
  <2>4. CASE Evict(t)
    BY <2>4 DEF Evict
  <2>5. CASE LoginApplied(t)
    BY <2>5 DEF LoginApplied
  <2>6. CASE LoginRaises(t)
    BY <2>6 DEF LoginRaises
  <2>7. CASE CachedLoginReturns(t)
    BY <2>7 DEF CachedLoginReturns, AfterRefresh
  <2>8. CASE Send(t)
    BY <2>8 DEF Send
  <2>9. CASE RefreshReuse(t)
    BY <2>9 DEF RefreshReuse, AfterRefresh
  <2>10. CASE RefreshLogin(t)
    BY <2>10 DEF RefreshLogin
  <2>11. CASE Resend(t)
    BY <2>11 DEF Resend
  <2>12. CASE DiscardNothing(t)
    BY <2>12 DEF DiscardNothing
  <2>13. CASE Discard(t)
    BY <2>13 DEF Discard
  <2>14. CASE DiscardLogout(t)
    BY <2>14 DEF DiscardLogout
  <2>15. CASE FreshLoginReturns(t)
    BY <2>15 DEF FreshLoginReturns
  <2>16. CASE CloseLogout(t)
    BY <2>16 DEF CloseLogout
  <2>17. CASE CloseReturns(t)
    BY <2>17 DEF CloseReturns
  <2> QED
    BY <1>1, <2>1, <2>2, <2>3, <2>4, <2>5, <2>6, <2>7, <2>8, <2>9, <2>10, <2>11, <2>12, <2>13, <2>14, <2>15, <2>16, <2>17 DEF Step
<1>2. ASSUME NEW t \in Threads, Operation(t) PROVE (\A x \in Sid : OnceIssued(x)) /\ clock' \in Nat /\ clock' >= clock
  <2>1. CASE StartRequest(t)
    BY <2>1 DEF StartRequest, Start
  <2>2. CASE StartFresh(t)
    BY <2>2 DEF StartFresh, Start
  <2>3. CASE FreshExit(t)
    BY <2>3 DEF FreshExit
  <2>4. CASE Close(t)
    BY <2>4 DEF Close, CachedIds
  <2> QED
    BY <1>2, <2>1, <2>2, <2>3, <2>4 DEF Operation
<1>3. ASSUME NEW s \in Sid, EmsDrops(s) PROVE (\A x \in Sid : OnceIssued(x)) /\ clock' \in Nat /\ clock' >= clock
  BY <1>3 DEF EmsDrops
<1>4. CASE Tick
  BY <1>4 DEF Tick
<1>5. CASE Finished \/ UNCHANGED vars
  BY <1>5 DEF Finished, vars
<1> QED
  BY <1>1, <1>2, <1>3, <1>4, <1>5 DEF Next

\* What a step leaves a call that it does not touch: its own facts, because
\* a dead session stays dead and an issued one stays issued.
StaysDead(x) ==
  /\ state[x] # "unused" => state'[x] # "unused"
  /\ (state[x] # "unused" /\ ~(state[x] = "active" /\ clock - born[x] < Lifetime))
       => ~(state'[x] = "active" /\ clock' - born'[x] < Lifetime)

\* No step revives a session that the EMS has dropped.
LEMMA DeadStays == IInv /\ [Next]_vars => \A x \in Sid : StaysDead(x)
  BY EmsStep, TimeAssumption DEF StaysDead, OnceIssued, IInv, TypeOK, TimeAssumption

\* A step that leaves a thread's call alone keeps what CallInv says of it.
LEMMA CallKept ==
  ASSUME NEW u \in Threads, CallOK(u), \A x \in Sid : StaysDead(x),
         pc'[u] = pc[u], role'[u] = role[u], sid'[u] = sid[u],
         reply'[u] = reply[u], held'[u] = held[u]
  PROVE  CallOK(u)'
  BY DEF CallOK, Live, StaysDead

\* A call whose locals are gone and that waits for no login knows nothing.
LEMMA CallEnded ==
  ASSUME NEW u \in Threads, pc'[u] \in {"idle", "closing"}, reply'[u] = NoSid
  PROVE  CallOK(u)'
  BY DEF CallOK

\* Every action keeps what a call in progress knows.
LEMMA CallStep == IInv /\ [Next]_vars => CallInv'
<1> SUFFICES ASSUME IInv, [Next]_vars PROVE CallInv'
  OBVIOUS
<1>0. \A x \in Sid : StaysDead(x)
  BY DeadStays
<1> USE SidAssumption, TimeAssumption DEF IInv, TypeOK, LockInv, Locked, CallInv, CallOK, AgeInv, Live, PC, SidAssumption, TimeAssumption,
            manager, call, ems, history, Finish, Goto, GotoWith, LockFree, Pop,
            EmsLogout, LogoutRaises, EmsLogin, Arrives
<1>1. ASSUME NEW t \in Threads, Step(t) PROVE CallInv'
  <2>1. CASE ResolveHit(t)
    BY <2>1 DEF ResolveHit
  <2>2. CASE ResolveMiss(t)
    BY <2>2 DEF ResolveMiss
  <2>3. CASE ResolveStale(t)
    BY <2>3 DEF ResolveStale
  <2>4. CASE Evict(t)
    <3>1. /\ \A u \in Threads \ {t} : pc'[u] = pc[u] /\ role'[u] = role[u] /\ sid'[u] = sid[u]
          /\ reply' = reply /\ held' = held
          /\ reply[t] = NoSid
      BY <2>4 DEF Evict
    <3>2. \A u \in Threads \ {t} : CallOK(u)'
      BY <1>0, <3>1, CallKept
    <3>3. CallOK(t)'
      BY <2>4, <3>1, CallEnded DEF Evict
    <3> QED BY <3>2, <3>3
  <2>5. CASE LoginApplied(t)
    BY <2>5 DEF LoginApplied
  <2>6. CASE LoginRaises(t)
    BY <2>6 DEF LoginRaises
  <2>7. CASE CachedLoginReturns(t)
    BY <2>7 DEF CachedLoginReturns, AfterRefresh
  <2>8. CASE Send(t)
    <3>1. CASE pc'[t] = "refresh"
      <4>1. ~Live(sid[t])
        BY <2>8, <3>1 DEF Send, ShouldRefresh, Permitted
      <4> QED
        BY <1>0, <4>1, <3>1, <2>8 DEF Send
    <3>2. CASE pc'[t] # "refresh"
      <4> QED
        BY <1>0, <3>2, <2>8 DEF Send
    <3> QED BY <3>1, <3>2
  <2>9. CASE RefreshReuse(t)
    BY <2>9 DEF RefreshReuse, AfterRefresh
  <2>10. CASE RefreshLogin(t)
    BY <2>10 DEF RefreshLogin
  <2>11. CASE Resend(t)
    BY <2>11 DEF Resend
  <2>12. CASE DiscardNothing(t)
    BY <2>12 DEF DiscardNothing
  <2>13. CASE Discard(t)
    BY <2>13 DEF Discard
  <2>14. CASE DiscardLogout(t)
    <3>1. /\ \A u \in Threads \ {t} : pc'[u] = pc[u] /\ role'[u] = role[u] /\ sid'[u] = sid[u]
          /\ reply' = reply /\ held' = held
          /\ reply[t] = NoSid
      BY <2>14 DEF DiscardLogout
    <3>2. \A u \in Threads \ {t} : CallOK(u)'
      BY <1>0, <3>1, CallKept
    <3>3. CallOK(t)'
      BY <2>14, <3>1, CallEnded DEF DiscardLogout
    <3> QED BY <3>2, <3>3
  <2>15. CASE FreshLoginReturns(t)
    BY <2>15 DEF FreshLoginReturns
  <2>16. CASE CloseLogout(t)
    <3>1. /\ \A u \in Threads \ {t} : pc'[u] = pc[u] /\ role'[u] = role[u] /\ sid'[u] = sid[u]
          /\ reply' = reply /\ held' = held
          /\ reply[t] = NoSid
      BY <2>16 DEF CloseLogout
    <3>2. \A u \in Threads \ {t} : CallOK(u)'
      BY <1>0, <3>1, CallKept
    <3>3. CallOK(t)'
      BY <2>16, <3>1, CallEnded DEF CloseLogout
    <3> QED BY <3>2, <3>3
  <2>17. CASE CloseReturns(t)
    BY <2>17 DEF CloseReturns
  <2> QED
    BY <1>1, <2>1, <2>2, <2>3, <2>4, <2>5, <2>6, <2>7, <2>8, <2>9, <2>10, <2>11, <2>12, <2>13, <2>14, <2>15, <2>16, <2>17 DEF Step
<1>2. ASSUME NEW t \in Threads, Operation(t) PROVE CallInv'
  <2>1. CASE StartRequest(t)
    BY <2>1 DEF StartRequest, Start
  <2>2. CASE StartFresh(t)
    BY <2>2 DEF StartFresh, Start
  <2>3. CASE FreshExit(t)
    <3>1. /\ pc' = pc /\ role' = role /\ sid' = sid /\ reply' = reply
          /\ \A u \in Threads \ {t} : held'[u] = held[u]
          /\ pc[t] = "idle" /\ reply[t] = NoSid
      BY <2>3 DEF FreshExit
    <3>2. \A u \in Threads \ {t} : CallOK(u)'
      BY <1>0, <3>1, CallKept
    <3>3. CallOK(t)'
      BY <3>1, CallEnded
    <3> QED BY <3>2, <3>3
  <2>4. CASE Close(t)
    BY <2>4 DEF Close, CachedIds
  <2> QED
    BY <1>2, <2>1, <2>2, <2>3, <2>4 DEF Operation
<1>3. ASSUME NEW s \in Sid, EmsDrops(s) PROVE CallInv'
  BY <1>3 DEF EmsDrops
<1>4. CASE Tick
  BY <1>0, <1>4 DEF Tick, StaysDead
<1>5. CASE Finished \/ UNCHANGED vars
  BY <1>5 DEF Finished, vars
<1> QED
  BY <1>1, <1>2, <1>3, <1>4, <1>5 DEF Next

\* Every action keeps the bounds on what the EMS has seen.
LEMMA ArrivalStep == IInv /\ [Next]_vars => ArrivalInv'
<1> SUFFICES ASSUME IInv, [Next]_vars PROVE ArrivalInv'
  OBVIOUS
<1> USE DEF IInv, TypeOK, ArrivalInv, PC, Methods,
            manager, call, ems, history, Finish, Goto, GotoWith, LockFree, Pop,
            EmsLogout, LogoutRaises, EmsLogin, Arrives
<1>1. ASSUME NEW t \in Threads, Step(t) PROVE ArrivalInv'
  <2>1. CASE ResolveHit(t)
    BY <2>1 DEF ResolveHit
  <2>2. CASE ResolveMiss(t)
    BY <2>2 DEF ResolveMiss
  <2>3. CASE ResolveStale(t)
    BY <2>3 DEF ResolveStale
  <2>4. CASE Evict(t)
    BY <2>4 DEF Evict
  <2>5. CASE LoginApplied(t)
    BY <2>5 DEF LoginApplied
  <2>6. CASE LoginRaises(t)
    BY <2>6 DEF LoginRaises
  <2>7. CASE CachedLoginReturns(t)
    BY <2>7 DEF CachedLoginReturns, AfterRefresh
  <2>8. CASE Send(t)
    BY <2>8 DEF Send
  <2>9. CASE RefreshReuse(t)
    BY <2>9 DEF RefreshReuse, AfterRefresh
  <2>10. CASE RefreshLogin(t)
    BY <2>10 DEF RefreshLogin
  <2>11. CASE Resend(t)
    BY <2>11 DEF Resend
  <2>12. CASE DiscardNothing(t)
    BY <2>12 DEF DiscardNothing
  <2>13. CASE Discard(t)
    BY <2>13 DEF Discard
  <2>14. CASE DiscardLogout(t)
    BY <2>14 DEF DiscardLogout
  <2>15. CASE FreshLoginReturns(t)
    BY <2>15 DEF FreshLoginReturns
  <2>16. CASE CloseLogout(t)
    BY <2>16 DEF CloseLogout
  <2>17. CASE CloseReturns(t)
    BY <2>17 DEF CloseReturns
  <2> QED
    BY <1>1, <2>1, <2>2, <2>3, <2>4, <2>5, <2>6, <2>7, <2>8, <2>9, <2>10, <2>11, <2>12, <2>13, <2>14, <2>15, <2>16, <2>17 DEF Step
<1>2. ASSUME NEW t \in Threads, Operation(t) PROVE ArrivalInv'
  <2>1. CASE StartRequest(t)
    BY <2>1 DEF StartRequest, Start
  <2>2. CASE StartFresh(t)
    BY <2>2 DEF StartFresh, Start
  <2>3. CASE FreshExit(t)
    BY <2>3 DEF FreshExit
  <2>4. CASE Close(t)
    BY <2>4 DEF Close, CachedIds
  <2> QED
    BY <1>2, <2>1, <2>2, <2>3, <2>4 DEF Operation
<1>3. ASSUME NEW s \in Sid, EmsDrops(s) PROVE ArrivalInv'
  BY <1>3 DEF EmsDrops
<1>4. CASE Tick
  BY <1>4 DEF Tick
<1>5. CASE Finished \/ UNCHANGED vars
  BY <1>5 DEF Finished, vars
<1> QED
  BY <1>1, <1>2, <1>3, <1>4, <1>5 DEF Next

\* The ages stay in bounds while the clock stands and no entry is written.
LEMMA AgeKept ==
  ASSUME TypeOK, AgeInv, \A x \in Sid : OnceIssued(x), clock' = clock, reply' = reply,
         \A r \in Roles : \/ cachedId'[r] = NoSid
                          \/ cachedId'[r] = cachedId[r] /\ issuedAt'[r] = issuedAt[r]
  PROVE  AgeInv'
  BY DEF AgeInv, OnceIssued, TypeOK

\* Every action keeps the cache's clock within MaxLatency of the EMS's.
LEMMA AgeStep == IInv /\ [Next]_vars => AgeInv'
<1> SUFFICES ASSUME IInv, [Next]_vars PROVE AgeInv'
  OBVIOUS
<1>0. TypeOK /\ AgeInv /\ \A x \in Sid : OnceIssued(x)
  BY EmsStep DEF IInv
<1> USE SidAssumption, TimeAssumption DEF IInv, TypeOK, LockInv, Locked, CallInv, CallOK, AgeInv, PC, SidAssumption, TimeAssumption,
            manager, call, ems, history, Finish, Goto, GotoWith, LockFree, Pop,
            EmsLogout, LogoutRaises, EmsLogin, Arrives
<1>1. ASSUME NEW t \in Threads, Step(t) PROVE AgeInv'
  <2>1. CASE ResolveHit(t)
    BY <2>1 DEF ResolveHit
  <2>2. CASE ResolveMiss(t)
    BY <2>2 DEF ResolveMiss
  <2>3. CASE ResolveStale(t)
    BY <2>3 DEF ResolveStale
  <2>4. CASE Evict(t)
    <3>1. clock' = clock /\ reply' = reply
      BY <2>4 DEF Evict
    <3>2. Pop(role[t]) \/ UNCHANGED <<cachedId, issuedAt>>
      BY <2>4 DEF Evict
    <3>3. ASSUME NEW r \in Roles
          PROVE  \/ cachedId'[r] = NoSid
                 \/ cachedId'[r] = cachedId[r] /\ issuedAt'[r] = issuedAt[r]
      BY <1>0, <3>2
    <3> QED
      BY <1>0, <3>1, <3>3, AgeKept
  <2>5. CASE LoginApplied(t)
    BY <2>5 DEF LoginApplied
  <2>6. CASE LoginRaises(t)
    BY <2>6 DEF LoginRaises
  <2>7. CASE CachedLoginReturns(t)
    BY <2>7 DEF CachedLoginReturns, AfterRefresh
  <2>8. CASE Send(t)
    BY <2>8 DEF Send
  <2>9. CASE RefreshReuse(t)
    BY <2>9 DEF RefreshReuse, AfterRefresh
  <2>10. CASE RefreshLogin(t)
    BY <2>10 DEF RefreshLogin
  <2>11. CASE Resend(t)
    BY <2>11 DEF Resend
  <2>12. CASE DiscardNothing(t)
    BY <2>12 DEF DiscardNothing
  <2>13. CASE Discard(t)
    BY <2>13 DEF Discard
  <2>14. CASE DiscardLogout(t)
    <3>1. /\ clock' = clock /\ reply' = reply
          /\ \A r \in Roles : \/ cachedId'[r] = NoSid
                              \/ cachedId'[r] = cachedId[r] /\ issuedAt'[r] = issuedAt[r]
      BY <2>14 DEF DiscardLogout
    <3> QED
      BY <1>0, <3>1, AgeKept
  <2>15. CASE FreshLoginReturns(t)
    BY <2>15 DEF FreshLoginReturns
  <2>16. CASE CloseLogout(t)
    <3>1. /\ clock' = clock /\ reply' = reply
          /\ \A r \in Roles : \/ cachedId'[r] = NoSid
                              \/ cachedId'[r] = cachedId[r] /\ issuedAt'[r] = issuedAt[r]
      BY <2>16 DEF CloseLogout
    <3> QED
      BY <1>0, <3>1, AgeKept
  <2>17. CASE CloseReturns(t)
    BY <2>17 DEF CloseReturns
  <2> QED
    BY <1>1, <2>1, <2>2, <2>3, <2>4, <2>5, <2>6, <2>7, <2>8, <2>9, <2>10, <2>11, <2>12, <2>13, <2>14, <2>15, <2>16, <2>17 DEF Step
<1>2. ASSUME NEW t \in Threads, Operation(t) PROVE AgeInv'
  <2>1. CASE StartRequest(t)
    BY <2>1 DEF StartRequest, Start
  <2>2. CASE StartFresh(t)
    BY <2>2 DEF StartFresh, Start
  <2>3. CASE FreshExit(t)
    <3>1. clock' = clock /\ reply' = reply /\ cachedId' = cachedId /\ issuedAt' = issuedAt
      BY <2>3 DEF FreshExit
    <3> QED
      BY <1>0, <3>1, AgeKept
  <2>4. CASE Close(t)
    BY <2>4 DEF Close, CachedIds
  <2> QED
    BY <1>2, <2>1, <2>2, <2>3, <2>4 DEF Operation
<1>3. ASSUME NEW s \in Sid, EmsDrops(s) PROVE AgeInv'
  BY <1>3 DEF EmsDrops
<1>4. CASE Tick
  <2>1. ASSUME NEW u \in Threads, reply[u] # NoSid
        PROVE  clock' - born[reply[u]] <= MaxLatency
    <3>1. reply[u] \in Sid /\ clock - born[reply[u]] < MaxLatency /\ clock' = clock + 1
      BY <1>4, <2>1 DEF Tick
    <3>2. born[reply[u]] \in Nat /\ clock \in Nat
      BY <3>1
    <3> HIDE DEF IInv, TypeOK
    <3> QED
      BY <3>1, <3>2
  <2>2. \A r \in Roles : cachedId[r] # NoSid => issuedAt[r] <= clock'
    BY <1>4 DEF Tick
  <2> QED
    BY <1>4, <2>1, <2>2 DEF Tick
<1>5. CASE Finished \/ UNCHANGED vars
  BY <1>5 DEF Finished, vars
<1> QED
  BY <1>1, <1>2, <1>3, <1>4, <1>5 DEF Next

\* A session that lives after a step lived before it, unless it is new.
LEMMA LivedBefore ==
  ASSUME IInv, [Next]_vars, NEW s \in Sid, Live(s)', state[s] # "unused"
  PROVE  Live(s)
  BY DeadStays DEF StaysDead, Live

\* A step loses track of s only by dropping it from the place that keeps it.
LEMMA TrackedKept ==
  ASSUME NEW s \in Sid, Tracked(s),
         \A r \in Roles : cachedId[r] = s => cachedId'[r] = s,
         \A u \in Threads : held[u] = s => held'[u] = s,
         \A u \in Threads : reply[u] = s => reply'[u] = s,
         \A u \in Threads : (pc[u] = "discardLogout" /\ sid[u] = s)
           => (pc'[u] = "discardLogout" /\ sid'[u] = s) \/ s \in leaked',
         s \in closing \cup abandoned \cup leaked => s \in (closing \cup abandoned \cup leaked)'
  PROVE  Tracked(s)'
  BY DEF Tracked

\* No action loses track of a live session.
LEMMA TrackedStep == IInv /\ [Next]_vars => NoUntrackedSession'
<1> SUFFICES ASSUME IInv, [Next]_vars PROVE NoUntrackedSession'
  OBVIOUS
<1>a. IInv /\ [Next]_vars
  OBVIOUS
<1> USE SidAssumption, TimeAssumption DEF IInv, TypeOK, LockInv, Locked, CallInv, CallOK, AgeInv, NoUntrackedSession, Tracked, Live, PC, SidAssumption, TimeAssumption,
            manager, call, ems, history, Finish, Goto, GotoWith, LockFree, Pop,
            EmsLogout, LogoutRaises, EmsLogin, Arrives
<1>1. ASSUME NEW t \in Threads, Step(t) PROVE NoUntrackedSession'
  <2>1. CASE ResolveHit(t)
    BY <2>1 DEF ResolveHit
  <2>2. CASE ResolveMiss(t)
    BY <2>2 DEF ResolveMiss
  <2>3. CASE ResolveStale(t)
    BY <2>3 DEF ResolveStale
  <2>4. CASE Evict(t)
    <3> SUFFICES ASSUME NEW s \in Sid, Live(s)' PROVE Tracked(s)'
      OBVIOUS
    <3>1. state[s] # "unused"
      BY <2>4 DEF Evict
    <3>2. Tracked(s)
      BY <1>a, <3>1, LivedBefore
    <3>3. /\ \A r \in Roles : cachedId[r] = s => cachedId'[r] = s
          /\ held' = held /\ reply' = reply
      BY <2>4 DEF Evict
    <3>4. \A u \in Threads : (pc[u] = "discardLogout" /\ sid[u] = s)
            => (pc'[u] = "discardLogout" /\ sid'[u] = s) \/ s \in leaked'
      BY <2>4 DEF Evict
    <3>5. s \in closing \cup abandoned \cup leaked => s \in (closing \cup abandoned \cup leaked)'
      BY <2>4 DEF Evict
    <3> QED
      BY <3>2, <3>3, <3>4, <3>5, TrackedKept
  <2>5. CASE LoginApplied(t)
    <3> SUFFICES ASSUME NEW s \in Sid, Live(s)' PROVE Tracked(s)'
      OBVIOUS
    <3>1. CASE state[s] = "unused"
      <4>1. reply'[t] = s
        BY <2>5, <3>1 DEF LoginApplied
      <4> QED
        BY <4>1
    <3>2. CASE state[s] # "unused"
      <4>1. Tracked(s)
        BY <1>a, <3>2, LivedBefore
      <4>2. /\ cachedId' = cachedId /\ held' = held /\ pc' = pc /\ sid' = sid
            /\ closing' = closing /\ abandoned' = abandoned /\ leaked' = leaked
            /\ \A u \in Threads : reply[u] = s => reply'[u] = s
        BY <2>5 DEF LoginApplied
      <4> QED
        BY <4>1, <4>2, TrackedKept
    <3> QED BY <3>1, <3>2
  <2>6. CASE LoginRaises(t)
    BY <2>6 DEF LoginRaises
  <2>7. CASE CachedLoginReturns(t)
    BY <2>7 DEF CachedLoginReturns, AfterRefresh
  <2>8. CASE Send(t)
    BY <2>8 DEF Send
  <2>9. CASE RefreshReuse(t)
    BY <2>9 DEF RefreshReuse, AfterRefresh
  <2>10. CASE RefreshLogin(t)
    BY <2>10 DEF RefreshLogin
  <2>11. CASE Resend(t)
    BY <2>11 DEF Resend
  <2>12. CASE DiscardNothing(t)
    BY <2>12 DEF DiscardNothing
  <2>13. CASE Discard(t)
    BY <2>13 DEF Discard
  <2>14. CASE DiscardLogout(t)
    <3> SUFFICES ASSUME NEW s \in Sid, Live(s)' PROVE Tracked(s)'
      OBVIOUS
    <3>1. state[s] # "unused"
      BY <2>14 DEF DiscardLogout
    <3>2. Tracked(s)
      BY <1>a, <3>1, LivedBefore
    <3>3. /\ \A r \in Roles : cachedId[r] = s => cachedId'[r] = s
          /\ held' = held /\ reply' = reply
      BY <2>14 DEF DiscardLogout
    <3>4. \A u \in Threads : (pc[u] = "discardLogout" /\ sid[u] = s)
            => (pc'[u] = "discardLogout" /\ sid'[u] = s) \/ s \in leaked'
      BY <2>14 DEF DiscardLogout
    <3>5. s \in closing \cup abandoned \cup leaked => s \in (closing \cup abandoned \cup leaked)'
      BY <2>14 DEF DiscardLogout
    <3> QED
      BY <3>2, <3>3, <3>4, <3>5, TrackedKept
  <2>15. CASE FreshLoginReturns(t)
    BY <2>15 DEF FreshLoginReturns
  <2>16. CASE CloseLogout(t)
    <3> SUFFICES ASSUME NEW s \in Sid, Live(s)' PROVE Tracked(s)'
      OBVIOUS
    <3>1. state[s] # "unused"
      BY <2>16 DEF CloseLogout
    <3>2. Tracked(s)
      BY <1>a, <3>1, LivedBefore
    <3>3. /\ \A r \in Roles : cachedId[r] = s => cachedId'[r] = s
          /\ held' = held /\ reply' = reply
      BY <2>16 DEF CloseLogout
    <3>4. \A u \in Threads : (pc[u] = "discardLogout" /\ sid[u] = s)
            => (pc'[u] = "discardLogout" /\ sid'[u] = s) \/ s \in leaked'
      BY <2>16 DEF CloseLogout
    <3>5. s \in closing \cup abandoned \cup leaked => s \in (closing \cup abandoned \cup leaked)'
      BY <2>16 DEF CloseLogout
    <3> QED
      BY <3>2, <3>3, <3>4, <3>5, TrackedKept
  <2>17. CASE CloseReturns(t)
    BY <2>17 DEF CloseReturns
  <2> QED
    BY <1>1, <2>1, <2>2, <2>3, <2>4, <2>5, <2>6, <2>7, <2>8, <2>9, <2>10, <2>11, <2>12, <2>13, <2>14, <2>15, <2>16, <2>17 DEF Step
<1>2. ASSUME NEW t \in Threads, Operation(t) PROVE NoUntrackedSession'
  <2>1. CASE StartRequest(t)
    BY <2>1 DEF StartRequest, Start
  <2>2. CASE StartFresh(t)
    BY <2>2 DEF StartFresh, Start
  <2>3. CASE FreshExit(t)
    <3> SUFFICES ASSUME NEW s \in Sid, Live(s)' PROVE Tracked(s)'
      OBVIOUS
    <3>1. CASE s = held[t]
      <4>1. s \in leaked'
        BY <2>3, <3>1 DEF FreshExit
      <4> QED
        BY <4>1
    <3>2. CASE s # held[t]
      <4>1. state[s] # "unused"
        BY <2>3, <3>2 DEF FreshExit
      <4>2. Tracked(s)
        BY <1>a, <4>1, LivedBefore
      <4>3. /\ cachedId' = cachedId /\ reply' = reply /\ pc' = pc /\ sid' = sid
            /\ \A u \in Threads : held[u] = s => held'[u] = s
            /\ closing' = closing /\ abandoned' = abandoned /\ leaked \subseteq leaked'
        BY <2>3, <3>2 DEF FreshExit
      <4> QED
        BY <4>2, <4>3, TrackedKept
    <3> QED BY <3>1, <3>2
  <2>4. CASE Close(t)
    <3> SUFFICES ASSUME NEW s \in Sid, Live(s)' PROVE Tracked(s)'
      OBVIOUS
    <3>1. state[s] # "unused" /\ closing = {}
      BY <2>4 DEF Close
    <3>2. Tracked(s)
      BY <1>a, <3>1, LivedBefore
    <3>3. /\ \A r \in Roles : cachedId[r] = s => s \in closing'
          /\ held' = held /\ reply' = reply /\ abandoned' = abandoned /\ leaked' = leaked
          /\ \A u \in Threads : pc[u] = "idle"
      BY <2>4 DEF Close, CachedIds
    <3> QED
      BY <3>1, <3>2, <3>3
  <2> QED
    BY <1>2, <2>1, <2>2, <2>3, <2>4 DEF Operation
<1>3. ASSUME NEW s \in Sid, EmsDrops(s) PROVE NoUntrackedSession'
  BY <1>3 DEF EmsDrops
<1>4. CASE Tick
  <2> SUFFICES ASSUME NEW s \in Sid, Live(s)' PROVE Tracked(s)'
    OBVIOUS
  <2>1. state[s] # "unused"
    BY <1>4 DEF Tick
  <2>2. Tracked(s)
    BY <1>a, <2>1, LivedBefore
  <2> QED
    BY <1>4, <2>2 DEF Tick
<1>5. CASE Finished \/ UNCHANGED vars
  BY <1>5 DEF Finished, vars
<1> QED
  BY <1>1, <1>2, <1>3, <1>4, <1>5 DEF Next

\* What a step leaves of the order of the ids: no id is issued, the cache
\* fills no entry, and no call resolves one or begins to hold a login's id.
LEMMA OrderKept ==
  ASSUME TypeOK, OrderInv, \A x \in Sid : state'[x] # "unused" <=> state[x] # "unused",
         closing' \subseteq closing, \A u \in Threads : held'[u] \in {held[u], NoSid},
         \A r \in Roles : cachedId'[r] = NoSid \/ cachedId'[r] = cachedId[r],
         \A u \in Threads : pc'[u] \in {"send", "refresh"}
            => pc[u] \in {"send", "refresh"} /\ sid'[u] = sid[u] /\ role'[u] = role[u]
                 /\ role[u] \in Roles,
         \A u \in Threads : (pc'[u] \in {"login", "relogin"} /\ reply'[u] # NoSid)
            => pc[u] \in {"login", "relogin"} /\ reply'[u] = reply[u]
  PROVE  OrderInv'
  BY DEF OrderInv, TypeOK

\* Every action keeps the order of the ids.
LEMMA OrderStep == IInv /\ [Next]_vars => OrderInv'
<1> SUFFICES ASSUME IInv, [Next]_vars PROVE OrderInv'
  OBVIOUS
<1>0. TypeOK /\ OrderInv
  BY DEF IInv
<1> USE SidAssumption DEF IInv, TypeOK, OrderInv, LockInv, Locked, CallInv, CallOK, AgeInv, PC, Methods, SidAssumption,
            manager, call, ems, history, Finish, Goto, GotoWith, LockFree, Pop,
            EmsLogout, LogoutRaises, EmsLogin, Arrives
<1>1. ASSUME NEW t \in Threads, Step(t) PROVE OrderInv'
  <2>1. CASE ResolveHit(t)
    <3>a. /\ cachedId' = cachedId /\ state' = state /\ reply' = reply
          /\ closing' = closing /\ held' = held /\ role' = role
          /\ sid' = [sid EXCEPT ![t] = cachedId[role[t]]]
          /\ pc' = [pc EXCEPT ![t] = "send"]
      BY <2>1 DEF ResolveHit
    <3>b. lock = NoThread /\ pc[t] = "resolve" /\ cachedId[role[t]] # NoSid
      BY <2>1 DEF ResolveHit
    <3>c. \A u \in Threads : ~(pc[u] \in {"login", "relogin"})
      BY <3>b, ThreadAssumption DEF ThreadAssumption
    <3>d. role[t] \in Roles
      BY <3>b
    <3>1. cachedId[role[t]] \in Sid
      BY <3>b, <3>d
    <3>2. ASSUME NEW u \in Threads, pc'[u] \in {"send", "refresh"}, cachedId'[role'[u]] # NoSid
          PROVE  sid'[u] <= cachedId'[role'[u]]
      <4>1. CASE u = t
        <5>1. sid'[u] = cachedId'[role'[u]] /\ sid'[u] \in Nat
          BY <3>a, <3>1, <4>1
        <5> QED BY <5>1
      <4>2. CASE u # t
        <5>1. sid'[u] = sid[u] /\ pc'[u] = pc[u] /\ role'[u] = role[u] /\ cachedId' = cachedId
          BY <3>a, <4>2
        <5> QED BY <3>2, <5>1
      <4> QED BY <4>1, <4>2
    <3>3. \A u \in Threads : ~(pc'[u] \in {"login", "relogin"})
      BY <3>a, <3>c
    <3> QED
      BY <1>0, <3>a, <3>2, <3>3
  <2>2. CASE ResolveMiss(t)
    BY <2>2 DEF ResolveMiss
  <2>3. CASE ResolveStale(t)
    BY <2>3 DEF ResolveStale
  <2>4. CASE Evict(t)
    <3>1. /\ \A x \in Sid : state'[x] # "unused" <=> state[x] # "unused"
          /\ \A r \in Roles : cachedId'[r] = NoSid \/ cachedId'[r] = cachedId[r]
          /\ closing' \subseteq closing /\ \A u \in Threads : held'[u] \in {held[u], NoSid}
      BY <2>4 DEF Evict
    <3>2. /\ \A u \in Threads : pc'[u] \in {"send", "refresh"}
                => pc[u] \in {"send", "refresh"} /\ sid'[u] = sid[u] /\ role'[u] = role[u]
                     /\ role[u] \in Roles
      BY <2>4 DEF Evict
    <3>3. /\ \A u \in Threads : (pc'[u] \in {"login", "relogin"} /\ reply'[u] # NoSid)
                => pc[u] \in {"login", "relogin"} /\ reply'[u] = reply[u]
      BY <2>4 DEF Evict
    <3> QED
      BY <1>0, <3>1, <3>2, <3>3, OrderKept
  <2>5. CASE LoginApplied(t)
    <3>1. PICK s \in Sid : EmsLogin(s) /\ reply' = [reply EXCEPT ![t] = s]
      BY <2>5 DEF LoginApplied
    <3>2. /\ cachedId' = cachedId /\ pc' = pc /\ role' = role /\ sid' = sid
          /\ closing' = closing /\ held' = held /\ state' = [state EXCEPT ![s] = "active"]
      BY <2>5, <3>1 DEF LoginApplied
    <3>3. \A x \in Sid : state[x] # "unused" => x < s
      BY <3>1
    <3>4. \A x, y \in Sid : x < y /\ state'[y] # "unused" => state'[x] # "unused"
      BY <3>1, <3>2
    <3>5. \A u \in Threads : pc'[u] \in {"send", "refresh"} => sid'[u] \in Sid /\ sid'[u] < s
      BY <3>2, <3>3
    <3>6. \A u \in Threads : u # t => reply'[u] = reply[u]
      BY <3>1
    <3>7. reply'[t] = s
      BY <3>1
    <3>8. \A u, v \in Threads : (pc'[u] \in {"login", "relogin"} /\ reply'[u] # NoSid
               /\ pc'[v] \in {"send", "refresh"}) => sid'[v] < reply'[u]
      BY <3>2, <3>5, <3>6, <3>7
    <3> QED
      BY <3>2, <3>4, <3>8
  <2>6. CASE LoginRaises(t)
    BY <2>6 DEF LoginRaises
  <2>7. CASE CachedLoginReturns(t)
    <3>0. /\ role[t] \in Roles /\ reply[t] \in Sid /\ state' = state
          /\ cachedId' = [cachedId EXCEPT ![role[t]] = reply[t]]
      BY <2>7 DEF CachedLoginReturns
    <3>1. \A u \in Threads : pc'[u] \in {"send", "refresh"} =>
            \/ u = t /\ sid'[u] = reply[t] /\ role'[u] = role[t]
            \/ pc[u] \in {"send", "refresh"} /\ sid'[u] = sid[u] /\ role'[u] = role[u]
      BY <2>7 DEF CachedLoginReturns
    <3>2. \A u \in Threads : pc[u] \in {"send", "refresh"} => sid[u] < reply[t]
      BY <2>7 DEF CachedLoginReturns
    <3>3. \A u \in Threads : ~(pc'[u] \in {"login", "relogin"} /\ reply'[u] # NoSid)
      BY <2>7 DEF CachedLoginReturns
    <3>4. ASSUME NEW u \in Threads, pc'[u] \in {"send", "refresh"}, cachedId'[role'[u]] # NoSid
          PROVE  sid'[u] <= cachedId'[role'[u]]
      <4>1. CASE u = t /\ sid'[u] = reply[t] /\ role'[u] = role[t]
        <5>1. cachedId'[role[t]] = reply[t] /\ reply[t] \in Nat
          BY <3>0
        <5> QED
          BY <4>1, <5>1
      <4>2. CASE pc[u] \in {"send", "refresh"} /\ sid'[u] = sid[u] /\ role'[u] = role[u]
        <5>1. role[u] \in Roles /\ sid[u] \in Sid
          BY <4>2
        <5>2. CASE role[u] = role[t]
          <6>1. cachedId'[role[t]] = reply[t] /\ reply[t] \in Nat /\ sid[u] \in Nat
            BY <3>0, <5>1
          <6> QED
            BY <3>2, <4>2, <5>2, <6>1
        <5>3. CASE role[u] # role[t]
          BY <3>0, <3>4, <4>2, <5>1, <5>3
        <5> QED BY <5>2, <5>3
      <4> QED BY <3>1, <3>4, <4>1, <4>2
    <3>5. closing' = closing /\ held' = held
      BY <2>7 DEF CachedLoginReturns
    <3> QED
      BY <1>0, <3>0, <3>3, <3>4, <3>5
  <2>8. CASE Send(t)
    BY <2>8 DEF Send
  <2>9. CASE RefreshReuse(t)
    <3>1. /\ \A x \in Sid : state'[x] # "unused" <=> state[x] # "unused"
          /\ \A r \in Roles : cachedId'[r] = NoSid \/ cachedId'[r] = cachedId[r]
          /\ closing' \subseteq closing /\ \A u \in Threads : held'[u] \in {held[u], NoSid}
      BY <2>9 DEF RefreshReuse, AfterRefresh
    <3>2. /\ \A u \in Threads : pc'[u] \in {"send", "refresh"}
                => pc[u] \in {"send", "refresh"} /\ sid'[u] = sid[u] /\ role'[u] = role[u]
                     /\ role[u] \in Roles
      BY <2>9 DEF RefreshReuse, AfterRefresh
    <3>3. /\ \A u \in Threads : (pc'[u] \in {"login", "relogin"} /\ reply'[u] # NoSid)
                => pc[u] \in {"login", "relogin"} /\ reply'[u] = reply[u]
      BY <2>9 DEF RefreshReuse, AfterRefresh
    <3> QED
      BY <1>0, <3>1, <3>2, <3>3, OrderKept
  <2>10. CASE RefreshLogin(t)
    BY <2>10 DEF RefreshLogin
  <2>11. CASE Resend(t)
    BY <2>11 DEF Resend
  <2>12. CASE DiscardNothing(t)
    BY <2>12 DEF DiscardNothing
  <2>13. CASE Discard(t)
    BY <2>13 DEF Discard
  <2>14. CASE DiscardLogout(t)
    <3>1. /\ \A x \in Sid : state'[x] # "unused" <=> state[x] # "unused"
          /\ \A r \in Roles : cachedId'[r] = NoSid \/ cachedId'[r] = cachedId[r]
          /\ closing' \subseteq closing /\ \A u \in Threads : held'[u] \in {held[u], NoSid}
      BY <2>14 DEF DiscardLogout
    <3>2. /\ \A u \in Threads : pc'[u] \in {"send", "refresh"}
                => pc[u] \in {"send", "refresh"} /\ sid'[u] = sid[u] /\ role'[u] = role[u]
                     /\ role[u] \in Roles
      BY <2>14 DEF DiscardLogout
    <3>3. /\ \A u \in Threads : (pc'[u] \in {"login", "relogin"} /\ reply'[u] # NoSid)
                => pc[u] \in {"login", "relogin"} /\ reply'[u] = reply[u]
      BY <2>14 DEF DiscardLogout
    <3> QED
      BY <1>0, <3>1, <3>2, <3>3, OrderKept
  <2>15. CASE FreshLoginReturns(t)
    BY <2>15 DEF FreshLoginReturns
  <2>16. CASE CloseLogout(t)
    <3>1. /\ \A x \in Sid : state'[x] # "unused" <=> state[x] # "unused"
          /\ \A r \in Roles : cachedId'[r] = NoSid \/ cachedId'[r] = cachedId[r]
          /\ closing' \subseteq closing /\ \A u \in Threads : held'[u] \in {held[u], NoSid}
      BY <2>16 DEF CloseLogout
    <3>2. /\ \A u \in Threads : pc'[u] \in {"send", "refresh"}
                => pc[u] \in {"send", "refresh"} /\ sid'[u] = sid[u] /\ role'[u] = role[u]
                     /\ role[u] \in Roles
      BY <2>16 DEF CloseLogout
    <3>3. /\ \A u \in Threads : (pc'[u] \in {"login", "relogin"} /\ reply'[u] # NoSid)
                => pc[u] \in {"login", "relogin"} /\ reply'[u] = reply[u]
      BY <2>16 DEF CloseLogout
    <3> QED
      BY <1>0, <3>1, <3>2, <3>3, OrderKept
  <2>17. CASE CloseReturns(t)
    BY <2>17 DEF CloseReturns
  <2> QED
    BY <1>1, <2>1, <2>2, <2>3, <2>4, <2>5, <2>6, <2>7, <2>8, <2>9, <2>10, <2>11, <2>12, <2>13, <2>14, <2>15, <2>16, <2>17 DEF Step
<1>2. ASSUME NEW t \in Threads, Operation(t) PROVE OrderInv'
  <2>1. CASE StartRequest(t)
    BY <2>1 DEF StartRequest, Start
  <2>2. CASE StartFresh(t)
    BY <2>2 DEF StartFresh, Start
  <2>3. CASE FreshExit(t)
    <3>1. /\ \A x \in Sid : state'[x] # "unused" <=> state[x] # "unused"
          /\ \A r \in Roles : cachedId'[r] = NoSid \/ cachedId'[r] = cachedId[r]
          /\ closing' \subseteq closing /\ \A u \in Threads : held'[u] \in {held[u], NoSid}
      BY <2>3 DEF FreshExit
    <3>2. /\ \A u \in Threads : pc'[u] \in {"send", "refresh"}
                => pc[u] \in {"send", "refresh"} /\ sid'[u] = sid[u] /\ role'[u] = role[u]
                     /\ role[u] \in Roles
      BY <2>3 DEF FreshExit
    <3>3. /\ \A u \in Threads : (pc'[u] \in {"login", "relogin"} /\ reply'[u] # NoSid)
                => pc[u] \in {"login", "relogin"} /\ reply'[u] = reply[u]
      BY <2>3 DEF FreshExit
    <3> QED
      BY <1>0, <3>1, <3>2, <3>3, OrderKept
  <2>4. CASE Close(t)
    BY <2>4 DEF Close, CachedIds
  <2> QED
    BY <1>2, <2>1, <2>2, <2>3, <2>4 DEF Operation
<1>3. ASSUME NEW s \in Sid, EmsDrops(s) PROVE OrderInv'
  BY <1>3 DEF EmsDrops
<1>4. CASE Tick
  BY <1>4 DEF Tick
<1>5. CASE Finished \/ UNCHANGED vars
  BY <1>5 DEF Finished, vars
<1> QED
  BY <1>1, <1>2, <1>3, <1>4, <1>5 DEF Next

\* No action delivers a mutating request a second time.
LEMMA SeenStep == IInv /\ [Next]_vars => MutationSeenOnce'
<1> SUFFICES ASSUME IInv, [Next]_vars PROVE MutationSeenOnce'
  OBVIOUS
<1> USE DEF IInv, TypeOK, ArrivalInv, MutationSeenOnce, PC, Methods,
            manager, call, ems, history, Finish, Goto, GotoWith, LockFree, Pop,
            EmsLogout, LogoutRaises, EmsLogin, Arrives
<1>1. ASSUME NEW t \in Threads, Step(t) PROVE MutationSeenOnce'
  <2>1. CASE ResolveHit(t)
    BY <2>1 DEF ResolveHit
  <2>2. CASE ResolveMiss(t)
    BY <2>2 DEF ResolveMiss
  <2>3. CASE ResolveStale(t)
    BY <2>3 DEF ResolveStale
  <2>4. CASE Evict(t)
    BY <2>4 DEF Evict
  <2>5. CASE LoginApplied(t)
    BY <2>5 DEF LoginApplied
  <2>6. CASE LoginRaises(t)
    BY <2>6 DEF LoginRaises
  <2>7. CASE CachedLoginReturns(t)
    BY <2>7 DEF CachedLoginReturns, AfterRefresh
  <2>8. CASE Send(t)
    BY <2>8 DEF Send
  <2>9. CASE RefreshReuse(t)
    BY <2>9 DEF RefreshReuse, AfterRefresh
  <2>10. CASE RefreshLogin(t)
    BY <2>10 DEF RefreshLogin
  <2>11. CASE Resend(t)
    BY <2>11 DEF Resend
  <2>12. CASE DiscardNothing(t)
    BY <2>12 DEF DiscardNothing
  <2>13. CASE Discard(t)
    BY <2>13 DEF Discard
  <2>14. CASE DiscardLogout(t)
    BY <2>14 DEF DiscardLogout
  <2>15. CASE FreshLoginReturns(t)
    BY <2>15 DEF FreshLoginReturns
  <2>16. CASE CloseLogout(t)
    BY <2>16 DEF CloseLogout
  <2>17. CASE CloseReturns(t)
    BY <2>17 DEF CloseReturns
  <2> QED
    BY <1>1, <2>1, <2>2, <2>3, <2>4, <2>5, <2>6, <2>7, <2>8, <2>9, <2>10, <2>11, <2>12, <2>13, <2>14, <2>15, <2>16, <2>17 DEF Step
<1>2. ASSUME NEW t \in Threads, Operation(t) PROVE MutationSeenOnce'
  <2>1. CASE StartRequest(t)
    BY <2>1 DEF StartRequest, Start
  <2>2. CASE StartFresh(t)
    BY <2>2 DEF StartFresh, Start
  <2>3. CASE FreshExit(t)
    BY <2>3 DEF FreshExit
  <2>4. CASE Close(t)
    BY <2>4 DEF Close, CachedIds
  <2> QED
    BY <1>2, <2>1, <2>2, <2>3, <2>4 DEF Operation
<1>3. ASSUME NEW s \in Sid, EmsDrops(s) PROVE MutationSeenOnce'
  BY <1>3 DEF EmsDrops
<1>4. CASE Tick
  BY <1>4 DEF Tick
<1>5. CASE Finished \/ UNCHANGED vars
  BY <1>5 DEF Finished, vars
<1> QED
  BY <1>1, <1>2, <1>3, <1>4, <1>5 DEF Next

\* Nothing is logged in, cached or under way at first.
LEMMA InitInv == Init => IInv
<1> SUFFICES ASSUME Init PROVE IInv
  OBVIOUS
<1>1. closed \in BOOLEAN
  BY DEF Init
<1>2. TypeOK
  BY <1>1, BoundAssumption DEF Init, TypeOK, PC, Methods, BoundAssumption
<1>3. LockInv /\ ArrivalInv /\ MutationSeenOnce
  BY ThreadAssumption DEF Init, LockInv, Locked, ArrivalInv, MutationSeenOnce, ThreadAssumption
<1>4. CallInv /\ AgeInv
  BY DEF Init, CallInv, CallOK, AgeInv
<1>6. OrderInv
  BY DEF Init, OrderInv
<1>5. NoUntrackedSession
  BY DEF Init, NoUntrackedSession, Live
<1> QED
  BY <1>2, <1>3, <1>4, <1>5, <1>6 DEF IInv

\* The invariant holds in every reachable state: it holds at first and each
\* step keeps each of its conjuncts.
THEOREM Invariance == Spec => []IInv
<1>1. IInv /\ [Next]_vars => IInv'
  BY TypeStep, LockStep, CallStep, ArrivalStep, AgeStep, OrderStep, TrackedStep, SeenStep DEF IInv
<1> QED
  BY InitInv, <1>1, PTL DEF Spec

\* Type correctness: no operation of the manager, of a request or of the EMS
\* leaves a variable outside its type.
THEOREM TypeCorrect == Spec => []TypeOK
<1>1. IInv => TypeOK
  BY DEF IInv
<1> QED
  BY Invariance, <1>1, PTL

\* No session leak (session.py:100-181): with any number of threads and logins
\* each session the EMS accepts has an owner that will log it out, unless a
\* fault lost its login answer or its logout.
THEOREM NoSessionLeak == Spec => []NoUntrackedSession
<1>1. IInv => NoUntrackedSession
  BY DEF IInv
<1> QED
  BY Invariance, <1>1, PTL

\* The refresh path of EmsApiClient.request (ems_api_client.py:99-120) never
\* shows the EMS a mutating request twice, whatever the threads do.
THEOREM MutationsAtMostOnce == Spec => []MutationSeenOnce
<1>1. IInv => MutationSeenOnce
  BY DEF IInv
<1> QED
  BY Invariance, <1>1, PTL

\* Only a cache hit, the answer of a login and the reuse of an entry send a
\* thread's request.
LEMMA WhoSends ==
  ASSUME TypeOK, [Next]_vars, NEW t \in Threads, pc'[t] \in {"send", "resend"}, pc'[t] # pc[t]
  PROVE  ResolveHit(t) \/ CachedLoginReturns(t) \/ RefreshReuse(t)
<1> USE DEF TypeOK, Finish, Goto, GotoWith, call
<1>1. ASSUME NEW u \in Threads, Step(u) PROVE ResolveHit(t) \/ CachedLoginReturns(t) \/ RefreshReuse(t)
  <2>1. CASE ResolveHit(u)
    BY <2>1 DEF ResolveHit
  <2>2. CASE CachedLoginReturns(u)
    BY <2>2 DEF CachedLoginReturns, AfterRefresh
  <2>3. CASE ResolveMiss(u)
    BY <2>3 DEF ResolveMiss
  <2>4. CASE ResolveStale(u)
    BY <2>4 DEF ResolveStale
  <2>5. CASE Evict(u)
    BY <2>5 DEF Evict
  <2>6. CASE LoginApplied(u)
    BY <2>6 DEF LoginApplied
  <2>7. CASE LoginRaises(u)
    BY <2>7 DEF LoginRaises
  <2>8. CASE Send(u)
    BY <2>8 DEF Send
  <2>9. CASE RefreshReuse(u)
    BY <2>9 DEF RefreshReuse, AfterRefresh
  <2>10. CASE RefreshLogin(u)
    BY <2>10 DEF RefreshLogin
  <2>11. CASE Resend(u)
    BY <2>11 DEF Resend
  <2>12. CASE DiscardNothing(u)
    BY <2>12 DEF DiscardNothing
  <2>13. CASE Discard(u)
    BY <2>13 DEF Discard
  <2>14. CASE DiscardLogout(u)
    BY <2>14 DEF DiscardLogout
  <2>15. CASE FreshLoginReturns(u)
    BY <2>15 DEF FreshLoginReturns
  <2>16. CASE CloseLogout(u)
    BY <2>16 DEF CloseLogout
  <2>17. CASE CloseReturns(u)
    BY <2>17 DEF CloseReturns
  <2> QED
    BY <1>1, <2>1, <2>2, <2>3, <2>4, <2>5, <2>6, <2>7, <2>8, <2>9, <2>10, <2>11, <2>12, <2>13, <2>14, <2>15, <2>16, <2>17 DEF Step
<1>2. ASSUME NEW u \in Threads, Operation(u) PROVE ResolveHit(t) \/ CachedLoginReturns(t) \/ RefreshReuse(t)
  <2>1. CASE StartRequest(u) \/ StartFresh(u)
    BY <2>1 DEF StartRequest, StartFresh, Start
  <2>2. CASE FreshExit(u) \/ Close(u)
    BY <2>2 DEF FreshExit, Close
  <2> QED
    BY <1>2, <2>1, <2>2 DEF Operation
<1>3. ASSUME NEW s \in Sid, EmsDrops(s) PROVE ResolveHit(t) \/ CachedLoginReturns(t) \/ RefreshReuse(t)
  BY <1>3 DEF EmsDrops
<1>4. CASE Tick
  BY <1>4 DEF Tick
<1>5. CASE Finished \/ UNCHANGED vars
  BY <1>5 DEF Finished, vars
<1> QED
  BY <1>1, <1>2, <1>3, <1>4, <1>5 DEF Next

\* cached_session_id (session.py:143-154) and the login of a refresh hand out
\* an id only within the EMS's absolute lifetime, as long as the proactive
\* refresh age and the wait for a login's answer together stay within it; what
\* refresh_after_not_authorized reuses unchecked (session.py:160-161) is at
\* least of a later login than the id that was refused.
THEOREM HandedOut == Spec => HandedOutFreshOrNewer
<1> DEFINE Kept == \A t \in Threads :
       (pc'[t] \in {"send", "resend"} /\ pc'[t] # pc[t])
         => IF pc[t] = "refresh" THEN sid'[t] > sid[t]
                                 ELSE clock - born[sid'[t]] < Lifetime
<1>1. ASSUME IInv, [Next]_vars, NEW t \in Threads, pc'[t] \in {"send", "resend"}, pc'[t] # pc[t]
      PROVE  IF pc[t] = "refresh" THEN sid'[t] > sid[t]
                                  ELSE clock - born[sid'[t]] < Lifetime
  <2>1. ResolveHit(t) \/ CachedLoginReturns(t) \/ RefreshReuse(t)
    BY <1>1, WhoSends DEF IInv
  <2>2. CASE ResolveHit(t)
    <3>1. role[t] \in Roles /\ sid'[t] = cachedId[role[t]] /\ pc[t] = "resolve"
      BY <1>1, <2>2 DEF ResolveHit, GotoWith, IInv, TypeOK, CallInv, CallOK
    <3>2. /\ clock - issuedAt[role[t]] < Refresh
          /\ issuedAt[role[t]] - born[sid'[t]] <= MaxLatency
      BY <1>1, <2>2, <3>1 DEF ResolveHit, Fresh, IInv, AgeInv
    <3>3. clock \in Nat /\ issuedAt[role[t]] \in Nat /\ born[sid'[t]] \in Nat
      BY <1>1, <2>2, <3>1 DEF ResolveHit, IInv, TypeOK
    <3> QED
      BY <3>1, <3>2, <3>3, TimeAssumption DEF TimeAssumption
  <2>3. CASE CachedLoginReturns(t)
    <3>1. sid'[t] = reply[t] /\ reply[t] \in Sid /\ pc[t] # "refresh"
      BY <1>1, <2>3 DEF CachedLoginReturns, Finish, GotoWith, IInv, TypeOK
    <3>2. clock - born[sid'[t]] <= MaxLatency /\ clock \in Nat /\ born[sid'[t]] \in Nat
      BY <1>1, <2>3, <3>1 DEF CachedLoginReturns, IInv, TypeOK, AgeInv
    <3> QED
      BY <3>1, <3>2, TimeAssumption DEF TimeAssumption
  <2>4. CASE RefreshReuse(t)
    <3>1. role[t] \in Roles /\ sid'[t] = cachedId[role[t]] /\ pc[t] = "refresh"
      BY <1>1, <2>4 DEF RefreshReuse, GotoWith, Finish, IInv, TypeOK, CallInv, CallOK
    <3>2. sid[t] <= cachedId[role[t]] /\ sid[t] # cachedId[role[t]]
      BY <2>4, <3>1, <1>1 DEF RefreshReuse, IInv, OrderInv
    <3>3. sid[t] \in Nat /\ cachedId[role[t]] \in Nat
      BY <1>1, <2>4, <3>1, SidAssumption DEF RefreshReuse, IInv, TypeOK, CallInv, CallOK, SidAssumption
    <3> QED
      BY <3>1, <3>2, <3>3
  <2> QED BY <2>1, <2>2, <2>3, <2>4
<1>2. IInv /\ [Next]_vars => [Kept]_vars
  BY <1>1
<1> QED
  BY Invariance, <1>2, PTL DEF Spec, HandedOutFreshOrNewer

\* Who may take an entry out of the cache: the proactive refresh, a refresh
\* after a rejection, a fresh flow's discard, and close().
LEMMA WhoPops ==
  ASSUME IInv, [Next]_vars, NEW r \in Roles, cachedId[r] # NoSid, cachedId'[r] = NoSid
  PROVE  \E t \in Threads :
            \/ pc[t] = "evict" \/ pc'[t] \in {"discardLogout", "closing"}
            \/ RefreshLogin(t) /\ role[t] = r
<1> DEFINE Popper == \E t \in Threads :
                       \/ pc[t] = "evict" \/ pc'[t] \in {"discardLogout", "closing"}
                       \/ RefreshLogin(t) /\ role[t] = r
<1>0. TypeOK /\ CallInv
  BY DEF IInv
<1> USE DEF TypeOK, CallInv, CallOK, manager, Pop, Goto, GotoWith
<1>1. ASSUME NEW u \in Threads, Step(u) PROVE Popper
  <2>1. CASE ResolveHit(u)
    BY <2>1 DEF ResolveHit
  <2>2. CASE ResolveMiss(u)
    BY <2>2 DEF ResolveMiss
  <2>3. CASE ResolveStale(u)
    BY <2>3 DEF ResolveStale
  <2>4. CASE LoginApplied(u)
    BY <2>4 DEF LoginApplied
  <2>5. CASE LoginRaises(u)
    BY <2>5 DEF LoginRaises
  <2>6. CASE Send(u)
    BY <2>6 DEF Send
  <2>7. CASE RefreshReuse(u)
    BY <2>7 DEF RefreshReuse
  <2>8. CASE Resend(u)
    BY <2>8 DEF Resend
  <2>9. CASE DiscardNothing(u)
    BY <2>9 DEF DiscardNothing
  <2>10. CASE DiscardLogout(u)
    BY <2>10 DEF DiscardLogout
  <2>11. CASE FreshLoginReturns(u)
    BY <2>11 DEF FreshLoginReturns
  <2>12. CASE CloseLogout(u)
    BY <2>12 DEF CloseLogout
  <2>13. CASE CloseReturns(u)
    BY <2>13 DEF CloseReturns
  <2>14. CASE Evict(u)
    BY <2>14 DEF Evict
  <2>15. CASE CachedLoginReturns(u)
    BY <1>0, <2>15 DEF CachedLoginReturns
  <2>16. CASE RefreshLogin(u)
    BY <1>0, <2>16 DEF RefreshLogin
  <2>17. CASE Discard(u)
    BY <1>0, <2>17 DEF Discard
  <2> QED
    BY <1>1, <2>1, <2>2, <2>3, <2>4, <2>5, <2>6, <2>7, <2>8, <2>9, <2>10, <2>11, <2>12, <2>13, <2>14, <2>15, <2>16, <2>17 DEF Step
<1>2. ASSUME NEW u \in Threads, Operation(u) PROVE Popper
  <2>1. CASE StartRequest(u) \/ StartFresh(u)
    BY <2>1 DEF StartRequest, StartFresh, Start
  <2>2. CASE FreshExit(u)
    BY <2>2 DEF FreshExit
  <2>3. CASE Close(u)
    BY <1>0, <2>3 DEF Close
  <2> QED
    BY <1>2, <2>1, <2>2, <2>3 DEF Operation
<1>3. ASSUME NEW s \in Sid, EmsDrops(s) PROVE Popper
  BY <1>3 DEF EmsDrops
<1>4. CASE Tick
  BY <1>4 DEF Tick
<1>5. CASE Finished \/ UNCHANGED vars
  BY <1>5 DEF Finished, vars
<1> QED
  BY <1>1, <1>2, <1>3, <1>4, <1>5 DEF Next

\* refresh_after_not_authorized (session.py:156-163) never drops a session
\* that works: it pops the entry only if it is the rejected id, and the role
\* policy asks for a refresh only where a live session would not be refused.
THEOREM RecoveryKeepsLive == Spec => LiveEntryKept
<1> DEFINE Kept == \A r \in Roles :
       (cachedId[r] # NoSid /\ Live(cachedId[r]) /\ cachedId'[r] = NoSid)
         => \E t \in Threads : \/ pc'[t] \in {"discardLogout", "closing"}
                               \/ pc[t] = "evict"
<1>1. ASSUME IInv, [Next]_vars, NEW r \in Roles, cachedId[r] # NoSid,
             Live(cachedId[r]), cachedId'[r] = NoSid
      PROVE  \E t \in Threads : pc'[t] \in {"discardLogout", "closing"} \/ pc[t] = "evict"
  <2>1. ASSUME NEW t \in Threads, RefreshLogin(t), role[t] = r PROVE FALSE
    <3>1. pc[t] = "refresh" /\ sid[t] = cachedId[r]
      BY <1>1, <2>1 DEF RefreshLogin
    <3>2. ~Live(sid[t])
      BY <1>1, <3>1 DEF IInv, CallInv, CallOK
    <3> QED
      BY <1>1, <3>1, <3>2
  <2> QED
    BY <1>1, <2>1, WhoPops
<1>2. IInv /\ [Next]_vars => [Kept]_vars
  BY <1>1
<1> QED
  BY Invariance, <1>2, PTL DEF Spec, LiveEntryKept
=============================================================================
