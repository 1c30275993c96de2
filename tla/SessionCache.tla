---------------------------- MODULE SessionCache ----------------------------
(***************************************************************************)
(* The process-local EMS session cache (clients/session.py, class          *)
(* SessionManager), the part of EmsApiClient.request that resolves a       *)
(* session, recovers from "Fail / Not authorized." and resends              *)
(* (clients/ems_api_client.py), and the session table of the EMS as the    *)
(* code and ADR 0001 rely on it: a session dies Lifetime after its login,  *)
(* and a login of the same account may kill it at any time.                *)
(*                                                                         *)
(* Several threads may share one manager (it takes an RLock in every       *)
(* operation).  A network call made while the lock is held is a step of    *)
(* its own, so requests of other threads, the clock and the EMS interleave *)
(* with it.  The transport retries inside one call are module              *)
(* TransportRetry; here a call is answered, or raises before or after the  *)
(* EMS has seen it.                                                        *)
(***************************************************************************)
EXTENDS Integers, FiniteSets

CONSTANTS
  Threads,      \* threads that share the manager
  Roles,        \* the session roles in use, a subset of SessionRole
  Sid,          \* session ids, numbered as the EMS issues them (bounds the logins)
  NoSid,        \* no session id
  NoThread,     \* the lock's owner when it is free
  Lifetime,     \* SESSION_ABSOLUTE_LIFETIME_SECONDS, in ticks
  Refresh,      \* proactive_refresh_seconds, in ticks
  MaxLatency,   \* longest wait for the answer of a login the EMS applied
  MaxClock,     \* bound on the clock
  MaxOps        \* bound on the operations the threads start

SessionRole == {"readwrite", "readonly", "noaccess"}
Methods == {"GET", "MUT"}   \* GET stands for GET and HEAD, MUT for the others

\* The constructor's check (session.py:75), the 60 seconds ADR 0001 leaves
\* for request latency, and what a model value must not be.
ASSUME RolesAssumption == Roles \subseteq SessionRole
ASSUME TimeAssumption ==
  /\ Lifetime \in Nat /\ Refresh \in Nat /\ MaxLatency \in Nat
  /\ 0 < Refresh /\ Refresh < Lifetime
  /\ Refresh + MaxLatency <= Lifetime
ASSUME BoundAssumption == MaxClock \in Nat /\ MaxOps \in Nat
ASSUME SidAssumption == Sid \subseteq Nat /\ NoSid \notin Sid
ASSUME ThreadAssumption == NoThread \notin Threads

VARIABLES
  \* the manager
  cachedId,     \* _cached[role].session_id, NoSid when the role is absent
  issuedAt,     \* _cached[role].issued_at
  lock,         \* the thread inside the RLock
  \* each thread's call
  pc, role, meth,
  sid,          \* the session id the call resolved or is logging out
  reply,        \* the id of a login the EMS applied and has not answered yet
  held,         \* the id of the fresh session whose context is open
  closing,      \* entries close() has yet to log out
  closed,       \* close() has ended
  \* the EMS and the clock
  state, born, clock,
  \* history and bounds
  arrivals,     \* how often the EMS has seen the thread's latest request
  leaked,       \* sessions whose own login answer or logout call was lost
  abandoned,    \* sessions close() dropped without calling logout
  budget        \* operations still allowed to start

manager == <<cachedId, issuedAt, lock>>
call    == <<role, meth, sid>>
ems     == <<state, born>>
history == <<arrivals, leaked, abandoned>>
vars    == <<cachedId, issuedAt, lock, pc, role, meth, sid, reply, held, closing,
             closed, state, born, clock, arrivals, leaked, abandoned, budget>>

-----------------------------------------------------------------------------
(* The EMS (external): which sessions it accepts and what each role may do *)

Live(s) == state[s] = "active" /\ clock - born[s] < Lifetime

Permitted(r, m) == r = "readwrite" \/ (r = "readonly" /\ m = "GET")

\* POST /usersession creates session s.
EmsLogin(s) ==
  /\ state[s] = "unused" /\ \A x \in Sid : x < s => state[x] # "unused"
  /\ state' = [state EXCEPT ![s] = "active"]
  /\ born' = [born EXCEPT ![s] = clock]

\* DELETE /usersession, when it reaches the EMS.
EmsLogout(s) ==
  /\ state' = [state EXCEPT ![s] = "gone"]
  /\ UNCHANGED born

\* A logout whose caller gets an exception: the EMS may have applied it.
LogoutRaises(s) ==
  \/ EmsLogout(s) /\ UNCHANGED leaked
  \/ UNCHANGED ems /\ leaked' = leaked \cup {s}

-----------------------------------------------------------------------------
(* CachedSessionHandle and SessionManager *)

\* should_refresh_on_not_authorized: the role policy of ADR 0001.
ShouldRefreshAlways(r, m) == TRUE          \* mutant: no role policy
ShouldRefresh(r, m) ==
  \/ r = "readwrite"
  \/ r = "readonly" /\ m = "GET"

FreshAtBoundary(r) == clock - issuedAt[r] <= Refresh   \* mutant: one tick late
Fresh(r) == clock - issuedAt[r] < Refresh

LockFree == lock = NoThread

\* _cached.pop(role, None)
Pop(r) ==
  /\ cachedId' = [cachedId EXCEPT ![r] = NoSid]
  /\ issuedAt' = [issuedAt EXCEPT ![r] = 0]

\* The thread's operation returns or raises; its locals are gone.
Finish(t) ==
  /\ pc' = [pc EXCEPT ![t] = "idle"]
  /\ role' = [role EXCEPT ![t] = "none"]
  /\ sid' = [sid EXCEPT ![t] = NoSid]
  /\ UNCHANGED meth

Goto(t, label) ==
  /\ pc' = [pc EXCEPT ![t] = label]
  /\ UNCHANGED call

GotoWith(t, label, s) ==
  /\ pc' = [pc EXCEPT ![t] = label]
  /\ sid' = [sid EXCEPT ![t] = s]
  /\ UNCHANGED <<role, meth>>

Start(t, label, r, m) ==
  /\ pc[t] = "idle" /\ ~closed /\ budget > 0
  /\ budget' = budget - 1
  /\ pc' = [pc EXCEPT ![t] = label]
  /\ role' = [role EXCEPT ![t] = r]
  /\ meth' = [meth EXCEPT ![t] = m]
  /\ arrivals' = [arrivals EXCEPT ![t] = 0]
  /\ UNCHANGED <<manager, sid, reply, held, closing, closed, ems, clock, leaked, abandoned>>

\* request(..., session=handle): a common fixture's handle, or its first
\* current_session_id() when the fixture is created.
StartRequest(t) == \E r \in Roles, m \in Methods : Start(t, "resolve", r, m)

\* cached_session_id under the lock: hit, miss, or an entry that is too old.
ResolveHit(t) ==
  /\ pc[t] = "resolve" /\ LockFree
  /\ cachedId[role[t]] # NoSid /\ Fresh(role[t])
  /\ GotoWith(t, "send", cachedId[role[t]])
  /\ UNCHANGED <<manager, reply, held, closing, closed, ems, clock, history, budget>>

ResolveMiss(t) ==
  /\ pc[t] = "resolve" /\ LockFree
  /\ cachedId[role[t]] = NoSid
  /\ lock' = t
  /\ Goto(t, "login")
  /\ UNCHANGED <<cachedId, issuedAt, reply, held, closing, closed, ems, clock, history, budget>>

ResolveStale(t) ==
  /\ pc[t] = "resolve" /\ LockFree
  /\ cachedId[role[t]] # NoSid /\ ~Fresh(role[t])
  /\ lock' = t
  /\ Goto(t, "evict")
  /\ UNCHANGED <<cachedId, issuedAt, reply, held, closing, closed, ems, clock, history, budget>>

\* The old session is logged out first and popped after; when the logout
\* raises, the entry stays and the caller gets the exception.
Evict(t) ==
  /\ pc[t] = "evict"
  /\ \/ /\ EmsLogout(cachedId[role[t]])
        /\ Pop(role[t])
        /\ Goto(t, "login")
        /\ UNCHANGED lock
     \/ /\ EmsLogout(cachedId[role[t]]) \/ UNCHANGED ems
        /\ lock' = NoThread
        /\ Finish(t)
        /\ UNCHANGED <<cachedId, issuedAt>>
  /\ UNCHANGED <<reply, held, closing, closed, clock, history, budget>>

\* POST /usersession reaches the EMS, from _login_cached or a fresh context.
LoginApplied(t) ==
  /\ pc[t] \in {"login", "relogin", "fresh"} /\ reply[t] = NoSid
  /\ \E s \in Sid : EmsLogin(s) /\ reply' = [reply EXCEPT ![t] = s]
  /\ UNCHANGED <<manager, pc, call, held, closing, closed, clock, history, budget>>

\* The login raises, or its answer is not a Success with a session id.  A
\* session the EMS has created meanwhile is known to nobody.
LoginRaisesLocked(t) ==                    \* mutant: the lock is not released
  /\ pc[t] \in {"login", "relogin", "fresh"}
  /\ leaked' = leaked \cup ({reply[t]} \ {NoSid})
  /\ reply' = [reply EXCEPT ![t] = NoSid]
  /\ Finish(t)
  /\ UNCHANGED <<manager, held, closing, closed, ems, clock, arrivals, abandoned, budget>>

LoginRaises(t) ==
  /\ pc[t] \in {"login", "relogin", "fresh"}
  /\ leaked' = leaked \cup ({reply[t]} \ {NoSid})
  /\ reply' = [reply EXCEPT ![t] = NoSid]
  /\ lock' = IF lock = t THEN NoThread ELSE lock
  /\ Finish(t)
  /\ UNCHANGED <<cachedId, issuedAt, held, closing, closed, ems, clock, arrivals, abandoned, budget>>

\* After a refresh only GET and HEAD are resent.
AfterRefreshAlways(m) == "resend"          \* mutant: replay every method
AfterRefresh(m) == IF m = "GET" THEN "resend" ELSE "idle"

\* _login_cached's answer: the entry is stamped when the answer arrives.
CachedLoginReturns(t) ==
  /\ pc[t] \in {"login", "relogin"} /\ reply[t] # NoSid
  /\ cachedId' = [cachedId EXCEPT ![role[t]] = reply[t]]
  /\ issuedAt' = [issuedAt EXCEPT ![role[t]] = clock]
  /\ lock' = NoThread
  /\ reply' = [reply EXCEPT ![t] = NoSid]
  /\ IF pc[t] = "relogin" /\ AfterRefresh(meth[t]) = "idle"
     THEN Finish(t)
     ELSE GotoWith(t, IF pc[t] = "login" THEN "send" ELSE "resend", reply[t])
  /\ UNCHANGED <<held, closing, closed, ems, clock, history, budget>>

Arrives(t) == arrivals' = [arrivals EXCEPT ![t] = @ + 1]

\* The request with the id resolved earlier: answered (refused when the
\* session is dead or the role may not do this), or it raises.
Send(t) ==
  /\ pc[t] = "send"
  /\ \/ /\ Arrives(t)
        /\ IF (Live(sid[t]) /\ Permitted(role[t], meth[t])) \/ ~ShouldRefresh(role[t], meth[t])
           THEN Finish(t)
           ELSE Goto(t, "refresh")
     \/ Arrives(t) /\ Finish(t)
     \/ UNCHANGED arrivals /\ Finish(t)
  /\ UNCHANGED <<manager, reply, held, closing, closed, ems, clock, leaked, abandoned, budget>>

\* refresh_after_not_authorized: somebody else has replaced the rejected id.
RefreshReuse(t) ==
  /\ pc[t] = "refresh" /\ LockFree
  /\ cachedId[role[t]] \notin {NoSid, sid[t]}
  /\ IF AfterRefresh(meth[t]) = "idle"
     THEN Finish(t)
     ELSE GotoWith(t, "resend", cachedId[role[t]])
  /\ UNCHANGED <<manager, reply, held, closing, closed, ems, clock, history, budget>>

\* refresh_after_not_authorized: drop the entry (no logout) and log in.
RefreshLoginBlind(t) ==                    \* mutant: observed id not compared
  /\ pc[t] = "refresh" /\ LockFree
  /\ Pop(role[t])
  /\ lock' = t
  /\ Goto(t, "relogin")
  /\ UNCHANGED <<reply, held, closing, closed, ems, clock, history, budget>>

RefreshLogin(t) ==
  /\ pc[t] = "refresh" /\ LockFree
  /\ cachedId[role[t]] \in {NoSid, sid[t]}
  /\ Pop(role[t])
  /\ lock' = t
  /\ Goto(t, "relogin")
  /\ UNCHANGED <<reply, held, closing, closed, ems, clock, history, budget>>

\* The one resend; whatever comes back is the caller's.
Resend(t) ==
  /\ pc[t] = "resend"
  /\ Arrives(t) \/ UNCHANGED arrivals
  /\ Finish(t)
  /\ UNCHANGED <<manager, reply, held, closing, closed, ems, clock, leaked, abandoned, budget>>

\* role_session and credentials_session: discard the cached session of the
\* role, log in, hand the raw id to the body, log out in the end.
StartFresh(t) == held[t] = NoSid /\ \E r \in Roles : Start(t, "discard", r, "MUT")

DiscardNothing(t) ==
  /\ pc[t] = "discard" /\ LockFree
  /\ cachedId[role[t]] = NoSid
  /\ Goto(t, "fresh")
  /\ UNCHANGED <<manager, reply, held, closing, closed, ems, clock, history, budget>>

\* discard_cached_role pops the entry before it calls logout.
Discard(t) ==
  /\ pc[t] = "discard" /\ LockFree
  /\ cachedId[role[t]] # NoSid
  /\ Pop(role[t])
  /\ lock' = t
  /\ GotoWith(t, "discardLogout", cachedId[role[t]])
  /\ UNCHANGED <<reply, held, closing, closed, ems, clock, history, budget>>

DiscardLogout(t) ==
  /\ pc[t] = "discardLogout"
  /\ lock' = NoThread
  /\ \/ EmsLogout(sid[t]) /\ GotoWith(t, "fresh", NoSid) /\ UNCHANGED leaked
     \/ LogoutRaises(sid[t]) /\ Finish(t)
  /\ UNCHANGED <<cachedId, issuedAt, reply, held, closing, closed, clock, arrivals, abandoned, budget>>

FreshLoginReturns(t) ==
  /\ pc[t] = "fresh" /\ reply[t] # NoSid
  /\ held' = [held EXCEPT ![t] = reply[t]]
  /\ reply' = [reply EXCEPT ![t] = NoSid]
  /\ Finish(t)
  /\ UNCHANGED <<manager, closing, closed, ems, clock, history, budget>>

\* The context's finally: one logout, whether the body raised or not.
FreshExit(t) ==
  /\ pc[t] = "idle" /\ held[t] # NoSid
  /\ held' = [held EXCEPT ![t] = NoSid]
  /\ \/ EmsLogout(held[t]) /\ UNCHANGED leaked
     \/ LogoutRaises(held[t])
  /\ UNCHANGED <<manager, pc, call, reply, closing, closed, clock, arrivals, abandoned, budget>>

CachedIdsAndNone == {cachedId[r] : r \in Roles}   \* mutant: absent roles kept
CachedIds == {cachedId[r] : r \in Roles} \ {NoSid}

\* close(): the session-scoped fixture's teardown.  The dictionary is emptied
\* first, then each entry is logged out; an exception ends the loop.
Close(t) ==
  /\ ~closed /\ LockFree
  /\ \A u \in Threads : pc[u] = "idle" /\ held[u] = NoSid
  /\ closing' = CachedIds
  /\ cachedId' = [r \in Roles |-> NoSid]
  /\ issuedAt' = [r \in Roles |-> 0]
  /\ lock' = t
  /\ Goto(t, "closing")
  /\ UNCHANGED <<reply, held, closed, ems, clock, history, budget>>

CloseLogout(t) ==
  /\ pc[t] = "closing"
  /\ \E s \in closing :
       \/ /\ EmsLogout(s)
          /\ closing' = closing \ {s}
          /\ Goto(t, "closing")
          /\ UNCHANGED <<lock, closed, leaked, abandoned>>
       \/ /\ LogoutRaises(s)
          /\ abandoned' = abandoned \cup (closing \ {s})
          /\ closing' = {}
          /\ closed' = TRUE
          /\ lock' = NoThread
          /\ Finish(t)
  /\ UNCHANGED <<cachedId, issuedAt, reply, held, clock, arrivals, budget>>

CloseReturns(t) ==
  /\ pc[t] = "closing" /\ closing = {}
  /\ closed' = TRUE
  /\ lock' = NoThread
  /\ Finish(t)
  /\ UNCHANGED <<cachedId, issuedAt, reply, held, closing, ems, clock, history, budget>>

-----------------------------------------------------------------------------
(* The environment *)

\* A login of the same account, by this process or another, may end a session.
EmsDrops(s) ==
  /\ state[s] = "active" /\ ~closed
  /\ EmsLogout(s)
  /\ UNCHANGED <<manager, pc, call, reply, held, closing, closed, clock, history, budget>>

\* A login that the EMS applied answers within MaxLatency, or raises.
Tick ==
  /\ clock < MaxClock /\ ~closed
  /\ \A t \in Threads : reply[t] # NoSid => clock - born[reply[t]] < MaxLatency
  /\ clock' = clock + 1
  /\ UNCHANGED <<manager, pc, call, reply, held, closing, closed, ems, history, budget>>

Init ==
  /\ cachedId = [r \in Roles |-> NoSid]
  /\ issuedAt = [r \in Roles |-> 0]
  /\ lock = NoThread
  /\ pc = [t \in Threads |-> "idle"]
  /\ role = [t \in Threads |-> "none"]
  /\ meth = [t \in Threads |-> "GET"]
  /\ sid = [t \in Threads |-> NoSid]
  /\ reply = [t \in Threads |-> NoSid]
  /\ held = [t \in Threads |-> NoSid]
  /\ closing = {} /\ closed = FALSE
  /\ state = [s \in Sid |-> "unused"]
  /\ born = [s \in Sid |-> 0]
  /\ clock = 0
  /\ arrivals = [t \in Threads |-> 0]
  /\ leaked = {} /\ abandoned = {}
  /\ budget = MaxOps

\* What a thread does once it is inside an operation.
Step(t) ==
  \/ ResolveHit(t) \/ ResolveMiss(t) \/ ResolveStale(t) \/ Evict(t)
  \/ LoginApplied(t) \/ LoginRaises(t) \/ CachedLoginReturns(t)
  \/ Send(t) \/ RefreshReuse(t) \/ RefreshLogin(t) \/ Resend(t)
  \/ DiscardNothing(t) \/ Discard(t) \/ DiscardLogout(t) \/ FreshLoginReturns(t)
  \/ CloseLogout(t) \/ CloseReturns(t)

Operation(t) == StartRequest(t) \/ StartFresh(t) \/ FreshExit(t) \/ Close(t)

Finished == closed /\ UNCHANGED vars

Next ==
  \/ \E t \in Threads : Step(t) \/ Operation(t)
  \/ \E s \in Sid : EmsDrops(s)
  \/ Tick
  \/ Finished

Spec == Init /\ [][Next]_vars

\* Each thread runs: it is never stopped for ever inside an operation.  The
\* lock needs no strong fairness, the operations are finitely many.
FairSpec == Spec /\ \A t \in Threads : WF_vars(Step(t))

-----------------------------------------------------------------------------
(* Properties *)

PC == {"idle", "resolve", "evict", "login", "send", "refresh", "relogin", "resend",
       "discard", "discardLogout", "fresh", "closing"}

\* Every variable has its type.
TypeOK ==
  /\ cachedId \in [Roles -> Sid \cup {NoSid}]
  /\ issuedAt \in [Roles -> Nat]
  /\ lock \in Threads \cup {NoThread}
  /\ pc \in [Threads -> PC]
  /\ role \in [Threads -> Roles \cup {"none"}]
  /\ meth \in [Threads -> Methods]
  /\ sid \in [Threads -> Sid \cup {NoSid}]
  /\ reply \in [Threads -> Sid \cup {NoSid}]
  /\ held \in [Threads -> Sid \cup {NoSid}]
  /\ closing \subseteq Sid /\ closed \in BOOLEAN
  /\ state \in [Sid -> {"unused", "active", "gone"}]
  /\ born \in [Sid -> Nat]
  /\ clock \in Nat /\ budget \in Nat
  /\ arrivals \in [Threads -> Nat]
  /\ leaked \subseteq Sid /\ abandoned \subseteq Sid

\* Somebody is still going to log s out, or the call that should have was lost.
Tracked(s) ==
  \/ \E r \in Roles : cachedId[r] = s
  \/ \E t \in Threads : s \in {held[t], reply[t]}
  \/ \E t \in Threads : pc[t] = "discardLogout" /\ sid[t] = s
  \/ s \in closing \cup abandoned \cup leaked

\* No session leak: every session the EMS still accepts is cached, belongs to
\* an open fresh context or to a call in progress, or lost its own login
\* answer or logout to a fault.  In particular a refresh, which drops the old
\* entry without a logout (session.py:162), only ever drops a dead session.
NoUntrackedSession == \A s \in Sid : Live(s) => Tracked(s)

\* A recovery never replaces a session that works: when two requests see the
\* same dead id, the second reuses the first one's login (session.py:160), and
\* an expected permission denial leaves the cache alone.  Only a fresh flow's
\* discard, close() and the proactive refresh take a live entry away.
LiveEntryKept ==
  [][\A r \in Roles :
       (cachedId[r] # NoSid /\ Live(cachedId[r]) /\ cachedId'[r] = NoSid)
         => \E t \in Threads : \/ pc'[t] \in {"discardLogout", "closing"}
                               \/ pc[t] = "evict"]_vars

\* What the cache hands out.  A hit and the answer of a login are within the
\* EMS's absolute lifetime at that moment: an entry is stamped when the login's
\* answer arrives, so the 540 seconds plus the wait for that answer must stay
\* within the 600 (ADR 0001).  After a refusal the entry somebody else has
\* put there is reused whatever its age (session.py:160-161), so nothing is
\* said of its age; it is always of a later login than the refused id, never
\* an older one that came back into the cache.
HandedOutFreshOrNewer ==
  [][\A t \in Threads :
       (pc'[t] \in {"send", "resend"} /\ pc'[t] # pc[t])
         => IF pc[t] = "refresh" THEN sid'[t] > sid[t]
                                 ELSE clock - born[sid'[t]] < Lifetime]_vars

\* Whatever the cache, the refresh and the other threads do, the EMS sees a
\* mutating request at most once and a read at most twice.
MutationSeenOnce ==
  \A t \in Threads : arrivals[t] <= IF meth[t] = "MUT" THEN 1 ELSE 2

\* Every call ends: nobody waits for ever on the lock, whatever call raises
\* while it is held.
CallsEnd == \A t \in Threads : pc[t] # "idle" ~> pc[t] = "idle"

\* close() calls logout for every session it takes out of the cache.
CloseLogsOutEverySession == abandoned = {}

-----------------------------------------------------------------------------
(* The inductive invariant: why the safety properties hold *)

Locked == {"evict", "login", "relogin", "discardLogout", "closing"}

\* A thread is inside the lock exactly while its call is in a critical
\* section, so nobody else writes the entry it is about to fill or evict.
LockInv ==
  /\ \A t \in Threads : lock = t <=> pc[t] \in Locked
  /\ \A t \in Threads : pc[t] \in {"login", "relogin"} => cachedId[role[t]] = NoSid
  /\ \A t \in Threads : pc[t] = "evict" => cachedId[role[t]] # NoSid
  /\ closing # {} => \E t \in Threads : pc[t] = "closing"

\* What a call in progress knows.  The id a refresh starts from is dead: the
\* role policy refreshes only where a live session is never refused.
CallOK(t) ==
  /\ pc[t] \notin {"idle", "closing"} => role[t] \in Roles
  /\ pc[t] \in {"send", "refresh", "resend", "discardLogout"}
       => sid[t] \in Sid /\ state[sid[t]] # "unused"
  /\ pc[t] = "refresh" => ~Live(sid[t])
  /\ reply[t] # NoSid => pc[t] \in {"login", "relogin", "fresh"}
  /\ pc[t] \in {"discard", "discardLogout", "fresh"} => held[t] = NoSid

CallInv == \A t \in Threads : CallOK(t)

\* How far a request has got bounds how often the EMS has seen it.
ArrivalInv ==
  \A t \in Threads :
    /\ pc[t] \in {"resolve", "evict", "login", "send"} => arrivals[t] = 0
    /\ pc[t] \in {"refresh", "relogin", "resend"} => arrivals[t] <= 1
    /\ pc[t] = "resend" => meth[t] = "GET"

\* The clock of the cache lags the EMS's by at most MaxLatency.
AgeInv ==
  /\ \A r \in Roles : cachedId[r] # NoSid =>
       /\ state[cachedId[r]] # "unused"
       /\ issuedAt[r] <= clock /\ issuedAt[r] - born[cachedId[r]] <= MaxLatency
  /\ \A t \in Threads : reply[t] # NoSid =>
       /\ state[reply[t]] # "unused"
       /\ clock - born[reply[t]] <= MaxLatency

\* Ids are used in the order the EMS issues them, and a login under way is
\* later than every id a call has resolved: nobody resolves while the lock is
\* held.  So an entry is never older than an id resolved before it.
OrderInv ==
  /\ \A s \in closing : state[s] # "unused"
  /\ \A t \in Threads : held[t] # NoSid => state[held[t]] # "unused"
  /\ \A x, s \in Sid : x < s /\ state[s] # "unused" => state[x] # "unused"
  /\ \A t, u \in Threads :
       (pc[t] \in {"login", "relogin"} /\ reply[t] # NoSid /\ pc[u] \in {"send", "refresh"})
         => sid[u] < reply[t]
  /\ \A u \in Threads :
       (pc[u] \in {"send", "refresh"} /\ cachedId[role[u]] # NoSid)
         => sid[u] <= cachedId[role[u]]

IInv ==
  /\ TypeOK /\ LockInv /\ CallInv /\ ArrivalInv /\ AgeInv /\ OrderInv
  /\ NoUntrackedSession /\ MutationSeenOnce
=============================================================================
