----------------------------- MODULE UserSession -----------------------------
(***************************************************************************)
(* The user-session cases (services/session/service.py): login and logout  *)
(* of a role and, for readwrite, the check that a session lives for an     *)
(* absolute time however often it is used: an observation every minute,    *)
(* authorized up to the ninth, refused at the tenth, then a new login.     *)
(* Observations are due at fixed times after the first login's answer; a   *)
(* request takes up to Delay ticks on its way.                             *)
(***************************************************************************)
EXTENDS Naturals

CONSTANTS
  Minute,     \* SESSION_KEEPALIVE_INTERVAL_SECONDS in ticks
  LastGood,   \* SESSION_LAST_AUTHORIZED_MINUTE
  Count,      \* the number of observations
  Delay,      \* bound: ticks a request or an answer takes
  Lives,      \* the lifetimes the EMS may give a session, in ticks
  Cases       \* what runs

CaseNames == {"readwrite", "other_role", "deleted_session", "bad_login", "bad_session"}

SessionAssumption ==
  /\ {Minute, LastGood, Count} \subseteq Nat \ {0} /\ Delay \in Nat /\ Lives \subseteq Nat \ {0}
  /\ LastGood < Count
  /\ Cases \subseteq CaseNames

VARIABLES
  pc,        \* the step of the case
  now,       \* the clock
  started,   \* started_at
  minute,    \* the observation that is due
  made,      \* EMS: when the session was made
  used,      \* EMS: when it was last used
  life,      \* EMS: its lifetime
  sliding,   \* EMS: the lifetime counts from the last use instead
  open,      \* sessions of this case that nobody has logged out
  kind,      \* the case
  failed     \* an assertion failed

vars == <<pc, now, started, minute, made, used, life, sliding, open, kind, failed>>
ems  == <<made, used, life, sliding>>

Init ==
  /\ pc = "login" /\ now = 0 /\ started = 0 /\ minute = 1 /\ made = 0 /\ used = 0
  /\ life \in Lives /\ sliding \in BOOLEAN /\ kind \in Cases /\ open = 0 /\ failed = FALSE

Fail == failed' = TRUE /\ pc' = "done"
Go(step) == pc' = step /\ UNCHANGED failed

(* A wrong name or password, and a request without a session or with one
   that was never given out, must be refused; an EMS that takes the login
   has made a session that nobody closes. *)
Refused ==
  /\ pc = "login" /\ kind \in {"bad_login", "bad_session"}
  /\ \/ Go("done") /\ UNCHANGED open
     \/ Fail /\ open' \in {0, IF kind = "bad_login" THEN 1 ELSE 0}
  /\ UNCHANGED <<now, started, minute, ems, kind>>

(* The EMS makes the session on the way; its answer comes back later. *)
Login ==
  /\ pc = "login" /\ kind \notin {"bad_login", "bad_session"}
  /\ \/ /\ open' = open + 1
        /\ \E there, back \in 0..Delay :
             made' = now + there /\ used' = made' /\ now' = made' + back /\ started' = now'
        /\ Go(IF kind = "readwrite" THEN "observe" ELSE "logout")
     \/ Fail /\ UNCHANGED <<now, started, open, made, used>>
  /\ UNCHANGED <<minute, life, sliding, kind>>

Due == started + minute * Minute
Later(a, b) == IF a >= b THEN a ELSE b
Alive(at) == at - (IF sliding THEN used ELSE made) < life

Observe ==
  /\ pc = "observe"
  /\ \E there, back \in 0..Delay :
       LET at == Later(now, Due) + there IN
       /\ now' = at + back
       /\ used' = IF Alive(at) THEN at ELSE used
       /\ IF Alive(at) = (minute <= LastGood) THEN Go(IF minute = Count THEN "renew" ELSE "observe") ELSE Fail
  /\ minute' = minute + 1
  /\ UNCHANGED <<started, made, life, sliding, open, kind>>

(* The expired session is gone; the new one is used once. *)
Renew ==
  /\ pc = "renew" /\ open' = 1
  /\ Go("logout") \/ Fail
  /\ UNCHANGED <<now, started, minute, ems, kind>>

Logout ==
  /\ pc = "logout"
  /\ \/ open' = 0 /\ Go(IF kind = "deleted_session" THEN "reuse" ELSE "done")
     \/ Fail /\ UNCHANGED open
  /\ UNCHANGED <<now, started, minute, ems, kind>>

(* A deleted session must be refused. *)
Reuse ==
  /\ pc = "reuse" /\ (Go("done") \/ Fail)
  /\ UNCHANGED <<now, started, minute, ems, open, kind>>

Done == pc = "done"
Next == Refused \/ Login \/ Observe \/ Renew \/ Logout \/ Reuse

Spec == Init /\ [][Next]_vars /\ WF_vars(Next)
-----------------------------------------------------------------------------
TypeOK ==
  /\ pc \in {"login", "observe", "renew", "logout", "reuse", "done"}
  /\ {now, started, made, used} \subseteq Nat /\ life \in Lives /\ minute \in 1..Count + 1
  /\ open \in 0..1 /\ failed \in BOOLEAN /\ sliding \in BOOLEAN /\ kind \in Cases

(* An EMS that gives a session exactly Count minutes of absolute lifetime is
   not failed by slow requests, as long as login and observation together
   take less than a minute (service.py:42-59): whenever the next observation
   starts, it is in time for an answer, and the last one is late enough. *)
ConformingEmsPasses ==
  life = Count * Minute /\ ~sliding /\ LastGood = Count - 1 /\ 2 * Delay < Minute /\ pc \in {"observe", "renew"} =>
     /\ ~failed
     /\ pc = "observe" /\ minute <= LastGood => Alive(Later(now, Due) + Delay)
     /\ pc = "observe" /\ minute = Count => ~Alive(Later(now, Due))

(* And a lifetime that passes is the one expected, up to the requests' time,
   as long as no request makes the next observation late: never a sliding one
   that is longer than an observation interval and its delays. *)
LifetimeIsReal ==
  pc = "renew" /\ 2 * Delay <= Minute =>
     IF sliding THEN life <= Minute + 2 * Delay
     ELSE life > LastGood * Minute /\ life <= Count * Minute + 2 * Delay

(* A case that leaves a session of its own on the EMS has failed
   (service.py:21-33, 84-105). *)
LeftSessionIsReported == Done /\ open > 0 => failed

(* Every case ends: the observations are counted. *)
Ends == <>Done
=============================================================================
