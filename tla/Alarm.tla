-------------------------------- MODULE Alarm --------------------------------
(***************************************************************************)
(* The alarm tests of one session (services/alarm/service.py,              *)
(* tests/test_alarm.py): an active alarm is found, acknowledged, cleared,  *)
(* waited for in the history, found there and deleted, once over five      *)
(* tests that hand its ids on and once in a single lifecycle test.  Every  *)
(* request is a step.  The EMS moves a cleared alarm to its history by and *)
(* by; it may raise new alarms, and refuse or lose any request.            *)
(***************************************************************************)
EXTENDS Integers, Sequences

CONSTANTS
  Alarms,      \* ids (log id and sublog id) of alarms that match the filter
  Selections,  \* sequences of tests, in the order of the file
  Seeds,       \* the chassis has its alarm seeded through the remote console
  Polls,       \* bound: requests that fit into a wait
  Others       \* bound: what other users of the EMS do

TestNames == {"list", "clear", "history", "by_id", "delete", "lifecycle", "noaccess"}
NoAlarm == "none"

(* The tests that follow one in the file, whose order pytest keeps. *)
After(t) ==
  CASE t = ""          -> TestNames
    [] t = "list"      -> TestNames \ {"list"}
    [] t = "clear"     -> {"history", "by_id", "delete", "lifecycle", "noaccess"}
    [] t = "history"   -> {"by_id", "delete", "lifecycle", "noaccess"}
    [] t = "by_id"     -> {"delete", "lifecycle", "noaccess"}
    [] t = "delete"    -> {"lifecycle", "noaccess"}
    [] t = "lifecycle" -> {"noaccess"}
    [] OTHER           -> {}

AlarmAssumption ==
  /\ Selections \subseteq Seq(TestNames)
  /\ \A s \in Selections : \A i, j \in DOMAIN s : i < j => s[j] \in After(s[i])
  /\ Seeds \in BOOLEAN
  /\ {Polls, Others} \subseteq Nat /\ NoAlarm \notin Alarms

VARIABLES
  todo,      \* tests still to run
  test,      \* the test that runs
  pc,        \* its next request
  ids,       \* the alarm it handles
  n,         \* requests left in the wait
  wf,        \* AlarmWorkflowState
  failed,    \* tests that failed
  active,    \* EMS: active alarms
  acked,     \* EMS: those with Ack = 1
  moving,    \* EMS: cleared, not yet in the history
  past,      \* EMS: history alarms
  others,    \* steps other users have made
  cleared,   \* history: alarms this session has cleared
  removed,   \* history: alarms this session has deleted from the history
  trouble    \* history: a request was refused or lost, a wait ran out, or others interfered

run  == <<todo, test, pc, ids, n, wf, failed>>
ems  == <<active, acked, moving, past>>
seen == <<cleared, removed>>
vars == <<run, ems, others, seen, trouble>>

Init ==
  /\ todo \in Selections /\ test = "" /\ pc = "next" /\ ids = NoAlarm /\ n = 0 /\ failed = {}
  /\ wf = [active |-> NoAlarm, history |-> NoAlarm, listed |-> FALSE, byId |-> FALSE, deleted |-> FALSE]
  /\ active \in SUBSET Alarms /\ acked = {} /\ moving = {} /\ past = {}
  /\ others = 0 /\ cleared = {} /\ removed = {} /\ trouble = FALSE

(***************************************************************************)
(* The EMS.                                                                *)
(***************************************************************************)
Unused == Alarms \ (active \union moving \union past \union cleared)

Ems ==
  /\ \/ \E a \in moving : moving' = moving \ {a} /\ past' = past \union {a} /\ UNCHANGED active
     \/ \E a \in Unused : active' = active \union {a} /\ UNCHANGED <<moving, past>>
  /\ UNCHANGED <<run, acked, others, seen, trouble>>

OtherClient ==
  /\ others < Others /\ others' = others + 1 /\ trouble' = TRUE
  /\ \/ \E a \in active : active' = active \ {a} /\ moving' = moving \union {a} /\ UNCHANGED past
     \/ \E a \in past : past' = past \ {a} /\ UNCHANGED <<active, moving>>
  /\ UNCHANGED <<run, acked, seen>>

Quiet == UNCHANGED <<ems, seen>>

(***************************************************************************)
(* How a test goes on and ends.                                            *)
(***************************************************************************)
Go(step) == pc' = step /\ UNCHANGED <<wf, failed>>
Finish(state) == wf' = state /\ pc' = "next" /\ UNCHANGED failed
Skip == Finish(wf)
Fail == pc' = "next" /\ failed' = failed \union {test} /\ UNCHANGED wf
Honest == UNCHANGED trouble
Refused == Fail /\ trouble' = TRUE         \* a request is refused without a reason, or lost

At(step) == pc = step /\ UNCHANGED <<todo, test, others>>
Same == UNCHANGED <<ids, n>>

StartTest ==
  /\ pc = "next" /\ todo # <<>>
  /\ test' = Head(todo) /\ todo' = Tail(todo) /\ Go("start")
  /\ UNCHANGED <<ids, n, ems, others, seen, trouble>>

(* _require_alarm_ids and the gates on the earlier phases. *)
Blocked == \/ test = "clear" /\ wf.active = NoAlarm
           \/ test \in {"history", "by_id", "delete"} /\ wf.history = NoAlarm
           \/ test = "by_id" /\ ~wf.listed
           \/ test = "delete" /\ ~wf.byId
First ==
  CASE test = "list"            -> "active_list"
    [] test = "clear"           -> "get"
    [] test = "history"         -> "history_list"
    [] test \in {"by_id", "delete"} -> "history_get"
    [] test = "lifecycle"       -> IF Seeds THEN "seed" ELSE "await"
    [] OTHER                    -> "refuse"

Start ==
  /\ At("start")
  /\ IF Blocked THEN Skip ELSE Go(First)
  /\ ids' = IF test = "clear" THEN wf.active ELSE wf.history
  /\ n' = Polls /\ Quiet /\ Honest

(***************************************************************************)
(* Finding an active alarm.                                                *)
(***************************************************************************)
(* post_remote_console_like_legacy: two posts, the second seeds the alarm. *)
Seed ==
  /\ At("seed")
  /\ \/ Go("await") /\ Honest
     \/ Refused
  /\ Same /\ Quiet

(* The test's one look, and wait_for_matching_active_alarm: it skips when no
   alarm shows up. *)
FindActive ==
  /\ (At("active_list") \/ At("await"))
  /\ \/ \E a \in active : /\ ids' = a /\ n' = Polls /\ Honest
                          /\ IF test = "list" THEN Finish([wf EXCEPT !.active = a]) ELSE Go("get")
     \/ active = {} /\ Honest /\ UNCHANGED ids
        /\ IF test = "lifecycle" /\ n > 0 THEN n' = n - 1 /\ Go("await") ELSE Skip /\ UNCHANGED n
     \/ Refused /\ Same
  /\ Quiet

(***************************************************************************)
(* Acknowledge, clear, and find it in the history.                         *)
(***************************************************************************)
Get ==
  /\ (At("get") \/ At("get_acked"))
  /\ \/ /\ ids \in active /\ (pc = "get_acked" => ids \in acked)
        /\ Go(IF pc = "get" THEN "ack" ELSE "clear") /\ Honest
     \/ ids \notin active /\ Fail /\ Honest
     \/ Refused
  /\ Same /\ Quiet

Ack ==
  /\ At("ack")
  /\ \/ ids \in active /\ acked' = acked \union {ids} /\ Go("get_acked") /\ Honest
     \/ ids \notin active /\ Fail /\ Honest /\ UNCHANGED acked
     \/ Refused /\ acked' \in {acked, acked \union {ids}}
  /\ Same /\ UNCHANGED <<active, moving, past, seen>>

Take == active' = active \ {ids} /\ moving' = moving \union {ids} /\ cleared' = cleared \union {ids}
Clear ==
  /\ At("clear")
  /\ \/ ids \in active /\ Take /\ Go("get_cleared") /\ Honest
     \/ ids \notin active /\ Fail /\ Honest /\ UNCHANGED <<active, moving, cleared>>
     \/ Refused /\ (UNCHANGED <<active, moving, cleared>> \/ (ids \in active /\ Take))
  /\ Same /\ UNCHANGED <<acked, past, removed>>

(* Only the workflow test waits for the history; the lifecycle lists it and
   looks the alarm up at once. *)
GetCleared ==
  /\ At("get_cleared")
  /\ \/ ids \notin active /\ Go(IF test = "clear" THEN "wait" ELSE "history_list") /\ Honest
     \/ ids \in active /\ Fail /\ Honest
     \/ Refused
  /\ Same /\ Quiet

(* wait_for_history_alarm_by_id: a wait that ends without it is trouble. *)
AwaitHistory ==
  /\ At("wait")
  /\ \/ ids \in past /\ Finish([wf EXCEPT !.history = ids]) /\ Honest /\ UNCHANGED n
     \/ ids \notin past /\ n > 0 /\ n' = n - 1 /\ Go("wait") /\ Honest
     \/ ids \notin past /\ n = 0 /\ Refused /\ UNCHANGED n
     \/ Refused /\ UNCHANGED n
  /\ Quiet /\ UNCHANGED ids

ListHistory ==
  /\ At("history_list")
  /\ \/ past = {} /\ (IF test = "history" THEN Skip ELSE Fail) /\ Honest
     \/ past # {} /\ test = "lifecycle" /\ Go("history_get") /\ Honest
     \/ past # {} /\ test = "history" /\ Honest
        /\ IF ids \in past THEN Finish([wf EXCEPT !.listed = TRUE]) ELSE Fail
     \/ Refused
  /\ Same /\ Quiet

GetHistory ==
  /\ At("history_get")
  /\ \/ /\ ids \in past /\ Honest
        /\ IF test = "by_id" THEN Finish([wf EXCEPT !.byId = TRUE]) ELSE Go("history_delete")
     \/ ids \notin past /\ Fail /\ Honest
     \/ Refused
  /\ Same /\ Quiet

Drop == past' = past \ {ids} /\ removed' = removed \union {ids}
DeleteHistory ==
  /\ At("history_delete")
  /\ \/ ids \in past /\ Drop /\ Go("history_gone") /\ Honest
     \/ ids \notin past /\ Fail /\ Honest /\ UNCHANGED <<past, removed>>
     \/ Refused /\ (UNCHANGED <<past, removed>> \/ (ids \in past /\ Drop))
  /\ Same /\ UNCHANGED <<active, acked, moving, cleared>>

HistoryGone ==
  /\ At("history_gone")
  /\ \/ ids \notin past /\ Finish(IF test = "delete" THEN [wf EXCEPT !.deleted = TRUE] ELSE wf) /\ Honest
     \/ ids \in past /\ Fail /\ Honest
     \/ Refused
  /\ Same /\ Quiet

(* An account without access must be refused. *)
NoAccess == At("refuse") /\ ((Skip /\ Honest) \/ Refused) /\ Same /\ Quiet

Done == pc = "next" /\ todo = <<>>

Tests ==
  \/ StartTest \/ Start \/ Seed \/ FindActive \/ Get \/ Ack \/ Clear \/ GetCleared \/ AwaitHistory \/ ListHistory
  \/ GetHistory \/ DeleteHistory \/ HistoryGone \/ NoAccess

Next == Tests \/ Ems \/ OtherClient

Spec == Init /\ [][Next]_vars /\ WF_vars(Tests)
-----------------------------------------------------------------------------
TypeOK ==
  /\ test \in TestNames \union {""} /\ failed \subseteq TestNames /\ trouble \in BOOLEAN
  /\ {ids, wf.active, wf.history} \subseteq Alarms \union {NoAlarm}
  /\ n \in 0..Polls /\ others \in 0..Others
  /\ UNION {active, acked, moving, past, cleared, removed} \subseteq Alarms
  /\ active \intersect (moving \union past) = {} /\ moving \intersect past = {}

(* Nothing is deleted from the history that this session has not cleared
   itself, whatever was refused, lost or taken away between the tests that
   hand the ids on (service.py:143, tests/test_alarm.py). *)
OnlyOwnRemoved == removed \subseteq cleared

(* While the EMS answers every request truthfully, moves a cleared alarm in
   time and nobody interferes, no test fails but the lifecycle, which does not
   wait for the history (service.py:188-201, 244-250). *)
HonestEmsPasses == ~trouble => failed \subseteq {"lifecycle"}

(* The delete test passes only for an alarm that has gone through every phase
   of the workflow: cleared and removed by it, and listed in between. *)
DeletedWentAllTheWay ==
  wf.deleted => wf.history \in cleared \intersect removed /\ wf.active = wf.history /\ wf.listed /\ wf.byId

(* The alarm tests end: every wait has a deadline. *)
Ends == <>Done
=============================================================================
