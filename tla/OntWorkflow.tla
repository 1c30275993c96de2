----------------------------- MODULE OntWorkflow -----------------------------
(***************************************************************************)
(* The ONT service tests of one pytest session, in the order collection    *)
(* gives them (POST, readiness, reads, PUT, PATCH, DELETE, invalid         *)
(* parameters), against the one ONT service of the node's serial number:   *)
(* services/provision/service.py, services/inventory/service.py,           *)
(* services/invalid_params/service.py, the session fixtures of             *)
(* tests/support/fixtures.py and the shared OntServiceWorkflowState.       *)
(* Every REST call is a step.  Others may register or remove the service   *)
(* between any two steps, a call may be refused or raise, and a POST whose *)
(* answer was lost may take effect later.  A wait is one step: it ends     *)
(* well if the EMS shows what it waits for, and it may time out.           *)
(***************************************************************************)
EXTENDS Naturals, Sequences

CONSTANTS
  Selections,     \* the selections of tests, each a sequence in collection order
  Posts,          \* bound: POSTs that fit into post_ont_service_with_retry
  InvalidCases,   \* the invalid payloads that are tried
  Others          \* bound: what others do to the service

TestNames == {"post", "ready", "read", "put", "patch", "delete", "invalid"}

OntAssumption ==
  /\ Selections \subseteq Seq(TestNames)
  /\ {Posts, InvalidCases} \subseteq Nat \ {0} /\ Others \in Nat

VARIABLES
  todo,      \* tests still to run
  test,      \* the test that runs
  doing,     \* the procedure it is in
  pc,        \* the step of that procedure
  seen,      \* what its last GET of the service showed
  cli,       \* the ONT state the CLI reported
  n,         \* attempts or cases left in this procedure
  redo,      \* prepare has already deleted and created once more
  wf,        \* OntServiceWorkflowState: post, ready, template
  tpl,       \* the session fixture temporary_ont_template
  prep,      \* the session fixture prepared_ont_inventory: what it returned
  keep,      \* --keep-ont-service-for-manual-check
  torn,      \* how the teardown of the template ended
  svc,       \* EMS: whose template the service uses, "none" without a service
  state,     \* EMS: its state
  reserved,  \* EMS: a removed service still holds the serial number
  late,      \* EMS: a POST whose caller gave up may still take effect
  others,    \* steps others have made
  harmed     \* history: <<procedure, seen>> of each change made to a foreign service

run    == <<todo, test, doing, pc, seen, cli, n, redo, wf, tpl, prep, keep, torn>>
ems    == <<svc, state, reserved, late>>
vars   == <<run, ems, others, harmed>>
fixed  == <<todo, test, keep, others>>

NoService == svc = "none"
Own == "own"

Init ==
  /\ todo \in Selections /\ keep \in BOOLEAN
  /\ test = "" /\ doing = "" /\ pc = "next" /\ seen = "none" /\ cli = "Unknown" /\ n = 0 /\ redo = FALSE
  /\ wf = [post |-> "no", ready |-> "no", template |-> "none"]
  /\ tpl = "none" /\ prep = "none" /\ torn = "no"
  /\ svc \in {"none", "foreign"} /\ state = "Success" /\ reserved = FALSE /\ late = FALSE
  /\ others = 0 /\ harmed = {}

(***************************************************************************)
(* What a request does on the EMS.                                         *)
(***************************************************************************)
Quiet == UNCHANGED <<ems, harmed>>

Looks == {svc, "error", "raise"}    \* a GET: the service or its absence, a refusal, an exception

Harm == harmed' = IF svc = "foreign" THEN harmed \union {<<doing, seen>>} ELSE harmed

DeleteAnswers(answer) ==
  \/ answer = "ok" /\ ~NoService /\ Harm /\ svc' = "none" /\ reserved' \in BOOLEAN /\ UNCHANGED <<state, late>>
  \/ answer = "missing" /\ NoService /\ Quiet
  \/ answer = "error" /\ Quiet
  \/ answer = "raise" /\ (Quiet \/ (~NoService /\ Harm /\ svc' = "none" /\ UNCHANGED <<state, reserved, late>>))

PostAnswers(answer) ==
  \/ answer = "conflict" /\ (~NoService \/ reserved) /\ Quiet
  \/ answer = "ok" /\ NoService /\ ~reserved /\ tpl = "up"
     /\ svc' = Own /\ state' = "busy" /\ UNCHANGED <<reserved, late, harmed>>
  \/ answer = "error" /\ Quiet
  \/ answer = "raise" /\ (Quiet \/ (late' = TRUE /\ UNCHANGED <<svc, state, reserved, harmed>>))

UpdateAnswers(answer) ==
  \/ answer \in {"ok", "raise"} /\ ~NoService /\ Harm /\ state' \in {"busy", "Success"} /\ UNCHANGED <<svc, reserved, late>>
  \/ answer \in {"error", "raise"} /\ Quiet

(* The EMS goes on by itself; others work on the same ONT. *)
Ems ==
  /\ \/ ~NoService /\ state = "busy" /\ state' \in {"Success", "Fail"} /\ UNCHANGED <<svc, reserved, late>>
     \/ reserved /\ reserved' = FALSE /\ UNCHANGED <<svc, state, late>>
     \/ late /\ late' = FALSE /\ NoService /\ ~reserved /\ tpl = "up"
        /\ svc' = Own /\ state' = "busy" /\ UNCHANGED reserved
  /\ UNCHANGED <<run, others, harmed>>

OtherClient ==
  /\ others < Others /\ others' = others + 1
  /\ \/ NoService /\ ~reserved /\ svc' = "foreign"
     \/ ~NoService /\ svc' = "none"
  /\ state' = "Success"
  /\ UNCHANGED <<run, reserved, late, harmed>>

(***************************************************************************)
(* How a procedure ends.                                                   *)
(***************************************************************************)
Go(step) == pc' = step

(* An exception leaves the procedure: "block" is the ownership or inventory
   precondition, "assert" an AssertionError, "raise" any other. *)
Abort(kind) ==
  /\ wf' = CASE doing = "post" -> [wf EXCEPT !.post = IF kind = "block" THEN "blocked" ELSE "failed"]
             [] doing = "prep" /\ kind # "raise" -> [wf EXCEPT !.ready = IF kind = "block" THEN "blocked" ELSE "failed"]
             [] OTHER -> wf
  /\ prep' = IF doing = "prep" /\ test # "ready" THEN "broken" ELSE prep
  /\ torn' = IF doing = "down" THEN "failed" ELSE torn
  /\ Go(IF doing = "down" THEN "done" ELSE "next")

Alive == UNCHANGED <<wf, prep, torn>>
Local == UNCHANGED <<fixed, doing, redo, tpl>>

(***************************************************************************)
(* Tests and fixtures.                                                     *)
(***************************************************************************)
NextTest ==
  /\ pc = "next" /\ todo # <<>>
  /\ test' = Head(todo) /\ todo' = Tail(todo) /\ Go("start")
  /\ UNCHANGED <<doing, seen, cli, n, redo, wf, tpl, prep, keep, torn, ems, others, harmed>>

(* The fixture prepared_ont_inventory: it skips after a failed or blocked
   POST or readiness, reuses what readiness found, or prepares. *)
PostBad  == wf.post \in {"failed", "blocked"}
ReadyBad == wf.ready \in {"failed", "blocked"}
NeedsPrep == test \in {"read", "put", "patch", "delete"}

PrepFixture ==
  /\ pc = "start" /\ NeedsPrep /\ prep = "none"
  /\ IF PostBad \/ ReadyBad THEN prep' = "broken" /\ Go("start") /\ UNCHANGED doing
     ELSE IF wf.ready = "ok" THEN prep' = wf.template /\ Go("start") /\ UNCHANGED doing
     ELSE doing' = "prep" /\ Go("get") /\ UNCHANGED prep
  /\ redo' = FALSE
  /\ UNCHANGED <<fixed, seen, cli, n, wf, tpl, torn, ems, harmed>>

(* temporary_ont_template: TempGraph models its creation. *)
NeedsTemplate == \/ test \in {"post", "invalid"}
                 \/ test \in {"put", "patch", "delete"} /\ prep \notin {"none", "broken"}
MakeTemplate ==
  /\ pc = "start" /\ NeedsTemplate /\ tpl = "none"
  /\ tpl' \in {"up", "broken"}
  /\ UNCHANGED <<fixed, doing, pc, seen, cli, n, redo, wf, prep, torn, ems, harmed>>

StartPost ==
  /\ pc = "start" /\ test = "post" /\ tpl = "up"
  /\ wf' = [post |-> "no", ready |-> "no", template |-> Own]
  /\ doing' = "post" /\ Go("get") /\ n' \in 1..Posts
  /\ UNCHANGED <<fixed, seen, cli, redo, tpl, prep, torn, ems, harmed>>

StartReady ==
  /\ pc = "start" /\ test = "ready"
  /\ IF PostBad THEN Go("next") /\ UNCHANGED doing ELSE Go("get") /\ doing' = "prep"
  /\ redo' = FALSE
  /\ UNCHANGED <<fixed, seen, cli, n, wf, tpl, prep, torn, ems, harmed>>

(* ont_mutating_workflow_template: only this run's template may be changed. *)
StartMutation ==
  /\ pc = "start" /\ test \in {"put", "patch", "delete"} /\ prep = Own /\ tpl = "up"
  /\ doing' = test /\ Go("get")
  /\ UNCHANGED <<fixed, seen, cli, n, redo, wf, tpl, prep, torn, ems, harmed>>

StartInvalid ==
  /\ pc = "start" /\ test = "invalid" /\ tpl = "up"
  /\ doing' = "invalid" /\ Go("get") /\ n' = InvalidCases
  /\ UNCHANGED <<fixed, seen, cli, redo, wf, tpl, prep, torn, ems, harmed>>

(* Served by the fixture, or skipped or failed in the setup. *)
Served == \/ test = "read" /\ prep # "none"
          \/ NeedsPrep /\ prep = "broken"
          \/ test \in {"put", "patch", "delete"} /\ prep = "foreign" /\ tpl # "none"
          \/ NeedsTemplate /\ tpl = "broken"
EndInSetup ==
  /\ pc = "start" /\ Served /\ Go("next")
  /\ UNCHANGED <<fixed, doing, seen, cli, n, redo, wf, tpl, prep, torn, ems, harmed>>

(***************************************************************************)
(* POST: verify_ont_service_post and post_ont_service_with_retry.          *)
(***************************************************************************)
PostLook ==
  /\ doing = "post" /\ pc \in {"get", "conflict"}
  /\ \E r \in Looks :
       /\ seen' = r
       /\ CASE r = Own          -> Go("delete") /\ Alive
            [] r = "foreign"    -> Abort("block")
            [] r = "none"       -> Go("post") /\ Alive
            [] OTHER            -> Abort("raise")
  /\ Local /\ Quiet /\ UNCHANGED <<cli, n>>

PostCall ==
  /\ doing = "post" /\ pc = "post"
  /\ IF n = 0 THEN Abort("assert") /\ Quiet /\ UNCHANGED n
     ELSE /\ n' = n - 1
          /\ \E a \in {"ok", "conflict", "error", "raise"} :
               /\ PostAnswers(a)
               /\ CASE a = "ok"       -> Go("state") /\ Alive
                    [] a = "conflict" -> Go("conflict") /\ Alive
                    [] OTHER          -> Abort("raise")
  /\ Local /\ UNCHANGED <<seen, cli>>

(* complete_post; the fields that are compared include the template. *)
PostState ==
  /\ doing = "post" /\ pc = "state"
  /\ \/ svc = Own /\ state = "Success" /\ wf' = [wf EXCEPT !.post = "ok"] /\ Go("next") /\ UNCHANGED <<prep, torn>>
     \/ Abort("assert")
  /\ Local /\ Quiet /\ UNCHANGED <<seen, cli, n>>

(***************************************************************************)
(* DELETE after a look that showed the own template, and the wait for the  *)
(* removal: in POST, in DELETE, in prepare's second try and in teardown.   *)
(***************************************************************************)
AfterRemoval == [post |-> "post", delete |-> "verify", prep |-> "upsert", down |-> "profiles"]

DeleteChecked ==
  /\ doing \in {"post", "delete", "prep", "down"} /\ pc = "delete"
  /\ \E a \in {"ok", "missing", "error", "raise"} :
       /\ DeleteAnswers(a)
       /\ IF a = "ok" THEN Go("gone") /\ Alive ELSE Abort("assert")
  /\ Local /\ UNCHANGED <<seen, cli, n>>

(* Invalid parameters: to the first POST, or to the repeated ones. *)
AfterDrop == IF pc \in {"release", "drop_again", "gone_again"} THEN "repost" ELSE "post"

AwaitRemoval ==
  /\ pc \in {"gone", "gone_again"}
  /\ \/ NoService /\ Go(IF doing = "invalid" THEN AfterDrop ELSE AfterRemoval[doing]) /\ Alive
     \/ Abort("assert")
  /\ Local /\ Quiet /\ UNCHANGED <<seen, cli, n>>

(***************************************************************************)
(* prepare_ont_inventory_with_session_rotation.                            *)
(***************************************************************************)
PrepLook ==
  /\ doing = "prep" /\ pc = "get"
  /\ \E r \in Looks : /\ seen' = r
                      /\ IF r = "raise" THEN Abort("raise") ELSE Go("cli") /\ Alive
  /\ Local /\ Quiet /\ UNCHANGED <<cli, n>>

PrepCli ==
  /\ doing = "prep" /\ pc = "cli"
  /\ \/ \E c \in {"IS", "UnReg", "Unknown"} :
          /\ cli' = c /\ n' = 2
          /\ Go(IF seen = "none" /\ c = "IS" THEN "visible" ELSE "decide") /\ Alive
     \/ Abort("raise") /\ UNCHANGED <<cli, n>>
  /\ Local /\ Quiet /\ UNCHANGED seen

(* wait_for_ont_service_visibility: two more looks while there is no data. *)
PrepVisible ==
  /\ doing = "prep" /\ pc = "visible"
  /\ IF n = 0 \/ seen # "none" THEN Go("decide") /\ Alive /\ UNCHANGED <<seen, n>>
     ELSE \E r \in Looks : /\ seen' = r /\ n' = n - 1
                           /\ IF r = "raise" THEN Abort("raise") ELSE Go("visible") /\ Alive
  /\ Local /\ Quiet /\ UNCHANGED cli

AlwaysMayProvision == TRUE
MayProvision == test = "ready"      \* allow_provisioning
PostOk == wf.post = "ok"

(* collect_ont_consistency_diagnostic: whether inventory or topology show the
   ONT decides how the test ends. *)
Diagnosis == {"block", "assert"}

PrepDecide ==
  /\ doing = "prep" /\ pc = "decide"
  /\ IF seen \in {Own, "foreign"}
     THEN IF PostOk THEN IF seen # wf.template THEN Abort("assert")
                         ELSE Go(IF cli = "IS" THEN "inventory" ELSE "is") /\ Alive
          ELSE IF cli = "IS" THEN Go("inventory") /\ Alive
          ELSE Abort(IF MayProvision THEN "assert" ELSE "block")
     ELSE IF PostOk \/ seen # "none" THEN Abort("assert")
     ELSE IF cli = "IS" THEN \E verdict \in Diagnosis : Abort(verdict)
     ELSE IF cli # "UnReg" THEN Abort("assert")
     ELSE IF ~MayProvision THEN Abort("block")
     ELSE Go("template") /\ Alive
  /\ Local /\ Quiet /\ UNCHANGED <<seen, cli, n>>

(* The template that the wait for the inventory asks for. *)
Selected == IF seen = "none" THEN Own ELSE seen

PrepTemplate ==
  /\ doing = "prep" /\ pc = "template"
  /\ \/ tpl = "up" /\ Go("upsert") /\ Alive /\ UNCHANGED tpl
     \/ tpl = "none" /\ tpl' = "up" /\ Go("upsert") /\ Alive
     \/ tpl = "none" /\ tpl' = "broken" /\ Abort("raise")
     \/ tpl = "broken" /\ Abort("raise") /\ UNCHANGED tpl
  /\ n' = 2
  /\ Quiet /\ UNCHANGED <<fixed, doing, redo, seen, cli>>

(* upsert_ont_service: look, create what is missing, update only what uses
   the own template; after a conflict look again until it shows. *)
UpsertLook ==
  /\ doing = "prep" /\ pc \in {"upsert", "conflict"}
  /\ \E r \in Looks :
       /\ seen' = r
       /\ CASE r = Own                          -> Go("put") /\ Alive
            [] r = "none" /\ pc = "upsert"      -> Go("post") /\ Alive
            [] r = "none" /\ pc = "conflict"    -> (Go("conflict") /\ Alive) \/ Abort("assert")
            [] OTHER                            -> Abort("assert")
  /\ Local /\ Quiet /\ UNCHANGED <<cli, n>>

UpsertPost ==
  /\ doing = "prep" /\ pc = "post"
  /\ \E a \in {"ok", "conflict", "error", "raise"} :
       /\ PostAnswers(a)
       /\ CASE a = "ok"       -> Go("state") /\ Alive
            [] a = "conflict" -> Go("conflict") /\ Alive
            [] OTHER          -> Abort("assert")
  /\ Local /\ UNCHANGED <<seen, cli, n>>

UpsertPut ==
  /\ doing = "prep" /\ pc = "put"
  /\ \E a \in {"ok", "error", "raise"} :
       /\ UpdateAnswers(a)
       /\ IF a = "ok" THEN Go("state") /\ Alive ELSE Abort("assert")
  /\ Local /\ UNCHANGED <<seen, cli, n>>

(* The first wait may time out without raising: delete what is one's own and
   create once more, then the second wait must succeed. *)
PrepState ==
  /\ doing = "prep" /\ pc = "state"
  /\ \/ ~NoService /\ state = "Success" /\ Go("is") /\ Alive /\ UNCHANGED redo
     \/ ~redo /\ redo' = TRUE /\ Go("again") /\ Alive
     \/ Abort("assert") /\ UNCHANGED redo
  /\ Quiet /\ UNCHANGED <<fixed, doing, tpl, seen, cli, n>>

DeleteIfPresent ==
  /\ \/ doing = "prep" /\ pc = "again"
     \/ doing = "down" /\ pc = "get"
  /\ \E r \in Looks :
       /\ seen' = r
       /\ IF r \in {Own, "foreign"} THEN Go("delete") /\ Alive
          ELSE IF r = "raise" THEN Abort("raise") ELSE Go(AfterRemoval[doing]) /\ Alive
  /\ Local /\ Quiet /\ UNCHANGED <<cli, n>>

(* delete_ont_service_if_uses_template: any refused GET counts as absent. *)
DeleteIfOwn ==
  /\ \/ doing = "prep" /\ pc = "again"
     \/ doing = "down" /\ pc = "get"
  /\ \E r \in Looks :
       /\ seen' = r
       /\ CASE r = Own     -> Go("delete") /\ Alive
            [] r = "raise" -> Abort("raise")
            [] OTHER       -> Go(AfterRemoval[doing]) /\ Alive
  /\ Local /\ Quiet /\ UNCHANGED <<cli, n>>

PrepIs ==
  /\ doing = "prep" /\ pc = "is"
  /\ (Go("inventory") /\ Alive) \/ Abort("assert")
  /\ Local /\ Quiet /\ UNCHANGED <<seen, cli, n>>

(* mark_inventory_ready; the fixture returns the template. *)
PrepInventory ==
  /\ doing = "prep" /\ pc = "inventory"
  /\ \/ /\ wf' = [wf EXCEPT !.ready = "ok", !.template = Selected]
        /\ prep' = IF test = "ready" THEN prep ELSE Selected
        /\ Go(IF test = "ready" THEN "next" ELSE "start") /\ UNCHANGED torn
     \/ Abort("assert")
  /\ Local /\ Quiet /\ UNCHANGED <<seen, cli, n>>

(***************************************************************************)
(* PUT, PATCH and DELETE: verify_ont_service_put, _patch and _delete.      *)
(***************************************************************************)
MutationLook ==
  /\ doing \in {"put", "patch", "delete"} /\ pc = "get"
  /\ \E r \in Looks :
       /\ seen' = r
       /\ IF r = Own THEN Go(IF doing = "delete" THEN "delete" ELSE "update") /\ Alive ELSE Abort("assert")
  /\ Local /\ Quiet /\ UNCHANGED <<cli, n>>

(* The waits and comparisons that follow an update change nothing. *)
Update ==
  /\ doing \in {"put", "patch"} /\ pc = "update"
  /\ \E a \in {"ok", "error", "raise"} : UpdateAnswers(a)
  /\ Go("next") /\ Alive
  /\ Local /\ UNCHANGED <<seen, cli, n>>

(* The removed service must not be found, neither by GET nor by a second
   DELETE; then mark_deleted. *)
VerifyRemoved ==
  /\ doing = "delete" /\ pc = "verify"
  /\ \E r \in Looks : seen' = r /\ IF r = "none" THEN Go("second") /\ Alive ELSE Abort("assert")
  /\ Local /\ Quiet /\ UNCHANGED <<cli, n>>

SecondDelete ==
  /\ doing = "delete" /\ pc = "second"
  /\ \E a \in {"ok", "missing", "error", "raise"} :
       /\ DeleteAnswers(a)
       /\ wf' = IF a = "missing" THEN [wf EXCEPT !.ready = "no"] ELSE wf
  /\ Go("next") /\ UNCHANGED <<prep, torn>>
  /\ Local /\ UNCHANGED <<seen, cli, n>>

(***************************************************************************)
(* Invalid parameters: delete_ont_service_if_exists looks at no template   *)
(* and at no answer; every payload must be refused.                        *)
(***************************************************************************)
InvalidLook ==
  /\ doing = "invalid" /\ pc \in {"get", "release"}
  /\ \E r \in Looks :
       /\ seen' = r
       /\ CASE r \in {Own, "foreign"} -> Go(IF pc = "get" THEN "drop" ELSE "drop_again") /\ Alive
            [] r = "raise"            -> Abort("raise")
            [] OTHER                  -> Go(AfterDrop) /\ Alive
  /\ Local /\ Quiet /\ UNCHANGED <<cli, n>>

InvalidDrop ==
  /\ doing = "invalid" /\ pc \in {"drop", "drop_again"}
  /\ \E a \in {"ok", "missing", "error", "raise"} :
       /\ DeleteAnswers(a)
       /\ IF a = "raise" THEN Abort("raise") ELSE Go(IF pc = "drop" THEN "gone" ELSE "gone_again") /\ Alive
  /\ Local /\ UNCHANGED <<seen, cli, n>>

(* post_ont_invalid_after_sn_release: after a conflict the service is dropped
   once more, then only the POST is repeated until the serial number is free
   or the wait is over; an accepted payload fails the test. *)
InvalidPost ==
  /\ doing = "invalid" /\ pc \in {"post", "repost"}
  /\ \E a \in {"ok", "conflict", "error", "raise"} :
       /\ PostAnswers(a)
       /\ n' = IF a = "error" THEN n - 1 ELSE n
       /\ CASE a = "error"    -> Go(IF n = 1 THEN "next" ELSE "get") /\ Alive
            [] a = "conflict" -> (Go(IF pc = "post" THEN "release" ELSE "repost") /\ Alive)
                                 \/ (pc = "repost" /\ Abort("assert"))
            [] OTHER          -> Abort("assert")
  /\ Local /\ UNCHANGED <<seen, cli>>

(***************************************************************************)
(* Teardown of temporary_ont_template at the end of the session.           *)
(***************************************************************************)
StartTeardown ==
  /\ pc = "next" /\ todo = <<>>
  /\ IF tpl # "up" \/ keep THEN Go("done") /\ UNCHANGED doing ELSE Go("get") /\ doing' = "down"
  /\ UNCHANGED <<fixed, seen, cli, n, redo, wf, tpl, prep, torn, ems, harmed>>

(* The EMS does not delete a template that a service uses. *)
DeleteProfiles ==
  /\ doing = "down" /\ pc = "profiles"
  /\ \/ svc # Own /\ tpl' = "gone" /\ torn' = "clean"
     \/ torn' = "failed" /\ UNCHANGED tpl
  /\ Go("done")
  /\ Quiet /\ UNCHANGED <<fixed, doing, redo, wf, prep, seen, cli, n>>

Done == pc = "done"

Tests ==
  \/ NextTest \/ PrepFixture \/ MakeTemplate \/ StartPost \/ StartReady \/ StartMutation \/ StartInvalid \/ EndInSetup
  \/ PostLook \/ PostCall \/ PostState \/ DeleteChecked \/ AwaitRemoval
  \/ PrepLook \/ PrepCli \/ PrepVisible \/ PrepDecide \/ PrepTemplate \/ UpsertLook \/ UpsertPost \/ UpsertPut
  \/ PrepState \/ DeleteIfOwn \/ PrepIs \/ PrepInventory
  \/ MutationLook \/ Update \/ VerifyRemoved \/ SecondDelete \/ InvalidLook \/ InvalidDrop \/ InvalidPost
  \/ StartTeardown \/ DeleteProfiles

Next == Tests \/ Ems \/ OtherClient

Spec == Init /\ [][Next]_vars /\ WF_vars(Tests)
-----------------------------------------------------------------------------
Procedures == {"", "post", "prep", "put", "patch", "delete", "invalid", "down"}
Views == {"none", "own", "foreign", "error", "raise"}

TypeOK ==
  /\ todo \in Seq(TestNames) /\ test \in TestNames \union {""} /\ doing \in Procedures
  /\ pc \in {"next", "start", "get", "post", "conflict", "state", "delete", "gone", "verify", "second", "cli",
             "visible", "decide", "template", "upsert", "put", "again", "is", "inventory", "update", "drop",
             "drop_again", "gone_again", "release", "repost", "profiles", "done"}
  /\ seen \in Views /\ cli \in {"IS", "UnReg", "Unknown"} /\ n \in Nat /\ redo \in BOOLEAN
  /\ wf \in [post : {"no", "ok", "failed", "blocked"}, ready : {"no", "ok", "failed", "blocked"},
              template : {"none", "own", "foreign"}]
  /\ tpl \in {"none", "up", "broken", "gone"} /\ prep \in {"none", "broken", "own", "foreign"}
  /\ keep \in BOOLEAN /\ torn \in {"no", "clean", "failed"}
  /\ svc \in {"none", "own", "foreign"} /\ state \in {"busy", "Success", "Fail"}
  /\ reserved \in BOOLEAN /\ late \in BOOLEAN /\ others \in Nat
  /\ harmed \subseteq Procedures \X Views

(* Outside the invalid-parameter tests a request changes the service only after
   a look that showed this run's own template, or, the second DELETE of the
   DELETE test, no service at all; a look that was refused or showed somebody
   else's template leads to none.  So what is somebody else's is changed only
   when it came after that look (provision/service.py:204, :407). *)
ForeignServiceSpared ==
  \A h \in harmed : h[1] = "invalid" \/ h[2] = Own \/ h = <<"delete", "none">>

(* A service of this run that the session leaves on the EMS was kept on
   request or fails the teardown, also when the look of the clean-up was
   refused and counted as absent (provision/service.py:407). *)
LeftServiceIsReported == pc = "done" /\ svc = Own => keep \/ torn = "failed"

(* Reading and mutating tests never create the service: only the POST, the
   readiness test and an accepted invalid payload do, whatever the order of
   failures; a POST whose answer was lost may land later (inventory/
   service.py:113). *)
CreatorCreates == svc # Own /\ svc' = Own /\ ~late => test \in {"post", "ready", "invalid"}
OnlyCreatorsCreate == [][CreatorCreates]_vars

(* The tests and the teardown end: every wait has a deadline. *)
Ends == <>Done
=============================================================================
