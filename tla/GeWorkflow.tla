----------------------------- MODULE GeWorkflow -----------------------------
(***************************************************************************)
(* The GE service tests of one pytest session against the one GE service   *)
(* of the node's test port: services/provision/service.py,                 *)
(* services/invalid_params/service.py, tests/test_provision.py with its    *)
(* GeServiceWorkflowState, and the CLI evidence of ge_cli_config.py.       *)
(* Unlike the ONT service, the GE service is changed by its service id:    *)
(* one that was replaced after the look is a different one.  Every REST    *)
(* call and every CLI reading of the PATCH monitor is a step.              *)
(***************************************************************************)
EXTENDS Naturals, Sequences

CONSTANTS
  Selections,   \* the selections of tests, each a sequence in collection order
  Attempts,     \* bound: POSTs, or rounds of the PATCH monitor, that fit into their wait
  Others        \* bound: what others do to the service

TestNames == {"post", "put", "patch", "delete", "invalid"}

(* pytest collects a test once; each invalid payload is a test of its own. *)
GeAssumption ==
  /\ Selections \subseteq Seq(TestNames)
  /\ \A s \in Selections : \A i, j \in DOMAIN s : s[i] = "patch" /\ s[j] = "patch" => i = j
  /\ {Attempts, Others} \subseteq Nat \ {0}

VARIABLES
  todo,      \* tests still to run
  test,      \* the test that runs, "down" for the teardown of the template
  pc,        \* its next step
  id,        \* the service id its last GET returned
  n,         \* POSTs or rounds left
  wf,        \* GeServiceWorkflowState: post, cli, put, patch; put_running_config is "put"
  tpl,       \* the session fixture temporary_ge_template
  prep,      \* the session fixture prepared_ge_service
  evidence,  \* what monitor_ge_patch_transition has observed
  torn,      \* how the teardown of the template ended
  svc,       \* EMS: whose template the service uses, "none" without a service
  gen,       \* EMS: the service id of the last service created
  state,     \* EMS: its state
  cfg,       \* device: the GE running config, by the request it goes back to
  late,      \* EMS: a POST whose caller gave up may still take effect
  others,    \* steps others have made
  harmed,    \* history: the tests that changed a foreign service
  redone,    \* history: the service has been reprovisioned since the last PATCH
  garbled    \* history: the PATCH monitor read truncated CLI output

work    == <<wf, prep, torn, tpl>>
run     == <<todo, test, pc, id, n, work, evidence>>
ems     == <<svc, gen, state, cfg, late>>
history == <<harmed, redone, garbled>>
vars    == <<run, ems, others, history>>

NoService == svc = "none"
NoEvidence == [reprovision |-> FALSE, cleared |-> FALSE, restored |-> FALSE]

Init ==
  /\ todo \in Selections /\ test = "" /\ pc = "next" /\ id = 0 /\ n = 0
  /\ wf = [post |-> "no", cli |-> "no", put |-> "no", patch |-> "no"]
  /\ tpl = "none" /\ prep = "none" /\ evidence = NoEvidence /\ torn = "no"
  /\ svc \in {"none", "foreign"} /\ gen = 1 /\ state = "Success" /\ cfg = "other" /\ late = FALSE
  /\ others = 0 /\ harmed = {} /\ redone = FALSE /\ garbled = FALSE

(***************************************************************************)
(* What a request does on the EMS.                                         *)
(***************************************************************************)
Quiet == UNCHANGED <<ems, history>>
Hits  == ~NoService /\ id = gen      \* a request that names the service id
Harm  == harmed' = IF svc = "foreign" THEN harmed \union {test} ELSE harmed

(* A request that raises may have reached the EMS, a POST may reach it later. *)
Removed == Hits /\ Harm /\ svc' = "none" /\ cfg' = "none" /\ UNCHANGED <<gen, state, late, redone, garbled>>
Created == svc' = "own" /\ gen' = gen + 1 /\ state' = "busy" /\ cfg' = "post"

DeleteAnswers(answer) ==
  \/ answer \in {"ok", "raise"} /\ Removed
  \/ answer = "missing" /\ ~Hits /\ Quiet
  \/ answer \in {"error", "raise"} /\ Quiet

PostAnswers(answer) ==
  \/ answer = "conflict" /\ ~NoService /\ Quiet
  \/ answer = "ok" /\ NoService /\ tpl = "up" /\ Created /\ UNCHANGED <<late, history>>
  \/ answer \in {"error", "raise"} /\ Quiet
  \/ answer = "raise" /\ late' = TRUE /\ UNCHANGED <<svc, gen, state, cfg, history>>

Creates(owner) == svc' = owner /\ gen' = gen + 1 /\ state' = "Success" /\ cfg' = "other"

(* The EMS finishes what it was asked for; a reprovision clears the port's
   configuration and writes it again. *)
Ems ==
  \/ /\ ~NoService
     /\ \/ state \in {"busy", "Reprovision"} /\ state' \in {"Success", "Fail"} /\ UNCHANGED <<cfg, redone>>
        \/ state = "Reprovision" /\ cfg = "put" /\ cfg' = "none" /\ redone' = TRUE /\ UNCHANGED state
        \/ svc = "own" /\ cfg = "none" /\ cfg' = "put" /\ UNCHANGED <<state, redone>>
     /\ UNCHANGED <<run, svc, gen, late, others, harmed, garbled>>
  \/ late /\ late' = FALSE /\ NoService /\ tpl = "up" /\ Created /\ UNCHANGED <<run, others, history>>

OtherClient ==
  /\ others < Others /\ others' = others + 1
  /\ \/ NoService /\ Creates("foreign")
     \/ ~NoService /\ svc' = "none" /\ cfg' = "none" /\ UNCHANGED <<gen, state>>
  /\ UNCHANGED <<run, late, history>>

(***************************************************************************)
(* How a test goes on and ends.                                            *)
(***************************************************************************)
Go(step) == pc' = step /\ UNCHANGED work
Local == UNCHANGED <<todo, test>>

(* except Exception: the state remembers which part failed. *)
Fail ==
  /\ wf' = CASE test = "post"  -> IF wf.post = "ok" THEN [wf EXCEPT !.cli = "failed"] ELSE [wf EXCEPT !.post = "failed"]
             [] test = "put"   -> [wf EXCEPT !.put = "failed"]
             [] test = "patch" -> [wf EXCEPT !.patch = "failed"]
             [] OTHER          -> wf
  /\ torn' = IF test = "down" THEN "failed" ELSE torn
  /\ pc' = IF test = "down" THEN "done" ELSE "next"
  /\ UNCHANGED <<prep, tpl>>

Finish(changed) == wf' = changed /\ pc' = "next" /\ UNCHANGED <<prep, torn, tpl>>

NextTest ==
  /\ pc = "next" /\ todo # <<>>
  /\ test' = Head(todo) /\ todo' = Tail(todo) /\ Go("start")
  /\ UNCHANGED <<id, n, evidence, ems, others, history>>

Mutates == test \in {"put", "patch", "delete"}

(* prepared_ge_service is evaluated once; it never creates a service. *)
PrepFixture ==
  /\ pc = "start" /\ Mutates /\ prep = "none"
  /\ prep' = IF wf.post = "ok" /\ wf.cli = "ok" THEN "ok" ELSE "broken"
  /\ UNCHANGED <<todo, test, pc, id, n, wf, torn, tpl, evidence, ems, others, history>>

(* temporary_ge_template: TempGraph models its creation. *)
NeedsTemplate == ~Mutates \/ prep = "ok"
MakeTemplate ==
  /\ pc = "start" /\ NeedsTemplate /\ tpl = "none"
  /\ tpl' \in {"up", "broken"}
  /\ UNCHANGED <<todo, test, pc, id, n, wf, prep, torn, evidence, ems, others, history>>

(* The guards at the top of the PATCH and DELETE tests. *)
Blocked == \/ Mutates /\ prep = "broken"
           \/ NeedsTemplate /\ tpl = "broken"
           \/ test = "patch" /\ prep = "ok" /\ tpl = "up" /\ wf.put # "ok"
           \/ test = "delete" /\ prep = "ok" /\ tpl = "up" /\ wf.patch # "ok"

Skip ==
  /\ pc = "start" /\ Blocked /\ Go("next")
  /\ Local /\ Quiet /\ UNCHANGED <<id, n, evidence, others>>

Start ==
  /\ pc = "start" /\ tpl = "up" /\ (Mutates => prep = "ok") /\ ~Blocked
  /\ pc' = "look" /\ n' \in 1..Attempts
  /\ wf' = IF test = "post" THEN [post |-> "no", cli |-> "no", put |-> "no", patch |-> "no"] ELSE wf
  /\ UNCHANGED <<prep, torn, tpl>>
  /\ Local /\ Quiet /\ UNCHANGED <<id, evidence, others>>

(***************************************************************************)
(* A look at the port, and the removal of what it shows.                   *)
(***************************************************************************)
(* delete_ge_service_if_exists of POST and of the invalid-parameter tests,
   _ge_service_id_for_mutation, delete_ge_service_if_uses_template. *)
Look ==
  /\ pc = "look"
  /\ \E r \in {svc, "error", "raise"} :
       /\ id' = IF r \in {"own", "foreign"} THEN gen ELSE id
       /\ \/ r = "own" /\ Go(IF test \in {"put", "patch"} THEN "request" ELSE "delete")
          \/ r = "foreign" /\ CASE test \in {"post", "invalid"} -> Go("delete")
                                [] test = "down"               -> Go("profiles")
                                [] OTHER                       -> Fail
          \/ r = "none" /\ CASE test \in {"post", "invalid"} -> Go("create")
                             [] test = "down"               -> Go("profiles")
                             [] OTHER                       -> Fail
          \/ r = "error" /\ (IF test = "invalid" THEN Go("create") ELSE Fail)
          \/ r = "raise" /\ Fail
  /\ Local /\ Quiet /\ UNCHANGED <<n, evidence, others>>

(* POST accepts a service that is gone, the invalid-parameter tests any
   answer; DELETE and the clean-up insist on a success. *)
Delete ==
  /\ pc = "delete"
  /\ \E a \in {"ok", "missing", "error", "raise"} :
       /\ DeleteAnswers(a)
       /\ IF a = "ok" \/ (a = "missing" /\ test \in {"post", "invalid"}) \/ (a = "error" /\ test = "invalid")
          THEN Go("gone") ELSE Fail
  /\ Local /\ UNCHANGED <<id, n, evidence, others>>

AwaitRemoval ==
  /\ pc = "gone"
  /\ \/ NoService /\ Go(CASE test = "delete" -> "verify" [] test = "down" -> "profiles" [] OTHER -> "create")
     \/ Fail
  /\ Local /\ Quiet /\ UNCHANGED <<id, n, evidence, others>>

(***************************************************************************)
(* POST with retry, and the payloads that must be refused.                 *)
(***************************************************************************)
(* A wait has a deadline: so many POSTs or rounds fit into it. *)
NoDeadline == n
RoundsLeft == n - 1

Create ==
  /\ pc = "create"
  /\ IF n = 0 THEN Fail /\ Quiet /\ UNCHANGED n
     ELSE \E a \in {"ok", "conflict", "error", "raise"} :
            /\ PostAnswers(a)
            /\ n' = IF test = "invalid" /\ a = "conflict" THEN n ELSE RoundsLeft
            /\ CASE a = "ok" /\ test = "post"                 -> Go("state")
                 [] a = "conflict" /\ test = "post"           -> Go("look")
                 [] a = "error" /\ test = "invalid"           -> Go(IF n = 1 THEN "next" ELSE "look")
                 [] OTHER                                     -> Fail
  /\ Local /\ UNCHANGED <<id, evidence, others>>

(* The wait for Success and the comparison with template and payload. *)
AwaitCreated ==
  /\ pc = "state" /\ test = "post"
  /\ \/ svc = "own" /\ state = "Success" /\ wf' = [wf EXCEPT !.post = "ok"] /\ pc' = "cli" /\ UNCHANGED <<prep, torn, tpl>>
     \/ Fail
  /\ Local /\ Quiet /\ UNCHANGED <<id, n, evidence, others>>

(* wait_for_ge_cli_config: POST needs one matching reading, PUT two equal
   ones, and the last reading of PATCH one. *)
AwaitCli ==
  /\ pc = "cli"
  /\ \/ /\ cfg = IF test = "post" THEN "post" ELSE "put"
        /\ Finish(CASE test = "post"  -> [wf EXCEPT !.cli = "ok"]
                    [] test = "put"   -> [wf EXCEPT !.put = "ok"]
                    [] OTHER          -> [wf EXCEPT !.patch = "ok"])
     \/ Fail
  /\ Local /\ Quiet /\ UNCHANGED <<id, n, evidence, others>>

(***************************************************************************)
(* PUT, and PATCH under the eyes of monitor_ge_patch_transition.           *)
(***************************************************************************)
Put ==
  /\ pc = "request" /\ test = "put"
  /\ \/ Hits /\ Harm /\ state' = "busy" /\ cfg' = "put" /\ (Go("settle") \/ Fail) /\ UNCHANGED <<svc, gen, late, redone, garbled>>
     \/ Fail /\ Quiet
  /\ Local /\ UNCHANGED <<id, n, evidence, others>>

AwaitUpdated ==
  /\ pc = "settle" /\ test = "put"
  /\ \/ ~NoService /\ state = "Success" /\ svc = "own" /\ Go("cli")
     \/ Fail
  /\ Local /\ Quiet /\ UNCHANGED <<id, n, evidence, others>>

(* The CLI must still show what PUT left before PATCH is sent; a device that
   takes the PATCH without doing anything stays in Success. *)
Patch ==
  /\ pc = "request" /\ test = "patch"
  /\ \/ /\ cfg = "put" /\ Hits /\ Harm
        /\ state' \in {"Reprovision", state} /\ redone' = (state' = "Reprovision") /\ garbled' = FALSE
        /\ evidence' = NoEvidence /\ (Go("watch") \/ Fail) /\ UNCHANGED <<svc, gen, cfg, late>>
     \/ Fail /\ Quiet /\ UNCHANGED evidence
  /\ Local /\ UNCHANGED <<id, n, others>>

Cleared(reading) == evidence.cleared \/ reading # "put"
Restored(reading) == evidence.restored \/ (Cleared(reading) /\ reading = "put")
Complete(seen) == seen.reprovision \/ (seen.cleared /\ seen.restored)

(* One round: the REST state, then the CLI, which may change in between; a
   port the EMS does not find just now counts as the state Missing. *)
WatchState ==
  /\ pc = "watch"
  /\ \/ ~NoService /\ state # "Fail"
        /\ evidence' = [evidence EXCEPT !.reprovision = evidence.reprovision \/ state = "Reprovision"]
        /\ Go(IF state = "Success" THEN "watch_success" ELSE "watch_other")
     \/ Go("watch_other") /\ UNCHANGED evidence
     \/ Fail /\ UNCHANGED evidence
  /\ Local /\ Quiet /\ UNCHANGED <<id, n, others>>

WatchCli ==
  /\ pc \in {"watch_success", "watch_other"}
  /\ \E reading \in {cfg, "truncated"} :
       LET seen == [evidence EXCEPT !.cleared = Cleared(reading), !.restored = Restored(reading)]
       IN /\ evidence' = seen /\ garbled' = (garbled \/ reading = "truncated")
          /\ IF pc = "watch_success" /\ Complete(seen) /\ reading = "put" THEN Go("cli") \/ Fail
             ELSE (n > 1 /\ Go("watch")) \/ Fail
  /\ n' = RoundsLeft
  /\ Local /\ UNCHANGED <<id, others, ems, harmed, redone>>

(* After DELETE: a GET that does not find it, a second DELETE of the id that
   may succeed, and a GET that does not find it either. *)
VerifyRemoved ==
  /\ pc = "verify"
  /\ (NoService /\ Go("second")) \/ Fail
  /\ Local /\ Quiet /\ UNCHANGED <<id, n, evidence, others>>

SecondDelete ==
  /\ pc = "second"
  /\ \E a \in {"ok", "missing", "error", "raise"} :
       /\ DeleteAnswers(a)
       /\ IF a \in {"ok", "missing"} THEN Go("still") ELSE Fail
  /\ Local /\ UNCHANGED <<id, n, evidence, others>>

StillRemoved ==
  /\ pc = "still"
  /\ (NoService /\ Finish([wf EXCEPT !.cli = "no", !.put = "no"])) \/ Fail
  /\ Local /\ Quiet /\ UNCHANGED <<id, n, evidence, others>>

(***************************************************************************)
(* Teardown of temporary_ge_template.                                      *)
(***************************************************************************)
StartTeardown ==
  /\ pc = "next" /\ todo = <<>>
  /\ test' = "down" /\ Go(IF tpl = "up" THEN "look" ELSE "done")
  /\ UNCHANGED <<todo, id, n, evidence, ems, others, history>>

(* The EMS does not delete a template that a service uses. *)
DeleteProfiles ==
  /\ pc = "profiles"
  /\ \/ svc # "own" /\ tpl' = "gone" /\ torn' = "clean" /\ pc' = "done" /\ UNCHANGED <<wf, prep>>
     \/ Fail
  /\ Local /\ Quiet /\ UNCHANGED <<id, n, evidence, others>>

Done == pc = "done"

Tests ==
  \/ NextTest \/ PrepFixture \/ MakeTemplate \/ Skip \/ Start \/ Look \/ Delete \/ AwaitRemoval \/ Create
  \/ AwaitCreated \/ AwaitCli \/ Put \/ AwaitUpdated \/ Patch \/ WatchState \/ WatchCli \/ VerifyRemoved
  \/ SecondDelete \/ StillRemoved \/ StartTeardown \/ DeleteProfiles

Next == Tests \/ Ems \/ OtherClient

Spec == Init /\ [][Next]_vars /\ WF_vars(Tests)
-----------------------------------------------------------------------------
Outcome == {"no", "ok", "failed"}

TypeOK ==
  /\ todo \in Seq(TestNames) /\ test \in TestNames \union {"", "down"}
  /\ pc \in {"next", "start", "look", "delete", "gone", "create", "state", "cli", "request", "settle", "watch",
             "watch_success", "watch_other", "verify", "second", "still", "profiles", "done"}
  /\ id \in 0..gen /\ n \in 0..Attempts /\ gen \in Nat /\ others \in 0..Others
  /\ wf \in [post : Outcome, cli : Outcome, put : Outcome, patch : Outcome]
  /\ tpl \in {"none", "up", "broken", "gone"} /\ prep \in {"none", "ok", "broken"} /\ torn \in {"no", "clean", "failed"}
  /\ evidence \in [reprovision : BOOLEAN, cleared : BOOLEAN, restored : BOOLEAN]
  /\ svc \in {"none", "own", "foreign"} /\ state \in {"busy", "Success", "Fail", "Reprovision"}
  /\ cfg \in {"other", "none", "post", "put"} /\ late \in BOOLEAN
  /\ harmed \subseteq TestNames \union {"down"} /\ redone \in BOOLEAN /\ garbled \in BOOLEAN

(* Only POST and the invalid-parameter tests remove a service of somebody
   else, on purpose; PUT, PATCH, DELETE and the clean-up never reach one, not
   even one that took the port after their look (provision/service.py:305). *)
ForeignServiceSpared == harmed \subseteq {"post", "invalid"}

(* A PATCH that passes has really reprovisioned the service, unless the
   monitor once read truncated CLI output, which it takes for a cleared
   configuration (ge_cli_config.py:336, 356). *)
PatchEvidenceIsReal == wf.patch = "ok" /\ ~garbled => redone

(* A service of this run that the session leaves on the port fails the
   teardown (provision/service.py:449). *)
LeftServiceIsReported == Done /\ svc = "own" => torn = "failed"

(* The tests and the teardown end: every wait has a deadline. *)
Ends == <>Done
=============================================================================
