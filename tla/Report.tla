------------------------------- MODULE Report -------------------------------
(***************************************************************************)
(* What a pytest session reports (utils/reporting.py, utils/cleanup.py,    *)
(* tests/support/reporting_hooks.py, tests/support/report_writer.py):      *)
(* items run one after another, a test body registers clean-up callbacks,  *)
(* the fixtures of the item and, after the last item, those of the session *)
(* are torn down, and the session finish writes the report from the        *)
(* outcomes and teardown errors recorded so far.  pytest itself is         *)
(* external: setup, call, teardown; all the exceptions of one teardown are *)
(* raised as one, a single one as it is and several as a group; Ctrl-C     *)
(* goes to the session finish, which tears down what is still set up       *)
(* before the trylast hook that writes the report.                         *)
(***************************************************************************)
EXTENDS Integers, Sequences

CONSTANTS
  Items,          \* the number of selected tests, run in the order 1..Items
  CaseOf,         \* the case ids each item is registered under
  Role,           \* the permission role of an item, "" for none
  MaxCallbacks    \* bound: callbacks one test registers

Tests == 1..Items
Cases == UNION {CaseOf[i] : i \in Tests}
Outcomes == {"passed", "failed", "skipped", "blocked"}

ReportAssumption ==
  /\ Items \in Nat \ {0} /\ MaxCallbacks \in Nat
  /\ CaseOf \in [Tests -> SUBSET Cases]
  /\ Role \in [Tests -> {"", "readonly", "noaccess"}]

VARIABLES
  pc,           \* the phase of the session
  item,         \* the test that runs
  callbacks,    \* _callbacks of its CleanupRegistry, the last one runs first
  strictErrors, \* strict callbacks that failed in this CleanupRegistry.run
  raised,       \* exceptions of this teardown, one per finaliser: "strict", "other"
  results,      \* REPORT_STATE.results: the outcome of a test, "" for none
  errors,       \* REPORT_STATE.teardown_errors
  interrupted,  \* Ctrl-C was pressed
  report,       \* what the session finish left behind
  pools,        \* the SSH session pools
  strictFailed, \* history: tests with a strict callback that failed
  troubled,     \* history: tests whose teardown raised more than one exception
  outOfOrder    \* history: a strict restore ran before a plain callback

vars == <<pc, item, callbacks, strictErrors, raised, results, errors,
          interrupted, report, pools, strictFailed, troubled, outOfOrder>>
history == <<strictFailed, troubled, outOfOrder>>

Init ==
  /\ pc = "setup" /\ item = 1 /\ callbacks = <<>> /\ strictErrors = 0 /\ raised = <<>>
  /\ results = [i \in Tests |-> ""] /\ errors = {} /\ interrupted = FALSE
  /\ report = "none" /\ pools = "open"
  /\ strictFailed = {} /\ troubled = {} /\ outOfOrder = FALSE

RecordResult(outcome) == results' = [results EXCEPT ![item] = outcome]

(* Fixtures set up; a failed or skipped setup is the result of the test. *)
Setup ==
  /\ pc = "setup"
  /\ \/ pc' = "call" /\ UNCHANGED results
     \/ \E o \in {"failed", "skipped"} : RecordResult(o) /\ pc' = "teardown"
  /\ UNCHANGED <<item, callbacks, strictErrors, raised, errors, interrupted, report, pools, history>>

Register(seq) ==
  /\ pc = "call" /\ Len(callbacks) < MaxCallbacks
  /\ callbacks' = seq
  /\ UNCHANGED <<pc, item, strictErrors, raised, results, errors, interrupted, report, pools, history>>

Add            == Register(Append(callbacks, "plain"))
AddFinal       == Register(<<"final">> \o callbacks)
AddStrictLast  == Register(Append(callbacks, "strict"))
AddStrictFinal == Register(<<"strict">> \o callbacks)

CallEnds ==
  /\ pc = "call" /\ pc' = "teardown"
  /\ \E o \in {"passed", "failed", "skipped"} : RecordResult(o)
  /\ UNCHANGED <<item, callbacks, strictErrors, raised, errors, interrupted, report, pools, history>>

(* One round of CleanupRegistry.run: only a strict callback's failure is
   kept.  Ctrl-C is no Exception and leaves the loop. *)
RunCallback ==
  /\ pc \in {"teardown", "late"} /\ callbacks # <<>>
  /\ LET last == callbacks[Len(callbacks)]
         rest == SubSeq(callbacks, 1, Len(callbacks) - 1)
     IN /\ callbacks' = rest
        /\ outOfOrder' = (outOfOrder \/ (last = "strict" /\ \E k \in DOMAIN rest : rest[k] = "plain"))
        /\ \/ UNCHANGED <<strictErrors, strictFailed>>
           \/ /\ last = "strict"
              /\ strictErrors' = strictErrors + 1 /\ strictFailed' = strictFailed \union {item}
  /\ UNCHANGED <<pc, item, raised, results, errors, interrupted, report, pools, troubled>>

(* run() raises one StrictCleanupError for all strict failures; then the
   item's other fixtures are finalised, one of which may raise (the logout of
   its session), and after the last item those of the session. *)
SessionTeardown == pc = "late" \/ item = Items
Finalise ==
  /\ pc \in {"teardown", "late"} /\ callbacks = <<>>
  /\ LET strict == IF strictErrors > 0 THEN <<"strict">> ELSE <<>>
     IN \E own, session \in {<<>>, <<"other">>} :
          /\ SessionTeardown \/ session = <<>>
          /\ raised' = strict \o own \o session
          /\ troubled' = IF Len(raised') > 1 THEN troubled \union {item} ELSE troubled
  /\ strictErrors' = 0
  /\ pc' = IF pc = "late" THEN "write" ELSE "log"
  /\ UNCHANGED <<item, callbacks, results, errors, interrupted, report, pools, strictFailed, outOfOrder>>

(* errisinstance: an exception group is not a StrictCleanupError. *)
IsStrict == raised = <<"strict">>

(* pytest_runtest_logreport and record_teardown_error: listed; a strict one
   turns the test's latest result into blocked if it had passed. *)
LogTeardown ==
  /\ pc = "log"
  /\ errors' = IF raised = <<>> THEN errors ELSE errors \union {[item |-> item, strict |-> IsStrict]}
  /\ results' = IF IsStrict /\ results[item] = "passed" THEN [results EXCEPT ![item] = "blocked"] ELSE results
  /\ raised' = <<>>
  /\ IF item < Items THEN item' = item + 1 /\ pc' = "setup" ELSE pc' = "write" /\ UNCHANGED item
  /\ UNCHANGED <<callbacks, strictErrors, interrupted, report, pools, history>>

(* Ctrl-C: the test that runs gets no result and no teardown report.  What is
   set up is torn down by the session finish; a clean-up that is interrupted
   has dropped its remaining callbacks. *)
Interrupt ==
  /\ pc \in {"setup", "call", "teardown"} /\ ~interrupted
  /\ interrupted' = TRUE /\ pc' = "late"
  /\ callbacks' = IF pc = "teardown" THEN <<>> ELSE callbacks
  /\ strictErrors' = 0
  /\ UNCHANGED <<item, raised, results, errors, report, pools, history>>

(***************************************************************************)
(* The report.                                                             *)
(***************************************************************************)
Missing == {i \in Tests : results[i] = ""}
CompletenessOfResults == IF Missing # {} THEN "Incomplete" ELSE "Complete"
CompletenessText == IF Missing # {} \/ interrupted THEN "Incomplete" ELSE "Complete"

Combine(set) ==
  IF "failed" \in set THEN "failed" ELSE IF "blocked" \in set THEN "blocked"
  ELSE IF "skipped" \in set THEN "skipped" ELSE IF "passed" \in set THEN "passed" ELSE "skipped"

CombinePermission(set) ==
  IF "failed" \in set THEN "failed" ELSE IF "blocked" \in set THEN "blocked"
  ELSE IF "passed" \in set THEN "passed" ELSE "skipped"

Reported == Tests \ Missing

(* A case id that a test without a role reported is not also reported for the
   tests with a role, which go into the summary of their role. *)
PlainCases == UNION {CaseOf[i] : i \in {j \in Reported : Role[j] = ""}}
Members(c) == {i \in Reported : c \in CaseOf[i] /\ (Role[i] = "" \/ c \notin PlainCases)}
CaseLines == {c \in Cases : Members(c) # {}}
RoleLines == {Role[i] : i \in Reported} \ {""}
CaseOutcome(c) == Combine({results[i] : i \in Members(c)})
RoleOutcome(r) == CombinePermission({results[i] : i \in {j \in Reported : Role[j] = r}})
Lines == {CaseOutcome(c) : c \in CaseLines} \union {RoleOutcome(r) : r \in RoleLines}

OverallStatus ==
  IF "failed" \in Lines THEN "failed" ELSE IF "blocked" \in Lines THEN "blocked"
  ELSE IF "passed" \in Lines THEN "passed" ELSE "skipped"

(* pytest_sessionfinish: pytest's own hook has torn down what was left; when
   that raised, the trylast hook never runs.  Otherwise it closes the pools
   and writes the report, unless no case line would be in it or the writing
   fails. *)
SessionFinish ==
  /\ pc = "write" /\ pc' = "done"
  /\ IF raised # <<>> THEN report' = "lost" /\ UNCHANGED pools
     ELSE /\ pools' = "closed"
          /\ IF Lines = {} THEN report' = "skipped" ELSE report' \in {"written", "failed"}
  /\ UNCHANGED <<item, callbacks, strictErrors, raised, results, errors, interrupted, history>>

Done == pc = "done"

Next ==
  \/ Setup \/ Add \/ AddFinal \/ AddStrictFinal \/ CallEnds \/ RunCallback
  \/ Finalise \/ LogTeardown \/ Interrupt \/ SessionFinish

(* One thread runs the session. *)
Spec == Init /\ [][Next]_vars /\ WF_vars(Next)
-----------------------------------------------------------------------------
TypeOK ==
  /\ pc \in {"setup", "call", "teardown", "log", "late", "write", "done"}
  /\ item \in Tests
  /\ callbacks \in Seq({"plain", "final", "strict"})
  /\ strictErrors \in Nat /\ raised \in Seq({"strict", "other"})
  /\ results \in [Tests -> Outcomes \union {""}]
  /\ errors \subseteq [item : Tests, strict : BOOLEAN]
  /\ interrupted \in BOOLEAN /\ outOfOrder \in BOOLEAN
  /\ report \in {"none", "written", "skipped", "failed", "lost"} /\ pools \in {"open", "closed"}
  /\ strictFailed \subseteq Tests /\ troubled \subseteq Tests

Written == report = "written"

(* What cleanup.py:9 and reporting.py:156 say: a passed case whose strict
   clean-up fails is recorded as Blocked (in a run that nobody stopped). *)
StrictFailureBlocks ==
  Written /\ ~interrupted => \A i \in strictFailed : results[i] # "passed"

(* What the code gives of it: a test whose strict restore failed, with nothing
   else failing in that teardown and no Ctrl-C in it, is listed and neither it
   nor a line it belongs to is shown as Pass. *)
LoneStrictFailureShown ==
  Written => \A i \in strictFailed \ troubled :
     (interrupted /\ i = item)
     \/ /\ \E e \in errors : e.item = i
        /\ results[i] # "passed" /\ \A c \in CaseOf[i] : i \in Members(c) => CaseOutcome(c) # "passed"

(* The device's baseline is restored after every ordinary clean-up of the
   test, in whatever order they were registered (cleanup.py:20-24): only
   callbacks added with add_final may still follow. *)
RestoreAfterCleanups == ~outOfOrder

(* "Complete" is only written when every selected test ran to a result and
   nobody stopped the run (report_writer.py:321). *)
CompleteMeansAll ==
  Written /\ CompletenessText = "Complete" => ~interrupted /\ \A i \in Tests : results[i] # ""

(* No failure of a registered test hides in the aggregation: a green overall
   status means that no test with a case id failed or was blocked
   (report_writer.py:821-871). *)
GreenReportIsGreen ==
  Written /\ OverallStatus = "passed" =>
     \A i \in Tests : CaseOf[i] # {} => results[i] \notin {"failed", "blocked"}

(* A session without a report or with open SSH pools was interrupted, and a
   fixture failed while pytest tore down what was left (reporting_hooks.py:111). *)
LostOnlyWhenTornDownLate == Done /\ report = "lost" => interrupted

(* Every run comes to its end, whatever breaks. *)
Ends == <>Done
=============================================================================
