------------------------------ MODULE Workspace ------------------------------
(***************************************************************************)
(* The profile cases of tests/test_profiles.py and the ProfileWorkspace    *)
(* they share (services/profile/service.py): each case deletes, borrows or *)
(* creates catalogue profiles with everything they reference, and the      *)
(* module's teardown deletes what the workspace has planned or created.    *)
(* A case is a list of operations on single profiles, in the code's order; *)
(* each REST call is a step and may be refused or raise, with or without   *)
(* effect.  Another client may change a profile or use one in between.     *)
(***************************************************************************)
EXTENDS Naturals, SequencesExt

CONSTANTS
  Order,      \* the catalogue's profiles, definitions_create_order: references first
  Below,      \* the profiles each of them references, directly or not
  Selections, \* sequences of cases [op, p]
  Existing,   \* the contents the EMS may start with
  Others      \* bound: what other clients do

Profiles == ToSet(Order)
Contents == {"none", "yaml", "changed", "other"}
CaseNames == {"post", "get", "patch", "delete", "post_invalid", "patch_invalid"}

WorkspaceAssumption ==
  /\ Order \in Seq(Profiles) /\ Order # <<>> /\ Below \in [Profiles -> SUBSET Profiles]
  /\ \A i, j \in DOMAIN Order : Order[i] \in Below[Order[j]] => i < j
  /\ Selections \subseteq Seq([op : CaseNames, p : Profiles])
  /\ Existing \subseteq [Profiles -> Contents \ {"changed"}]
  /\ Others \in Nat

VARIABLES
  cases,     \* cases still to run
  case,      \* the case that runs; op "end" is the module's teardown
  ops,       \* operations left of this case
  at,        \* the step of the first one
  attempt,   \* verify_post_case: the attempt that runs
  created, planned, borrowed,   \* the workspace
  errors,    \* the workspace clean-up that runs met an error
  base,      \* baseline_content of a PATCH case
  failed,    \* some case failed
  torn,      \* how the module's teardown ended
  prof,      \* EMS: the content of each profile, "none" without one
  pinned,    \* EMS: profiles that something outside the catalogue references
  ours,      \* history: existing profiles that a POST of this run created
  unsure,    \* history: profiles one of whose GETs or POSTs was refused or raised, or
             \* that another client has registered
  swept,     \* history: profiles of others that the workspace clean-up deleted
  others     \* steps other clients have made

wksp == <<created, planned, borrowed>>
ctl  == <<cases, case, attempt, torn>>
ems  == <<prof, pinned, ours>>
vars == <<ctl, failed, ops, at, wksp, errors, base, ems, unsure, swept, others>>

(***************************************************************************)
(* The operations of a case.                                               *)
(***************************************************************************)
Op(name, p)     == [op |-> name, p |-> p]
Each(name, seq) == [i \in DOMAIN seq |-> Op(name, seq[i])]

(* definitions_create_order and definitions_delete_order of some profiles. *)
CreateOrder(some) ==
  LET upTo[n \in 0..Len(Order)] ==
        IF n = 0 THEN <<>> ELSE IF Order[n] \in some THEN Append(upTo[n - 1], Order[n]) ELSE upTo[n - 1]
  IN  upTo[Len(Order)]
DeleteOrder(some) == Reverse(CreateOrder(some))

Refs(p)       == CreateOrder(Below[p])
Dependents(p) == DeleteOrder({q \in Profiles : p \in Below[q]})

Removal(p) == Each("remove", Dependents(p)) \o <<Op("remove", p)>>    \* ensure_profile_deleted
Need(p)   == Each("need", Refs(p))                                   \* ensure_profile_dependencies

OpsOf(c) ==
  CASE c.op = "post"          -> Removal(c.p) \o Need(c.p) \o <<Op("post", c.p)>>
    [] c.op = "get"           -> <<Op("find", c.p)>>
    [] c.op = "patch"         -> <<Op("find", c.p), Op("read", c.p)>> \o Need(c.p) \o <<Op("patch", c.p), Op("restore", c.p)>>
    [] c.op = "delete"        -> <<Op("find", c.p)>> \o Removal(c.p) \o <<Op("absent", c.p)>>
    [] c.op = "post_invalid"  -> Removal(c.p) \o Need(c.p) \o <<Op("post_invalid", c.p), Op("residual", c.p)>>
    [] c.op = "patch_invalid" -> <<Op("find", c.p), Op("read", c.p)>> \o Need(c.p) \o <<Op("patch_invalid", c.p), Op("compare", c.p)>>

(* ProfileWorkspace.cleanup: definitions_delete_order of what it owns. *)
Sweep(owned) == Each("sweep", DeleteOrder(owned)) \o <<Op("swept", Order[1])>>

Init ==
  /\ cases \in Selections /\ case = Op("start", Order[1]) /\ ops = <<>> /\ at = "call" /\ attempt = 0
  /\ created = {} /\ planned = {} /\ borrowed = {} /\ errors = FALSE /\ base = "none"
  /\ failed = FALSE /\ torn = "no"
  /\ prof \in Existing /\ pinned = {} /\ ours = {}
  /\ unsure = {} /\ swept = {} /\ others = 0

(***************************************************************************)
(* What a request does on the EMS: it deletes no profile that another one  *)
(* references, and creates none whose references are missing.              *)
(***************************************************************************)
Has(p)  == prof[p] # "none"
Used(p) == p \in pinned \/ \E q \in Profiles : p \in Below[q] /\ Has(q)
Free(p) == \A q \in Below[p] : Has(q)

Write(p, content, mine) ==
  prof' = [prof EXCEPT ![p] = content] /\ ours' = mine /\ UNCHANGED pinned
Drop(p)  == Has(p) /\ ~Used(p) /\ Write(p, "none", ours \ {p})
Enter(p) == ~Has(p) /\ Free(p) /\ Write(p, "yaml", ours \union {p})
Alter(p, content) == Has(p) /\ Write(p, content, ours)

Answers == {"ok", "missing", "used", "error", "raise"}

Deletes(p, answer) ==
  \/ answer = "ok" /\ Drop(p)
  \/ answer = "missing" /\ ~Has(p) /\ UNCHANGED ems
  \/ answer = "used" /\ Has(p) /\ Used(p) /\ UNCHANGED ems
  \/ answer = "error" /\ UNCHANGED ems
  \/ answer = "raise" /\ (UNCHANGED ems \/ Drop(p))
Posts(p, answer) ==
  \/ answer = "ok" /\ Enter(p)
  \/ answer \in {"error", "capacity"} /\ UNCHANGED ems
  \/ answer = "raise" /\ (UNCHANGED ems \/ Enter(p))
Patches(p, content, answer) ==
  \/ answer = "ok" /\ Alter(p, content)
  \/ answer = "error" /\ UNCHANGED ems
  \/ answer = "raise" /\ (UNCHANGED ems \/ Alter(p, content))

Doubt(p, answer) == unsure' = IF answer \in {"error", "capacity", "raise"} THEN unsure \union {p} ELSE unsure
Looks(p) == {prof[p], "error", "raise"}

OtherClient ==
  /\ others < Others /\ others' = others + 1
  /\ \/ \E p \in Profiles : ~Has(p) /\ Free(p) /\ Write(p, "other", ours) /\ unsure' = unsure \union {p}
     \/ \E p \in Profiles : Drop(p) /\ UNCHANGED unsure
     \/ \E p \in Profiles : Has(p) /\ pinned' = pinned \union {p} /\ UNCHANGED <<prof, ours, unsure>>
     \/ pinned # {} /\ pinned' = {} /\ UNCHANGED <<prof, ours, unsure>>
  /\ UNCHANGED <<ctl, failed, ops, at, wksp, errors, base, swept>>

(***************************************************************************)
(* The workspace, and how operations and cases end.                        *)
(***************************************************************************)
Plan(p)    == planned' = (IF p \in created \union borrowed THEN planned ELSE planned \union {p}) /\ UNCHANGED <<created, borrowed>>
Add(p)     == created' = created \union {p} /\ planned' = planned \ {p} /\ borrowed' = borrowed \ {p}
Borrow(p)  == borrowed' = (IF p \in created THEN borrowed ELSE borrowed \union {p}) /\ planned' = planned \ {p} /\ UNCHANGED created
Discard(p) == created' = created \ {p} /\ planned' = planned \ {p} /\ borrowed' = borrowed \ {p}
Same       == UNCHANGED wksp

In(name, step) == ops # <<>> /\ Head(ops).op = name /\ at = step
P == Head(ops).p
Go(step) == at' = step /\ UNCHANGED <<ops, ctl, failed>>
Then(more, bad) == at' = "call" /\ ops' = more \o Tail(ops) /\ failed' = (failed \/ bad) /\ UNCHANGED ctl
Ok == Then(<<>>, FALSE)

(* An exception or a skip ends the case, a PATCH by way of its finally. *)
Leave(bad) ==
  /\ at' = "call" /\ failed' = (failed \/ bad) /\ UNCHANGED ctl
  /\ ops' = IF Head(ops).op = "patch" THEN <<Op("restore", P)>> ELSE <<>>
Raise == Leave(TRUE)
Skip  == Leave(FALSE)

Aside == UNCHANGED <<errors, base, swept, others>>

StartCase ==
  /\ ops = <<>> /\ torn = "no"
  /\ IF cases # <<>> THEN case' = Head(cases) /\ cases' = Tail(cases) /\ ops' = OpsOf(Head(cases))
     ELSE case' = Op("end", Order[1]) /\ ops' = Sweep(created \union planned) /\ UNCHANGED cases
  /\ attempt' = 0
  /\ UNCHANGED <<failed, torn, at, wksp, errors, base, ems, unsure, swept, others>>

(* ensure_profile_exists_or_skip: anything but a success counts as absent. *)
Find ==
  /\ In("find", "call")
  /\ \E r \in Looks(P) :
       /\ Doubt(P, r)
       /\ CASE r \in {"none", "error"} -> Then(Need(P) \o <<Op("create", P)>>, FALSE) /\ Same
            [] r = "raise"             -> Raise /\ Same
            [] OTHER                   -> Ok /\ Borrow(P)
  /\ UNCHANGED ems /\ Aside

(* plan, POST, add: a prerequisite that cannot be created skips the case; a
   POST case that meets the EMS's capacity cleans up and starts once more. *)
Create ==
  /\ (In("create", "call") \/ In("post", "call"))
  /\ \E a \in {"ok", "error", "capacity", "raise"} :
       /\ Posts(P, a) /\ Doubt(P, a)
       /\ CASE a = "ok" -> Ok /\ Add(P)
            [] a \in {"error", "capacity"} /\ Head(ops).op = "create" -> Skip /\ Plan(P)
            [] a = "capacity" /\ Head(ops).op = "post" /\ attempt = 0 ->
                 /\ Plan(P) /\ ops' = Sweep(created \union planned') /\ at' = "call" /\ UNCHANGED <<ctl, failed>>
            [] OTHER -> Raise /\ Plan(P)
  /\ Aside

(***************************************************************************)
(* ensure_prerequisite_profile: use what matches, repair what is one's own,*)
(* replace what differs, create what is missing.                           *)
(***************************************************************************)
NeedLook ==
  /\ In("need", "call")
  /\ \E r \in Looks(P) :
       /\ Doubt(P, r)
       /\ CASE r = "yaml"              -> Ok /\ Borrow(P)
            [] r \in {"none", "error"} -> Go("create") /\ Same
            [] r = "raise"             -> Raise /\ Same
            [] OTHER                   -> Go(IF P \in created THEN "repair" ELSE "replace") /\ Same
  /\ UNCHANGED ems /\ Aside

NeedRepair ==
  /\ In("need", "repair")
  /\ \E a \in {"ok", "error", "raise"} : Patches(P, "yaml", a) /\ IF a = "ok" THEN Go("await") ELSE Raise
  /\ Same /\ UNCHANGED unsure /\ Aside

NeedReplace ==
  /\ In("need", "replace")
  /\ \E a \in Answers : Deletes(P, a) /\ IF a \in {"ok", "missing"} THEN Go("gone") ELSE Raise
  /\ Same /\ UNCHANGED unsure /\ Aside

NeedCreate ==
  /\ (In("need", "create") \/ (In("need", "gone") /\ ~Has(P)))
  /\ \E a \in {"ok", "error", "raise"} :
       /\ Posts(P, a) /\ Doubt(P, a)
       /\ IF a = "ok" THEN Go("await") /\ Add(P) ELSE Raise /\ Plan(P)
  /\ Aside

(* ensure_profile_deleted: also what the run has not created, but nothing that
   is in use; a look that is refused counts as absent. *)
RemoveLook ==
  /\ In("remove", "call")
  /\ \E r \in Looks(P) : Doubt(P, r) /\ CASE r \in {"none", "error"} -> Ok
                                           [] r = "raise"             -> Raise
                                           [] OTHER                   -> Go("delete")
  /\ Same /\ UNCHANGED ems /\ Aside

RemoveDelete ==
  /\ In("remove", "delete")
  /\ \E a \in Answers : Deletes(P, a) /\ CASE a = "ok" -> Ok [] a = "used" -> Skip [] OTHER -> Raise
  /\ Same /\ UNCHANGED unsure /\ Aside

(* verify_delete_case: forgotten, not found, and not deletable again. *)
Absent ==
  /\ In("absent", "call")
  /\ IF Has(P) THEN Raise ELSE Go("again") \/ Raise
  /\ Discard(P) /\ UNCHANGED <<ems, unsure>> /\ Aside
AbsentAgain ==
  /\ In("absent", "again")
  /\ \E a \in Answers : Deletes(P, a) /\ IF a \in {"missing", "error"} THEN Ok ELSE Raise
  /\ Same /\ UNCHANGED unsure /\ Aside

(***************************************************************************)
(* PATCH, valid and invalid, and the content it must leave behind.         *)
(***************************************************************************)
ReadBase ==
  /\ In("read", "call")
  /\ \E r \in Looks(P) :
       IF r \in {"none", "error", "raise"} THEN Raise /\ UNCHANGED base ELSE Ok /\ base' = r
  /\ Same /\ UNCHANGED <<ems, unsure, errors, swept, others>>

PatchCall ==
  /\ In("patch", "call")
  /\ \E a \in {"ok", "error", "raise"} : Patches(P, "changed", a) /\ IF a = "ok" THEN Go("await") ELSE Raise
  /\ Same /\ UNCHANGED unsure /\ Aside

Restore ==
  /\ (In("restore", "call") \/ In("compare", "undo"))
  /\ \E a \in {"ok", "error", "raise"} : Patches(P, base, a) /\ IF a = "ok" THEN Go("await") ELSE Raise
  /\ Same /\ UNCHANGED unsure /\ Aside

(* A wait for the content; whatever it said, a PATCH is undone, and a change
   by an invalid PATCH fails the case. *)
Wanted == CASE Head(ops).op = "need" -> "yaml" [] Head(ops).op = "patch" -> "changed" [] OTHER -> base
Await ==
  /\ ops # <<>> /\ (at = "await" \/ In("need", "gone"))
  /\ \/ at = "await" /\ prof[P] = Wanted /\ Head(ops).op # "compare" /\ Ok
     \/ Raise
  /\ Same /\ UNCHANGED <<ems, unsure>> /\ Aside

PatchInvalid ==
  /\ In("patch_invalid", "call")
  /\ \E a \in {"ok", "error", "raise"} :
       Patches(P, "changed", a) /\ IF a = "raise" THEN Raise ELSE Then(<<>>, a = "ok")
  /\ Same /\ UNCHANGED unsure /\ Aside

Compare ==
  /\ In("compare", "call")
  /\ \E r \in Looks(P) : CASE r \in {"none", "error", "raise"} -> Raise
                           [] r = base                         -> Ok
                           [] OTHER                            -> Go("undo")
  /\ Same /\ UNCHANGED <<ems, unsure>> /\ Aside

(***************************************************************************)
(* An invalid POST: what it leaves on the EMS is adopted and deleted.      *)
(***************************************************************************)
PostInvalid ==
  /\ In("post_invalid", "call")
  /\ \E a \in {"ok", "error", "raise"} :
       /\ Posts(P, a) /\ Doubt(P, a)
       /\ IF a = "raise" THEN Raise ELSE Then(<<>>, a = "ok")
  /\ Plan(P) /\ Aside

Residual ==
  /\ In("residual", "call")
  /\ \E r \in Looks(P) : /\ Doubt(P, r)
                         /\ CASE r = "none"               -> Ok /\ Discard(P)
                              [] r \in {"error", "raise"} -> Raise /\ Same
                              [] OTHER                    -> Go("delete") /\ Add(P)
  /\ UNCHANGED ems /\ Aside
ResidualGone ==
  /\ In("residual", "gone")
  /\ Raise /\ (IF Has(P) THEN Same ELSE Discard(P) \/ Same)
  /\ UNCHANGED <<ems, unsure>> /\ Aside

(***************************************************************************)
(* delete_temporary_profile, in the workspace clean-up and for a residual: *)
(* retried while the profile is referenced.  The clean-up goes on after an *)
(* error and raises at its end.                                            *)
(***************************************************************************)
InSweep == ops # <<>> /\ Head(ops).op = "sweep"
Bad     == IF InSweep THEN Ok /\ errors' = TRUE ELSE Raise /\ UNCHANGED errors
Forget  == created' = created \ {P} /\ planned' = planned \ {P} /\ UNCHANGED borrowed

SweepLook ==
  /\ In("sweep", "call")
  /\ \E r \in Looks(P) : CASE r = "none"               -> Ok /\ Forget /\ UNCHANGED errors
                           [] r \in {"error", "raise"} -> Bad /\ Same
                           [] OTHER                    -> Go("delete") /\ Same /\ UNCHANGED errors
  /\ UNCHANGED <<ems, unsure, base, swept, others>>

SweepDelete ==
  /\ (In("sweep", "delete") \/ In("residual", "delete"))
  /\ \E a \in Answers :
       /\ Deletes(P, a)
       /\ CASE a = "ok"   -> Go("gone") /\ UNCHANGED errors
            [] a = "used" -> (Go("delete") /\ UNCHANGED errors) \/ Bad
            [] OTHER      -> Bad
  /\ swept' = IF InSweep /\ Has(P) /\ prof'[P] = "none" /\ P \notin ours THEN swept \union {P} ELSE swept
  /\ Same /\ UNCHANGED <<unsure, base, others>>

SweepGone ==
  /\ In("sweep", "gone")
  /\ \/ ~Has(P) /\ Ok /\ Forget /\ UNCHANGED errors
     \/ Bad /\ Same
  /\ UNCHANGED <<ems, unsure, base, swept, others>>

(* The end of the clean-up: inside a POST case its second attempt follows. *)
Swept ==
  /\ In("swept", "call")
  /\ at' = "call" /\ errors' = FALSE /\ borrowed' = {} /\ UNCHANGED <<cases, case, created, planned>>
  /\ IF case.op = "end" THEN ops' = <<>> /\ torn' = (IF errors THEN "failed" ELSE "clean") /\ UNCHANGED <<attempt, failed>>
     ELSE /\ ops' = (IF errors THEN <<>> ELSE OpsOf(case)) /\ failed' = (failed \/ errors)
          /\ attempt' = 1 /\ UNCHANGED torn
  /\ UNCHANGED <<ems, unsure, base, swept, others>>

Done == torn # "no"

Tests ==
  \/ StartCase \/ Find \/ Create \/ NeedLook \/ NeedRepair \/ NeedReplace \/ NeedCreate \/ RemoveLook \/ RemoveDelete
  \/ Absent \/ AbsentAgain \/ ReadBase \/ PatchCall \/ Restore \/ Await \/ PatchInvalid \/ Compare \/ PostInvalid
  \/ Residual \/ ResidualGone \/ SweepLook \/ SweepDelete \/ SweepGone \/ Swept

Next == Tests \/ OtherClient

Spec == Init /\ [][Next]_vars /\ WF_vars(Tests)
-----------------------------------------------------------------------------
TypeOK ==
  /\ cases \in Seq([op : CaseNames, p : Profiles]) /\ case.p \in Profiles
  /\ \A i \in DOMAIN ops : ops[i].p \in Profiles
  /\ attempt \in 0..1 /\ others \in 0..Others /\ base \in Contents /\ torn \in {"no", "clean", "failed"}
  /\ {errors, failed} \subseteq BOOLEAN
  /\ prof \in [Profiles -> Contents]
  /\ UNION {created, planned, borrowed, pinned, ours, unsure, swept} \subseteq Profiles
  /\ (created \union borrowed) \intersect planned = {} /\ created \intersect borrowed = {}

(* The workspace's clean-up deletes a profile the run did not create only when
   a GET or a POST of it had been refused or broken off before, so that it was
   planned although it existed (service.py:110, 374-377), or when another client
   has created it during the run, under a name the run had planned or created. *)
CleanUpSparesOthers == swept \subseteq unsure

(* What the run created and leaves behind fails a teardown or a case; only a
   profile whose POST was answered by an exception, or whose look-up after a
   POST that should have failed was refused, may be taken over as borrowed by a
   later case and stay (service.py:121). *)
LeftProfilesAreReported ==
  Done => \A p \in ours : Has(p) => torn = "failed" \/ (failed /\ p \in unsure)

(* A PATCH case leaves no profile with the test's content unless it failed;
   also when the profile was only borrowed (service.py:231-236, 322). *)
PatchesAreUndone == Done /\ ~failed => \A p \in Profiles : prof[p] # "changed"

(* The clean-up takes referencing profiles before what they reference, so none
   of them is still to come when a profile it names is deleted: it does not
   wait for itself (service.py:140). *)
CleanUpTopDown ==
  InSweep => \A i \in 2..Len(ops) : ops[i].op = "sweep" => P \notin Below[ops[i].p]

(* The cases and the clean-up end: every wait has a deadline. *)
Ends == <>Done
=============================================================================
