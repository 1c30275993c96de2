----------------------------- MODULE NeoxConfig -----------------------------
(***************************************************************************)
(* The NeoX configuration tests (services/neox_config/service.py,          *)
(* profile_api.py, tests/test_neox_config.py, tests/test_neox_profile.py)  *)
(* of one session: each test registers clean-up callbacks, prepares the    *)
(* profiles that others reference, posts and deletes configuration on the  *)
(* device, and leaves the rest to its CleanupRegistry (utils/cleanup.py).  *)
(* A test is a list of operations in the code's order, each one request.   *)
(* A request may be refused, or raise with or without effect; a device may *)
(* take a POST over an existing object or refuse it.  Left out are lines   *)
(* that only the CLI sets and clears: the GE global setup, a variant's     *)
(* interface lines, the firmware lines of the ONT.                         *)
(***************************************************************************)
EXTENDS Naturals, SequencesExt

CONSTANTS
  Profiles,    \* profile types with a REST_API name of their own, and the GE interface with a payload that names profiles
  Direct,      \* NEOX_PROFILE_DEPENDENCIES and setup_profile_types: what each of them references, in its order
  Selections,  \* sequences of tests [name, of]
  Existing,    \* the profiles that an earlier run may have left behind
  Depth        \* bound: how far the table of references goes down

(* An interface or VLAN; the ONT; the SFU template and a profile it names. *)
Sfu == {"sfu_profile", "sfu"}
Objects == Profiles \union {"port", "ont"} \union Sfu
Contents == {"none", "old", "test", "base"}

Tests ==
  [name : {"rejected"}, of : Profiles \union {"port"}]
  \union [name : {"set_and_clear", "created", "clear", "errors"}, of : {"port"}]
  \union [name : {"profile", "profile_min", "profile_max", "profile_clear", "profile_errors", "igmp_bandwidth",
                    "ge_max", "ge_variant", "ont_create"}, of : Profiles]
  \union [name : {"ont_clear", "ont_errors", "ont_template"}, of : {"ont"}]

(* References go only further down. *)
NeoxAssumption ==
  /\ ({"port", "ont"} \union Sfu) \intersect Profiles = {}
  /\ Direct \in [Profiles -> Seq(Profiles)] /\ Depth \in Nat
  /\ \E level \in [Profiles -> 0..Depth] : \A p \in Profiles : \A q \in ToSet(Direct[p]) : level[q] < level[p]
  /\ Selections \subseteq Seq(Tests) /\ Existing \subseteq SUBSET Profiles

VARIABLES
  todo,      \* tests still to run
  test,      \* the name of the test that runs
  ops,       \* operations left of its body
  phase,     \* "body", "clean" or "done"
  callbacks, \* _callbacks of its CleanupRegistry, the last one runs first
  cfg,       \* device: the content of each object
  noted,     \* a CLI baseline
  wrong,     \* failures collected by an error matrix
  restored,  \* restore_state["done"]
  failed,    \* some test failed
  ignored,   \* history: objects one of whose clean-up requests did not succeed, unnoticed
  crossed    \* history: tests whose clean-up deleted a profile before what references it

body == <<todo, test, ops, phase, callbacks, noted, wrong, restored, failed>>
vars == <<body, cfg, ignored, crossed>>

(***************************************************************************)
(* The operations of a test.                                               *)
(***************************************************************************)
Op(name, x) == [op |-> name, x |-> x]

(* What b adds to a, in its order. *)
Join(a, b) ==
  LET upto[i \in 0..Len(b)] ==
        IF i = 0 THEN a ELSE IF b[i] \in ToSet(upto[i - 1]) THEN upto[i - 1] ELSE Append(upto[i - 1], b[i])
  IN upto[Len(b)]

(* _ensure_neox_profile_dependencies: depth first, each profile once. *)
Visited(p, below) ==
  LET upto[i \in 0..Len(Direct[p])] ==
        IF i = 0 THEN <<>> ELSE Join(upto[i - 1], Append(below[Direct[p][i]], Direct[p][i]))
  IN upto[Len(Direct[p])]
NeedsDownTo[depth \in 0..Depth] ==
  [p \in Profiles |-> IF depth = 0 THEN <<>> ELSE Visited(p, NeedsDownTo[depth - 1])]
Needs(p) == NeedsDownTo[Depth][p]

(* The same k operations for one element of s after the other. *)
InTurn(s, k, round) == [i \in 1..k * Len(s) |-> round[s[(i + k - 1) \div k]][((i - 1) % k) + 1]]

Added(x)   == <<Op("add_delete", x)>>
Replace(x) == <<Op("drop", x), Op("post", x)>>        \* delete if it exists, then POST
EnsureUnregistered(p) == InTurn(Needs(p), 2, [q \in Profiles |-> Replace(q)])
EnsureDependencies(p) == InTurn(Needs(p), 3, [q \in Profiles |-> Added(q) \o Replace(q)])

SetAndClear(x) == Added(x) \o <<Op("post", x), Op("delete", x)>>
Cleared(x) == <<Op("clear", x), Op("note", x)>> \o SetAndClear(x) \o <<Op("same", x)>>
Refusals(first, x, last) == <<Op(first, x), Op("post_invalid", x)>> \o last
Accepted(x) == EnsureDependencies(x) \o Replace(x) \o <<Op("look", x)>>
Shown(x)    == <<Op("clear", x), Op("post", x), Op("look", x)>>

(* The IGMP test removes the profile by REST and by the CLI when it ends, first
   in its finally blocks, then once more as clean-up; between them it makes the
   profile by the CLI, removes it, and posts it with a bad bandwidth. *)
Bandwidth(x) ==
  Added(x) \o Added(x) \o <<Op("add_finally", x), Op("add_finally", x)>> \o Shown(x)
    \o <<Op("clear", x), Op("gone", x), Op("drop", x), Op("post_invalid", x), Op("gone", x)>>

OpsOf(t) ==
  LET x == t.of IN
  CASE t.name = "rejected"       -> <<Op("post_invalid", x), Op("delete_invalid", x)>>
    [] t.name = "set_and_clear"  -> SetAndClear(x)
    [] t.name = "created"        -> Added(x) \o <<Op("post", x)>>
    [] t.name = "clear"          -> Cleared(x)
    [] t.name = "errors"         -> Added(x) \o Refusals("clear", x, <<>>) \o Refusals("clear", x, <<Op("assert", x)>>)
    [] t.name = "profile"        -> EnsureDependencies(x) \o Added(x) \o Replace(x) \o <<Op("delete", x)>>
    [] t.name = "profile_min"    -> Added(x) \o Accepted(x) \o Accepted(x)
    [] t.name = "profile_max"    -> EnsureDependencies(x) \o Added(x) \o Replace(x) \o <<Op("look", x)>>
    [] t.name = "profile_clear"  -> EnsureDependencies(x) \o Added(x) \o
         <<Op("drop", x), Op("note", x), Op("post", x), Op("delete", x), Op("same", x)>>
    [] t.name = "profile_errors" -> Added(x) \o EnsureDependencies(x) \o
         Refusals("drop", x, <<Op("absent", x), Op("assert", x)>>)
    [] t.name = "igmp_bandwidth" -> Bandwidth(x)
    [] t.name = "ge_max"         -> EnsureDependencies(x) \o Added(x) \o Shown(x)
    [] t.name = "ge_variant"     -> Added(x) \o <<Op("clear", x)>> \o EnsureDependencies(x) \o <<Op("post", x), Op("look", x)>>
    [] t.name = "ont_create"     -> EnsureDependencies(x) \o Added(x) \o Replace(x) \o
         <<Op("add_post", "ont"), Op("add_delete", "ont"), Op("clear", "ont"), Op("post", "ont"), Op("look", "ont")>>
    [] t.name = "ont_clear"      -> <<Op("add_strict", "ont")>> \o Cleared("ont")
    [] t.name = "ont_errors"     -> <<Op("add_strict", "ont")>> \o Refusals("clear", "ont", <<Op("assert", "ont")>>)
    [] t.name = "ont_template"   -> <<Op("ensure", "sfu_profile"), Op("ensure", "sfu"), Op("add_strict", "ont"),
         Op("look", "ont"), Op("clear", "ont"), Op("post", "ont"), Op("look", "ont"), Op("scenario", "ont")>>

Init ==
  /\ todo \in Selections /\ test = "" /\ ops = <<>> /\ phase = "body" /\ callbacks = <<>>
  /\ \E left \in Existing :
       cfg = [x \in Objects |-> IF x = "ont" THEN "base" ELSE IF x \in left THEN "old" ELSE "none"]
  /\ noted = "none" /\ wrong = FALSE /\ restored = FALSE /\ failed = FALSE /\ ignored = {} /\ crossed = {}

(***************************************************************************)
(* What a request does on the device.                                      *)
(***************************************************************************)
Present(x) == cfg[x] # "none"
Users(x)   == {q \in Profiles : x \in ToSet(Direct[q]) /\ Present(q)}
Ready(x)   ==
  /\ x \in Profiles => \A q \in ToSet(Direct[x]) : Present(q)
  /\ x = "sfu" => Present("sfu_profile")
Write(x, content) == cfg' = [cfg EXCEPT ![x] = content]

Deletes(x, answer) ==
  \/ answer = "ok" /\ Present(x) /\ Users(x) = {} /\ Write(x, "none")
  \/ answer = "refused" /\ UNCHANGED cfg
  \/ answer = "raise" /\ (UNCHANGED cfg \/ (Users(x) = {} /\ Write(x, "none")))
Posts(x, content, answer) ==
  \/ answer = "ok" /\ Ready(x) /\ Write(x, content)
  \/ answer = "refused" /\ UNCHANGED cfg
  \/ answer = "raise" /\ (UNCHANGED cfg \/ (Ready(x) /\ Write(x, content)))
Answers == {"ok", "refused", "raise"}

(***************************************************************************)
(* The body of a test.                                                     *)
(***************************************************************************)
Doing(set) == phase = "body" /\ ops # <<>> /\ Head(ops).op \in set
X == Head(ops).x
Continue == ops' = Tail(ops) /\ UNCHANGED failed
Stop     == ops' = <<Op("end", X)>> /\ failed' = TRUE        \* an exception ends the body
Other    == UNCHANGED <<todo, test, phase, crossed>>

StartTest ==
  /\ phase = "body" /\ ops = <<>> /\ todo # <<>>
  /\ test' = Head(todo).name /\ todo' = Tail(todo)
  /\ ops' = Append(OpsOf(Head(todo)), Op("end", Head(todo).of))
  /\ wrong' = FALSE /\ restored' = FALSE
  /\ UNCHANGED <<phase, callbacks, cfg, noted, failed, ignored, crossed>>

(* add, and add_strict_final for the restore of the ONT's baseline.  A finally
   block is a callback, too: it runs when the body is over, before the others. *)
Register ==
  /\ Doing({"add_delete", "add_post", "add_strict", "add_finally"}) /\ Continue
  /\ callbacks' = IF Head(ops).op = "add_strict" THEN <<Head(ops)>> \o callbacks ELSE Append(callbacks, Head(ops))
  /\ UNCHANGED <<cfg, noted, wrong, restored, ignored>> /\ Other

(* delete_profile_if_exists and a DELETE nobody looks at: only an exception
   matters. *)
Drop ==
  /\ Doing({"drop", "clear"})
  /\ \/ Head(ops).op = "drop" /\ Continue /\ UNCHANGED cfg    \* not found, or the look was refused
     \/ \E a \in Answers : Deletes(X, a) /\ IF a = "raise" THEN Stop ELSE Continue
  /\ UNCHANGED <<callbacks, noted, wrong, restored, ignored>> /\ Other

Post ==
  /\ Doing({"post"})
  /\ \E a \in Answers : Posts(X, "test", a) /\ IF a = "ok" THEN Continue ELSE Stop
  /\ UNCHANGED <<callbacks, noted, wrong, restored, ignored>> /\ Other

Delete ==
  /\ Doing({"delete"})
  /\ \E a \in Answers : Deletes(X, a) /\ IF a = "ok" THEN Continue ELSE Stop
  /\ UNCHANGED <<callbacks, noted, wrong, restored, ignored>> /\ Other

(* A request that must be refused: success ends the test, a refusal with the
   wrong message is collected by a matrix and ends the other tests. *)
Matrix == test \notin {"rejected", "igmp_bandwidth"}
Refuse ==
  /\ Doing({"post_invalid", "delete_invalid"})
  /\ \E a \in Answers :
       /\ IF Head(ops).op = "post_invalid" THEN Posts(X, "test", a) ELSE Deletes(X, a)
       /\ \/ a = "refused" /\ Continue /\ UNCHANGED wrong
          \/ a = "refused" /\ Matrix /\ Continue /\ wrong' = TRUE
          \/ (a # "refused" \/ ~Matrix) /\ Stop /\ UNCHANGED wrong
  /\ UNCHANGED <<callbacks, noted, restored, ignored>> /\ Other

(* The residual GET of a profile error matrix, and its final assertion. *)
Absent ==
  /\ Doing({"absent"})
  /\ \/ ~Present(X) /\ Continue /\ UNCHANGED wrong
     \/ Continue /\ wrong' = TRUE
     \/ Stop /\ UNCHANGED wrong
  /\ UNCHANGED <<callbacks, cfg, noted, restored, ignored>> /\ Other
Conclude ==
  /\ Doing({"assert"}) /\ IF wrong THEN Stop ELSE Continue
  /\ UNCHANGED <<callbacks, cfg, noted, wrong, restored, ignored>> /\ Other

(* Readings of REST or the CLI; a clear must bring back what was noted, and the
   CLI must not show what is gone. *)
Read ==
  /\ Doing({"look", "note", "same", "gone"})
  /\ noted' = IF Head(ops).op = "note" THEN cfg[X] ELSE noted
  /\ \/ (Head(ops).op = "same" => cfg[X] = noted) /\ (Head(ops).op = "gone" => ~Present(X)) /\ Continue
     \/ Stop
  /\ UNCHANGED <<callbacks, cfg, wrong, restored, ignored>> /\ Other

(* ensure_neox_profile_ready, for the profiles of the SFU template, all alike,
   and then for the template: what is there is taken as it is, and nothing of it
   is ever removed. *)
Ensure ==
  /\ Doing({"ensure"})
  /\ \/ Present(X) /\ Continue /\ UNCHANGED cfg
     \/ \E a \in Answers : Posts(X, "test", a) /\ IF a = "ok" THEN Continue ELSE Stop
  /\ UNCHANGED <<callbacks, noted, wrong, restored, ignored>> /\ Other

(* Bringing the ONT back: Baseline models converge_ont_baseline, which comes
   to TRUE only when REST and the CLI showed the baseline. *)
Converges(ok) == IF ok THEN Write("ont", "base") ELSE \E c \in {"none", "test", "base"} : Write("ont", c)

Scenario ==
  /\ Doing({"scenario"})
  /\ \E ok \in BOOLEAN : Converges(ok) /\ restored' = ok /\ IF ok THEN Continue ELSE Stop
  /\ UNCHANGED <<callbacks, noted, wrong, ignored>> /\ Other

EndBody ==
  /\ Doing({"end"}) /\ phase' = "clean" /\ ops' = <<>>
  /\ UNCHANGED <<todo, test, callbacks, cfg, noted, wrong, restored, failed, ignored, crossed>>

(***************************************************************************)
(* CleanupRegistry.run: exceptions and refusals of plain callbacks are     *)
(* ignored, a strict one that fails blocks the test.  An exception in a    *)
(* finally block fails it.                                                 *)
(***************************************************************************)
RunCallback ==
  /\ phase = "clean" /\ callbacks # <<>>
  /\ callbacks' = Front(callbacks)
  /\ LET c == Last(callbacks) IN
     \/ /\ c.op = "add_strict" /\ UNCHANGED <<ignored, crossed>>
        /\ IF restored THEN UNCHANGED <<cfg, failed>>
           ELSE \E ok \in BOOLEAN : Converges(ok) /\ failed' = (failed \/ ~ok)
     \/ /\ c.op = "add_finally" /\ UNCHANGED <<ignored, crossed>>
        /\ \E a \in Answers : Deletes(c.x, a) /\ failed' = (failed \/ a = "raise")
     \/ /\ c.op \in {"add_delete", "add_post"} /\ UNCHANGED failed
        /\ \E a \in Answers :
             /\ IF c.op = "add_delete" THEN Deletes(c.x, a) ELSE Posts(c.x, "base", a)
             /\ ignored' = IF a = "ok" \/ (c.op = "add_delete" /\ ~Present(c.x)) THEN ignored ELSE ignored \union {c.x}
        /\ crossed' = IF c.op = "add_delete" /\ \E q \in Users(c.x) : Op("add_delete", q) \in ToSet(Front(callbacks))
                      THEN crossed \union {test} ELSE crossed
  /\ UNCHANGED <<todo, test, ops, phase, noted, wrong, restored>>

EndTest ==
  /\ phase = "clean" /\ callbacks = <<>>
  /\ phase' = IF todo = <<>> THEN "done" ELSE "body"
  /\ UNCHANGED <<todo, test, ops, callbacks, cfg, noted, wrong, restored, failed, ignored, crossed>>

Done == phase = "done"

Next ==
  \/ StartTest \/ Register \/ Drop \/ Post \/ Delete \/ Refuse \/ Absent \/ Conclude \/ Read \/ Ensure \/ Scenario
  \/ EndBody \/ RunCallback \/ EndTest

(* One thread runs the tests. *)
Spec == Init /\ [][Next]_vars /\ WF_vars(Next)
-----------------------------------------------------------------------------
TypeOK ==
  /\ \A i \in DOMAIN ops : ops[i].x \in Objects
  /\ \A i \in DOMAIN callbacks : callbacks[i].op \in {"add_delete", "add_post", "add_strict", "add_finally"}
  /\ phase \in {"body", "clean", "done"} /\ {wrong, restored, failed} \subseteq BOOLEAN
  /\ cfg \in [Objects -> Contents] /\ noted \in Contents /\ ignored \subseteq Objects

(* An interface, a VLAN or a profile of its own name that the tests made and
   left on the device failed a test, unless a clean-up request was refused or
   broke off and nobody looked at its answer (service.py:167, 266,
   cleanup.py:28-34): nothing is created before its removal is registered.  The
   SFU template and its profiles are meant to stay and are no part of this
   (service.py:222-233). *)
LeftConfigIsReported ==
  Done => \A x \in Profiles \union {"port"} : cfg[x] = "test" => failed \/ x \in ignored

(* The ONT ends on its baseline, or a test failed; only the create tests
   restore it by a callback whose failure goes unnoticed
   (tests/test_neox_config.py:1317). *)
BaselineBack == Done /\ ~failed /\ cfg["ont"] # "base" => "ont" \in ignored

(* A clean-up deletes a profile or an interface before the profiles it
   references.  Three tests register the removal of their own object first and
   so delete what it references under it: the min and the error test of a
   profile (tests/test_neox_profile.py:90) and the GE variants
   (tests/test_neox_config.py:218), whose setup profiles the device may then
   refuse to delete. *)
OwnFirst == {"profile_min", "profile_errors", "ge_variant"}
CleanUpTopDown == crossed \subseteq OwnFirst

(* Every scenario ends, with its clean-up. *)
Ends == <>Done
=============================================================================
