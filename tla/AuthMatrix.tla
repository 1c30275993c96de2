----------------------------- MODULE AuthMatrix -----------------------------
(***************************************************************************)
(* The permission summaries of the three external accounts                 *)
(* (services/auth_matrix/service.py): requests of the account under test   *)
(* that must be allowed or rejected, and, for what must not change, looks  *)
(* through the session of a readwrite observer.  The EMS may answer as it  *)
(* should or not, and a request it answers with a rejection may still have *)
(* been carried out: that is what the observer is there to find.           *)
(***************************************************************************)
EXTENDS Naturals, Sequences, Functions

CONSTANTS
  Roles,    \* the accounts that are tried
  HasGe,    \* has_ge_target
  Remote    \* --run-remote

AuthAssumption ==
  /\ Roles \subseteq {"readwrite", "readonly", "noaccess"} /\ {HasGe, Remote} \subseteq BOOLEAN

VARIABLES
  role,      \* the account whose summary runs
  ops,       \* calls left
  tried,     \* inside the try whose finally removes the profile
  before,    \* the observer's view of the protected profile
  failed,    \* the summary failed
  prof,      \* EMS: the content of the ephemeral profiles
  services,  \* EMS: services that a restricted account has changed
  ignored,   \* the DELETE of delete_profile_if_present did not succeed
  unseen     \* history: a look that was refused has passed for the absence of a profile

vars == <<role, ops, tried, before, failed, prof, services, ignored, unseen>>

(* A call: what it does, to which object, and what the test expects. *)
Call(do, x, expect) == [do |-> do, x |-> x, expect |-> expect]

If(condition, calls) == IF condition THEN calls ELSE <<>>
Reads(expect) ==
  [i \in 1..3 |-> Call("read", "inventory", expect)] \o If(HasGe, <<Call("read", "ge", expect)>>)
Rejected(do, x) == Call(do, x, "rejected")

ServicesRejected ==
  <<Rejected("change", "ont"), Rejected("change", "ont"), Rejected("change", "ont")>>
  \o If(HasGe, <<Call("read", "ge", "observed"), Rejected("change", "ge"), Rejected("change", "ge"), Rejected("change", "ge")>>)
  \o <<Rejected("read", "remote")>>

(* A rejected POST must leave no profile; it is not inside a try. *)
CreateRefused == <<Rejected("create", "new")>>
CreateRejected == <<Rejected("create", "new"), Call("absent", "new", "observed")>>

Protected(reads) ==
  <<Call("try", "kept", "allowed"), Call("create", "kept", "observed"), Call("note", "kept", "observed")>> \o reads
  \o <<Rejected("patch", "kept"), Call("unchanged", "kept", "observed"),
       Rejected("delete", "kept"), Call("unchanged", "kept", "observed"), Call("drop", "kept", "observed")>>

CallsOf(r) ==
  CASE r = "readwrite" -> Reads("allowed") \o
         <<Call("read", "alarms", "no_data"), Call("try", "new", "allowed"), Call("create", "new", "allowed"),
           Call("read", "new", "allowed"), Call("patch", "new", "allowed"), Call("read", "new", "allowed"),
           Call("delete", "new", "allowed"), Call("drop", "new", "allowed")>>
         \o If(Remote, <<Call("read", "remote", "allowed")>>)
    [] r = "readonly" -> Reads("allowed") \o <<Call("read", "alarms", "no_data")>>
         \o CreateRejected \o ServicesRejected \o Protected(<<>>)
    [] r = "noaccess" -> Reads("rejected") \o <<Rejected("read", "alarms"), Rejected("read", "alarms")>>
         \o CreateRejected \o ServicesRejected \o Protected(<<Rejected("read", "kept")>>)

Init ==
  /\ role \in Roles /\ ops = CallsOf(role)
  /\ tried = FALSE /\ before = "none" /\ failed = FALSE
  /\ prof = [x \in {"new", "kept"} |-> "none"] /\ services = {} /\ ignored = FALSE /\ unseen = FALSE

(***************************************************************************)
(* What a request does on the EMS.                                         *)
(***************************************************************************)
Carried(do, x) ==
  /\ prof' = CASE do = "create" /\ prof[x] = "none"  -> [prof EXCEPT ![x] = "post"]
               [] do = "patch"  /\ prof[x] # "none"  -> [prof EXCEPT ![x] = "patched"]
               [] do = "delete"                      -> [prof EXCEPT ![x] = "none"]
               [] OTHER                              -> prof
  /\ services' = IF do = "change" THEN services \union {x} ELSE services
Nothing == UNCHANGED <<prof, services>>
Exists(x) == x \in DOMAIN prof => prof[x] # "none"

C == Head(ops)
Continue == ops' = Tail(ops) /\ UNCHANGED <<failed, tried>>
(* An exception leaves the summary, by way of the finally. *)
Finally == CHOOSE c \in Range(ops) : c.do = "drop"
Stop == /\ ops' = (IF tried THEN <<Finally>> ELSE <<>>)
        /\ failed' = TRUE /\ tried' = FALSE

Requests == {"read", "create", "patch", "delete", "change"}

(* assert_api_success: the answer says success, with or without effect, or
   the summary fails. *)
Allowed ==
  /\ ops # <<>> /\ C.do \in Requests /\ C.expect \in {"allowed", "observed"}
  /\ Nothing \/ Carried(C.do, C.x)
  /\ \/ (C.do = "read" => Exists(C.x)) /\ Continue
     \/ Stop
  /\ UNCHANGED <<role, before, ignored, unseen>>

(* assert_read_or_no_data. *)
ReadOrNoData ==
  /\ ops # <<>> /\ C.expect = "no_data" /\ (Continue \/ Stop)
  /\ UNCHANGED <<role, before, prof, services, ignored, unseen>>

(* assert_api_failure looks at the answer only: it need not be the truth. *)
Reject ==
  /\ ops # <<>> /\ C.expect = "rejected"
  /\ (Nothing \/ Carried(C.do, C.x)) /\ (Continue \/ Stop)
  /\ UNCHANGED <<role, before, ignored, unseen>>

Try ==
  /\ ops # <<>> /\ C.do = "try" /\ tried' = TRUE /\ ops' = Tail(ops)
  /\ UNCHANGED <<role, before, failed, prof, services, ignored, unseen>>

(* get_profile_json and assert_profile_json_unchanged through the observer,
   whose GET must succeed; assert_profile_absent is content with any answer
   that says Fail, a refused session or a server error included. *)
Observe ==
  /\ ops # <<>> /\ C.do \in {"note", "absent", "unchanged"}
  /\ before' = IF C.do = "note" THEN prof[C.x] ELSE before
  /\ \/ /\ C.do \in {"note", "unchanged"} => Exists(C.x)
        /\ C.do = "unchanged" => prof[C.x] = before
        /\ unseen' = (unseen \/ (C.do = "absent" /\ Exists(C.x)))
        /\ Continue
     \/ Stop /\ UNCHANGED unseen
  /\ UNCHANGED <<role, prof, services, ignored>>

(* delete_profile_if_present in the finally: nobody looks at the answers. *)
Drop ==
  /\ ops # <<>> /\ C.do = "drop"
  /\ \/ /\ Carried("delete", C.x) /\ ops' = Tail(ops) /\ UNCHANGED <<failed, ignored>>
     \/ /\ Nothing /\ ops' = Tail(ops) /\ ignored' = Exists(C.x) /\ UNCHANGED failed
     \/ /\ (Nothing \/ Carried("delete", C.x)) /\ ops' = <<>> /\ failed' = TRUE /\ UNCHANGED ignored
  /\ tried' = FALSE
  /\ UNCHANGED <<role, before, unseen>>

Done == ops = <<>>

Next == Allowed \/ ReadOrNoData \/ Reject \/ Try \/ Observe \/ Drop

Spec == Init /\ [][Next]_vars /\ WF_vars(Next)
-----------------------------------------------------------------------------
TypeOK ==
  /\ role \in Roles /\ {tried, failed, ignored, unseen} \subseteq BOOLEAN
  /\ \A i \in DOMAIN ops : ops[i].expect \in {"allowed", "observed", "no_data", "rejected"}
  /\ before \in {"none", "post", "patched"} /\ prof \in [{"new", "kept"} -> {"none", "post", "patched"}]
  /\ services \subseteq {"ont", "ge"}

(* When the calls on a profile are over and the summary has not failed, no
   rejected request has changed or removed it, whatever the EMS answered, and
   none has created one, unless the observer's look for it was itself refused:
   assert_profile_absent takes any Fail for absence (service.py:346-348).
   (Changes to a service would go unnoticed: service.py:144-165 looks at the
   answers only.) *)
RejectionsAreReal ==
  /\ role # "readwrite" /\ ~failed /\ tried /\ ops # <<>> /\ C.do = "drop" => prof["kept"] = "post"
  /\ role # "readwrite" /\ Done /\ ~failed => prof["new"] = "none" \/ unseen

(* An ephemeral profile has a name of its own, so no later run removes it: one
   that stays has failed the summary, unless it is the one that the finally
   removes and its removal was refused (service.py:312-315), or the one of the
   rejected POST and the look for it was refused (service.py:346-348). *)
Ephemeral == IF role = "readwrite" THEN "new" ELSE "kept"
LeftProfileIsReported ==
  Done /\ ~failed =>
    /\ prof[Ephemeral] # "none" => ignored
    /\ \A x \in DOMAIN prof \ {Ephemeral} : prof[x] # "none" => x = "new" /\ unseen

(* Every summary ends. *)
Ends == <>Done
=============================================================================
