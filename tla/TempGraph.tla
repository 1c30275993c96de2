------------------------------ MODULE TempGraph ------------------------------
(***************************************************************************)
(* Temporary profile graphs (services/profile/service.py), the manifests   *)
(* that register them on disk (temporary_registry.py), the fixtures that   *)
(* create and remove them (tests/support/fixtures.py), and the later       *)
(* clean-up of what interrupted runs left (tools/cleanup_stale_test_data). *)
(*                                                                         *)
(* The profiles of a graph are numbered in the order of their creation, so *)
(* that a profile only refers to smaller numbers and the root is the last. *)
(* A name is a token and a number: version and node are those of the EMS   *)
(* and node at hand.  A run may be interrupted at any step, and an EMS     *)
(* call that raises may have been applied.                                 *)
(*                                                                         *)
(* A manifest counts as old enough for the clean-up only after its run has *)
(* ended: min_age_hours (24 by default) is longer than a run.              *)
(***************************************************************************)
EXTENDS Integers, FiniteSets

CONSTANTS
  Runs,         \* pytest sessions that use a temporary template
  Tok,          \* run tokens (two hexadecimal digits in the code)
  Depth,        \* profiles in a graph
  Deps,         \* the profiles each profile refers to
  MaxAttempts,  \* TEMPORARY_PROFILE_TOKEN_ATTEMPTS
  MaxFaults,    \* bound on the EMS calls that fail without a reason
  MaxInterrupts,\* bound on the interruptions
  None          \* no token, no run

Name == Tok \X (1..Depth)

ASSUME GraphAssumption ==
  /\ Depth \in Nat \ {0} /\ MaxAttempts \in Nat \ {0}
  /\ Deps \in [1..Depth -> SUBSET (1..Depth)]
  /\ \A k \in 1..Depth : \A d \in Deps[k] : d < k
ASSUME BoundAssumption == MaxFaults \in Nat /\ MaxInterrupts \in Nat
ASSUME NullAssumption == None \notin Tok \cup Runs

VARIABLES
  \* the EMS
  owner,        \* the run that created each profile, None if it does not exist
  svc,          \* the template the node's service uses, by its token
  \* the disk
  manifest,     \* each run's manifest
  old,          \* runs whose manifest is old enough
  \* each run
  pc,
  token,        \* the names it has chosen
  tries,        \* the loop over the tokens
  at,           \* the profile being created or deleted
  made,         \* len(definitions)
  undone,       \* cleanup_succeeded
  \* the clean-up tool
  cpc, todo,    \* records of its scan that are left
  record, cat,  \* the record and the profile it is working on
  \* history and bounds
  unlisted,     \* profiles a POST created that never got into definitions: its
                \* answer was lost, or the wait for the profile raised
  faults, interrupts

emsVars == <<owner, svc>>
run     == <<token, tries, at, made, undone>>
cleaner == <<cpc, todo, record, cat>>
vars == <<owner, svc, manifest, old, pc, token, tries, at, made, undone,
          cpc, todo, record, cat, unlisted, faults, interrupts>>

Exists(n) == owner[n] # None
Goto(r, label) == pc' = [pc EXCEPT ![r] = label]
Fault == faults > 0 /\ faults' = faults - 1

-----------------------------------------------------------------------------
(* delete_temporary_profile *)

\* The EMS refuses ("used by other profile") while another profile of the
\* graph refers to this one.
Referenced(n) == \E j \in 1..Depth : n[2] \in Deps[j] /\ Exists(<<n[1], j>>)

\* It returns: the profile was missing, or was deleted and is seen to be gone.
Deleted(n) ==
  /\ Exists(n) => ~Referenced(n)
  /\ owner' = [owner EXCEPT ![n] = None]
  /\ UNCHANGED <<svc, faults>>

\* It raises: referenced until the deadline, used by the service, or a call
\* failed, before or after the EMS applied the DELETE.
NotDeleted(n) ==
  \/ /\ Exists(n)
     /\ Referenced(n) \/ (n[2] = Depth /\ svc = n[1])
     /\ UNCHANGED <<emsVars, faults>>
  \/ /\ Fault /\ UNCHANGED svc
     /\ owner' \in {owner, [owner EXCEPT ![n] = IF Referenced(n) THEN @ ELSE None]}

-----------------------------------------------------------------------------
(* create_temporary_profile_graph *)

\* A token whose names are free, or give up after MaxAttempts.
Choose(r) ==
  /\ pc[r] = "choose"
  /\ \/ \E t \in Tok :
          LET free == \A k \in 1..Depth : ~Exists(<<t, k>>) IN
          /\ IF free
             THEN token' = [token EXCEPT ![r] = t] /\ Goto(r, "register") /\ UNCHANGED tries
             ELSE /\ tries' = [tries EXCEPT ![r] = @ + 1]
                  /\ Goto(r, IF tries[r] + 1 < MaxAttempts THEN "choose" ELSE "failed")
                  /\ UNCHANGED token
          /\ UNCHANGED faults
     \/ Fault /\ Goto(r, "failed") /\ UNCHANGED <<token, tries>>
  /\ UNCHANGED <<emsVars, manifest, old, at, made, undone, cleaner, unlisted, interrupts>>

\* create_temporary_graph_record: the file is opened, then written.
OpenManifest(r) ==
  /\ pc[r] = "register"
  /\ manifest' = [manifest EXCEPT ![r] = "partial"]
  /\ Goto(r, "write")
  /\ UNCHANGED <<emsVars, old, run, cleaner, unlisted, faults, interrupts>>

WriteManifest(r) ==
  /\ pc[r] = "write"
  /\ manifest' = [manifest EXCEPT ![r] = "ok"]
  /\ at' = [at EXCEPT ![r] = 1]
  /\ Goto(r, "check")
  /\ UNCHANGED <<emsVars, old, token, tries, made, undone, cleaner, unlisted, faults, interrupts>>

\* create_temporary_profile: the name must still be free ...
Check(r) ==
  /\ pc[r] = "check"
  /\ \/ Goto(r, IF Exists(<<token[r], at[r]>>) THEN "undo" ELSE "post") /\ UNCHANGED faults
     \/ Fault /\ Goto(r, "undo")
  /\ UNCHANGED <<emsVars, manifest, old, run, cleaner, unlisted, interrupts>>

\* ... then POST: created, refused, or no answer ...
Post(r) ==
  LET n == <<token[r], at[r]>>
      create == ~Exists(n) /\ owner' = [owner EXCEPT ![n] = r] IN
  /\ pc[r] = "post"
  /\ \/ create /\ Goto(r, "wait") /\ unlisted' = unlisted \ {n} /\ UNCHANGED faults
     \/ Exists(n) /\ Goto(r, "undo") /\ UNCHANGED <<owner, unlisted, faults>>
     \/ Fault /\ Goto(r, "undo") /\ UNCHANGED <<owner, unlisted>>
     \/ Fault /\ Goto(r, "undo") /\ create /\ unlisted' = unlisted \cup {n}
  /\ UNCHANGED <<svc, manifest, old, run, cleaner, interrupts>>

WaitPastEnd(r) ==                          \* mutant: one profile too many
  LET n == <<token[r], at[r]>> IN
  /\ pc[r] = "wait" /\ Exists(n)
  /\ made' = [made EXCEPT ![r] = @ + 1]
  /\ IF at[r] > Depth
     THEN Goto(r, "ready") /\ UNCHANGED at
     ELSE Goto(r, "check") /\ at' = [at EXCEPT ![r] = @ + 1]
  /\ UNCHANGED <<emsVars, manifest, old, token, tries, undone, cleaner, unlisted, faults, interrupts>>

\* ... and wait until a GET shows it; only then is it in definitions.
Wait(r) ==
  LET n == <<token[r], at[r]>> IN
  /\ pc[r] = "wait"
  /\ \/ /\ Exists(n)
        /\ made' = [made EXCEPT ![r] = @ + 1]
        /\ IF at[r] = Depth
           THEN Goto(r, "ready") /\ UNCHANGED at
           ELSE Goto(r, "check") /\ at' = [at EXCEPT ![r] = @ + 1]
        /\ UNCHANGED <<unlisted, faults>>
     \/ ~Exists(n) /\ Goto(r, "undo") /\ UNCHANGED <<at, made, unlisted, faults>>
     \/ /\ Fault /\ Goto(r, "undo") /\ UNCHANGED <<at, made>>
        /\ unlisted' = unlisted \cup {x \in {n} : owner[x] = r}
  /\ UNCHANGED <<emsVars, manifest, old, token, tries, undone, cleaner, interrupts>>

\* The except branch: every definition is deleted, root first; the manifest
\* goes only if all the deletes returned.
Undo(r) ==
  /\ pc[r] = "undo" /\ made[r] > 0
  /\ \/ Deleted(<<token[r], made[r]>>) /\ UNCHANGED undone
     \/ NotDeleted(<<token[r], made[r]>>) /\ undone' = [undone EXCEPT ![r] = FALSE]
  /\ made' = [made EXCEPT ![r] = @ - 1]
  /\ UNCHANGED <<manifest, old, pc, token, tries, at, cleaner, unlisted, interrupts>>

GiveUpForget(r) ==                         \* mutant: cleanup_succeeded ignored
  /\ pc[r] = "undo" /\ made[r] = 0
  /\ manifest' = [manifest EXCEPT ![r] = "none"]
  /\ Goto(r, "failed")
  /\ UNCHANGED <<emsVars, old, run, cleaner, unlisted, faults, interrupts>>

GiveUp(r) ==
  /\ pc[r] = "undo" /\ made[r] = 0
  /\ manifest' = [manifest EXCEPT ![r] = IF undone[r] THEN "none" ELSE @]
  /\ Goto(r, "failed")
  /\ UNCHANGED <<emsVars, old, run, cleaner, unlisted, faults, interrupts>>

-----------------------------------------------------------------------------
(* temporary_ont_template and temporary_ge_template *)

\* The POST cases create the node's service with this run's template.  The GE
\* case deletes whatever service it finds first, the ONT case only one of
\* this template (or, in the invalid-parameter cases, any); the model's node
\* has one service and allows both.
PostService(r) ==
  /\ pc[r] = "ready" /\ svc # token[r] /\ Exists(<<token[r], Depth>>)
  /\ \/ svc' = token[r] /\ UNCHANGED faults
     \/ Fault /\ svc # None /\ svc' = None
  /\ UNCHANGED <<owner, manifest, old, pc, run, cleaner, unlisted, interrupts>>

\* --keep-ont-service-for-manual-check
Keep(r) ==
  /\ pc[r] = "ready"
  /\ Goto(r, "kept")
  /\ UNCHANGED <<emsVars, manifest, old, run, cleaner, unlisted, faults, interrupts>>

\* delete_ont_service_if_uses_template: a service that uses this template is
\* deleted; a GET that fails counts as no service (the GE fixture raises); a
\* DELETE that raises or a wait that runs out ends the teardown.
Teardown(r) ==
  /\ pc[r] = "ready"
  /\ \/ /\ svc' = IF svc = token[r] THEN None ELSE svc
        /\ Goto(r, "delete") /\ UNCHANGED faults
     \/ Fault /\ Goto(r, "delete") /\ UNCHANGED svc
     \/ /\ Fault /\ Goto(r, "failed")
        /\ svc' \in {svc, IF svc = token[r] THEN None ELSE svc}
  /\ UNCHANGED <<owner, manifest, old, run, cleaner, unlisted, interrupts>>

DeleteProfile(r) ==
  /\ pc[r] = "delete" /\ made[r] > 0
  /\ \/ Deleted(<<token[r], made[r]>>) /\ made' = [made EXCEPT ![r] = @ - 1] /\ UNCHANGED pc
     \/ NotDeleted(<<token[r], made[r]>>) /\ Goto(r, "failed") /\ UNCHANGED made
  /\ UNCHANGED <<manifest, old, token, tries, at, undone, cleaner, unlisted, interrupts>>

\* complete_temporary_graph_cleanup
Complete(r) ==
  /\ pc[r] = "delete" /\ made[r] = 0
  /\ manifest' = [manifest EXCEPT ![r] = "none"]
  /\ Goto(r, "done")
  /\ UNCHANGED <<emsVars, old, run, cleaner, unlisted, faults, interrupts>>

Ended(r) == pc[r] \in {"failed", "kept", "done", "dead"}

\* KeyboardInterrupt, a killed process, a logout that raises after create.
Interrupt(r) ==
  /\ ~Ended(r) /\ interrupts > 0
  /\ interrupts' = interrupts - 1
  /\ Goto(r, "dead")
  /\ UNCHANGED <<emsVars, manifest, old, run, cleaner, unlisted, faults>>

Age(r) ==
  /\ Ended(r) /\ r \notin old /\ manifest[r] # "none"
  /\ old' = old \cup {r}
  /\ UNCHANGED <<emsVars, manifest, pc, run, cleaner, unlisted, faults, interrupts>>

-----------------------------------------------------------------------------
(* reconcile_stale_temporary_graphs(delete=True) *)

\* scan_temporary_graph_records: valid manifests that are old enough.
ScanAnyAge ==                              \* mutant: min_age_hours ignored
  /\ cpc = "idle" /\ \E r \in Runs : manifest[r] = "ok"
  /\ todo' = {r \in Runs : manifest[r] = "ok"}
  /\ cpc' = "next"
  /\ UNCHANGED <<emsVars, manifest, old, pc, run, record, cat, unlisted, faults, interrupts>>

Scan ==
  /\ cpc = "idle" /\ \E r \in old : manifest[r] = "ok"
  /\ todo' = {r \in old : manifest[r] = "ok"}
  /\ cpc' = "next"
  /\ UNCHANGED <<emsVars, manifest, old, pc, run, record, cat, unlisted, faults, interrupts>>

\* Inspect a record: a GET fails, no profile exists, or some do.
Inspect ==
  /\ cpc = "next"
  /\ \E r \in todo :
       /\ todo' = todo \ {r}
       /\ \/ Fault /\ UNCHANGED <<manifest, cpc, record>>
          \/ /\ \A k \in 1..Depth : ~Exists(<<token[r], k>>)
             /\ manifest' = [manifest EXCEPT ![r] = "none"]
             /\ UNCHANGED <<cpc, record, faults>>
          \/ /\ \E k \in 1..Depth : Exists(<<token[r], k>>)
             /\ record' = r /\ cpc' = "refs"
             /\ UNCHANGED <<manifest, faults>>
  /\ UNCHANGED <<emsVars, old, pc, run, cat, unlisted, interrupts>>

ScanEnds ==
  /\ cpc = "next" /\ todo = {}
  /\ cpc' = "idle"
  /\ UNCHANGED <<emsVars, manifest, old, pc, run, todo, record, cat, unlisted, faults, interrupts>>

\* _target_service_reference_status: referenced, unknown, or unreferenced.
ReferencesIgnored ==                       \* mutant: the status is not used
  /\ cpc = "refs" /\ cpc' = "delete" /\ cat' = Depth
  /\ UNCHANGED <<emsVars, manifest, old, pc, run, todo, record, unlisted, faults, interrupts>>

References ==
  /\ cpc = "refs"
  /\ \/ svc = token[record] /\ cpc' = "next" /\ record' = None /\ UNCHANGED <<cat, faults>>
     \/ Fault /\ cpc' = "next" /\ record' = None /\ UNCHANGED cat
     \/ svc # token[record] /\ cpc' = "delete" /\ cat' = Depth /\ UNCHANGED <<record, faults>>
  /\ UNCHANGED <<emsVars, manifest, old, pc, run, todo, unlisted, interrupts>>

\* The profiles are deleted root first.
CleanDependencyFirst ==                    \* mutant: in the order of creation
  /\ cpc = "delete" /\ cat > 0
  /\ LET n == <<token[record], Depth + 1 - cat>> IN
     \/ Deleted(n) /\ cat' = cat - 1 /\ UNCHANGED <<cpc, record>>
     \/ NotDeleted(n) /\ cpc' = "next" /\ cat' = 0 /\ record' = None
  /\ UNCHANGED <<manifest, old, pc, run, todo, unlisted, interrupts>>

Clean ==
  /\ cpc = "delete" /\ cat > 0
  /\ LET n == <<token[record], cat>> IN
     \/ Deleted(n) /\ cat' = cat - 1 /\ UNCHANGED <<cpc, record>>
     \/ NotDeleted(n) /\ cpc' = "next" /\ cat' = 0 /\ record' = None
  /\ UNCHANGED <<manifest, old, pc, run, todo, unlisted, interrupts>>

Cleaned ==
  /\ cpc = "delete" /\ cat = 0
  /\ manifest' = [manifest EXCEPT ![record] = "none"]
  /\ cpc' = "next" /\ record' = None
  /\ UNCHANGED <<emsVars, old, pc, run, todo, cat, unlisted, faults, interrupts>>

CleanerInterrupted ==
  /\ cpc # "idle" /\ interrupts > 0
  /\ interrupts' = interrupts - 1
  /\ cpc' = "idle" /\ todo' = {} /\ record' = None /\ cat' = 0
  /\ UNCHANGED <<emsVars, manifest, old, pc, run, unlisted, faults>>

-----------------------------------------------------------------------------
Init ==
  /\ owner = [n \in Name |-> None] /\ svc = None
  /\ manifest = [r \in Runs |-> "none"] /\ old = {}
  /\ pc = [r \in Runs |-> "choose"]
  /\ token = [r \in Runs |-> None]
  /\ tries = [r \in Runs |-> 0]
  /\ at = [r \in Runs |-> 0]
  /\ made = [r \in Runs |-> 0]
  /\ undone = [r \in Runs |-> TRUE]
  /\ cpc = "idle" /\ todo = {} /\ record = None /\ cat = 0
  /\ unlisted = {} /\ faults = MaxFaults /\ interrupts = MaxInterrupts

RunStep(r) ==
  \/ Choose(r) \/ OpenManifest(r) \/ WriteManifest(r) \/ Check(r) \/ Post(r) \/ Wait(r)
  \/ Undo(r) \/ GiveUp(r) \/ Keep(r) \/ Teardown(r) \/ DeleteProfile(r) \/ Complete(r)

CleanerStep ==
  Scan \/ Inspect \/ ScanEnds \/ References \/ Clean \/ Cleaned

Quiet == (\A r \in Runs : Ended(r)) /\ cpc = "idle" /\ UNCHANGED vars

Next ==
  \/ \E r \in Runs : RunStep(r) \/ PostService(r) \/ Interrupt(r) \/ Age(r)
  \/ CleanerStep \/ CleanerInterrupted
  \/ Quiet

Spec == Init /\ [][Next]_vars

\* Runs go on until they end, manifests grow old, and the clean-up is run
\* again and again; faults and interruptions are finitely many.
FairSpec ==
  /\ Spec
  /\ \A r \in Runs : WF_vars(RunStep(r)) /\ WF_vars(Age(r))
  /\ WF_vars(CleanerStep)

-----------------------------------------------------------------------------
(* Properties *)

\* Every variable has its type.
TypeOK ==
  /\ owner \in [Name -> Runs \cup {None}] /\ svc \in Tok \cup {None}
  /\ manifest \in [Runs -> {"none", "partial", "ok"}] /\ old \subseteq Runs
  /\ pc \in [Runs -> {"choose", "register", "write", "check", "post", "wait", "undo", "ready",
                      "delete", "failed", "kept", "done", "dead"}]
  /\ token \in [Runs -> Tok \cup {None}] /\ tries \in [Runs -> 0..MaxAttempts]
  /\ at \in [Runs -> 0..Depth] /\ made \in [Runs -> 0..Depth]
  /\ undone \in [Runs -> BOOLEAN]
  /\ cpc \in {"idle", "next", "refs", "delete"} /\ todo \subseteq Runs
  /\ record \in Runs \cup {None} /\ cat \in 0..Depth
  /\ unlisted \subseteq Name /\ faults \in Nat /\ interrupts \in Nat

Named(n) == \E r \in Runs : manifest[r] = "ok" /\ token[r] = n[1]

\* Whatever is interrupted or fails, a temporary profile on the EMS is named
\* by a manifest that the clean-up will find.  The exception is a profile that
\* never got into definitions, because its POST lost its answer or the wait
\* after its POST raised (service.py:617-618): the except branch does not
\* delete it and still removes the manifest.  Then the creation has raised,
\* so the template's fixture fails: no run goes on with such a profile.
ProfilesRegistered ==
  \A n \in Name : Exists(n) =>
    Named(n) \/ (n \in unlisted /\ pc[owner[n]] \in {"undo", "failed", "dead"})

\* The clean-up deletes a profile of a run that is still going on only when
\* that run took a name which an older, interrupted run's manifest still
\* lists: the token has 256 values, and the probe looks at the EMS only.
RunningRunsSpared ==
  [][\A n \in Name : LET r == owner[n] IN
       (cpc = "delete" /\ cat' # cat /\ Exists(n) /\ owner'[n] = None /\ ~Ended(r))
         => record # r /\ token[record] = token[r]]_vars

\* The clean-up never takes the root template from under a service, except
\* for that same reuse of a name, between the check and the delete.
ReferencedTemplateKept ==
  [][\A t \in Tok :
       (cpc = "delete" /\ cat' # cat /\ svc = t /\ Exists(<<t, Depth>>) /\ owner'[<<t, Depth>>] = None)
         => \E r \in Runs : r # record /\ token[r] = t]_vars

\* Once its run has ended, a manifest is worked off by the clean-up, whatever
\* was created and deleted before, unless a service goes on using the name.
ManifestsWorkedOff ==
  \A r \in Runs : (Ended(r) /\ manifest[r] = "ok") ~> (manifest[r] = "none" \/ svc = token[r])

\* "test_created_graph_manifest_is_removed_only_after_completed_cleanup"
\* (tests/test_temporary_resource_registry.py:169): no profile is left on the
\* EMS that no manifest names.
ManifestOutlivesProfiles == \A n \in Name : Exists(n) => Named(n)

-----------------------------------------------------------------------------
(* The inductive invariant of the proofs *)

\* A run's counters, token and manifest at each point of its life.
RunInv ==
  \A r \in Runs :
    /\ pc[r] = "choose" => token[r] = None /\ tries[r] < MaxAttempts
    /\ pc[r] \in {"choose", "register", "write"} => made[r] = 0
    /\ pc[r] \in {"check", "post", "wait"} => at[r] = made[r] + 1
    /\ pc[r] \in {"check", "post", "wait", "undo", "ready", "delete"} => manifest[r] = "ok"
    /\ pc[r] \notin {"undo", "failed", "dead"} => undone[r]
    /\ ~Ended(r) /\ pc[r] # "choose" => token[r] # None
    /\ manifest[r] # "none" => token[r] # None
    /\ r \in old => Ended(r) /\ token[r] # None

\* The clean-up works on ended runs, and a service that took the name after
\* the reference check belongs to another run.
CleanerInv ==
  /\ todo \subseteq old
  /\ cpc \in {"refs", "delete"} => record \in old
  /\ cpc = "delete" /\ svc = token[record] => \E r \in Runs \ {record} : token[r] = svc

\* A profile bears the token of the run that created it, and one that is not
\* in definitions is of a run that has given up.  If it is there or is being
\* waited for, its manifest is there, and as long as the run, or the clean-up of
\* its record, may still remove the manifest, the profile is among those
\* that are going to be deleted before.
OwnedOK(n) ==
  LET r == owner[n] IN
  /\ token[r] = n[1]
  /\ n \in unlisted => pc[r] \in {"undo", "failed", "dead"}
  /\ n \notin unlisted =>
       /\ manifest[r] = "ok"
       /\ ~Ended(r) /\ undone[r] => n[2] <= made[r] \/ (pc[r] = "wait" /\ n[2] = at[r])
       /\ cpc = "delete" /\ record = r => n[2] <= cat

OwnerInv == \A n \in Name : Exists(n) => OwnedOK(n)

IInv == TypeOK /\ RunInv /\ CleanerInv /\ OwnerInv
=============================================================================
