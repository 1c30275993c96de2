-------------------------- MODULE TempGraphProofs --------------------------
(***************************************************************************)
(* Temporary profiles stay registered and the clean-up spares what is in   *)
(* use, for every set of runs and tokens, every graph and every number of  *)
(* failures and interruptions.                                             *)
(***************************************************************************)
EXTENDS TempGraph, TLAPS

\* Deleting a profile touches nothing but that profile.
LEMMA OnlyDeletes ==
  ASSUME TypeOK, NEW n \in Name, Deleted(n) \/ NotDeleted(n)
  PROVE  /\ owner' \in {owner, [owner EXCEPT ![n] = None]}
         /\ svc' = svc
         /\ faults' \in Nat
BY DEF TypeOK, Deleted, NotDeleted, Fault, emsVars

\* Every action leaves every variable in its type.
LEMMA TypeStep == IInv /\ [Next]_vars => TypeOK'
<1> SUFFICES ASSUME IInv, [Next]_vars PROVE TypeOK'
  OBVIOUS
<1>a. TypeOK /\ Depth \in Nat \ {0} /\ MaxAttempts \in Nat \ {0}
  BY GraphAssumption DEF IInv, GraphAssumption
<1>b. RunInv /\ CleanerInv
  BY DEF IInv
<1> USE <1>a DEF TypeOK, Goto, Fault, emsVars, run, cleaner
<1>1. ASSUME NEW r \in Runs, RunStep(r) PROVE TypeOK'
  <2>1. CASE Choose(r)
    <3>1. tries[r] + 1 \in 0..MaxAttempts
      BY <2>1, <1>b DEF Choose, RunInv
    <3> QED
      BY <2>1, <3>1 DEF Choose
  <2>2. CASE OpenManifest(r)
    BY <2>2 DEF OpenManifest
  <2>3. CASE WriteManifest(r)
    BY <2>3 DEF WriteManifest
  <2>4. CASE Check(r)
    BY <2>4 DEF Check
  <2>5. CASE Post(r)
    <3>1. <<token[r], at[r]>> \in Name
      BY <2>5, <1>b DEF Post, RunInv, Name, Ended
    <3> QED
      BY <2>5, <3>1 DEF Post
  <2>6. CASE Wait(r)
    <3>1. <<token[r], at[r]>> \in Name /\ made[r] + 1 \in 0..Depth
      BY <2>6, <1>b DEF Wait, RunInv, Name, Ended
    <3> QED
      BY <2>6, <3>1 DEF Wait
  <2>7. CASE Undo(r)
    <3>1. <<token[r], made[r]>> \in Name /\ made[r] - 1 \in 0..Depth
      BY <2>7, <1>b DEF Undo, RunInv, Name, Ended
    <3> QED
      BY <2>7, <3>1, OnlyDeletes DEF Undo
  <2>8. CASE GiveUp(r)
    BY <2>8 DEF GiveUp
  <2>9. CASE Keep(r)
    BY <2>9 DEF Keep
  <2>10. CASE Teardown(r)
    BY <2>10 DEF Teardown
  <2>11. CASE DeleteProfile(r)
    <3>1. <<token[r], made[r]>> \in Name /\ made[r] - 1 \in 0..Depth
      BY <2>11, <1>b DEF DeleteProfile, RunInv, Name, Ended
    <3> QED
      BY <2>11, <3>1, OnlyDeletes DEF DeleteProfile
  <2>12. CASE Complete(r)
    BY <2>12 DEF Complete
  <2> QED
    BY <1>1, <2>1, <2>2, <2>3, <2>4, <2>5, <2>6, <2>7, <2>8, <2>9, <2>10, <2>11, <2>12
       DEF RunStep
<1>2. ASSUME NEW r \in Runs, PostService(r) \/ Interrupt(r) \/ Age(r) PROVE TypeOK'
  <2>1. CASE PostService(r)
    BY <2>1, <1>b DEF PostService, RunInv, Ended
  <2>2. CASE Interrupt(r)
    BY <2>2 DEF Interrupt
  <2>3. CASE Age(r)
    BY <2>3 DEF Age
  <2> QED
    BY <1>2, <2>1, <2>2, <2>3
<1>3. CASE CleanerStep
  <2>1. CASE Scan
    BY <2>1 DEF Scan
  <2>2. CASE Inspect
    BY <2>2 DEF Inspect
  <2>3. CASE ScanEnds
    BY <2>3 DEF ScanEnds
  <2>4. CASE References
    BY <2>4 DEF References
  <2>5. CASE Clean
    <3>1. <<token[record], cat>> \in Name /\ cat - 1 \in 0..Depth
      BY <2>5, <1>b DEF Clean, CleanerInv, RunInv, Name
    <3> QED
      BY <2>5, <3>1, OnlyDeletes DEF Clean
  <2>6. CASE Cleaned
    BY <2>6 DEF Cleaned
  <2> QED
    BY <1>3, <2>1, <2>2, <2>3, <2>4, <2>5, <2>6 DEF CleanerStep
<1>4. CASE CleanerInterrupted
  BY <1>4 DEF CleanerInterrupted
<1>5. CASE Quiet \/ UNCHANGED vars
  BY <1>5 DEF Quiet, vars
<1> QED
  BY <1>1, <1>2, <1>3, <1>4, <1>5 DEF Next

\* A run's counters, token and manifest agree with where it is.
LEMMA RunInvStep == IInv /\ [Next]_vars => RunInv'
<1> SUFFICES ASSUME IInv, [Next]_vars PROVE RunInv'
  OBVIOUS
<1>a. /\ TypeOK /\ RunInv /\ CleanerInv /\ Depth \in Nat \ {0}
      /\ MaxAttempts \in Nat \ {0} /\ None \notin Tok
  BY GraphAssumption, NullAssumption DEF IInv, GraphAssumption, NullAssumption
<1> USE <1>a DEF TypeOK, RunInv, Ended, Goto, Fault, emsVars, run, cleaner
<1>1. ASSUME NEW r \in Runs, RunStep(r) PROVE RunInv'
  <2>1. CASE Choose(r)
    BY <2>1 DEF Choose
  <2>2. CASE OpenManifest(r)
    BY <2>2 DEF OpenManifest
  <2>3. CASE WriteManifest(r)
    BY <2>3 DEF WriteManifest
  <2>4. CASE Check(r)
    BY <2>4 DEF Check
  <2>5. CASE Post(r)
    BY <2>5 DEF Post
  <2>6. CASE Wait(r)
    BY <2>6 DEF Wait
  <2>7. CASE Undo(r)
    BY <2>7 DEF Undo
  <2>8. CASE GiveUp(r)
    BY <2>8 DEF GiveUp
  <2>9. CASE Keep(r)
    BY <2>9 DEF Keep
  <2>10. CASE Teardown(r)
    BY <2>10 DEF Teardown
  <2>11. CASE DeleteProfile(r)
    BY <2>11 DEF DeleteProfile
  <2>12. CASE Complete(r)
    BY <2>12 DEF Complete
  <2> QED
    BY <1>1, <2>1, <2>2, <2>3, <2>4, <2>5, <2>6, <2>7, <2>8, <2>9, <2>10, <2>11, <2>12
       DEF RunStep
<1>2. ASSUME NEW r \in Runs, PostService(r) \/ Interrupt(r) \/ Age(r) PROVE RunInv'
  <2>1. CASE PostService(r)
    BY <2>1 DEF PostService
  <2>2. CASE Interrupt(r)
    BY <2>2 DEF Interrupt
  <2>3. CASE Age(r)
    BY <2>3 DEF Age
  <2> QED
    BY <1>2, <2>1, <2>2, <2>3
<1>3. CASE CleanerStep
  <2>1. CASE Scan
    BY <2>1 DEF Scan
  <2>2. CASE Inspect
    BY <2>2 DEF Inspect, CleanerInv
  <2>3. CASE ScanEnds
    BY <2>3 DEF ScanEnds
  <2>4. CASE References
    BY <2>4 DEF References
  <2>5. CASE Clean
    BY <2>5 DEF Clean
  <2>6. CASE Cleaned
    BY <2>6 DEF Cleaned, CleanerInv
  <2> QED
    BY <1>3, <2>1, <2>2, <2>3, <2>4, <2>5, <2>6 DEF CleanerStep
<1>4. CASE CleanerInterrupted
  BY <1>4 DEF CleanerInterrupted
<1>5. CASE Quiet \/ UNCHANGED vars
  BY <1>5 DEF Quiet, vars
<1> QED
  BY <1>1, <1>2, <1>3, <1>4, <1>5 DEF Next

\* The clean-up works on ended runs only.
LEMMA CleanerInvStep == IInv /\ [Next]_vars => CleanerInv'
<1> SUFFICES ASSUME IInv, [Next]_vars PROVE CleanerInv'
  OBVIOUS
<1>a. TypeOK /\ RunInv /\ CleanerInv /\ Depth \in Nat \ {0} /\ None \notin Tok
  BY GraphAssumption, NullAssumption DEF IInv, GraphAssumption, NullAssumption
<1> USE <1>a DEF TypeOK, RunInv, CleanerInv, Ended, Goto, Fault, emsVars, run, cleaner
<1>1. ASSUME NEW r \in Runs, RunStep(r) PROVE CleanerInv'
  <2>1. CASE Choose(r)
    BY <2>1 DEF Choose
  <2>2. CASE OpenManifest(r)
    BY <2>2 DEF OpenManifest
  <2>3. CASE WriteManifest(r)
    BY <2>3 DEF WriteManifest
  <2>4. CASE Check(r)
    BY <2>4 DEF Check
  <2>5. CASE Post(r)
    BY <2>5 DEF Post
  <2>6. CASE Wait(r)
    BY <2>6 DEF Wait
  <2>7. CASE Undo(r)
    <3>1. svc' = svc
      BY <2>7 DEF Undo, Deleted, NotDeleted
    <3>2. UNCHANGED <<old, token, cleaner>>
      BY <2>7 DEF Undo
    <3> QED
      BY <3>1, <3>2
  <2>8. CASE GiveUp(r)
    BY <2>8 DEF GiveUp
  <2>9. CASE Keep(r)
    BY <2>9 DEF Keep
  <2>10. CASE Teardown(r)
    BY <2>10 DEF Teardown
  <2>11. CASE DeleteProfile(r)
    <3>1. svc' = svc
      BY <2>11 DEF DeleteProfile, Deleted, NotDeleted
    <3>2. UNCHANGED <<old, token, cleaner>>
      BY <2>11 DEF DeleteProfile
    <3> QED
      BY <3>1, <3>2
  <2>12. CASE Complete(r)
    BY <2>12 DEF Complete
  <2> QED
    BY <1>1, <2>1, <2>2, <2>3, <2>4, <2>5, <2>6, <2>7, <2>8, <2>9, <2>10, <2>11, <2>12
       DEF RunStep
<1>2. ASSUME NEW r \in Runs, PostService(r) \/ Interrupt(r) \/ Age(r) PROVE CleanerInv'
  <2>1. CASE PostService(r)
    BY <2>1 DEF PostService
  <2>2. CASE Interrupt(r)
    BY <2>2 DEF Interrupt
  <2>3. CASE Age(r)
    BY <2>3 DEF Age
  <2> QED
    BY <1>2, <2>1, <2>2, <2>3
<1>3. CASE CleanerStep
  <2>1. CASE Scan
    BY <2>1 DEF Scan
  <2>2. CASE Inspect
    BY <2>2 DEF Inspect
  <2>3. CASE ScanEnds
    BY <2>3 DEF ScanEnds
  <2>4. CASE References
    BY <2>4 DEF References
  <2>5. CASE Clean
    <3>1. svc' = svc
      BY <2>5 DEF Clean, Deleted, NotDeleted
    <3>2. /\ UNCHANGED <<old, token, todo>>
          /\ (cpc' = "delete" /\ record' = record) \/ cpc' = "next"
      BY <2>5 DEF Clean
    <3> QED
      BY <2>5, <3>1, <3>2 DEF Clean
  <2>6. CASE Cleaned
    BY <2>6 DEF Cleaned
  <2> QED
    BY <1>3, <2>1, <2>2, <2>3, <2>4, <2>5, <2>6 DEF CleanerStep
<1>4. CASE CleanerInterrupted
  BY <1>4 DEF CleanerInterrupted
<1>5. CASE Quiet \/ UNCHANGED vars
  BY <1>5 DEF Quiet, vars
<1> QED
  BY <1>1, <1>2, <1>3, <1>4, <1>5 DEF Next

\* A profile in its run's definitions stays in that run's manifest.
LEMMA OwnerInvStep == IInv /\ [Next]_vars => OwnerInv'
<1> SUFFICES ASSUME IInv, [Next]_vars, NEW n \in Name, Exists(n)' PROVE OwnedOK(n)'
  BY DEF OwnerInv
<1>a. /\ TypeOK /\ RunInv /\ CleanerInv /\ (Exists(n) => OwnedOK(n))
      /\ Depth \in Nat \ {0} /\ None \notin Tok /\ None \notin Runs
  BY GraphAssumption, NullAssumption DEF IInv, OwnerInv, GraphAssumption, NullAssumption
<1>b. /\ n[1] \in Tok /\ n[2] \in 1..Depth /\ n = <<n[1], n[2]>>
  BY DEF Name
<1> USE <1>a, <1>b
    DEF TypeOK, RunInv, CleanerInv, OwnedOK, Exists, Ended, Goto, Fault, emsVars, run, cleaner
<1>1. ASSUME NEW r \in Runs, RunStep(r) PROVE OwnedOK(n)'
  <2>1. CASE Choose(r)
    BY <2>1 DEF Choose
  <2>2. CASE OpenManifest(r)
    BY <2>2 DEF OpenManifest
  <2>3. CASE WriteManifest(r)
    BY <2>3 DEF WriteManifest
  <2>4. CASE Check(r)
    BY <2>4 DEF Check
  <2>5. CASE Post(r)
    BY <2>5 DEF Post
  <2>6. CASE Wait(r)
    <3> DEFINE m == <<token[r], at[r]>>
    <3>1. /\ pc[r] = "wait" /\ at[r] = made[r] + 1
          /\ UNCHANGED <<owner, manifest, token, undone, cpc, record, cat>>
          /\ \A u \in Runs \ {r} : UNCHANGED <<pc[u], at[u], made[u]>>
      BY <2>6 DEF Wait
    <3>2. \/ made'[r] = made[r] + 1 /\ unlisted' = unlisted /\ pc'[r] \in {"ready", "check"}
          \/ pc'[r] = "undo" /\ made'[r] = made[r] /\ unlisted' = unlisted /\ ~Exists(m)
          \/ pc'[r] = "undo" /\ made'[r] = made[r] /\ unlisted' = unlisted \cup {x \in {m} : owner[x] = r}
      BY <2>6 DEF Wait
    <3>3. CASE owner[n] # r
      <4>1. n \in unlisted' => n \in unlisted
        BY <3>2, <3>3
      <4>2. unlisted \subseteq unlisted'
        BY <3>2
      <4> QED
        BY <3>1, <3>3, <4>1, <4>2
    <3>4. CASE owner[n] = r
      <4>1. n[1] = token[r] /\ n \notin unlisted /\ manifest[r] = "ok"
        BY <3>1, <3>4
      <4>2. n[2] <= made[r] \/ n = m
        BY <3>1, <3>4, <4>1
      <4> QED
        BY <3>1, <3>2, <3>4, <4>1, <4>2
    <3> QED
      BY <3>3, <3>4
  <2>7. CASE Undo(r)
    <3> DEFINE m == <<token[r], made[r]>>
    <3>1. owner'[n] = owner[n] /\ (n = m => ~Deleted(m)) /\ m \in Name
      BY <2>7 DEF Undo, Deleted, NotDeleted, Name
    <3>2. /\ UNCHANGED <<pc, token, at, manifest, unlisted, cpc, record, cat>>
          /\ made'[r] = made[r] - 1 /\ \A u \in Runs \ {r} : UNCHANGED <<made[u], undone[u]>>
          /\ (Deleted(m) /\ UNCHANGED undone) \/ undone'[r] = FALSE
      BY <2>7 DEF Undo
    <3>3. CASE owner[n] # r
      BY <3>1, <3>2, <3>3
    <3>4. CASE owner[n] = r
      <4>1. n[1] = token[r] /\ pc[r] = "undo"
        BY <2>7, <3>1, <3>4 DEF Undo
      <4>2. undone'[r] => undone[r] /\ n[2] # made[r]
        BY <3>1, <3>2, <4>1
      <4> QED
        BY <3>1, <3>2, <3>4, <4>1, <4>2
    <3> QED
      BY <3>3, <3>4
  <2>8. CASE GiveUp(r)
    BY <2>8 DEF GiveUp
  <2>9. CASE Keep(r)
    BY <2>9 DEF Keep
  <2>10. CASE Teardown(r)
    BY <2>10 DEF Teardown
  <2>11. CASE DeleteProfile(r)
    <3> DEFINE m == <<token[r], made[r]>>
    <3>1. owner'[n] = owner[n] /\ (n = m => ~Deleted(m)) /\ m \in Name
      BY <2>11 DEF DeleteProfile, Deleted, NotDeleted, Name
    <3>2. /\ UNCHANGED <<token, at, manifest, unlisted, cpc, record, cat, undone>>
          /\ pc[r] = "delete" /\ \A u \in Runs \ {r} : UNCHANGED <<made[u], pc[u]>>
          /\ \/ Deleted(m) /\ made'[r] = made[r] - 1 /\ pc' = pc
             \/ pc'[r] = "failed"
      BY <2>11 DEF DeleteProfile
    <3>3. CASE owner[n] # r
      BY <3>1, <3>2, <3>3
    <3>4. CASE owner[n] = r
      <4>1. n[1] = token[r]
        BY <3>1, <3>4
      <4>2. pc'[r] # "failed" => n[2] # made[r]
        BY <3>1, <3>2, <4>1
      <4> QED
        BY <3>1, <3>2, <3>4, <4>1, <4>2
    <3> QED
      BY <3>3, <3>4
  <2>12. CASE Complete(r)
    BY <2>12 DEF Complete
  <2> QED
    BY <1>1, <2>1, <2>2, <2>3, <2>4, <2>5, <2>6, <2>7, <2>8, <2>9, <2>10, <2>11, <2>12
       DEF RunStep
<1>2. ASSUME NEW r \in Runs, PostService(r) \/ Interrupt(r) \/ Age(r) PROVE OwnedOK(n)'
  <2>1. CASE PostService(r)
    BY <2>1 DEF PostService
  <2>2. CASE Interrupt(r)
    BY <2>2 DEF Interrupt
  <2>3. CASE Age(r)
    BY <2>3 DEF Age
  <2> QED
    BY <1>2, <2>1, <2>2, <2>3
<1>3. CASE CleanerStep
  <2>1. CASE Scan
    BY <2>1 DEF Scan
  <2>2. CASE Inspect
    BY <2>2 DEF Inspect
  <2>3. CASE ScanEnds
    BY <2>3 DEF ScanEnds
  <2>4. CASE References
    BY <2>4 DEF References
  <2>5. CASE Clean
    <3> DEFINE m == <<token[record], cat>>
    <3>0. m \in Name
      BY <2>5 DEF Clean, Name
    <3>1. owner'[n] = owner[n] /\ (n = m => ~Deleted(m)) /\ m \in Name
      <4>1. CASE Deleted(m)
        BY <4>1, <3>0 DEF Deleted
      <4>2. CASE NotDeleted(m) /\ ~Deleted(m)
        BY <4>2, <3>0 DEF NotDeleted
      <4> QED
        BY <2>5, <4>1, <4>2 DEF Clean
    <3>2. /\ UNCHANGED <<pc, token, at, made, undone, manifest, unlisted>>
          /\ cpc = "delete"
          /\ \/ Deleted(m) /\ cat' = cat - 1 /\ UNCHANGED <<cpc, record>>
             \/ cpc' = "next"
      BY <2>5 DEF Clean
    <3>3. cpc' = "delete" => n # m /\ record' = record /\ cat' = cat - 1
      BY <3>1, <3>2
    <3> QED
      BY <3>1, <3>2, <3>3
  <2>6. CASE Cleaned
    BY <2>6 DEF Cleaned
  <2> QED
    BY <1>3, <2>1, <2>2, <2>3, <2>4, <2>5, <2>6 DEF CleanerStep
<1>4. CASE CleanerInterrupted
  BY <1>4 DEF CleanerInterrupted
<1>5. CASE Quiet \/ UNCHANGED vars
  BY <1>5 DEF Quiet, vars
<1> QED
  BY <1>1, <1>2, <1>3, <1>4, <1>5 DEF Next

\* The initial states satisfy the invariant.
LEMMA InitInv == Init => IInv
BY GraphAssumption, BoundAssumption, NullAssumption
   DEF Init, IInv, TypeOK, RunInv, CleanerInv, OwnerInv, Exists, Ended,
       GraphAssumption, BoundAssumption, NullAssumption

\* The inductive invariant holds in every reachable state.
THEOREM Invariance == Spec => []IInv
<1>1. IInv /\ [Next]_vars => IInv'
  BY TypeStep, RunInvStep, CleanerInvStep, OwnerInvStep DEF IInv
<1> QED
  BY InitInv, <1>1, PTL DEF Spec

\* Type correctness.
THEOREM TypeCorrect == Spec => []TypeOK
<1>1. IInv => TypeOK
  BY DEF IInv
<1> QED
  BY Invariance, <1>1, PTL

\* For every number of runs, profiles, failures and interruptions: a profile
\* on the EMS is named by a manifest, unless it never got into definitions and
\* the creation of its graph has raised.
THEOREM NothingForgotten == Spec => []ProfilesRegistered
<1>1. IInv => ProfilesRegistered
  <2> SUFFICES ASSUME IInv, NEW n \in Name, Exists(n), n \notin unlisted PROVE Named(n)
    BY DEF ProfilesRegistered, IInv, OwnerInv, OwnedOK
  <2>1. owner[n] \in Runs
    BY DEF IInv, TypeOK, Exists
  <2>2. manifest[owner[n]] = "ok" /\ token[owner[n]] = n[1]
    BY DEF IInv, OwnerInv, OwnedOK
  <2> QED
    BY <2>1, <2>2 DEF Named
<1> QED
  BY Invariance, <1>1, PTL

\* Only the record's own profiles disappear while the clean-up deletes.
LEMMA CleanDeletes ==
  ASSUME IInv, [Next]_vars, NEW n \in Name,
         cpc = "delete", cat' # cat, Exists(n), owner'[n] = None
  PROVE  n = <<token[record], cat>>
<1>1. Clean \/ UNCHANGED owner
  BY DEF IInv, TypeOK, Next, RunStep, CleanerStep, Choose, OpenManifest, WriteManifest, Check, Post,
         Wait, Undo, GiveUp, Keep, Teardown, DeleteProfile, Complete, PostService, Interrupt, Age,
         Scan, Inspect, ScanEnds, References, Cleaned, CleanerInterrupted, Quiet, vars, cleaner, emsVars
<1> QED
  BY <1>1 DEF Clean, Deleted, NotDeleted, emsVars, Exists, IInv, TypeOK, Name

\* The clean-up removes a profile of a run that is under way only if the run
\* bears the same token as the record.
THEOREM CleanUpSparesRuns == Spec => RunningRunsSpared
<1>1. ASSUME IInv, [Next]_vars, NEW n \in Name,
             cpc = "delete", cat' # cat, Exists(n), owner'[n] = None, ~Ended(owner[n])
      PROVE  record # owner[n] /\ token[owner[n]] = token[record]
  <2>1. token[owner[n]] = n[1] /\ owner[n] \in Runs
    BY <1>1 DEF IInv, OwnerInv, OwnedOK, TypeOK, Exists
  <2>2. record \in Runs /\ Ended(record)
    BY <1>1 DEF IInv, TypeOK, RunInv, CleanerInv
  <2>3. n = <<token[record], cat>>
    BY <1>1, CleanDeletes
  <2> QED
    BY <1>1, <2>1, <2>2, <2>3
<1>2. IInv /\ [Next]_vars =>
        [\A n \in Name : LET r == owner[n] IN
           (cpc = "delete" /\ cat' # cat /\ Exists(n) /\ owner'[n] = None /\ ~Ended(r))
             => record # r /\ token[record] = token[r]]_vars
  BY <1>1
<1> QED
  BY Invariance, <1>2, PTL DEF Spec, RunningRunsSpared

\* The clean-up takes the root template from under a service only if another
\* run with the record's token is behind that service.
THEOREM CleanUpSparesServices == Spec => ReferencedTemplateKept
<1>1. ASSUME IInv, [Next]_vars, NEW t \in Tok,
             cpc = "delete", cat' # cat, svc = t, Exists(<<t, Depth>>), owner'[<<t, Depth>>] = None
      PROVE  \E r \in Runs : r # record /\ token[r] = t
  <2>1. <<t, Depth>> \in Name
    BY GraphAssumption DEF Name, GraphAssumption
  <2>2. t = token[record]
    BY <1>1, <2>1, CleanDeletes
  <2> QED
    BY <1>1, <2>2 DEF IInv, CleanerInv
<1>2. IInv /\ [Next]_vars =>
        [\A t \in Tok :
           (cpc = "delete" /\ cat' # cat /\ svc = t /\ Exists(<<t, Depth>>) /\ owner'[<<t, Depth>>] = None)
             => \E r \in Runs : r # record /\ token[r] = t]_vars
  BY <1>1
<1> QED
  BY Invariance, <1>2, PTL DEF Spec, ReferencedTemplateKept
=============================================================================
