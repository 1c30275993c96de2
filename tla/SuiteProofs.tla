------------------------------ MODULE SuiteProofs ------------------------------
(***************************************************************************)
(* What the suite promises holds for every value of its constants.  A step *)
(* of the suite is a step of the flow that runs, or none; so the suite     *)
(* keeps the inductive invariant of that flow, and its promises follow.    *)
(***************************************************************************)
EXTENDS Suite, EmsFlowsProofs, RunFlowsProofs

(* The inductive invariant of the flow that runs. *)
Kept ==
  /\ flow \in Flows
  /\ flow = "baseline" => BasIInv
  /\ flow = "report" => RepIInv
  /\ flow = "ont" => OntIInv /\ OntTInv
  /\ flow = "ge" => GeIInv /\ GeTInv
  /\ flow = "workspace" => WspIInv
  /\ flow = "neox" => NeoIInv
  /\ flow = "auth" => AutIInv
  /\ flow = "session" => SesIInv
  /\ flow = "alarm" => AlmIInv
  /\ flow = "reads" => InvIInv
  /\ flow = "index" => IdxIInv
  /\ flow = "archive" => ArcIInv
  /\ flow = "backfill" => FilIInv
  /\ flow = "openapi" => DocIInv

\* A step of the suite is a step of the flow that runs, or leaves its variables alone.
LEMMA FlowRuns ==
  ASSUME [Next]_vars
  PROVE  /\ flow' = flow
         /\ flow = "baseline" => [Bas!Next]_(Bas!vars)
         /\ flow = "report" => [Rep!Next]_(Rep!vars)
         /\ flow = "ont" => [Ont!Next]_(Ont!vars)
         /\ flow = "ge" => [Ge!Next]_(Ge!vars)
         /\ flow = "workspace" => [Wsp!Next]_(Wsp!vars)
         /\ flow = "neox" => [Neo!Next]_(Neo!vars)
         /\ flow = "auth" => [Aut!Next]_(Aut!vars)
         /\ flow = "session" => [Ses!Next]_(Ses!vars)
         /\ flow = "alarm" => [Alm!Next]_(Alm!vars)
         /\ flow = "reads" => [Inv!Next]_(Inv!vars)
         /\ flow = "index" => [Idx!Next]_(Idx!vars)
         /\ flow = "archive" => [Arc!Next]_(Arc!vars)
         /\ flow = "backfill" => [Fil!Next]_(Fil!vars)
         /\ flow = "openapi" => [Doc!Next]_(Doc!vars)
<1> USE DEF vars, Next, Program, BaselineStep, ReportStep, OntStep, OntAround, GeStep, GeAround, WorkspaceStep,
           WorkspaceAround, NeoxStep, AuthStep, SessionStep, AlarmStep, AlarmAround, ReadStep, IndexStep,
           ArchiveStep, BackfillStep, BackfillKilled, OpenApiStep, Only, Keep
<1>a. flow' = flow
  OBVIOUS
<1>1. flow = "baseline" => [Bas!Next]_(Bas!vars)
  BY DEF basVars, Bas!vars
<1>2. flow = "report" => [Rep!Next]_(Rep!vars)
  BY DEF repVars, Rep!vars
<1>3. flow = "ont" => [Ont!Next]_(Ont!vars)
  BY DEF ontVars, Ont!vars, Ont!Next, Ont!run, Ont!fixed, Ont!ems
<1>4. flow = "ge" => [Ge!Next]_(Ge!vars)
  BY DEF geVars, Ge!vars, Ge!Next, Ge!run, Ge!work, Ge!ems, Ge!history
<1>5. flow = "workspace" => [Wsp!Next]_(Wsp!vars)
  BY DEF wspVars, Wsp!vars, Wsp!Next, Wsp!ctl, Wsp!wksp, Wsp!ems
<1>6. flow = "neox" => [Neo!Next]_(Neo!vars)
  BY DEF neoVars, Neo!vars, Neo!body
<1>7. flow = "auth" => [Aut!Next]_(Aut!vars)
  BY DEF autVars, Aut!vars
<1>8. flow = "session" => [Ses!Next]_(Ses!vars)
  BY DEF sesVars, Ses!vars
<1>9. flow = "alarm" => [Alm!Next]_(Alm!vars)
  BY DEF almVars, Alm!vars, Alm!Next, Alm!run, Alm!ems, Alm!seen
<1>10. flow = "reads" => [Inv!Next]_(Inv!vars)
  BY DEF invVars, Inv!vars
<1>11. flow = "index" => [Idx!Next]_(Idx!vars)
  BY DEF idxVars, Idx!vars
<1>12. flow = "archive" => [Arc!Next]_(Arc!vars)
  BY DEF arcVars, Arc!vars, Arc!disk, Arc!mind
<1>13. flow = "backfill" => [Fil!Next]_(Fil!vars)
  BY DEF filVars, Fil!vars, Fil!Next
<1>14. flow = "openapi" => [Doc!Next]_(Doc!vars)
  BY DEF docVars, Doc!vars
<1> QED
  BY <1>a, <1>1, <1>2, <1>3, <1>4, <1>5, <1>6, <1>7, <1>8, <1>9, <1>10, <1>11, <1>12, <1>13, <1>14

LEMMA Begins == ASSUME Assumptions, Init PROVE Kept
<1>1. BasIInv
  BY BasInitInv DEF Assumptions, Init
<1>2. RepIInv
  BY RepInitInv DEF Assumptions, Init
<1>3. OntIInv /\ OntTInv
  BY OntInitInv, OntInitTypes DEF Assumptions, Init
<1>4. GeIInv /\ GeTInv
  BY GeInitInv, GeInitTypes DEF Assumptions, Init
<1>5. WspIInv
  BY WspInitially DEF Assumptions, Init
<1>6. NeoIInv
  BY NeoInitially DEF Assumptions, Init
<1>7. AutIInv
  BY AutInitially DEF Assumptions, Init
<1>8. SesIInv
  BY SesInitially DEF Assumptions, Init
<1>9. AlmIInv
  BY AlmInitInv DEF Assumptions, Init
<1>10. InvIInv
  BY InvInitially DEF Assumptions, Init
<1>11. IdxIInv
  BY IdxInitially DEF Assumptions, Init
<1>12. ArcIInv
  BY ArcInitially DEF Assumptions, Init
<1>13. FilIInv
  BY FilInitially DEF Assumptions, Init
<1>14. DocIInv
  BY DocInitially DEF Assumptions, Init
<1> QED
  BY <1>1, <1>2, <1>3, <1>4, <1>5, <1>6, <1>7, <1>8, <1>9, <1>10, <1>11, <1>12, <1>13, <1>14 DEF Init, Kept

LEMMA Stays == ASSUME Assumptions, Kept, [Next]_vars PROVE Kept'
<1>a. flow \in Flows
  BY DEF Kept
<1>1. CASE flow = "baseline"
  <2>1. BasIInv
    BY <1>1 DEF Kept
  <2>2. flow' = flow /\ [Bas!Next]_(Bas!vars)
    BY <1>1, FlowRuns
  <2>3. (BasIInv)'
    BY <2>1, <2>2, BasNextInv DEF Assumptions
  <2> QED
    BY <1>a, <1>1, <2>2, <2>3 DEF Kept
<1>2. CASE flow = "report"
  <2>1. RepIInv
    BY <1>2 DEF Kept
  <2>2. flow' = flow /\ [Rep!Next]_(Rep!vars)
    BY <1>2, FlowRuns
  <2>3. (RepIInv)'
    BY <2>1, <2>2, RepTypeStep, RepOrderStep, RepStrictStep DEF RepIInv, Assumptions
  <2> QED
    BY <1>a, <1>2, <2>2, <2>3 DEF Kept
<1>3. CASE flow = "ont"
  <2>1. OntIInv /\ OntTInv
    BY <1>3 DEF Kept
  <2>2. flow' = flow /\ [Ont!Next]_(Ont!vars)
    BY <1>3, FlowRuns
  <2>3. (OntIInv /\ OntTInv)'
    BY <2>1, <2>2, OntNextInv, OntPositionKept, OntCountKept, OntFixturesKept, OntWorldKept, OntRestKept DEF OntIInv, OntTInv, Assumptions
  <2> QED
    BY <1>a, <1>3, <2>2, <2>3 DEF Kept
<1>4. CASE flow = "ge"
  <2>1. GeIInv /\ GeTInv
    BY <1>4 DEF Kept
  <2>2. flow' = flow /\ [Ge!Next]_(Ge!vars)
    BY <1>4, FlowRuns
  <2>3. (GeIInv /\ GeTInv)'
    BY <2>1, <2>2, GeNextInv, GeTypesKept DEF Assumptions
  <2> QED
    BY <1>a, <1>4, <2>2, <2>3 DEF Kept
<1>5. CASE flow = "workspace"
  <2>1. WspIInv
    BY <1>5 DEF Kept
  <2>2. flow' = flow /\ [Wsp!Next]_(Wsp!vars)
    BY <1>5, FlowRuns
  <2>3. (WspIInv)'
    BY <2>1, <2>2, WspInductive DEF Assumptions
  <2> QED
    BY <1>a, <1>5, <2>2, <2>3 DEF Kept
<1>6. CASE flow = "neox"
  <2>1. NeoIInv
    BY <1>6 DEF Kept
  <2>2. flow' = flow /\ [Neo!Next]_(Neo!vars)
    BY <1>6, FlowRuns
  <2>3. (NeoIInv)'
    BY <2>1, <2>2, NeoInductive DEF Assumptions
  <2> QED
    BY <1>a, <1>6, <2>2, <2>3 DEF Kept
<1>7. CASE flow = "auth"
  <2>1. AutIInv
    BY <1>7 DEF Kept
  <2>2. flow' = flow /\ [Aut!Next]_(Aut!vars)
    BY <1>7, FlowRuns
  <2>3. (AutIInv)'
    BY <2>1, <2>2, AutInductive DEF Assumptions
  <2> QED
    BY <1>a, <1>7, <2>2, <2>3 DEF Kept
<1>8. CASE flow = "session"
  <2>1. SesIInv
    BY <1>8 DEF Kept
  <2>2. flow' = flow /\ [Ses!Next]_(Ses!vars)
    BY <1>8, FlowRuns
  <2>3. (SesIInv)'
    BY <2>1, <2>2, SesInductive DEF Assumptions
  <2> QED
    BY <1>a, <1>8, <2>2, <2>3 DEF Kept
<1>9. CASE flow = "alarm"
  <2>1. AlmIInv
    BY <1>9 DEF Kept
  <2>2. flow' = flow /\ [Alm!Next]_(Alm!vars)
    BY <1>9, FlowRuns
  <2>3. (AlmIInv)'
    BY <2>1, <2>2, AlmInductive DEF Assumptions
  <2> QED
    BY <1>a, <1>9, <2>2, <2>3 DEF Kept
<1>10. CASE flow = "reads"
  <2>1. InvIInv
    BY <1>10 DEF Kept
  <2>2. flow' = flow /\ [Inv!Next]_(Inv!vars)
    BY <1>10, FlowRuns
  <2>3. (InvIInv)'
    BY <2>1, <2>2, InvInductive DEF Assumptions
  <2> QED
    BY <1>a, <1>10, <2>2, <2>3 DEF Kept
<1>11. CASE flow = "index"
  <2>1. IdxIInv
    BY <1>11 DEF Kept
  <2>2. flow' = flow /\ [Idx!Next]_(Idx!vars)
    BY <1>11, FlowRuns
  <2>3. (IdxIInv)'
    BY <2>1, <2>2, IdxInductive DEF Assumptions
  <2> QED
    BY <1>a, <1>11, <2>2, <2>3 DEF Kept
<1>12. CASE flow = "archive"
  <2>1. ArcIInv
    BY <1>12 DEF Kept
  <2>2. flow' = flow /\ [Arc!Next]_(Arc!vars)
    BY <1>12, FlowRuns
  <2>3. (ArcIInv)'
    BY <2>1, <2>2, ArcInductive DEF Assumptions
  <2> QED
    BY <1>a, <1>12, <2>2, <2>3 DEF Kept
<1>13. CASE flow = "backfill"
  <2>1. FilIInv
    BY <1>13 DEF Kept
  <2>2. flow' = flow /\ [Fil!Next]_(Fil!vars)
    BY <1>13, FlowRuns
  <2>3. (FilIInv)'
    BY <2>1, <2>2, FilInductive DEF Assumptions
  <2> QED
    BY <1>a, <1>13, <2>2, <2>3 DEF Kept
<1>14. CASE flow = "openapi"
  <2>1. DocIInv
    BY <1>14 DEF Kept
  <2>2. flow' = flow /\ [Doc!Next]_(Doc!vars)
    BY <1>14, FlowRuns
  <2>3. (DocIInv)'
    BY <2>1, <2>2, DocInductive DEF Assumptions
  <2> QED
    BY <1>a, <1>14, <2>2, <2>3 DEF Kept
<1> QED
  BY <1>a, <1>1, <1>2, <1>3, <1>4, <1>5, <1>6, <1>7, <1>8, <1>9, <1>10, <1>11, <1>12, <1>13, <1>14 DEF Flows

LEMMA Throughout == ASSUME Assumptions PROVE Spec => []Kept
<1>1. Init => Kept
  BY Begins
<1>2. Kept /\ [Next]_vars => Kept'
  BY Stays
<1> QED
  BY <1>1, <1>2, PTL DEF Spec

\* What belongs to somebody else is changed only by the tests that clear the target on purpose, by a request whose look
\* showed the run's own before somebody else took the ONT, or by the deletion of a profile that the run could not know
\* to be another's, whatever other clients do (provision/service.py:190, 305, profile/service.py:136, alarm/service.py:163).
THEOREM ForeignIsSpared == ASSUME Assumptions PROVE Spec => []ForeignSpared
<1>1. ASSUME Kept PROVE ForeignSpared
  <2>1. flow = "ont" => Ont!ForeignServiceSpared
    BY <1>1 DEF Kept, OntIInv
  <2>2. flow = "ge" => Ge!ForeignServiceSpared
    BY <1>1 DEF Kept, GeIInv
  <2>3. flow = "workspace" => Wsp!CleanUpSparesOthers
    BY <1>1 DEF Kept, WspIInv, WspSpared
  <2>4. flow = "alarm" => Alm!OnlyOwnRemoved
    BY <1>1, AlmPromises DEF Kept, Assumptions
  <2> QED
    BY <2>1, <2>2, <2>3, <2>4 DEF ForeignSpared
<1> QED
  BY <1>1, Throughout, PTL

\* A test that passes has seen what it claims to have seen: a reprovisioning (unless the monitor read truncated output),
\* requests rejected without effect on a profile (unless the look for it was refused too), the end of a lifetime, an
\* alarm in every list, the row of its target.
THEOREM EvidenceHolds == ASSUME Assumptions PROVE Spec => []EvidenceIsReal
<1>1. ASSUME Kept PROVE EvidenceIsReal
  <2>1. flow = "ge" => Ge!PatchEvidenceIsReal
    BY <1>1 DEF Kept, GeIInv, GeWatched, Ge!PatchEvidenceIsReal
  <2>2. flow = "auth" => Aut!RejectionsAreReal
    BY <1>1, AutReal DEF Kept
  <2>3. flow = "session" => Ses!LifetimeIsReal
    BY <1>1, SesReal DEF Kept, Assumptions
  <2>4. flow = "alarm" => Alm!DeletedWentAllTheWay
    BY <1>1, AlmPromises DEF Kept, Assumptions
  <2>5. flow = "reads" => Inv!PassIsShown /\ Inv!OneWaitDecides
    BY <1>1, InvOneWait DEF Kept, InvIInv
  <2> QED
    BY <2>1, <2>2, <2>3, <2>4, <2>5 DEF EvidenceIsReal
<1> QED
  BY <1>1, Throughout, PTL

\* An EMS that does its part is not failed for being slow, for a hiccup or for the order of its lists, however long
\* the polling window, the session and the lists are.
THEOREM ConformingPasses == ASSUME Assumptions PROVE Spec => []NoFalseAlarm
<1>1. ASSUME Kept PROVE NoFalseAlarm
  <2>1. flow = "baseline" => Bas!PatientUnderHiccups /\ Bas!SessionsYoung /\ Bas!WindowKept
    BY <1>1, BasPromises DEF Kept, Assumptions
  <2>2. flow = "session" => Ses!ConformingEmsPasses
    BY <1>1, SesConforming DEF Kept, Assumptions
  <2>3. flow = "alarm" => Alm!HonestEmsPasses
    BY <1>1, AlmPromises DEF Kept, Assumptions
  <2>4. flow = "reads" => Inv!ShownPasses
    BY <1>1 DEF Kept, InvIInv
  <2> QED
    BY <2>1, <2>2, <2>3, <2>4 DEF NoFalseAlarm
<1> QED
  BY <1>1, Throughout, PTL

\* A service, a profile, a configured object or a session that a run leaves on the EMS or the device has failed a test
\* or a teardown, or its clean-up or the look for it was refused where the code does not look.
THEOREM WhatIsLeftIsReported == ASSUME Assumptions PROVE Spec => []LeftIsReported
<1>1. ASSUME Kept PROVE LeftIsReported
  <2>1. flow = "ont" => Ont!LeftServiceIsReported
    BY <1>1 DEF Kept, OntIInv, OntAccounted, Ont!LeftServiceIsReported
  <2>2. flow = "ge" => Ge!LeftServiceIsReported
    BY <1>1 DEF Kept, GeIInv, GeAccounted, Ge!LeftServiceIsReported, Ge!Done
  <2>3. flow = "workspace" => Wsp!LeftProfilesAreReported
    BY <1>1, WspReports DEF Kept
  <2>4. flow = "neox" => Neo!LeftConfigIsReported
    BY <1>1, NeoLeft DEF Kept
  <2>5. flow = "auth" => Aut!LeftProfileIsReported
    BY <1>1, AutReported DEF Kept
  <2>6. flow = "session" => Ses!LeftSessionIsReported
    BY <1>1 DEF Kept, SesIInv, SesLeft, Ses!LeftSessionIsReported
  <2> QED
    BY <2>1, <2>2, <2>3, <2>4, <2>5, <2>6 DEF LeftIsReported
<1> QED
  BY <1>1, Throughout, PTL

\* What a test changes it puts back or it fails, and its clean-up deletes what refers to a profile before the profile but
\* for three tests, for every catalogue of profiles and every table of references.
THEOREM PutBackOrFailed == ASSUME Assumptions PROVE Spec => []RestoredOrFailed
<1>1. ASSUME Kept PROVE RestoredOrFailed
  <2>1. flow = "workspace" => Wsp!PatchesAreUndone /\ Wsp!CleanUpTopDown
    BY <1>1, WspUndoes, WspDescends DEF Kept
  <2>2. flow = "neox" => Neo!BaselineBack /\ Neo!CleanUpTopDown
    BY <1>1, NeoBaseline, NeoTopDown DEF Kept
  <2>3. flow = "report" => Rep!RestoreAfterCleanups
    BY <1>1 DEF Kept, RepIInv, RepOrderInv, Rep!RestoreAfterCleanups
  <2> QED
    BY <2>1, <2>2, <2>3 DEF RestoredOrFailed
<1> QED
  BY <1>1, Throughout, PTL

\* The report of a session is not green without all tests, hides no failed restore of one teardown, and is lost only
\* when the last teardown itself breaks, however the tests share case ids and roles.
THEOREM ReportIsTrue == ASSUME Assumptions PROVE Spec => []ReportTellsTruth
<1>1. ASSUME Kept PROVE ReportTellsTruth
  <2>1. flow = "report" => Rep!LoneStrictFailureShown /\ Rep!CompleteMeansAll /\ Rep!GreenReportIsGreen /\ Rep!LostOnlyWhenTornDownLate
    BY <1>1, RepPromises DEF Kept, Assumptions
  <2> QED
    BY <2>1 DEF ReportTellsTruth
<1> QED
  BY <1>1, Throughout, PTL

\* What the index compares and lists, the archive records, the backfill reports and the views of two OpenAPI documents show is
\* so, for every archive, set of reports, pair of documents and bound; what the guard is silent on may still differ inside
\* compositions and shared bodies and responses.
THEOREM ToolsAreTrue == ASSUME Assumptions PROVE Spec => []ToolsTellTruth
<1>1. ASSUME Kept PROVE ToolsTellTruth
  <2>1. flow = "index" => Idx!ComparedInOrder /\ Idx!FailuresListed
    BY <1>1, IdxPromises DEF Kept, Assumptions
  <2>2. flow = "archive" => Arc!ArchivedIsListed /\ Arc!FalseRowsAreReported
    BY <1>1 DEF Kept, ArcIInv
  <2>3. flow = "backfill" => Fil!ZeroMeansUpdated /\ Fil!ChangesAreRecorded
    BY <1>1, FilUpdated, FilChanges DEF Kept, Assumptions
  <2>4. flow = "openapi" => Doc!ViewsNest /\ Doc!GuardMissesNoKey /\ Doc!ValuesAreIgnored
    BY <1>1, DocPromises DEF Kept, Assumptions
  <2> QED
    BY <2>1, <2>2, <2>3, <2>4 DEF ToolsTellTruth
<1> QED
  BY <1>1, Throughout, PTL

\* The flow that runs keeps the types of its module.
THEOREM TypesKept == ASSUME Assumptions PROVE Spec => []TypeOK
<1>1. ASSUME Kept PROVE TypeOK
  <2>1. flow = "baseline" => Bas!TypeOK
    BY <1>1 DEF Kept, BasIInv
  <2>2. flow = "report" => Rep!TypeOK
    BY <1>1 DEF Kept, RepIInv
  <2>3. flow = "ont" => Ont!TypeOK
    BY <1>1, OntTypes DEF Kept
  <2>4. flow = "ge" => Ge!TypeOK
    BY <1>1, GeTypes DEF Kept
  <2>5. flow = "workspace" => Wsp!TypeOK
    BY <1>1, WspTypes DEF Kept
  <2>6. flow = "neox" => Neo!TypeOK
    BY <1>1, NeoTypes DEF Kept
  <2>7. flow = "auth" => Aut!TypeOK
    BY <1>1, AutTypes DEF Kept
  <2>8. flow = "session" => Ses!TypeOK
    BY <1>1 DEF Kept, SesIInv, SesForm
  <2>9. flow = "alarm" => Alm!TypeOK
    BY <1>1, AlmTypes DEF Kept
  <2>10. flow = "reads" => Inv!TypeOK
    BY <1>1, InvTypes DEF Kept, Assumptions
  <2>11. flow = "index" => Idx!TypeOK
    BY <1>1, IdxTypes DEF Kept
  <2>12. flow = "archive" => Arc!TypeOK
    BY <1>1 DEF Kept, ArcIInv
  <2>13. flow = "backfill" => Fil!TypeOK
    BY <1>1, FilTypes DEF Kept
  <2>14. flow = "openapi" => Doc!TypeOK
    BY <1>1, DocTypes DEF Kept
  <2>a. flow \in Flows
    BY <1>1 DEF Kept
  <2> QED
    BY <2>a, <2>1, <2>2, <2>3, <2>4, <2>5, <2>6, <2>7, <2>8, <2>9, <2>10, <2>11, <2>12, <2>13, <2>14 DEF TypeOK
<1> QED
  BY <1>1, Throughout, PTL

\* No step creates a service in a test that only reads, swaps the run that stands for a build without a warning, or
\* touches an archived entry.
THEOREM OnlyAllowedSteps == ASSUME Assumptions PROVE Spec => StepsAllowed
<1>1. ASSUME Kept, [Next]_vars
      PROVE  /\ flow = "ont" => Ont!CreatorCreates
             /\ flow = "index" => Idx!ReferenceStays
             /\ flow = "archive" => Arc!EntriesStay
  <2>1. flow = "ont" => Ont!CreatorCreates
    BY <1>1, FlowRuns, OntOnlyCreators DEF Kept
  <2>2. flow = "index" => Idx!ReferenceStays
    BY <1>1, FlowRuns, IdxStays DEF Kept, Assumptions
  <2>3. flow = "archive" => Arc!EntriesStay
    BY <1>1, FlowRuns, ArcStay DEF Kept, Assumptions
  <2> QED
    BY <2>1, <2>2, <2>3
<1> QED
  BY <1>1, Throughout, PTL DEF Spec, StepsAllowed
================================================================================
