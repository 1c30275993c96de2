------------------------------- MODULE Suite -------------------------------
(***************************************************************************)
(* The flows that one thread carries out on its own: the test workflows of *)
(* a pytest session, its report, and the tools that work on the reports,   *)
(* on TestLink and on the OpenAPI files.  pytest runs one test at a time   *)
(* and a tool is a process of its own; two flows share no variable, so the *)
(* suite is one of them, chosen at the start, while the others stay where  *)
(* they begin.  Each flow keeps its module; what is said here is said of   *)
(* all flows that it concerns.                                             *)
(***************************************************************************)

EXTENDS EmsFlows, RunFlows

VARIABLE flow   \* the flow that runs

vars == <<flow, basVars, repVars, ontVars, geVars, wspVars, neoVars, autVars, sesVars, almVars, invVars,
  idxVars, arcVars, filVars, docVars>>

Flows == {"baseline", "report", "ont", "ge", "workspace", "neox", "auth", "session", "alarm", "reads",
          "index", "archive", "backfill", "openapi"}

(* What the code may rely on in every flow. *)
Assumptions ==
  /\ Bas!BaselineAssumption /\ Rep!ReportAssumption /\ Ont!OntAssumption /\ Ge!GeAssumption
  /\ Wsp!WorkspaceAssumption /\ Neo!NeoxAssumption /\ Aut!AuthAssumption /\ Ses!SessionAssumption
  /\ Alm!AlarmAssumption /\ Inv!InventoryAssumption /\ Idx!IndexAssumption /\ Arc!ArchiveAssumption
  /\ Fil!BackfillAssumption /\ Doc!OpenApiAssumption

(* A flow that does not run stays in one fixed initial state of its module. *)
Some(set) == CHOOSE x \in set : TRUE
Rest(f, start) == IF flow = f THEN TRUE ELSE start

Init ==
  /\ flow \in Flows
  /\ Rest("ont", ontTodo = Some(OntSelections) /\ ontKeep = FALSE /\ ontSvc = "none")
  /\ Rest("ge", geTodo = Some(GeSelections) /\ geSvc = "none")
  /\ Rest("workspace", wspCases = Some(WspSelections) /\ wspProf = Some(WspExisting))
  /\ Rest("neox", neoTodo = Some(NeoSelections) /\ neoCfg = [x \in Neo!Objects |-> IF x = "ont" THEN "base" ELSE "none"])
  /\ Rest("auth", autRole = Some(Roles))
  /\ Rest("session", sesLife = Some(Lives) /\ sesSliding = FALSE /\ sesKind = Some(SesCases))
  /\ Rest("alarm", almTodo = Some(AlmSelections) /\ almActive = {})
  /\ Rest("reads", invTodo = Some(InvReads) /\ invService = TRUE)
  /\ Rest("archive", arcTop = [e \in Entries |-> 0])
  /\ Rest("backfill", filMode = "preview")
  /\ Bas!Init /\ Rep!Init /\ Ont!Init /\ Ge!Init /\ Wsp!Init /\ Neo!Init /\ Aut!Init /\ Ses!Init /\ Alm!Init
  /\ Inv!Init /\ Idx!Init /\ Arc!Init /\ Fil!Init /\ Doc!Init

Keep(f, state) == IF flow = f THEN TRUE ELSE UNCHANGED state
Only(f) ==
  /\ flow = f /\ UNCHANGED flow
  /\ Keep("baseline", basVars)
  /\ Keep("report", repVars)
  /\ Keep("ont", ontVars)
  /\ Keep("ge", geVars)
  /\ Keep("workspace", wspVars)
  /\ Keep("neox", neoVars)
  /\ Keep("auth", autVars)
  /\ Keep("session", sesVars)
  /\ Keep("alarm", almVars)
  /\ Keep("reads", invVars)
  /\ Keep("index", idxVars)
  /\ Keep("archive", arcVars)
  /\ Keep("backfill", filVars)
  /\ Keep("openapi", docVars)

BaselineStep  == Only("baseline") /\ Bas!Next
ReportStep    == Only("report") /\ Rep!Next
OntStep       == Only("ont") /\ Ont!Tests
GeStep        == Only("ge") /\ Ge!Tests
WorkspaceStep == Only("workspace") /\ Wsp!Tests
NeoxStep      == Only("neox") /\ Neo!Next
AuthStep      == Only("auth") /\ Aut!Next
SessionStep   == Only("session") /\ Ses!Next
AlarmStep     == Only("alarm") /\ Alm!Tests
ReadStep      == Only("reads") /\ Inv!Next
BackfillStep  == Only("backfill") /\ Fil!Tool

(* What the thread of a flow does. *)
Program ==
  \/ BaselineStep \/ ReportStep \/ OntStep \/ GeStep \/ WorkspaceStep \/ NeoxStep \/ AuthStep \/ SessionStep
  \/ AlarmStep \/ ReadStep \/ BackfillStep

(* The tools that are started again and again, and what happens around the
   thread: the EMS, other clients, a kill. *)
IndexStep       == Only("index") /\ Idx!Next
ArchiveStep     == Only("archive") /\ Arc!Next
OpenApiStep     == Only("openapi") /\ Doc!Next
OntAround       == Only("ont") /\ (Ont!Ems \/ Ont!OtherClient)
GeAround        == Only("ge") /\ (Ge!Ems \/ Ge!OtherClient)
WorkspaceAround == Only("workspace") /\ Wsp!OtherClient
AlarmAround     == Only("alarm") /\ (Alm!Ems \/ Alm!OtherClient)
BackfillKilled  == Only("backfill") /\ Fil!Killed

Next ==
  \/ Program \/ IndexStep \/ ArchiveStep \/ OpenApiStep
  \/ OntAround \/ GeAround \/ WorkspaceAround \/ AlarmAround \/ BackfillKilled

(* One thread carries out the flow and nothing else holds it up: it takes its
   next step as long as it has one.  Nothing is assumed of the world. *)
Spec == Init /\ [][Next]_vars /\ WF_vars(Program)
-----------------------------------------------------------------------------
(* The flow that runs keeps the types of its module, and only the flows there
   are run. *)
TypeOK ==
  /\ flow \in Flows
  /\ flow = "baseline" => Bas!TypeOK
  /\ flow = "report" => Rep!TypeOK
  /\ flow = "ont" => Ont!TypeOK
  /\ flow = "ge" => Ge!TypeOK
  /\ flow = "workspace" => Wsp!TypeOK
  /\ flow = "neox" => Neo!TypeOK
  /\ flow = "auth" => Aut!TypeOK
  /\ flow = "session" => Ses!TypeOK
  /\ flow = "alarm" => Alm!TypeOK
  /\ flow = "reads" => Inv!TypeOK
  /\ flow = "index" => Idx!TypeOK
  /\ flow = "archive" => Arc!TypeOK
  /\ flow = "backfill" => Fil!TypeOK
  /\ flow = "openapi" => Doc!TypeOK

(* No flow hangs: every wait, retry and polling loop of the suite has a
   deadline or a count, and the clean-up that follows comes to its end too,
   whatever the EMS does or fails to do.  The index, the archive tool and the
   comparison of documents are one step per file. *)
Finished ==
  CASE flow = "baseline"  -> Bas!Done  [] flow = "report" -> Rep!Done [] flow = "ont"   -> Ont!Done
    [] flow = "ge"        -> Ge!Done   [] flow = "workspace" -> Wsp!Done [] flow = "neox" -> Neo!Done
    [] flow = "auth"      -> Aut!Done  [] flow = "session" -> Ses!Done [] flow = "alarm" -> Alm!Done
    [] flow = "reads"     -> Inv!Done  [] flow = "backfill" -> Fil!Done [] OTHER         -> TRUE
FlowsEnd == <>Finished

(* What belongs to somebody else is changed only where the modules say so: an
   ONT service by the invalid-parameter tests, or by a request whose look showed
   the run's own template (or nothing) before somebody else took the ONT
   (provision/service.py:204); a GE service, addressed by its id, by POST and the
   invalid-parameter tests only, which remove what they find (service.py:305); a
   profile only after a request about it had failed, or when another client
   created it during the run (profile/service.py:136, 377); and no alarm that
   another user has cleared (alarm/service.py:163). *)
ForeignSpared ==
  /\ flow = "ont" => Ont!ForeignServiceSpared
  /\ flow = "ge" => Ge!ForeignServiceSpared
  /\ flow = "workspace" => Wsp!CleanUpSparesOthers
  /\ flow = "alarm" => Alm!OnlyOwnRemoved

(* What a run leaves behind on the EMS does not go unnoticed: a service, a
   profile, a configured object or a session of its own that is still there at
   the end means that a test or its teardown has failed, but for what the modules
   name: a request to remove or to look for it was itself refused or broke off
   where the code does not look (auth_matrix/service.py:312, 346,
   neox_config/service.py:167, profile/service.py:121). *)
LeftIsReported ==
  /\ flow = "ont" => Ont!LeftServiceIsReported
  /\ flow = "ge" => Ge!LeftServiceIsReported
  /\ flow = "workspace" => Wsp!LeftProfilesAreReported
  /\ flow = "neox" => Neo!LeftConfigIsReported
  /\ flow = "auth" => Aut!LeftProfileIsReported
  /\ flow = "session" => Ses!LeftSessionIsReported

(* What a test changes it puts back or it fails: profile contents after a PATCH
   and the ONT's baseline.  The clean-up deletes what refers to a profile before
   the profile, but for the tests that NeoxConfig names (the min and the error
   test of a profile and the GE variants), and a strict restore runs after every
   other callback. *)
RestoredOrFailed ==
  /\ flow = "workspace" => Wsp!PatchesAreUndone /\ Wsp!CleanUpTopDown
  /\ flow = "neox" => Neo!BaselineBack /\ Neo!CleanUpTopDown
  /\ flow = "report" => Rep!RestoreAfterCleanups

(* A test that passes has seen what it claims to have seen, but for the two
   looks that the code takes for more than they are: truncated CLI output for a
   cleared configuration (ge_cli_config.py:336), and any refused look for the
   absence of a profile (auth_matrix/service.py:346). *)
EvidenceIsReal ==
  /\ flow = "ge" => Ge!PatchEvidenceIsReal
  /\ flow = "auth" => Aut!RejectionsAreReal
  /\ flow = "session" => Ses!LifetimeIsReal
  /\ flow = "alarm" => Alm!DeletedWentAllTheWay
  /\ flow = "reads" => Inv!PassIsShown /\ Inv!OneWaitDecides

(* And an EMS that does its part is not failed for being slow, for a hiccup
   or for the order of its lists. *)
NoFalseAlarm ==
  /\ flow = "baseline" => Bas!PatientUnderHiccups /\ Bas!SessionsYoung /\ Bas!WindowKept
  /\ flow = "session" => Ses!ConformingEmsPasses
  /\ flow = "alarm" => Alm!HonestEmsPasses
  /\ flow = "reads" => Inv!ShownPasses

(* The report tells what happened: no green report without all tests, no
   failed restore of one teardown hidden, no report lost unless the last
   teardown itself breaks. *)
ReportTellsTruth ==
  /\ flow = "report" => Rep!LoneStrictFailureShown /\ Rep!CompleteMeansAll /\ Rep!GreenReportIsGreen /\ Rep!LostOnlyWhenTornDownLate

(* What no step may do: create a service in a test that only reads, swap the
   run that stands for a build without a warning, or touch an archived entry. *)
StepsAllowed ==
  [][/\ flow = "ont" => Ont!CreatorCreates
     /\ flow = "index" => Idx!ReferenceStays
     /\ flow = "archive" => Arc!EntriesStay]_vars

(* The tools tell the truth: what the index compares and lists, what the
   archive's manifest and exit code say, what the backfill reports as updated,
   how the three OpenAPI views relate, and that a guard without findings has
   missed no key outside compositions and shared bodies and responses. *)
ToolsTellTruth ==
  /\ flow = "index" => Idx!ComparedInOrder /\ Idx!FailuresListed
  /\ flow = "archive" => Arc!ArchivedIsListed /\ Arc!FalseRowsAreReported
  /\ flow = "backfill" => Fil!ZeroMeansUpdated /\ Fil!ChangesAreRecorded
  /\ flow = "openapi" => Doc!ViewsNest /\ Doc!GuardMissesNoKey /\ Doc!ValuesAreIgnored
=============================================================================

