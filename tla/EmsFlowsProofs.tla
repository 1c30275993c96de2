--------------------------- MODULE EmsFlowsProofs ---------------------------
(***************************************************************************)
(* The flows that provision the EMS and its devices, for all values of     *)
(* their constants: any tests in any order, any answers of the EMS and any *)
(* interference of other clients. Each section is about one flow: the      *)
(* inductive invariant of its module, one lemma per part that a step could *)
(* disturb, and the theorems.                                              *)
(***************************************************************************)
EXTENDS EmsFlows, Integers, SequenceTheorems, WellFoundedInduction, TLAPS

-----------------------------------------------------------------------------
(***************************************************************************)
(* The ONT service tests.                                                  *)
(***************************************************************************)
\* A procedure changes a service only behind a look that showed the own
\* template, or no service at all; invalid parameters are the exception.
OntLooked ==
  /\ ontPc \in {"delete", "put", "update"} => ontSeen = Ont!Own
  /\ ontPc = "second" => ontSeen = "none"
  /\ ontPc = "gone" => ontDoing \in {"post", "delete", "prep", "down", "invalid"}
  /\ ontPc = "gone_again" => ontDoing = "invalid"

\* A service of this run uses the template of this run, which the EMS keeps
\* as long; without the request to keep it, a session that ends while its
\* template is up has failed to remove it.
OntAccounted ==
  /\ ontSvc = Ont!Own => ontTpl = "up"
  /\ ontPc = "done" => ontTpl # "up" \/ ontKeep \/ ontTorn = "failed"

\* Who runs a procedure that can create the service.
OntCreating == {"template", "upsert", "conflict", "post", "put", "state", "again", "delete", "gone"}
OntCalled ==
  ontPc \notin {"next", "start", "done"} =>
    /\ ontDoing = "post" => ontTest = "post"
    /\ ontDoing = "invalid" => ontTest = "invalid"
    /\ ontDoing = "prep" /\ ontPc \in OntCreating => ontTest = "ready"

OntIInv == OntLooked /\ OntAccounted /\ OntCalled /\ Ont!ForeignServiceSpared

\* A session starts with no look taken, no template and no service of its own.
LEMMA OntInitInv == Ont!Init => OntIInv
  BY DEF Ont!Init, OntIInv, OntLooked, OntAccounted, OntCalled, OntCreating,
         Ont!ForeignServiceSpared, Ont!Own

\* What follows a removal, in each procedure that removes.
LEMMA OntRemovals ==
  /\ Ont!AfterRemoval["post"] = "post" /\ Ont!AfterRemoval["delete"] = "verify"
  /\ Ont!AfterRemoval["prep"] = "upsert" /\ Ont!AfterRemoval["down"] = "profiles"
  BY DEF Ont!AfterRemoval

\* A change by a procedure behind such a look is one that the property names.
LEMMA OntHarmSpares ==
  ASSUME Ont!ForeignServiceSpared, Ont!Harm \/ UNCHANGED ontHarmed,
         ontSeen = Ont!Own \/ ontDoing = "invalid" \/ (ontDoing = "delete" /\ ontSeen = "none")
  PROVE  Ont!ForeignServiceSpared'
<1> SUFFICES ASSUME NEW h \in ontHarmed'
             PROVE  h[1] = "invalid" \/ h[2] = Ont!Own \/ h = <<"delete", "none">>
  BY DEF Ont!ForeignServiceSpared
<1>1. CASE h \in ontHarmed
  BY <1>1 DEF Ont!ForeignServiceSpared
<1>2. CASE h = <<ontDoing, ontSeen>>
  BY <1>2
<1> QED
  BY <1>1, <1>2 DEF Ont!Harm

\* Every step of the tests, of the EMS and of the others keeps the invariant.
LEMMA OntNextInv == OntIInv /\ [Ont!Next]_(Ont!vars) => OntIInv'
<1> SUFFICES ASSUME OntIInv, [Ont!Next]_(Ont!vars) PROVE OntIInv'
  OBVIOUS
<1> USE DEF OntIInv, OntLooked, OntAccounted, OntCalled, OntCreating, Ont!ForeignServiceSpared, Ont!Own, Ont!NoService,
            Ont!Go, Ont!Abort, Ont!Alive, Ont!Local, Ont!Quiet, Ont!fixed, Ont!ems
<1>1. CASE Ont!NextTest
  BY <1>1 DEF Ont!NextTest
<1>2. CASE Ont!PrepFixture
  BY <1>2 DEF Ont!PrepFixture
<1>3. CASE Ont!MakeTemplate
  BY <1>3 DEF Ont!MakeTemplate
<1>4. CASE Ont!StartPost
  BY <1>4 DEF Ont!StartPost
<1>5. CASE Ont!StartReady
  BY <1>5 DEF Ont!StartReady
<1>6. CASE Ont!StartMutation
  BY <1>6 DEF Ont!StartMutation
<1>7. CASE Ont!StartInvalid
  BY <1>7 DEF Ont!StartInvalid
<1>8. CASE Ont!EndInSetup
  BY <1>8 DEF Ont!EndInSetup
<1>9. CASE Ont!PostLook
  BY <1>9 DEF Ont!PostLook
<1>10. CASE Ont!PostCall
  BY <1>10 DEF Ont!PostCall, Ont!PostAnswers
<1>11. CASE Ont!PostState
  BY <1>11 DEF Ont!PostState
<1>12. CASE Ont!DeleteChecked
  <2>1. Ont!ForeignServiceSpared'
    <3>1. ontSeen = "own" \/ ontDoing = "invalid"
      BY <1>12 DEF Ont!DeleteChecked
    <3>2. Ont!Harm \/ UNCHANGED ontHarmed
      BY <1>12 DEF Ont!DeleteChecked, Ont!DeleteAnswers
    <3> QED
      BY <3>1, <3>2, OntHarmSpares
  <2>2. ontSvc' = Ont!Own => ontSvc = Ont!Own
    BY <1>12 DEF Ont!DeleteChecked, Ont!DeleteAnswers
  <2>3. OntLooked' /\ OntAccounted' /\ OntCalled'
    BY <1>12, <2>2 DEF Ont!DeleteChecked
  <2> QED
    BY <2>1, <2>3
<1>13. CASE Ont!AwaitRemoval
  <2>1. CASE ontDoing = "invalid"
    BY <1>13, <2>1 DEF Ont!AwaitRemoval, Ont!AfterDrop
  <2>2. CASE ontDoing \in {"post", "delete", "prep", "down"} /\ ontPc = "gone"
    BY <1>13, <2>2, OntRemovals DEF Ont!AwaitRemoval
  <2> QED
    BY <1>13, <2>1, <2>2 DEF Ont!AwaitRemoval
<1>14. CASE Ont!PrepLook
  BY <1>14 DEF Ont!PrepLook
<1>15. CASE Ont!PrepCli
  BY <1>15 DEF Ont!PrepCli
<1>16. CASE Ont!PrepVisible BY <1>16 DEF Ont!PrepVisible
<1>17. CASE Ont!PrepDecide
  BY <1>17 DEF Ont!PrepDecide, Ont!MayProvision, Ont!PostOk, Ont!Diagnosis
<1>18. CASE Ont!PrepTemplate
  BY <1>18 DEF Ont!PrepTemplate
<1>19. CASE Ont!UpsertLook
  BY <1>19 DEF Ont!UpsertLook
<1>20. CASE Ont!UpsertPost
  BY <1>20 DEF Ont!UpsertPost, Ont!PostAnswers
<1>21. CASE Ont!UpsertPut
  <2>1. Ont!ForeignServiceSpared'
    <3>1. ontSeen = "own" \/ ontDoing = "invalid"
      BY <1>21 DEF Ont!UpsertPut
    <3>2. Ont!Harm \/ UNCHANGED ontHarmed
      BY <1>21 DEF Ont!UpsertPut, Ont!UpdateAnswers
    <3> QED
      BY <3>1, <3>2, OntHarmSpares
  <2>2. ontSvc' = Ont!Own => ontSvc = Ont!Own
    BY <1>21 DEF Ont!UpsertPut, Ont!UpdateAnswers
  <2>3. OntLooked' /\ OntAccounted' /\ OntCalled'
    BY <1>21, <2>2 DEF Ont!UpsertPut
  <2> QED
    BY <2>1, <2>3
<1>22. CASE Ont!PrepState
  BY <1>22 DEF Ont!PrepState
<1>23. CASE Ont!DeleteIfOwn
  BY <1>23, OntRemovals DEF Ont!DeleteIfOwn
<1>24. CASE Ont!PrepIs
  BY <1>24 DEF Ont!PrepIs
<1>25. CASE Ont!PrepInventory
  BY <1>25 DEF Ont!PrepInventory
<1>26. CASE Ont!MutationLook
  BY <1>26 DEF Ont!MutationLook
<1>27. CASE Ont!Update
  <2>1. Ont!ForeignServiceSpared'
    <3>1. Ont!Harm \/ UNCHANGED ontHarmed
      BY <1>27 DEF Ont!Update, Ont!UpdateAnswers
    <3> QED
      BY <1>27, <3>1, OntHarmSpares DEF Ont!Update
  <2> QED
    BY <1>27, <2>1 DEF Ont!Update, Ont!UpdateAnswers
<1>28. CASE Ont!VerifyRemoved
  BY <1>28 DEF Ont!VerifyRemoved
<1>29. CASE Ont!SecondDelete
  <2>1. Ont!ForeignServiceSpared'
    <3>1. Ont!Harm \/ UNCHANGED ontHarmed
      BY <1>29 DEF Ont!SecondDelete, Ont!DeleteAnswers
    <3> QED
      BY <1>29, <3>1, OntHarmSpares DEF Ont!SecondDelete
  <2> QED
    BY <1>29, <2>1 DEF Ont!SecondDelete, Ont!DeleteAnswers
<1>30. CASE Ont!InvalidLook
  BY <1>30 DEF Ont!InvalidLook, Ont!AfterDrop
<1>31. CASE Ont!InvalidDrop
  <2>1. Ont!ForeignServiceSpared'
    <3>1. ontSeen = "own" \/ ontDoing = "invalid"
      BY <1>31 DEF Ont!InvalidDrop
    <3>2. Ont!Harm \/ UNCHANGED ontHarmed
      BY <1>31 DEF Ont!InvalidDrop, Ont!DeleteAnswers
    <3> QED
      BY <3>1, <3>2, OntHarmSpares
  <2>2. ontSvc' = Ont!Own => ontSvc = Ont!Own
    BY <1>31 DEF Ont!InvalidDrop, Ont!DeleteAnswers
  <2>3. OntLooked' /\ OntAccounted' /\ OntCalled'
    BY <1>31, <2>2 DEF Ont!InvalidDrop
  <2> QED
    BY <2>1, <2>3
<1>32. CASE Ont!InvalidPost
  BY <1>32 DEF Ont!InvalidPost, Ont!PostAnswers
<1>33. CASE Ont!StartTeardown
  BY <1>33 DEF Ont!StartTeardown
<1>34. CASE Ont!DeleteProfiles
  BY <1>34 DEF Ont!DeleteProfiles
<1>35. CASE Ont!Ems
  BY <1>35 DEF Ont!Ems, Ont!run
<1>36. CASE Ont!OtherClient
  BY <1>36 DEF Ont!OtherClient, Ont!run
<1>37. CASE UNCHANGED Ont!vars
  BY <1>37 DEF Ont!vars, Ont!run
<1> QED
  BY <1>1, <1>2, <1>3, <1>4, <1>5, <1>6, <1>7, <1>8, <1>9, <1>10, <1>11,
     <1>12, <1>13, <1>14, <1>15, <1>16, <1>17, <1>18, <1>19, <1>20, <1>21,
     <1>22, <1>23, <1>24, <1>25, <1>26, <1>27, <1>28, <1>29, <1>30, <1>31,
     <1>32, <1>33, <1>34, <1>35, <1>36, <1>37 DEF Ont!Next, Ont!Tests

\* Every reachable state satisfies it.
LEMMA OntInvariance == Ont!Spec => []OntIInv
  BY OntInitInv, OntNextInv, PTL DEF Ont!Spec

\* Whatever runs and whatever others do, somebody else's service is changed by
\* the invalid-parameter tests, or when it came after a look that showed the
\* run's own template (or, for the second DELETE, nothing).
THEOREM OntForeignSpared == Ont!Spec => []Ont!ForeignServiceSpared
<1>1. OntIInv => Ont!ForeignServiceSpared
  BY DEF OntIInv
<1> QED
  BY <1>1, OntInvariance, PTL

\* A service of its own that a session leaves behind was kept on request or
\* made the teardown fail, however its calls and looks were answered.
THEOREM OntLeftReported == Ont!Spec => []Ont!LeftServiceIsReported
<1>1. OntIInv => Ont!LeftServiceIsReported
  BY DEF OntIInv, OntAccounted, Ont!LeftServiceIsReported
<1> QED
  BY <1>1, OntInvariance, PTL

\* No other step creates it.
LEMMA OntOnlyCreators == OntIInv /\ [Ont!Next]_(Ont!vars) => Ont!CreatorCreates
<1> SUFFICES ASSUME OntIInv, [Ont!Next]_(Ont!vars), ontSvc # Ont!Own, ontSvc' = Ont!Own, ~ontLate
             PROVE  ontTest \in {"post", "ready", "invalid"}
  BY DEF Ont!CreatorCreates
<1> USE DEF OntIInv, OntCalled, OntCreating, Ont!Own
<1>1. CASE Ont!PostCall
  BY <1>1 DEF Ont!PostCall
<1>2. CASE Ont!UpsertPost
  BY <1>2 DEF Ont!UpsertPost
<1>3. CASE Ont!InvalidPost
  BY <1>3 DEF Ont!InvalidPost
<1>4. ~(Ont!OtherClient \/ UNCHANGED Ont!vars \/ Ont!Ems)
  BY DEF Ont!OtherClient, Ont!Ems, Ont!vars, Ont!ems
<1>5. ~(Ont!NextTest \/ Ont!PrepFixture \/ Ont!MakeTemplate \/ Ont!StartPost \/
        Ont!StartReady \/ Ont!StartMutation \/ Ont!StartInvalid \/ Ont!EndInSetup \/
        Ont!PostLook \/ Ont!PostState \/ Ont!AwaitRemoval \/ Ont!PrepLook \/ Ont!PrepCli \/
        Ont!PrepVisible \/ Ont!PrepDecide \/ Ont!PrepTemplate \/ Ont!UpsertLook \/
        Ont!PrepState \/ Ont!DeleteIfOwn \/ Ont!PrepIs \/ Ont!PrepInventory \/
        Ont!MutationLook \/ Ont!VerifyRemoved \/ Ont!InvalidLook \/ Ont!StartTeardown \/
        Ont!DeleteProfiles)
  BY DEF Ont!NextTest, Ont!PrepFixture, Ont!MakeTemplate, Ont!StartPost, Ont!StartReady,
         Ont!StartMutation, Ont!StartInvalid, Ont!EndInSetup, Ont!PostLook, Ont!PostState,
         Ont!AwaitRemoval, Ont!PrepLook, Ont!PrepCli, Ont!PrepVisible, Ont!PrepDecide,
         Ont!PrepTemplate, Ont!UpsertLook, Ont!PrepState, Ont!DeleteIfOwn, Ont!PrepIs,
         Ont!PrepInventory, Ont!MutationLook, Ont!VerifyRemoved, Ont!InvalidLook,
         Ont!StartTeardown, Ont!DeleteProfiles, Ont!Quiet, Ont!ems
<1>6. ~(Ont!UpsertPut \/ Ont!DeleteChecked \/ Ont!Update \/ Ont!SecondDelete \/ Ont!InvalidDrop)
  BY DEF Ont!UpsertPut, Ont!DeleteChecked, Ont!Update, Ont!SecondDelete, Ont!InvalidDrop,
         Ont!DeleteAnswers, Ont!UpdateAnswers, Ont!Quiet, Ont!ems
<1> QED
  BY <1>1, <1>2, <1>3, <1>4, <1>5, <1>6 DEF Ont!Next, Ont!Tests

\* Only the POST, the readiness test and an accepted invalid payload create
\* the service, unless a POST whose answer was lost lands later.
THEOREM OntCreatorsOnly == Ont!Spec => Ont!OnlyCreatorsCreate
<1>1. OntIInv /\ [Ont!Next]_(Ont!vars) => Ont!CreatorCreates
  BY OntOnlyCreators
<1>2. OntIInv /\ [Ont!Next]_(Ont!vars) => [Ont!CreatorCreates]_(Ont!vars)
  BY <1>1
<1> QED
  BY <1>2, OntInvariance, PTL DEF Ont!Spec, Ont!OnlyCreatorsCreate

(***************************************************************************)
(* Types, part by part.                                                    *)
(***************************************************************************)
OntSteps == {"next", "start", "get", "post", "conflict", "state", "delete", "gone", "verify", "second", "cli",
             "visible", "decide", "template", "upsert", "put", "again", "is", "inventory", "update", "drop",
             "drop_again", "gone_again", "release", "repost", "profiles", "done"}

\* Where a run stands; preparing goes on only with a look that was answered.
OntPosition ==
  /\ ontTest \in Ont!TestNames \cup {""} /\ ontDoing \in Ont!Procedures /\ ontPc \in OntSteps /\ ontSeen \in Ont!Views
  /\ ontCli \in {"IS", "UnReg", "Unknown"} /\ ontRedo \in BOOLEAN
  /\ ontDoing = "prep" /\ ontPc \in {"post", "put", "state", "is", "inventory"} => ontSeen \in {"none", "own", "foreign"}

\* Invalid payloads are counted down to the last one and not beyond.
OntCount == ontN \in Nat /\ (ontDoing = "invalid" /\ ontPc \notin {"next", "start", "done"} => ontN > 0)

\* What its tests and fixtures have agreed on.
OntOutcome == {"no", "ok", "failed", "blocked"}
OntReady   == [post : OntOutcome, ready : OntOutcome, template : {"none", "own", "foreign"}]
OntFixtures ==
  /\ ontWf \in OntReady /\ ontTpl \in {"none", "up", "broken", "gone"}
  /\ ontPrep \in {"none", "broken", "own", "foreign"} /\ ontTorn \in {"no", "clean", "failed"}

\* The EMS, the others and the history.
OntWorld ==
  /\ ontSvc \in {"none", "own", "foreign"} /\ ontState \in {"busy", "Success", "Fail"}
  /\ ontReserved \in BOOLEAN /\ ontLate \in BOOLEAN
OntHistory == ontHarmed \subseteq Ont!Procedures \X Ont!Views
OntRest == ontTodo \in Seq(Ont!TestNames) /\ ontKeep \in BOOLEAN /\ ontOthers \in Nat

OntTInv == OntPosition /\ OntCount /\ OntFixtures /\ OntWorld /\ OntHistory /\ OntRest

\* The parts make up the type invariant.
LEMMA OntTypes == OntTInv => Ont!TypeOK
  BY DEF OntTInv, Ont!TypeOK, OntPosition, OntCount, OntFixtures, OntWorld, OntHistory, OntRest, OntReady,
     OntOutcome, OntSteps

\* The initial states have these types.
LEMMA OntInitTypes == ASSUME Ont!OntAssumption PROVE Ont!Init => OntTInv
<1> SUFFICES ASSUME Ont!Init PROVE OntTInv
  OBVIOUS
<1>1. OntPosition /\ OntCount
  BY DEF Ont!Init, OntPosition, OntCount, Ont!TestNames, Ont!Procedures, OntSteps, Ont!Views
<1>2. OntFixtures
  BY DEF Ont!Init, OntFixtures, OntReady, OntOutcome
<1>3. OntWorld /\ OntHistory /\ OntRest
  BY DEF Ont!Init, OntWorld, OntHistory, OntRest, Ont!OntAssumption
<1> QED
  BY <1>1, <1>2, <1>3 DEF OntTInv

\* Every step leaves a run at one of its steps.
LEMMA OntPositionKept == OntPosition /\ OntRest /\ OntLooked /\ OntWorld /\ [Ont!Next]_(Ont!vars) => OntPosition'
<1> SUFFICES ASSUME OntPosition, OntRest, OntLooked, OntWorld, [Ont!Next]_(Ont!vars) PROVE OntPosition'
  OBVIOUS
<1>t. ontTodo # <<>> => Head(ontTodo) \in Ont!TestNames
  BY DEF OntRest
<1>l. Ont!Looks \subseteq Ont!Views
  BY DEF OntWorld, Ont!Looks, Ont!Views
<1>u. UNCHANGED <<ontTest, ontDoing, ontPc, ontSeen, ontCli, ontRedo>> => OntPosition'
  BY DEF OntPosition
<1> USE DEF OntPosition, Ont!Procedures, Ont!Views, OntSteps, Ont!Own, Ont!Go, Ont!Abort, Ont!Alive, Ont!Local, Ont!Quiet, Ont!fixed, Ont!ems
<1>1. CASE Ont!NextTest
  BY <1>1, <1>t DEF Ont!NextTest
<1>2. CASE Ont!PrepFixture
  BY <1>2 DEF Ont!PrepFixture
<1>3. CASE Ont!MakeTemplate
  BY <1>3 DEF Ont!MakeTemplate
<1>4. CASE Ont!StartPost
  BY <1>4 DEF Ont!StartPost
<1>5. CASE Ont!StartReady
  BY <1>5 DEF Ont!StartReady
<1>6. CASE Ont!StartMutation
  BY <1>6 DEF Ont!StartMutation
<1>7. CASE Ont!StartInvalid
  BY <1>7 DEF Ont!StartInvalid
<1>8. CASE Ont!EndInSetup
  BY <1>8 DEF Ont!EndInSetup
<1>9. CASE Ont!PostLook
  BY <1>9, <1>l DEF Ont!PostLook
<1>10. CASE Ont!PostCall
  BY <1>10 DEF Ont!PostCall
<1>11. CASE Ont!PostState
  BY <1>11 DEF Ont!PostState
<1>12. CASE Ont!DeleteChecked
  <2>1. ontPc' \in {"gone", "next", "done"} /\ UNCHANGED <<ontTest, ontDoing, ontSeen, ontCli, ontRedo>>
    BY <1>12 DEF Ont!DeleteChecked
  <2>2. ontPc' \in OntSteps
    BY <2>1
  <2>3. UNCHANGED ontRedo
    BY <2>1
  <2> QED
    BY <2>1, <2>2, <2>3
<1>13. CASE Ont!AwaitRemoval
  <2>1. UNCHANGED <<ontTest, ontDoing, ontSeen, ontCli, ontRedo>>
    BY <1>13 DEF Ont!AwaitRemoval
  <2>2. CASE ontDoing = "invalid"
    <3>1. ontPc' \in {"post", "repost", "next", "done"}
      BY <1>13, <2>2 DEF Ont!AwaitRemoval, Ont!AfterDrop
    <3> QED
      BY <2>1, <2>2, <3>1
  <2>3. CASE ontPc = "gone" /\ ontDoing \in {"post", "delete", "prep", "down"}
    <3>1. ontPc' \in {"post", "verify", "upsert", "profiles", "next", "done"} /\ (ontPc' = "post" => ontDoing = "post")
      BY <1>13, <2>3, OntRemovals DEF Ont!AwaitRemoval
    <3>2. ontPc' \in OntSteps
      BY <3>1
    <3>3. ontDoing' = "prep" => ontPc' \notin {"post", "put", "state", "is", "inventory"}
      BY <2>1, <3>1
    <3> QED
      BY <2>1, <3>2, <3>3
  <2> QED
    BY <1>13, <2>2, <2>3 DEF Ont!AwaitRemoval, OntLooked
<1>14. CASE Ont!PrepLook
  BY <1>14, <1>l DEF Ont!PrepLook
<1>15. CASE Ont!PrepCli
  BY <1>15 DEF Ont!PrepCli
<1>16. CASE Ont!PrepVisible
  BY <1>16, <1>l DEF Ont!PrepVisible
<1>17. CASE Ont!PrepDecide
  BY <1>17 DEF Ont!PrepDecide, Ont!MayProvision, Ont!PostOk, Ont!Diagnosis
<1>18. CASE Ont!PrepTemplate
  BY <1>18 DEF Ont!PrepTemplate
<1>19. CASE Ont!UpsertLook
  BY <1>19, <1>l DEF Ont!UpsertLook
<1>20. CASE Ont!UpsertPost
  BY <1>20 DEF Ont!UpsertPost
<1>21. CASE Ont!UpsertPut
  BY <1>21 DEF Ont!UpsertPut
<1>22. CASE Ont!PrepState
  BY <1>22 DEF Ont!PrepState
<1>23. CASE Ont!DeleteIfOwn
  BY <1>23, OntRemovals, <1>l DEF Ont!DeleteIfOwn
<1>24. CASE Ont!PrepIs
  BY <1>24 DEF Ont!PrepIs
<1>25. CASE Ont!PrepInventory
  BY <1>25 DEF Ont!PrepInventory
<1>26. CASE Ont!MutationLook
  BY <1>26, <1>l DEF Ont!MutationLook
<1>27. CASE Ont!Update
  BY <1>27 DEF Ont!Update
<1>28. CASE Ont!VerifyRemoved
  BY <1>28, <1>l DEF Ont!VerifyRemoved
<1>29. CASE Ont!SecondDelete
  BY <1>29 DEF Ont!SecondDelete
<1>30. CASE Ont!InvalidLook
  BY <1>30, <1>l DEF Ont!InvalidLook, Ont!AfterDrop
<1>31. CASE Ont!InvalidDrop
  BY <1>31 DEF Ont!InvalidDrop
<1>32. CASE Ont!InvalidPost
  BY <1>32 DEF Ont!InvalidPost
<1>33. CASE Ont!StartTeardown
  BY <1>33 DEF Ont!StartTeardown
<1>34. CASE Ont!DeleteProfiles
  BY <1>34 DEF Ont!DeleteProfiles
<1>35. CASE Ont!Ems
  BY <1>35, <1>u DEF Ont!Ems, Ont!run
<1>36. CASE Ont!OtherClient
  BY <1>36, <1>u DEF Ont!OtherClient, Ont!run
<1>37. CASE UNCHANGED Ont!vars
  BY <1>37, <1>u DEF Ont!vars, Ont!run
<1> QED
  BY <1>1, <1>2, <1>3, <1>4, <1>5, <1>6, <1>7, <1>8, <1>9, <1>10, <1>11,
     <1>12, <1>13, <1>14, <1>15, <1>16, <1>17, <1>18, <1>19, <1>20, <1>21,
     <1>22, <1>23, <1>24, <1>25, <1>26, <1>27, <1>28, <1>29, <1>30, <1>31,
     <1>32, <1>33, <1>34, <1>35, <1>36, <1>37 DEF Ont!Next, Ont!Tests

\* Every step counts within bounds.
LEMMA OntCountKept == ASSUME Ont!OntAssumption PROVE OntPosition /\ OntLooked /\ OntCount /\ [Ont!Next]_(Ont!vars) => OntCount'
<1> SUFFICES ASSUME OntPosition, OntLooked, OntCount, [Ont!Next]_(Ont!vars) PROVE OntCount'
  OBVIOUS
<1>p. \A k \in 1..OntPosts : k \in Nat
  BY DEF Ont!OntAssumption
<1>i. InvalidCases \in Nat /\ InvalidCases > 0
  BY DEF Ont!OntAssumption
<1> USE DEF OntCount
<1>1. CASE Ont!StartPost
  BY <1>1, <1>p DEF Ont!StartPost
<1>2. CASE Ont!PostCall
  <2>1. ontN' \in Nat
    BY <1>2 DEF Ont!PostCall
  <2>2. ontDoing' = "post"
    BY <1>2 DEF Ont!PostCall, Ont!Local
  <2> QED
    BY <2>1, <2>2
<1>3. CASE Ont!PrepCli
  BY <1>3 DEF Ont!PrepCli, Ont!Local
<1>4. CASE Ont!PrepVisible
  <2>1. ontN' \in Nat
    BY <1>4 DEF Ont!PrepVisible
  <2>2. ontDoing' = "prep"
    BY <1>4 DEF Ont!PrepVisible, Ont!Local
  <2> QED
    BY <2>1, <2>2
<1>5. CASE Ont!PrepTemplate
  BY <1>5 DEF Ont!PrepTemplate, Ont!Quiet, Ont!fixed
<1>6. CASE Ont!StartInvalid
  BY <1>6, <1>i DEF Ont!StartInvalid
<1>7. CASE Ont!InvalidPost
  <2>1. ontN \in Nat /\ ontN > 0 /\ ontDoing = "invalid" /\ UNCHANGED ontDoing
    BY <1>7 DEF Ont!InvalidPost, Ont!Local
  <2>2. ontN' = ontN \/ (ontN' = ontN - 1 /\ (ontN = 1 => ontPc' = "next"))
    <3>1. PICK a \in {"ok", "conflict", "error", "raise"} :
            /\ ontN' = IF a = "error" THEN ontN - 1 ELSE ontN
            /\ a = "error" => ontPc' = IF ontN = 1 THEN "next" ELSE "get"
      BY <1>7 DEF Ont!InvalidPost, Ont!Go
    <3>2. CASE a = "error"
      BY <3>1, <3>2
    <3>3. CASE a # "error"
      BY <3>1, <3>3
    <3> QED
      BY <3>2, <3>3
  <2> QED
    BY <2>1, <2>2
<1>8. CASE /\ Ont!Next
           /\ ~(Ont!StartPost \/ Ont!PostCall \/ Ont!PrepCli \/ Ont!PrepVisible \/ Ont!PrepTemplate \/ Ont!StartInvalid \/ Ont!InvalidPost)
  <2>1. UNCHANGED ontN
    BY <1>8 DEF Ont!Next, Ont!Tests, Ont!NextTest, Ont!PrepFixture, Ont!MakeTemplate, Ont!StartReady,
       Ont!StartMutation, Ont!EndInSetup, Ont!PostLook, Ont!PostState, Ont!DeleteChecked,
       Ont!AwaitRemoval, Ont!PrepLook, Ont!PrepDecide, Ont!UpsertLook, Ont!UpsertPost, Ont!UpsertPut,
       Ont!PrepState, Ont!DeleteIfOwn, Ont!PrepIs, Ont!PrepInventory, Ont!MutationLook, Ont!Update,
       Ont!VerifyRemoved, Ont!SecondDelete, Ont!InvalidLook, Ont!InvalidDrop, Ont!StartTeardown,
       Ont!DeleteProfiles, Ont!Ems, Ont!OtherClient, Ont!run
  <2>2. ontDoing' = "invalid" => ontDoing = "invalid"
    BY <1>8 DEF Ont!Next, Ont!Tests, Ont!NextTest, Ont!PrepFixture, Ont!MakeTemplate, Ont!StartReady,
       Ont!StartMutation, Ont!EndInSetup, Ont!PostLook, Ont!PostState, Ont!DeleteChecked,
       Ont!AwaitRemoval, Ont!PrepLook, Ont!PrepDecide, Ont!UpsertLook, Ont!UpsertPost, Ont!UpsertPut,
       Ont!PrepState, Ont!DeleteIfOwn, Ont!PrepIs, Ont!PrepInventory, Ont!MutationLook, Ont!Update,
       Ont!VerifyRemoved, Ont!SecondDelete, Ont!InvalidLook, Ont!InvalidDrop, Ont!StartTeardown,
       Ont!DeleteProfiles, Ont!Ems, Ont!OtherClient, Ont!run, Ont!Local
  <2>3. CASE Ont!NextTest \/ Ont!StartTeardown \/ Ont!PrepFixture \/ Ont!MakeTemplate
             \/ Ont!StartReady \/ Ont!StartMutation \/ Ont!EndInSetup
    BY <2>1, <2>2, <2>3 DEF Ont!NextTest, Ont!StartTeardown, Ont!PrepFixture,
       Ont!MakeTemplate, Ont!StartReady, Ont!StartMutation, Ont!EndInSetup, Ont!Go
  <2>4. CASE Ont!Ems \/ Ont!OtherClient
    BY <2>1, <2>4 DEF Ont!Ems, Ont!OtherClient, Ont!run
  <2>5. CASE ontPc \notin {"next", "start", "done"}
    BY <2>1, <2>2, <2>5
  <2>6. ontPc \notin {"next", "start", "done"}
        \/ Ont!NextTest \/ Ont!StartTeardown \/ Ont!PrepFixture \/ Ont!MakeTemplate
        \/ Ont!StartReady \/ Ont!StartMutation \/ Ont!EndInSetup \/ Ont!Ems \/ Ont!OtherClient
    BY <1>8 DEF Ont!Next, Ont!Tests, Ont!PostLook, Ont!PostState, Ont!DeleteChecked, Ont!AwaitRemoval,
       Ont!PrepLook, Ont!PrepDecide, Ont!UpsertLook, Ont!UpsertPost, Ont!UpsertPut, Ont!PrepState,
       Ont!DeleteIfOwn, Ont!PrepIs, Ont!PrepInventory, Ont!MutationLook, Ont!Update,
       Ont!VerifyRemoved, Ont!SecondDelete, Ont!InvalidLook, Ont!InvalidDrop, Ont!DeleteProfiles
  <2> QED
    BY <2>3, <2>4, <2>5, <2>6
<1>9. CASE UNCHANGED Ont!vars
  BY <1>9 DEF Ont!vars, Ont!run
<1> QED
  BY <1>1, <1>2, <1>3, <1>4, <1>5, <1>6, <1>7, <1>8, <1>9

\* An exception leaves the workflow state, the fixture and the teardown with
\* their types.
LEMMA OntAbortTypes ==
  ASSUME OntFixtures, NEW kind, Ont!Abort(kind)
  PROVE  ontWf' \in OntReady /\ ontPrep' \in {"none", "broken", "own", "foreign"} /\ ontTorn' \in {"no", "clean", "failed"}
<1>1. ontWf' \in OntReady
  <2>1. ontWf' \in {ontWf, [ontWf EXCEPT !.post = "blocked"], [ontWf EXCEPT !.post = "failed"],
                     [ontWf EXCEPT !.ready = "blocked"], [ontWf EXCEPT !.ready = "failed"]}
    BY DEF Ont!Abort
  <2> QED
    BY <2>1 DEF OntFixtures, OntReady, OntOutcome
<1> QED
  BY <1>1 DEF OntFixtures, Ont!Abort

\* Every step leaves the workflow state, the template and the fixture typed.
LEMMA OntFixturesKept == OntPosition /\ OntFixtures /\ [Ont!Next]_(Ont!vars) => OntFixtures'
<1> SUFFICES ASSUME OntPosition, OntFixtures, [Ont!Next]_(Ont!vars) PROVE OntFixtures'
  OBVIOUS
<1> DEFINE Same == UNCHANGED <<ontWf, ontPrep, ontTorn>>
           Fate == Same \/ \E kind : Ont!Abort(kind)
<1>f. ASSUME Fate PROVE ontWf' \in OntReady /\ ontPrep' \in {"none", "broken", "own", "foreign"}
                        /\ ontTorn' \in {"no", "clean", "failed"}
  BY <1>f, OntAbortTypes DEF OntFixtures
<1> HIDE DEF Fate
<1> USE DEF OntFixtures
<1>1. CASE Ont!NextTest
  BY <1>1 DEF Ont!NextTest
<1>2. CASE Ont!PrepFixture
  <2>1. ontPrep' \in {"broken", ontPrep, ontWf.template} /\ UNCHANGED <<ontWf, ontTpl, ontTorn>>
    BY <1>2 DEF Ont!PrepFixture
  <2>2. ontWf.template \in {"none", "own", "foreign"}
    BY DEF OntReady
  <2> QED
    BY <2>1, <2>2
<1>3. CASE Ont!MakeTemplate
  BY <1>3 DEF Ont!MakeTemplate
<1>4. CASE Ont!StartPost
  BY <1>4 DEF Ont!StartPost, OntReady, OntOutcome, Ont!Own
<1>5. CASE Ont!StartReady
  BY <1>5 DEF Ont!StartReady
<1>6. CASE Ont!StartMutation
  BY <1>6 DEF Ont!StartMutation
<1>7. CASE Ont!StartInvalid
  BY <1>7 DEF Ont!StartInvalid
<1>8. CASE Ont!EndInSetup
  BY <1>8 DEF Ont!EndInSetup
<1>9. CASE Ont!PostLook
  <2>1. Fate /\ UNCHANGED ontTpl
    BY <1>9 DEF Ont!PostLook, Fate, Ont!Alive, Ont!Local
  <2> QED
    BY <2>1, <1>f
<1>10. CASE Ont!PostCall
  <2>1. Fate /\ UNCHANGED ontTpl
    BY <1>10 DEF Ont!PostCall, Fate, Ont!Alive, Ont!Local
  <2> QED
    BY <2>1, <1>f
<1>11. CASE Ont!PostState
  <2>1. CASE ontWf' = [ontWf EXCEPT !.post = "ok"] /\ UNCHANGED <<ontPrep, ontTorn, ontTpl>>
    BY <2>1 DEF OntReady, OntOutcome
  <2>2. CASE Fate /\ UNCHANGED ontTpl
    BY <2>2, <1>f
  <2> QED
    BY <1>11, <2>1, <2>2 DEF Ont!PostState, Fate, Ont!Local
<1>12. CASE Ont!DeleteChecked
  <2>1. Fate /\ UNCHANGED ontTpl
    BY <1>12 DEF Ont!DeleteChecked, Fate, Ont!Alive, Ont!Local
  <2> QED
    BY <2>1, <1>f
<1>13. CASE Ont!AwaitRemoval
  <2>1. Fate /\ UNCHANGED ontTpl
    BY <1>13 DEF Ont!AwaitRemoval, Fate, Ont!Alive, Ont!Local
  <2> QED
    BY <2>1, <1>f
<1>14. CASE Ont!PrepLook
  <2>1. Fate /\ UNCHANGED ontTpl
    BY <1>14 DEF Ont!PrepLook, Fate, Ont!Alive, Ont!Local
  <2> QED
    BY <2>1, <1>f
<1>15. CASE Ont!PrepCli
  <2>1. Fate /\ UNCHANGED ontTpl
    BY <1>15 DEF Ont!PrepCli, Fate, Ont!Alive, Ont!Local
  <2> QED
    BY <2>1, <1>f
<1>16. CASE Ont!PrepVisible
  <2>1. Fate /\ UNCHANGED ontTpl
    BY <1>16 DEF Ont!PrepVisible, Fate, Ont!Alive, Ont!Local
  <2> QED
    BY <2>1, <1>f
<1>17. CASE Ont!PrepDecide
  <2>1. Fate /\ UNCHANGED ontTpl
    BY <1>17 DEF Ont!PrepDecide, Fate, Ont!Alive, Ont!Local
  <2> QED
    BY <2>1, <1>f
<1>18. CASE Ont!PrepTemplate
  <2>1. Fate /\ ontTpl' \in {"none", "up", "broken", "gone"}
    BY <1>18 DEF Ont!PrepTemplate, Fate, Ont!Alive
  <2> QED
    BY <2>1, <1>f
<1>19. CASE Ont!UpsertLook
  <2>1. Fate /\ UNCHANGED ontTpl
    BY <1>19 DEF Ont!UpsertLook, Fate, Ont!Alive, Ont!Local
  <2> QED
    BY <2>1, <1>f
<1>20. CASE Ont!UpsertPost
  <2>1. Fate /\ UNCHANGED ontTpl
    BY <1>20 DEF Ont!UpsertPost, Fate, Ont!Alive, Ont!Local
  <2> QED
    BY <2>1, <1>f
<1>21. CASE Ont!UpsertPut
  <2>1. Fate /\ UNCHANGED ontTpl
    BY <1>21 DEF Ont!UpsertPut, Fate, Ont!Alive, Ont!Local
  <2> QED
    BY <2>1, <1>f
<1>22. CASE Ont!PrepState
  <2>1. Fate /\ UNCHANGED ontTpl
    BY <1>22 DEF Ont!PrepState, Fate, Ont!Alive, Ont!Local
  <2> QED
    BY <2>1, <1>f
<1>23. CASE Ont!DeleteIfOwn
  <2>1. Fate /\ UNCHANGED ontTpl
    BY <1>23 DEF Ont!DeleteIfOwn, Fate, Ont!Alive, Ont!Local
  <2> QED
    BY <2>1, <1>f
<1>24. CASE Ont!PrepIs
  <2>1. Fate /\ UNCHANGED ontTpl
    BY <1>24 DEF Ont!PrepIs, Fate, Ont!Alive, Ont!Local
  <2> QED
    BY <2>1, <1>f
<1>25. CASE Ont!PrepInventory
  <2>1. Ont!Selected \in {"own", "foreign"} /\ UNCHANGED ontTpl
    BY <1>25 DEF Ont!PrepInventory, Ont!Selected, OntPosition, Ont!Own, Ont!Local
  <2>2. CASE /\ ontWf' = [ontWf EXCEPT !.ready = "ok", !.template = Ont!Selected]
             /\ ontPrep' = (IF ontTest = "ready" THEN ontPrep ELSE Ont!Selected) /\ UNCHANGED ontTorn
    <3>1. ontWf' \in OntReady
      BY <2>1, <2>2 DEF OntReady, OntOutcome
    <3>2. ontPrep' \in {"none", "broken", "own", "foreign"}
      BY <2>1, <2>2
    <3> QED
      BY <2>1, <2>2, <3>1, <3>2
  <2>3. CASE Fate
    BY <2>1, <2>3, <1>f
  <2> QED
    BY <1>25, <2>2, <2>3 DEF Ont!PrepInventory, Fate
<1>26. CASE Ont!MutationLook
  <2>1. Fate /\ UNCHANGED ontTpl
    BY <1>26 DEF Ont!MutationLook, Fate, Ont!Alive, Ont!Local
  <2> QED
    BY <2>1, <1>f
<1>27. CASE Ont!Update
  <2>1. Fate /\ UNCHANGED ontTpl
    BY <1>27 DEF Ont!Update, Fate, Ont!Alive, Ont!Local
  <2> QED
    BY <2>1, <1>f
<1>28. CASE Ont!VerifyRemoved
  <2>1. Fate /\ UNCHANGED ontTpl
    BY <1>28 DEF Ont!VerifyRemoved, Fate, Ont!Alive, Ont!Local
  <2> QED
    BY <2>1, <1>f
<1>29. CASE Ont!SecondDelete
  <2>1. ontWf' \in {ontWf, [ontWf EXCEPT !.ready = "no"]} /\ UNCHANGED <<ontPrep, ontTorn, ontTpl>>
    BY <1>29 DEF Ont!SecondDelete, Ont!Local
  <2>2. ontWf' \in OntReady
    BY <2>1 DEF OntReady, OntOutcome
  <2> QED
    BY <2>1, <2>2
<1>30. CASE Ont!InvalidLook
  <2>1. Fate /\ UNCHANGED ontTpl
    BY <1>30 DEF Ont!InvalidLook, Fate, Ont!Alive, Ont!Local
  <2> QED
    BY <2>1, <1>f
<1>31. CASE Ont!InvalidDrop
  <2>1. Fate /\ UNCHANGED ontTpl
    BY <1>31 DEF Ont!InvalidDrop, Fate, Ont!Alive, Ont!Local
  <2> QED
    BY <2>1, <1>f
<1>32. CASE Ont!InvalidPost
  <2>1. Fate /\ UNCHANGED ontTpl
    BY <1>32 DEF Ont!InvalidPost, Fate, Ont!Alive, Ont!Local
  <2> QED
    BY <2>1, <1>f
<1>33. CASE Ont!StartTeardown
  BY <1>33 DEF Ont!StartTeardown
<1>34. CASE Ont!DeleteProfiles
  BY <1>34 DEF Ont!DeleteProfiles, Ont!Quiet, Ont!fixed
<1>35. CASE Ont!Ems
  BY <1>35 DEF Ont!Ems, Ont!run
<1>36. CASE Ont!OtherClient
  BY <1>36 DEF Ont!OtherClient, Ont!run
<1>37. CASE UNCHANGED Ont!vars
  BY <1>37 DEF Ont!vars, Ont!run
<1> QED
  BY <1>1, <1>2, <1>3, <1>4, <1>5, <1>6, <1>7, <1>8, <1>9, <1>10, <1>11,
     <1>12, <1>13, <1>14, <1>15, <1>16, <1>17, <1>18, <1>19, <1>20, <1>21,
     <1>22, <1>23, <1>24, <1>25, <1>26, <1>27, <1>28, <1>29, <1>30, <1>31,
     <1>32, <1>33, <1>34, <1>35, <1>36, <1>37 DEF Ont!Next, Ont!Tests

\* A request leaves the EMS typed and adds at most one entry to the history.
LEMMA OntRequestTypes ==
  ASSUME OntPosition, OntWorld, OntHistory, NEW answer,
         Ont!DeleteAnswers(answer) \/ Ont!PostAnswers(answer) \/ Ont!UpdateAnswers(answer)
  PROVE  OntWorld' /\ OntHistory'
<1>1. OntWorld'
  BY DEF OntWorld, Ont!DeleteAnswers, Ont!PostAnswers, Ont!UpdateAnswers, Ont!Quiet, Ont!ems, Ont!Own
<1>2. ontHarmed' = ontHarmed \/ ontHarmed' = ontHarmed \cup {<<ontDoing, ontSeen>>}
  BY DEF Ont!DeleteAnswers, Ont!PostAnswers, Ont!UpdateAnswers, Ont!Quiet, Ont!Harm
<1>3. <<ontDoing, ontSeen>> \in Ont!Procedures \X Ont!Views
  BY DEF OntPosition
<1> QED
  BY <1>1, <1>2, <1>3 DEF OntHistory

\* Every step leaves the EMS and the history typed.
LEMMA OntWorldKept == OntPosition /\ OntWorld /\ OntHistory /\ [Ont!Next]_(Ont!vars) => OntWorld' /\ OntHistory'
<1> SUFFICES ASSUME OntPosition, OntWorld, OntHistory, [Ont!Next]_(Ont!vars) PROVE OntWorld' /\ OntHistory'
  OBVIOUS
<1>q. ASSUME Ont!Quiet PROVE OntWorld' /\ OntHistory'
  BY <1>q DEF Ont!Quiet, Ont!ems, OntWorld, OntHistory
<1>1. CASE Ont!NextTest
  BY <1>1, <1>q DEF Ont!NextTest, Ont!Quiet, Ont!ems
<1>2. CASE Ont!PrepFixture
  BY <1>2, <1>q DEF Ont!PrepFixture, Ont!Quiet, Ont!ems
<1>3. CASE Ont!MakeTemplate
  BY <1>3, <1>q DEF Ont!MakeTemplate, Ont!Quiet, Ont!ems
<1>4. CASE Ont!StartPost
  BY <1>4, <1>q DEF Ont!StartPost, Ont!Quiet, Ont!ems
<1>5. CASE Ont!StartReady
  BY <1>5, <1>q DEF Ont!StartReady, Ont!Quiet, Ont!ems
<1>6. CASE Ont!StartMutation
  BY <1>6, <1>q DEF Ont!StartMutation, Ont!Quiet, Ont!ems
<1>7. CASE Ont!StartInvalid
  BY <1>7, <1>q DEF Ont!StartInvalid, Ont!Quiet, Ont!ems
<1>8. CASE Ont!EndInSetup
  BY <1>8, <1>q DEF Ont!EndInSetup, Ont!Quiet, Ont!ems
<1>9. CASE Ont!PostLook
  BY <1>9, <1>q DEF Ont!PostLook
<1>10. CASE Ont!PostCall
  BY <1>10, <1>q, OntRequestTypes DEF Ont!PostCall
<1>11. CASE Ont!PostState
  BY <1>11, <1>q DEF Ont!PostState
<1>12. CASE Ont!DeleteChecked
  BY <1>12, <1>q, OntRequestTypes DEF Ont!DeleteChecked
<1>13. CASE Ont!AwaitRemoval
  BY <1>13, <1>q DEF Ont!AwaitRemoval
<1>14. CASE Ont!PrepLook
  BY <1>14, <1>q DEF Ont!PrepLook
<1>15. CASE Ont!PrepCli
  BY <1>15, <1>q DEF Ont!PrepCli
<1>16. CASE Ont!PrepVisible
  BY <1>16, <1>q DEF Ont!PrepVisible
<1>17. CASE Ont!PrepDecide
  BY <1>17, <1>q DEF Ont!PrepDecide
<1>18. CASE Ont!PrepTemplate
  BY <1>18, <1>q DEF Ont!PrepTemplate
<1>19. CASE Ont!UpsertLook
  BY <1>19, <1>q DEF Ont!UpsertLook
<1>20. CASE Ont!UpsertPost
  BY <1>20, <1>q, OntRequestTypes DEF Ont!UpsertPost
<1>21. CASE Ont!UpsertPut
  BY <1>21, <1>q, OntRequestTypes DEF Ont!UpsertPut
<1>22. CASE Ont!PrepState
  BY <1>22, <1>q DEF Ont!PrepState
<1>23. CASE Ont!DeleteIfOwn
  BY <1>23, <1>q DEF Ont!DeleteIfOwn
<1>24. CASE Ont!PrepIs
  BY <1>24, <1>q DEF Ont!PrepIs
<1>25. CASE Ont!PrepInventory
  BY <1>25, <1>q DEF Ont!PrepInventory
<1>26. CASE Ont!MutationLook
  BY <1>26, <1>q DEF Ont!MutationLook
<1>27. CASE Ont!Update
  BY <1>27, <1>q, OntRequestTypes DEF Ont!Update
<1>28. CASE Ont!VerifyRemoved
  BY <1>28, <1>q DEF Ont!VerifyRemoved
<1>29. CASE Ont!SecondDelete
  BY <1>29, <1>q, OntRequestTypes DEF Ont!SecondDelete
<1>30. CASE Ont!InvalidLook
  BY <1>30, <1>q DEF Ont!InvalidLook
<1>31. CASE Ont!InvalidDrop
  BY <1>31, <1>q, OntRequestTypes DEF Ont!InvalidDrop
<1>32. CASE Ont!InvalidPost
  BY <1>32, <1>q, OntRequestTypes DEF Ont!InvalidPost
<1>33. CASE Ont!StartTeardown
  BY <1>33, <1>q DEF Ont!StartTeardown, Ont!Quiet, Ont!ems
<1>34. CASE Ont!DeleteProfiles
  BY <1>34, <1>q DEF Ont!DeleteProfiles
<1>35. CASE Ont!Ems
  BY <1>35 DEF Ont!Ems, Ont!ems, OntWorld, OntHistory, Ont!Own
<1>36. CASE Ont!OtherClient
  BY <1>36 DEF Ont!OtherClient, OntWorld, OntHistory
<1>37. CASE UNCHANGED Ont!vars
  BY <1>37 DEF Ont!vars, Ont!ems, OntWorld, OntHistory
<1> QED
  BY <1>1, <1>2, <1>3, <1>4, <1>5, <1>6, <1>7, <1>8, <1>9, <1>10, <1>11,
     <1>12, <1>13, <1>14, <1>15, <1>16, <1>17, <1>18, <1>19, <1>20, <1>21,
     <1>22, <1>23, <1>24, <1>25, <1>26, <1>27, <1>28, <1>29, <1>30, <1>31,
     <1>32, <1>33, <1>34, <1>35, <1>36, <1>37 DEF Ont!Next, Ont!Tests

\* Tests are only taken off the list, and others only counted.
LEMMA OntRestKept == OntRest /\ [Ont!Next]_(Ont!vars) => OntRest'
<1> SUFFICES ASSUME OntRest, [Ont!Next]_(Ont!vars) PROVE OntRest'
  OBVIOUS
<1>1. CASE UNCHANGED <<ontTodo, ontKeep, ontOthers>>
  BY <1>1 DEF OntRest
<1>2. CASE Ont!NextTest
  BY <1>2 DEF Ont!NextTest, OntRest
<1>3. CASE Ont!OtherClient
  BY <1>3 DEF Ont!OtherClient, Ont!run, OntRest
<1>4. Ont!Next /\ ~Ont!NextTest /\ ~Ont!OtherClient => UNCHANGED <<ontTodo, ontKeep, ontOthers>>
  BY DEF Ont!Next, Ont!Tests, Ont!PrepFixture, Ont!MakeTemplate, Ont!StartPost, Ont!StartReady,
     Ont!StartMutation, Ont!StartInvalid, Ont!EndInSetup, Ont!PostLook, Ont!PostCall, Ont!PostState,
     Ont!DeleteChecked, Ont!AwaitRemoval, Ont!PrepLook, Ont!PrepCli, Ont!PrepVisible, Ont!PrepDecide,
     Ont!PrepTemplate, Ont!UpsertLook, Ont!UpsertPost, Ont!UpsertPut, Ont!PrepState, Ont!DeleteIfOwn,
     Ont!PrepIs, Ont!PrepInventory, Ont!MutationLook, Ont!Update, Ont!VerifyRemoved, Ont!SecondDelete,
     Ont!InvalidLook, Ont!InvalidDrop, Ont!InvalidPost, Ont!StartTeardown, Ont!DeleteProfiles,
     Ont!Ems, Ont!Local, Ont!fixed, Ont!run
<1> QED
  BY <1>1, <1>2, <1>3, <1>4 DEF Ont!vars, Ont!run

\* The control, the workflow state, the fixtures and the EMS keep their types.
THEOREM OntTypeCorrect == ASSUME Ont!OntAssumption PROVE Ont!Spec => []Ont!TypeOK
<1>1. Ont!Init => OntTInv /\ OntIInv
  BY OntInitTypes, OntInitInv
<1>2. OntTInv /\ OntIInv /\ [Ont!Next]_(Ont!vars) => (OntTInv /\ OntIInv)'
  BY OntPositionKept, OntCountKept, OntFixturesKept, OntWorldKept, OntRestKept, OntNextInv DEF OntTInv,
     OntIInv
<1>3. OntTInv /\ OntIInv => Ont!TypeOK
  BY OntTypes
<1> QED
  BY <1>1, <1>2, <1>3, PTL DEF Ont!Spec


-----------------------------------------------------------------------------
(***************************************************************************)
(* The GE service tests.                                                   *)
(***************************************************************************)
\* PUT, PATCH, DELETE and the clean-up name the id of a service that was the
\* own one: if the port's service is somebody else's by now, it has a later id.
GeLookedUp ==
  /\ geId \in Nat /\ geGen \in Nat /\ geId <= geGen
  /\ gePc \in {"delete", "request", "gone", "verify", "second"} /\ geTest \notin {"post", "invalid"} => geSvc # "foreign" \/ geId # geGen

\* A service of this run uses the template of this run, which the EMS keeps
\* as long; a session that ends while it is up has failed to remove it.
GeAccounted ==
  /\ geSvc = "own" => geTpl = "up"
  /\ gePc = "done" => geTpl # "up" \/ geTorn = "failed"

\* The PATCH test runs once, and what it found stays.
GePatchOnce ==
  /\ geTodo \in Seq(Ge!TestNames)
  /\ \A i, j \in DOMAIN geTodo : geTodo[i] = "patch" /\ geTodo[j] = "patch" => i = j
  /\ geTest = "patch" \/ geWf.patch = "ok" => \A i \in DOMAIN geTodo : geTodo[i] # "patch"
  /\ geTest = "patch" /\ geWf.patch = "ok" => gePc = "next"

\* Only the own service goes back to a PUT; while the monitor watches, a
\* Reprovision it saw is one, and a service that has not been reprovisioned
\* still shows the PUT or, if a POST that was given up has recreated it, that
\* POST for good: what looks cleared was truncated or does not come back.
GeWatching == {"watch", "watch_success", "watch_other"}
GeWatched ==
  /\ geCfg = "put" => geSvc = "own"
  /\ gePc \in GeWatching =>
       /\ geTest = "patch"
       /\ geState = "Reprovision" \/ geEvidence.reprovision => geRedone
       /\ geSvc = "own" /\ ~geRedone => geCfg \in {"put", "post"}
       /\ geEvidence.cleared => geRedone \/ geGarbled \/ geCfg # "put"
  /\ gePc = "cli" => geTest \in {"post", "put", "patch"}
  /\ gePc = "cli" /\ geTest = "patch" => geRedone \/ geGarbled
  /\ geWf.patch = "ok" => geRedone \/ geGarbled

\* What the tests have found and what the monitor has seen are records.
GeOutcomes == {"no", "ok", "failed"}
GeWorkflows == [post : GeOutcomes, cli : GeOutcomes, put : GeOutcomes, patch : GeOutcomes]
GeSights    == [reprovision : BOOLEAN, cleared : BOOLEAN, restored : BOOLEAN]
GeRecorded  == geWf \in GeWorkflows /\ geEvidence \in GeSights

\* The EMS and the device.
GeWorld ==
  /\ geSvc \in {"none", "own", "foreign"} /\ geState \in {"busy", "Success", "Fail", "Reprovision"}
  /\ geCfg \in {"other", "none", "post", "put"} /\ geLate \in BOOLEAN

GeIInv == GeWorld /\ GeLookedUp /\ Ge!ForeignServiceSpared /\ GeAccounted /\ GePatchOnce /\ GeWatched /\ GeRecorded

\* A session starts with no look taken, no template and no service of its own.
LEMMA GeInitInv == ASSUME Ge!GeAssumption PROVE Ge!Init => GeIInv
<1> SUFFICES ASSUME Ge!Init PROVE GeIInv
  OBVIOUS
<1>1. GeLookedUp
  <2>1. geId = 0 /\ geGen = 1 /\ gePc = "next"
    BY DEF Ge!Init
  <2> QED
    BY <2>1 DEF GeLookedUp
<1>4. Ge!ForeignServiceSpared /\ GeAccounted
  BY DEF Ge!Init, Ge!ForeignServiceSpared, GeAccounted
<1>2. GePatchOnce
  BY DEF Ge!Init, GePatchOnce, Ge!GeAssumption
<1>3. GeWorld /\ GeWatched /\ GeRecorded
  BY DEF Ge!Init, GeWorld, GeWatched, GeWatching, GeRecorded, GeWorkflows, GeSights, GeOutcomes, Ge!NoEvidence
<1> QED
  BY <1>1, <1>2, <1>3, <1>4 DEF GeIInv

\* A request names a service of the template it was looked up for, whoever
\* takes the port in between.
LEMMA GeLookedUpKept == GeLookedUp /\ [Ge!Next]_(Ge!vars) => GeLookedUp'
<1> SUFFICES ASSUME GeLookedUp, [Ge!Next]_(Ge!vars) PROVE GeLookedUp'
  OBVIOUS
<1> USE DEF GeLookedUp, Ge!NoService, Ge!Hits, Ge!Go, Ge!Fail, Ge!Finish, Ge!Local, Ge!Quiet, Ge!work, Ge!ems, Ge!history, Ge!run, Ge!vars
<1>1. CASE Ge!NextTest
  BY <1>1 DEF Ge!NextTest
<1>2. CASE Ge!PrepFixture
  BY <1>2 DEF Ge!PrepFixture
<1>3. CASE Ge!MakeTemplate
  BY <1>3 DEF Ge!MakeTemplate
<1>4. CASE Ge!Skip
  BY <1>4 DEF Ge!Skip
<1>5. CASE Ge!Start
  BY <1>5 DEF Ge!Start
<1>6. CASE Ge!Look
  BY <1>6 DEF Ge!Look
<1>7. CASE Ge!Delete
  BY <1>7 DEF Ge!Delete, Ge!DeleteAnswers, Ge!Removed
<1>8. CASE Ge!AwaitRemoval
  BY <1>8 DEF Ge!AwaitRemoval
<1>9. CASE Ge!Create
  BY <1>9 DEF Ge!Create, Ge!PostAnswers, Ge!Created
<1>10. CASE Ge!AwaitCreated
  BY <1>10 DEF Ge!AwaitCreated
<1>11. CASE Ge!AwaitCli
  BY <1>11 DEF Ge!AwaitCli
<1>12. CASE Ge!Put
  BY <1>12 DEF Ge!Put
<1>13. CASE Ge!AwaitUpdated
  BY <1>13 DEF Ge!AwaitUpdated
<1>14. CASE Ge!Patch
  BY <1>14 DEF Ge!Patch
<1>15. CASE Ge!WatchState
  BY <1>15 DEF Ge!WatchState
<1>16. CASE Ge!WatchCli
  BY <1>16 DEF Ge!WatchCli
<1>17. CASE Ge!VerifyRemoved
  BY <1>17 DEF Ge!VerifyRemoved
<1>18. CASE Ge!StartTeardown
  BY <1>18 DEF Ge!StartTeardown
<1>19. CASE Ge!DeleteProfiles
  BY <1>19 DEF Ge!DeleteProfiles
<1>20. CASE Ge!Ems
  BY <1>20 DEF Ge!Ems, Ge!Created
<1>21. CASE Ge!OtherClient
  BY <1>21 DEF Ge!OtherClient, Ge!Creates
<1>22. CASE UNCHANGED Ge!vars
  BY <1>22 DEF Ge!vars
<1>23. CASE Ge!SecondDelete
  BY <1>23 DEF Ge!SecondDelete, Ge!DeleteAnswers, Ge!Removed
<1>24. CASE Ge!StillRemoved
  BY <1>24 DEF Ge!StillRemoved
<1> QED
  BY <1>1, <1>2, <1>3, <1>4, <1>5, <1>6, <1>7, <1>8, <1>9, <1>10, <1>11, <1>12, <1>13, <1>14, <1>15,
     <1>16, <1>17, <1>18, <1>19, <1>20, <1>21, <1>22, <1>23, <1>24 DEF Ge!Next, Ge!Tests

\* No service of somebody else is hit but by the tests that mean to.
LEMMA GeSparedKept == GeLookedUp /\ Ge!ForeignServiceSpared /\ [Ge!Next]_(Ge!vars) => Ge!ForeignServiceSpared'
<1> SUFFICES ASSUME GeLookedUp, Ge!ForeignServiceSpared, [Ge!Next]_(Ge!vars) PROVE Ge!ForeignServiceSpared'
  OBVIOUS
<1> USE DEF GeLookedUp, Ge!ForeignServiceSpared, Ge!NoService, Ge!Hits, Ge!Harm, Ge!Go, Ge!Fail, Ge!Finish, Ge!Local, Ge!Quiet,
            Ge!work, Ge!ems, Ge!history, Ge!run, Ge!vars
<1>1. CASE Ge!NextTest
  BY <1>1 DEF Ge!NextTest
<1>2. CASE Ge!PrepFixture
  BY <1>2 DEF Ge!PrepFixture
<1>3. CASE Ge!MakeTemplate
  BY <1>3 DEF Ge!MakeTemplate
<1>4. CASE Ge!Skip
  BY <1>4 DEF Ge!Skip
<1>5. CASE Ge!Start
  BY <1>5 DEF Ge!Start
<1>6. CASE Ge!Look
  BY <1>6 DEF Ge!Look
<1>7. CASE Ge!Delete
  BY <1>7 DEF Ge!Delete, Ge!DeleteAnswers, Ge!Removed
<1>8. CASE Ge!AwaitRemoval
  BY <1>8 DEF Ge!AwaitRemoval
<1>9. CASE Ge!Create
  BY <1>9 DEF Ge!Create, Ge!PostAnswers, Ge!Created
<1>10. CASE Ge!AwaitCreated
  BY <1>10 DEF Ge!AwaitCreated
<1>11. CASE Ge!AwaitCli
  BY <1>11 DEF Ge!AwaitCli
<1>12. CASE Ge!Put
  BY <1>12 DEF Ge!Put
<1>13. CASE Ge!AwaitUpdated
  BY <1>13 DEF Ge!AwaitUpdated
<1>14. CASE Ge!Patch
  BY <1>14 DEF Ge!Patch
<1>15. CASE Ge!WatchState
  BY <1>15 DEF Ge!WatchState
<1>16. CASE Ge!WatchCli
  BY <1>16 DEF Ge!WatchCli
<1>17. CASE Ge!VerifyRemoved
  BY <1>17 DEF Ge!VerifyRemoved
<1>18. CASE Ge!StartTeardown
  BY <1>18 DEF Ge!StartTeardown
<1>19. CASE Ge!DeleteProfiles
  BY <1>19 DEF Ge!DeleteProfiles
<1>20. CASE Ge!Ems
  BY <1>20 DEF Ge!Ems, Ge!Created
<1>21. CASE Ge!OtherClient
  BY <1>21 DEF Ge!OtherClient, Ge!Creates
<1>22. CASE UNCHANGED Ge!vars
  BY <1>22 DEF Ge!vars
<1>23. CASE Ge!SecondDelete
  BY <1>23 DEF Ge!SecondDelete, Ge!DeleteAnswers, Ge!Removed
<1>24. CASE Ge!StillRemoved
  BY <1>24 DEF Ge!StillRemoved
<1> QED
  BY <1>1, <1>2, <1>3, <1>4, <1>5, <1>6, <1>7, <1>8, <1>9, <1>10, <1>11, <1>12, <1>13, <1>14, <1>15,
     <1>16, <1>17, <1>18, <1>19, <1>20, <1>21, <1>22, <1>23, <1>24 DEF Ge!Next, Ge!Tests

\* The own service keeps its template, and a template that stays is reported.
LEMMA GeAccountedKept == GeAccounted /\ [Ge!Next]_(Ge!vars) => GeAccounted'
<1> SUFFICES ASSUME GeAccounted, [Ge!Next]_(Ge!vars) PROVE GeAccounted'
  OBVIOUS
<1> USE DEF GeAccounted, Ge!NoService, Ge!Go, Ge!Fail, Ge!Finish, Ge!Local, Ge!Quiet, Ge!work, Ge!ems, Ge!history, Ge!run, Ge!vars
<1>1. CASE Ge!NextTest
  BY <1>1 DEF Ge!NextTest
<1>2. CASE Ge!PrepFixture
  BY <1>2 DEF Ge!PrepFixture
<1>3. CASE Ge!MakeTemplate
  BY <1>3 DEF Ge!MakeTemplate
<1>4. CASE Ge!Skip
  BY <1>4 DEF Ge!Skip
<1>5. CASE Ge!Start
  BY <1>5 DEF Ge!Start
<1>6. CASE Ge!Look
  BY <1>6 DEF Ge!Look
<1>7. CASE Ge!Delete
  BY <1>7 DEF Ge!Delete, Ge!DeleteAnswers, Ge!Removed
<1>8. CASE Ge!AwaitRemoval
  BY <1>8 DEF Ge!AwaitRemoval
<1>9. CASE Ge!Create
  BY <1>9 DEF Ge!Create, Ge!PostAnswers, Ge!Created
<1>10. CASE Ge!AwaitCreated
  BY <1>10 DEF Ge!AwaitCreated
<1>11. CASE Ge!AwaitCli
  BY <1>11 DEF Ge!AwaitCli
<1>12. CASE Ge!Put
  BY <1>12 DEF Ge!Put
<1>13. CASE Ge!AwaitUpdated
  BY <1>13 DEF Ge!AwaitUpdated
<1>14. CASE Ge!Patch
  BY <1>14 DEF Ge!Patch
<1>15. CASE Ge!WatchState
  BY <1>15 DEF Ge!WatchState
<1>16. CASE Ge!WatchCli
  BY <1>16 DEF Ge!WatchCli
<1>17. CASE Ge!VerifyRemoved
  BY <1>17 DEF Ge!VerifyRemoved
<1>18. CASE Ge!StartTeardown
  BY <1>18 DEF Ge!StartTeardown
<1>19. CASE Ge!DeleteProfiles
  BY <1>19 DEF Ge!DeleteProfiles
<1>20. CASE Ge!Ems
  BY <1>20 DEF Ge!Ems, Ge!Created
<1>21. CASE Ge!OtherClient
  BY <1>21 DEF Ge!OtherClient, Ge!Creates
<1>22. CASE UNCHANGED Ge!vars
  BY <1>22 DEF Ge!vars
<1>23. CASE Ge!SecondDelete
  BY <1>23 DEF Ge!SecondDelete, Ge!DeleteAnswers, Ge!Removed
<1>24. CASE Ge!StillRemoved
  BY <1>24 DEF Ge!StillRemoved
<1> QED
  BY <1>1, <1>2, <1>3, <1>4, <1>5, <1>6, <1>7, <1>8, <1>9, <1>10, <1>11, <1>12, <1>13, <1>14, <1>15,
     <1>16, <1>17, <1>18, <1>19, <1>20, <1>21, <1>22, <1>23, <1>24 DEF Ge!Next, Ge!Tests

\* What a test that passes records.
LEMMA GePassing ==
  ASSUME GeRecorded
  PROVE  /\ [geWf EXCEPT !.post = "ok"] \in GeWorkflows /\ [geWf EXCEPT !.post = "ok"].patch = geWf.patch
         /\ [geWf EXCEPT !.cli = "ok"] \in GeWorkflows /\ [geWf EXCEPT !.cli = "ok"].patch = geWf.patch
         /\ [geWf EXCEPT !.put = "ok"] \in GeWorkflows /\ [geWf EXCEPT !.put = "ok"].patch = geWf.patch
         /\ [geWf EXCEPT !.patch = "ok"] \in GeWorkflows /\ [geWf EXCEPT !.patch = "ok"].patch = "ok"
         /\ [geWf EXCEPT !.cli = "no", !.put = "no"] \in GeWorkflows
         /\ [geWf EXCEPT !.cli = "no", !.put = "no"].patch = geWf.patch
  BY DEF GeRecorded, GeWorkflows, GeOutcomes

\* A test that fails records no PATCH that passed, and leaves its steps.
LEMMA GeFailing ==
  ASSUME GeRecorded, Ge!Fail
  PROVE  geWf' \in GeWorkflows /\ geWf'.patch \in {geWf.patch, "failed"} /\ gePc' \in {"next", "done"}
<1>1. geWf \in GeWorkflows
  BY DEF GeRecorded
<1>2. /\ "failed" \in GeOutcomes
      /\ gePc' \in {"next", "done"}
  BY DEF GeOutcomes, Ge!Fail
<1>3. geWf' \in {geWf, [geWf EXCEPT !.post = "failed"], [geWf EXCEPT !.cli = "failed"], [geWf EXCEPT !.put = "failed"],
                 [geWf EXCEPT !.patch = "failed"]}
  BY DEF Ge!Fail
<1>4. \A x \in {[geWf EXCEPT !.post = "failed"], [geWf EXCEPT !.cli = "failed"], [geWf EXCEPT !.put = "failed"],
               [geWf EXCEPT !.patch = "failed"]} : x \in GeWorkflows /\ x.patch \in {geWf.patch, "failed"}
  BY <1>1, <1>2 DEF GeWorkflows
<1> QED
  BY <1>1, <1>2, <1>3, <1>4

\* The workflow keeps records.
LEMMA GeRecordedKept == GeRecorded /\ [Ge!Next]_(Ge!vars) => GeRecorded'
<1> SUFFICES ASSUME GeRecorded, [Ge!Next]_(Ge!vars) PROVE GeRecorded'
  OBVIOUS
<1> USE DEF GeRecorded, Ge!Go, Ge!Finish, Ge!Local, Ge!Quiet, Ge!work, Ge!ems, Ge!history, Ge!run, Ge!vars
<1>1. CASE Ge!NextTest
  BY <1>1 DEF Ge!NextTest
<1>2. CASE Ge!PrepFixture
  BY <1>2 DEF Ge!PrepFixture
<1>3. CASE Ge!MakeTemplate
  BY <1>3 DEF Ge!MakeTemplate
<1>4. CASE Ge!Skip
  BY <1>4 DEF Ge!Skip
<1>5. CASE Ge!Start
  BY <1>5 DEF Ge!Start, GeWorkflows, GeOutcomes
<1>6. CASE Ge!Look
  BY <1>6, GeFailing DEF Ge!Look
<1>7. CASE Ge!Delete
  BY <1>7, GeFailing DEF Ge!Delete
<1>8. CASE Ge!AwaitRemoval
  BY <1>8, GeFailing DEF Ge!AwaitRemoval
<1>9. CASE Ge!Create
  BY <1>9, GeFailing DEF Ge!Create
<1>10. CASE Ge!AwaitCreated
  <2>1. UNCHANGED geEvidence /\ (geWf' = [geWf EXCEPT !.post = "ok"] \/ Ge!Fail)
    BY <1>10 DEF Ge!AwaitCreated
  <2> QED
    BY <2>1, GeFailing, GePassing
<1>11. CASE Ge!AwaitCli
  <2>1. /\ UNCHANGED geEvidence
        /\ \/ geWf' \in {[geWf EXCEPT !.cli = "ok"], [geWf EXCEPT !.put = "ok"], [geWf EXCEPT !.patch = "ok"]}
           \/ Ge!Fail
    BY <1>11 DEF Ge!AwaitCli
  <2> QED
    BY <2>1, GeFailing, GePassing
<1>12. CASE Ge!Put
  BY <1>12, GeFailing DEF Ge!Put
<1>13. CASE Ge!AwaitUpdated
  BY <1>13, GeFailing DEF Ge!AwaitUpdated
<1>14. CASE Ge!Patch
  <2>1. (UNCHANGED geWf \/ Ge!Fail) /\ geEvidence' \in {geEvidence, Ge!NoEvidence}
    BY <1>14 DEF Ge!Patch
  <2>2. Ge!NoEvidence \in GeSights
    BY DEF Ge!NoEvidence, GeSights
  <2> QED
    BY <2>1, <2>2, GeFailing
<1>15. CASE Ge!WatchState
  <2>1. /\ geWf' = geWf \/ Ge!Fail
        /\ \/ geEvidence' = [geEvidence EXCEPT !.reprovision = geEvidence.reprovision \/ geState = "Reprovision"]
           \/ UNCHANGED geEvidence
    BY <1>15 DEF Ge!WatchState
  <2>2. geEvidence' \in GeSights
    BY <2>1 DEF GeSights
  <2> QED
    BY <2>1, <2>2, GeFailing
<1>16. CASE Ge!WatchCli
  <2>1. /\ geWf' = geWf \/ Ge!Fail
        /\ \E reading \in {geCfg, "truncated"} :
             geEvidence' = [geEvidence EXCEPT !.cleared = Ge!Cleared(reading), !.restored = Ge!Restored(reading)]
    BY <1>16 DEF Ge!WatchCli
  <2>2. \A reading : Ge!Cleared(reading) \in BOOLEAN /\ Ge!Restored(reading) \in BOOLEAN
    BY DEF Ge!Cleared, Ge!Restored, GeSights
  <2>3. geEvidence' \in GeSights
    BY <2>1, <2>2 DEF GeSights
  <2> QED
    BY <2>1, <2>3, GeFailing
<1>17. CASE Ge!VerifyRemoved
  BY <1>17, GeFailing DEF Ge!VerifyRemoved
<1>18. CASE Ge!StartTeardown
  BY <1>18 DEF Ge!StartTeardown
<1>19. CASE Ge!DeleteProfiles
  BY <1>19, GeFailing DEF Ge!DeleteProfiles
<1>20. CASE Ge!Ems
  BY <1>20 DEF Ge!Ems
<1>21. CASE Ge!OtherClient
  BY <1>21 DEF Ge!OtherClient
<1>22. CASE UNCHANGED Ge!vars
  BY <1>22 DEF Ge!vars
<1>23. CASE Ge!SecondDelete
  BY <1>23, GeFailing DEF Ge!SecondDelete
<1>24. CASE Ge!StillRemoved
  <2>1. UNCHANGED geEvidence /\ (geWf' = [geWf EXCEPT !.cli = "no", !.put = "no"] \/ Ge!Fail)
    BY <1>24 DEF Ge!StillRemoved
  <2> QED
    BY <2>1, GeFailing, GePassing
<1> QED
  BY <1>1, <1>2, <1>3, <1>4, <1>5, <1>6, <1>7, <1>8, <1>9, <1>10, <1>11, <1>12, <1>13, <1>14, <1>15,
     <1>16, <1>17, <1>18, <1>19, <1>20, <1>21, <1>22, <1>23, <1>24 DEF Ge!Next, Ge!Tests

\* No second PATCH test is selected.
LEMMA GePatchOnceKept == GeRecorded /\ GePatchOnce /\ GeWatched /\ [Ge!Next]_(Ge!vars) => GePatchOnce'
<1> SUFFICES ASSUME GeRecorded, GePatchOnce, GeWatched, [Ge!Next]_(Ge!vars) PROVE GePatchOnce'
  OBVIOUS
<1> USE DEF GePatchOnce, GeRecorded, Ge!Go, Ge!Finish, Ge!Local, Ge!Quiet, Ge!work, Ge!ems, Ge!history, Ge!run, Ge!vars
<1>1. CASE Ge!NextTest
  <2>1. /\ geTodo # <<>> /\ geTest' = Head(geTodo) /\ geTodo' = Tail(geTodo) /\ UNCHANGED geWf /\ gePc = "next" /\ gePc' = "start"
    BY <1>1 DEF Ge!NextTest
  <2>2. /\ Tail(geTodo) \in Seq(Ge!TestNames) /\ Len(geTodo) \in Nat /\ Len(geTodo) > 0 /\ Head(geTodo) = geTodo[1]
        /\ DOMAIN geTodo = 1..Len(geTodo) /\ DOMAIN Tail(geTodo) = 1..(Len(geTodo) - 1)
        /\ \A i \in 1..(Len(geTodo) - 1) : Tail(geTodo)[i] = geTodo[i + 1]
    BY <2>1, HeadTailProperties, LenProperties, EmptySeq
  <2>3. \A i \in DOMAIN geTodo' : i + 1 \in DOMAIN geTodo /\ geTodo'[i] = geTodo[i + 1] /\ i + 1 # 1
    BY <2>1, <2>2
  <2>4. \A i, j \in DOMAIN geTodo' : geTodo'[i] = "patch" /\ geTodo'[j] = "patch" => i = j
    <3> SUFFICES ASSUME NEW i \in DOMAIN geTodo', NEW j \in DOMAIN geTodo', geTodo'[i] = "patch", geTodo'[j] = "patch"
                 PROVE  i = j
      OBVIOUS
    <3>1. i + 1 = j + 1
      BY <2>3
    <3>2. i \in Nat /\ j \in Nat
      BY <2>1, <2>2
    <3> QED
      BY <3>1, <3>2
  <2>5. geTest' = "patch" => \A i \in DOMAIN geTodo' : geTodo'[i] # "patch"
    <3> SUFFICES ASSUME geTodo[1] = "patch", NEW i \in DOMAIN geTodo', geTodo'[i] = "patch" PROVE FALSE
      BY <2>1, <2>2
    <3>1. 1 \in DOMAIN geTodo
      BY <2>2
    <3> QED
      BY <2>3, <3>1
  <2>6. geWf.patch = "ok" => geTest' # "patch" /\ \A i \in DOMAIN geTodo' : geTodo'[i] # "patch"
    <3>1. 1 \in DOMAIN geTodo
      BY <2>2
    <3> QED
      BY <2>1, <2>2, <2>3, <3>1
  <2> QED
    BY <2>1, <2>2, <2>4, <2>5, <2>6
<1>2. CASE Ge!PrepFixture
  BY <1>2 DEF Ge!PrepFixture
<1>3. CASE Ge!MakeTemplate
  BY <1>3 DEF Ge!MakeTemplate
<1>4. CASE Ge!Skip
  BY <1>4 DEF Ge!Skip
<1>5. CASE Ge!Start
  BY <1>5 DEF Ge!Start, GeWorkflows, GeOutcomes
<1>6. CASE Ge!Look
  BY <1>6, GeFailing DEF Ge!Look
<1>7. CASE Ge!Delete
  BY <1>7, GeFailing DEF Ge!Delete
<1>8. CASE Ge!AwaitRemoval
  BY <1>8, GeFailing DEF Ge!AwaitRemoval
<1>9. CASE Ge!Create
  BY <1>9, GeFailing DEF Ge!Create
<1>10. CASE Ge!AwaitCreated
  <2>1. UNCHANGED <<geTodo, geTest>> /\ geTest = "post" /\ (geWf' = [geWf EXCEPT !.post = "ok"] \/ Ge!Fail)
    BY <1>10 DEF Ge!AwaitCreated
  <2> QED
    BY <2>1, GeFailing, GePassing
<1>11. CASE Ge!AwaitCli
  <2>1. /\ UNCHANGED <<geTodo, geTest>> /\ gePc = "cli"
        /\ \/ geWf' \in {[geWf EXCEPT !.cli = "ok"], [geWf EXCEPT !.put = "ok"]} /\ geTest # "patch"
           \/ geWf' = [geWf EXCEPT !.patch = "ok"] /\ gePc' = "next" /\ geTest = "patch"
           \/ Ge!Fail
    <3>1. /\ UNCHANGED <<geTodo, geTest>> /\ gePc = "cli"
          /\ Ge!Fail \/ Ge!Finish(CASE geTest = "post" -> [geWf EXCEPT !.cli = "ok"] [] geTest = "put" -> [geWf EXCEPT !.put = "ok"]
                                    [] OTHER -> [geWf EXCEPT !.patch = "ok"])
      BY <1>11 DEF Ge!AwaitCli, Ge!Local
    <3>2. geTest \in {"post", "put", "patch"}
      BY <3>1 DEF GeWatched
    <3> QED
      BY <3>1, <3>2
  <2> QED
    BY <2>1, GeFailing, GePassing
<1>12. CASE Ge!Put
  BY <1>12, GeFailing DEF Ge!Put
<1>13. CASE Ge!AwaitUpdated
  BY <1>13, GeFailing DEF Ge!AwaitUpdated
<1>14. CASE Ge!Patch
  BY <1>14, GeFailing DEF Ge!Patch
<1>15. CASE Ge!WatchState
  BY <1>15, GeFailing DEF Ge!WatchState
<1>16. CASE Ge!WatchCli
  BY <1>16, GeFailing DEF Ge!WatchCli
<1>17. CASE Ge!VerifyRemoved
  BY <1>17, GeFailing DEF Ge!VerifyRemoved
<1>18. CASE Ge!StartTeardown
  BY <1>18 DEF Ge!StartTeardown
<1>19. CASE Ge!DeleteProfiles
  BY <1>19, GeFailing DEF Ge!DeleteProfiles
<1>20. CASE Ge!Ems
  BY <1>20 DEF Ge!Ems
<1>21. CASE Ge!OtherClient
  BY <1>21 DEF Ge!OtherClient
<1>22. CASE UNCHANGED Ge!vars
  BY <1>22 DEF Ge!vars
<1>23. CASE Ge!SecondDelete
  BY <1>23, GeFailing DEF Ge!SecondDelete
<1>24. CASE Ge!StillRemoved
  <2>1. /\ UNCHANGED <<geTodo, geTest>> /\ gePc = "still"
        /\ (geWf' = [geWf EXCEPT !.cli = "no", !.put = "no"] /\ gePc' = "next") \/ Ge!Fail
    BY <1>24 DEF Ge!StillRemoved
  <2> QED
    BY <2>1, GeFailing, GePassing
<1> QED
  BY <1>1, <1>2, <1>3, <1>4, <1>5, <1>6, <1>7, <1>8, <1>9, <1>10, <1>11, <1>12, <1>13, <1>14, <1>15,
     <1>16, <1>17, <1>18, <1>19, <1>20, <1>21, <1>22, <1>23, <1>24 DEF Ge!Next, Ge!Tests

\* The EMS knows the own and other templates.
LEMMA GeWorldKept == GeWorld /\ [Ge!Next]_(Ge!vars) => GeWorld'
<1> SUFFICES ASSUME GeWorld, [Ge!Next]_(Ge!vars) PROVE GeWorld'
  OBVIOUS
<1> USE DEF GeWorld, Ge!Go, Ge!Fail, Ge!Finish, Ge!Local, Ge!Quiet, Ge!work, Ge!ems, Ge!history, Ge!run, Ge!vars
<1>1. CASE Ge!NextTest
  BY <1>1 DEF Ge!NextTest
<1>2. CASE Ge!PrepFixture
  BY <1>2 DEF Ge!PrepFixture
<1>3. CASE Ge!MakeTemplate
  BY <1>3 DEF Ge!MakeTemplate
<1>4. CASE Ge!Skip
  BY <1>4 DEF Ge!Skip
<1>5. CASE Ge!Start
  BY <1>5 DEF Ge!Start
<1>6. CASE Ge!Look
  BY <1>6 DEF Ge!Look
<1>7. CASE Ge!Delete
  BY <1>7 DEF Ge!Delete, Ge!DeleteAnswers, Ge!Removed
<1>8. CASE Ge!AwaitRemoval
  BY <1>8 DEF Ge!AwaitRemoval
<1>9. CASE Ge!Create
  BY <1>9 DEF Ge!Create, Ge!PostAnswers, Ge!Created
<1>10. CASE Ge!AwaitCreated
  BY <1>10 DEF Ge!AwaitCreated
<1>11. CASE Ge!AwaitCli
  BY <1>11 DEF Ge!AwaitCli
<1>12. CASE Ge!Put
  BY <1>12 DEF Ge!Put
<1>13. CASE Ge!AwaitUpdated
  BY <1>13 DEF Ge!AwaitUpdated
<1>14. CASE Ge!Patch
  BY <1>14 DEF Ge!Patch
<1>15. CASE Ge!WatchState
  BY <1>15 DEF Ge!WatchState
<1>16. CASE Ge!WatchCli
  BY <1>16 DEF Ge!WatchCli
<1>17. CASE Ge!VerifyRemoved
  BY <1>17 DEF Ge!VerifyRemoved
<1>18. CASE Ge!StartTeardown
  BY <1>18 DEF Ge!StartTeardown
<1>19. CASE Ge!DeleteProfiles
  BY <1>19 DEF Ge!DeleteProfiles
<1>20. CASE Ge!Ems
  BY <1>20 DEF Ge!Ems, Ge!Created
<1>21. CASE Ge!OtherClient
  BY <1>21 DEF Ge!OtherClient, Ge!Creates
<1>22. CASE UNCHANGED Ge!vars
  BY <1>22 DEF Ge!vars
<1>23. CASE Ge!SecondDelete
  BY <1>23 DEF Ge!SecondDelete, Ge!DeleteAnswers, Ge!Removed
<1>24. CASE Ge!StillRemoved
  BY <1>24 DEF Ge!StillRemoved
<1> QED
  BY <1>1, <1>2, <1>3, <1>4, <1>5, <1>6, <1>7, <1>8, <1>9, <1>10, <1>11, <1>12, <1>13, <1>14, <1>15,
     <1>16, <1>17, <1>18, <1>19, <1>20, <1>21, <1>22, <1>23, <1>24 DEF Ge!Next, Ge!Tests

\* The monitor and what it has seen belong to a reprovisioning, whoever takes
\* the port in between.
LEMMA GeWatchedKept == GeWorld /\ GeLookedUp /\ GePatchOnce /\ GeRecorded /\ GeWatched /\ [Ge!Next]_(Ge!vars) => GeWatched'
<1> SUFFICES ASSUME GeWorld, GeLookedUp, GePatchOnce, GeRecorded, GeWatched, [Ge!Next]_(Ge!vars) PROVE GeWatched'
  OBVIOUS
<1> USE DEF GeRecorded, Ge!Go, Ge!Finish, Ge!Local, Ge!Quiet, Ge!work, Ge!ems, Ge!history, Ge!run, Ge!vars
<1>1. CASE Ge!NextTest
  BY <1>1 DEF Ge!NextTest, GeWatched, GeWatching
<1>2. CASE Ge!PrepFixture
  BY <1>2 DEF Ge!PrepFixture, GeWatched, GeWatching
<1>3. CASE Ge!MakeTemplate
  BY <1>3 DEF Ge!MakeTemplate, GeWatched, GeWatching
<1>4. CASE Ge!Skip
  BY <1>4 DEF Ge!Skip, GeWatched, GeWatching
<1>5. CASE Ge!Start
  <2>1. /\ UNCHANGED <<geTest, geCfg, geSvc, geRedone, geGarbled>> /\ gePc' = "look"
        /\ geWf' = geWf \/ geWf'.patch = "no"
    BY <1>5 DEF Ge!Start
  <2> QED
    BY <2>1 DEF GeWatched, GeWatching
<1>6. CASE Ge!Look
  BY <1>6, GeFailing DEF Ge!Look, GeWatched, GeWatching
<1>7. CASE Ge!Delete
  <2>1. /\ UNCHANGED <<geTest, geRedone, geGarbled>>
        /\ UNCHANGED <<geSvc, geCfg>> \/ (geSvc' = "none" /\ geCfg' = "none")
    BY <1>7 DEF Ge!Delete, Ge!DeleteAnswers, Ge!Removed
  <2>2. (UNCHANGED geWf /\ gePc' = "gone") \/ Ge!Fail
    BY <1>7 DEF Ge!Delete
  <2> QED
    BY <2>1, <2>2, GeFailing DEF GeWatched, GeWatching
<1>8. CASE Ge!AwaitRemoval
  BY <1>8, GeFailing DEF Ge!AwaitRemoval, GeWatched, GeWatching
<1>9. CASE Ge!Create
  BY <1>9, GeFailing DEF Ge!Create, Ge!PostAnswers, Ge!Created, GeWatched, GeWatching
<1>10. CASE Ge!AwaitCreated
  <2>1. /\ UNCHANGED <<geTest, geCfg, geSvc, geEvidence, geRedone, geGarbled>> /\ gePc = "state"
        /\ (geWf' = [geWf EXCEPT !.post = "ok"] /\ gePc' = "cli" /\ geTest = "post") \/ Ge!Fail
    BY <1>10 DEF Ge!AwaitCreated
  <2> QED
    BY <2>1, GeFailing, GePassing DEF GeWatched, GeWatching
<1>11. CASE Ge!AwaitCli
  <2>1. /\ UNCHANGED <<geTest, geCfg, geSvc, geEvidence, geRedone, geGarbled>> /\ gePc = "cli" /\ geTest \in {"post", "put", "patch"}
        /\ \/ geWf' \in {[geWf EXCEPT !.cli = "ok"], [geWf EXCEPT !.put = "ok"]} /\ gePc' = "next"
           \/ geWf' = [geWf EXCEPT !.patch = "ok"] /\ gePc' = "next" /\ geTest = "patch"
           \/ Ge!Fail
    BY <1>11 DEF Ge!AwaitCli, GeWatched, Ge!Finish
  <2> QED
    BY <2>1, GeFailing, GePassing DEF GeWatched, GeWatching
<1>12. CASE Ge!Put
  <2>1. /\ UNCHANGED <<geTest, geSvc, geRedone, geGarbled>>
        /\ UNCHANGED geCfg \/ (geCfg' = "put" /\ Ge!Hits /\ gePc = "request" /\ geTest = "put")
    BY <1>12 DEF Ge!Put
  <2>2. (UNCHANGED geWf /\ gePc' = "settle") \/ Ge!Fail
    BY <1>12 DEF Ge!Put, Ge!Go, Ge!work
  <2>3. geCfg' = "put" => geSvc' = "own"
    BY <2>1 DEF GeLookedUp, Ge!Hits, Ge!NoService, GeWatched, GeWorld
  <2> QED
    BY <2>1, <2>2, <2>3, GeFailing DEF GeWatched, GeWatching
<1>13. CASE Ge!AwaitUpdated
  BY <1>13, GeFailing DEF Ge!AwaitUpdated, GeWatched, GeWatching
<1>14. CASE Ge!Patch
  <2>1. gePc = "request" /\ geTest = "patch" /\ UNCHANGED <<geTest, geSvc, geCfg>>
    BY <1>14 DEF Ge!Patch
  <2>2. CASE /\ geCfg = "put" /\ geState' \in {"Reprovision", geState} /\ geRedone' = (geState' = "Reprovision")
             /\ geGarbled' = FALSE /\ geEvidence' = Ge!NoEvidence /\ (Ge!Go("watch") \/ Ge!Fail)
    <3>1. geWf.patch # "ok"
      BY <2>1 DEF GePatchOnce
    <3>2. geWf'.patch # "ok" /\ gePc' \in {"watch", "next", "done"}
      BY <2>2, <3>1, GeFailing DEF Ge!Go, Ge!work
    <3> QED
      BY <2>1, <2>2, <3>2 DEF GeWatched, GeWatching, Ge!NoEvidence
  <2>3. CASE Ge!Fail /\ Ge!Quiet /\ UNCHANGED geEvidence
    BY <2>1, <2>3, GeFailing DEF GeWatched, GeWatching
  <2> QED
    BY <1>14, <2>2, <2>3 DEF Ge!Patch
<1>15. CASE Ge!WatchState
  <2>1. /\ gePc = "watch" /\ gePc \in GeWatching /\ UNCHANGED <<geTest, geSvc, geCfg, geState, geRedone, geGarbled>>
        /\ \/ UNCHANGED geWf /\ gePc' \in {"watch_success", "watch_other"}
           \/ Ge!Fail
        /\ \/ geEvidence' = [geEvidence EXCEPT !.reprovision = geEvidence.reprovision \/ geState = "Reprovision"]
           \/ UNCHANGED geEvidence
    BY <1>15 DEF Ge!WatchState, GeWatching
  <2>2. /\ geEvidence'.cleared = geEvidence.cleared
        /\ geEvidence'.reprovision => geEvidence.reprovision \/ geState = "Reprovision"
    BY <2>1 DEF GeSights
  <2> QED
    BY <2>1, <2>2, GeFailing DEF GeWatched, GeWatching
<1>16. CASE Ge!WatchCli
  <2>1. PICK reading \in {geCfg, "truncated"} :
          LET now == [geEvidence EXCEPT !.cleared = Ge!Cleared(reading), !.restored = Ge!Restored(reading)]
          IN /\ geEvidence' = now /\ geGarbled' = (geGarbled \/ reading = "truncated")
             /\ IF gePc = "watch_success" /\ Ge!Complete(now) /\ reading = "put" THEN Ge!Go("cli") \/ Ge!Fail
                ELSE (geN > 1 /\ Ge!Go("watch")) \/ Ge!Fail
    BY <1>16 DEF Ge!WatchCli
  <2>2. /\ gePc \in GeWatching /\ geTest = "patch" /\ UNCHANGED <<geTest, geSvc, geCfg, geState, geRedone>>
    BY <1>16 DEF Ge!WatchCli, GeWatched, GeWatching
  <2>3. /\ geEvidence'.reprovision = geEvidence.reprovision
        /\ geEvidence'.cleared => geEvidence.cleared \/ reading # "put"
        /\ Ge!Complete(geEvidence') => geEvidence'.reprovision \/ geEvidence'.cleared
    BY <2>1 DEF GeSights, Ge!Cleared, Ge!Complete
  <2>4. reading # "put" => geGarbled' \/ geCfg # "put"
    BY <2>1
  <2>5. geGarbled => geGarbled'
    BY <2>1
  <2>6. geEvidence'.cleared => geRedone \/ geGarbled' \/ geCfg # "put"
    BY <2>2, <2>3, <2>4, <2>5 DEF GeWatched
  <2>7. geEvidence'.reprovision => geRedone
    BY <2>2, <2>3 DEF GeWatched
  <2>8. gePc' = "cli" => geRedone \/ geGarbled'
    <3>1. gePc' = "cli" => Ge!Complete(geEvidence') /\ reading = "put"
      BY <2>1, GeFailing DEF Ge!Go
    <3>2. reading = "put" => geCfg = "put" /\ geSvc = "own"
      BY <2>1 DEF GeWatched
    <3> QED
      BY <2>3, <2>6, <2>7, <3>1, <3>2
  <2>9. geWf'.patch = "ok" => geRedone \/ geGarbled'
    BY <2>1, <2>5, GeFailing DEF Ge!Go, Ge!work, GeWatched
  <2>10. geState = "Reprovision" => geRedone
    BY <2>2 DEF GeWatched
  <2>11. geSvc = "own" /\ ~geRedone => geCfg \in {"put", "post"}
    BY <2>2 DEF GeWatched
  <2>12. geCfg = "put" => geSvc = "own"
    BY DEF GeWatched
  <2> QED
    BY <2>2, <2>6, <2>7, <2>8, <2>9, <2>10, <2>11, <2>12 DEF GeWatched
<1>17. CASE Ge!VerifyRemoved
  BY <1>17, GeFailing DEF Ge!VerifyRemoved, GeWatched, GeWatching
<1>18. CASE Ge!StartTeardown
  BY <1>18 DEF Ge!StartTeardown, GeWatched, GeWatching
<1>19. CASE Ge!DeleteProfiles
  BY <1>19, GeFailing DEF Ge!DeleteProfiles, GeWatched, GeWatching
<1>20. CASE Ge!Ems
  <2>1. /\ UNCHANGED <<geTest, gePc, geWf, geEvidence, geGarbled>>
        /\ \/ UNCHANGED <<geSvc, geCfg, geRedone>> /\ (geState' # "Reprovision")
           \/ UNCHANGED geSvc /\ geCfg' = "none" /\ geRedone' = TRUE /\ UNCHANGED geState
           \/ UNCHANGED geSvc /\ geSvc = "own" /\ geCfg = "none" /\ geCfg' = "put" /\ UNCHANGED <<geState, geRedone>>
           \/ geSvc' = "own" /\ geCfg' = "post" /\ geState' = "busy" /\ UNCHANGED geRedone
    BY <1>20 DEF Ge!Ems, Ge!Created
  <2> QED
    BY <2>1 DEF GeWatched
<1>21. CASE Ge!OtherClient
  BY <1>21 DEF Ge!OtherClient, Ge!Creates, GeWatched, GeWatching
<1>22. CASE UNCHANGED Ge!vars
  BY <1>22 DEF Ge!vars, GeWatched
<1>23. CASE Ge!SecondDelete
  <2>1. /\ UNCHANGED <<geTest, geRedone, geGarbled>>
        /\ UNCHANGED <<geSvc, geCfg>> \/ (geSvc' = "none" /\ geCfg' = "none")
    BY <1>23 DEF Ge!SecondDelete, Ge!DeleteAnswers, Ge!Removed
  <2>2. (UNCHANGED geWf /\ gePc' = "still") \/ Ge!Fail
    BY <1>23 DEF Ge!SecondDelete
  <2> QED
    BY <2>1, <2>2, GeFailing DEF GeWatched, GeWatching
<1>24. CASE Ge!StillRemoved
  <2>1. /\ UNCHANGED <<geTest, geCfg, geSvc, geEvidence, geRedone, geGarbled>> /\ gePc = "still"
        /\ (geWf' = [geWf EXCEPT !.cli = "no", !.put = "no"] /\ gePc' = "next") \/ Ge!Fail
    BY <1>24 DEF Ge!StillRemoved
  <2> QED
    BY <2>1, GeFailing, GePassing DEF GeWatched, GeWatching
<1> QED
  BY <1>1, <1>2, <1>3, <1>4, <1>5, <1>6, <1>7, <1>8, <1>9, <1>10, <1>11, <1>12, <1>13, <1>14, <1>15,
     <1>16, <1>17, <1>18, <1>19, <1>20, <1>21, <1>22, <1>23, <1>24 DEF Ge!Next, Ge!Tests

\* Every step of the tests, of the EMS and of the others keeps the invariant.
LEMMA GeNextInv == GeIInv /\ [Ge!Next]_(Ge!vars) => GeIInv'
  BY GeLookedUpKept, GeSparedKept, GeAccountedKept, GeRecordedKept, GePatchOnceKept, GeWorldKept,
     GeWatchedKept DEF GeIInv

\* Every reachable state of a session satisfies it.
LEMMA GeInvariance == ASSUME Ge!GeAssumption PROVE Ge!Spec => []GeIInv
  BY GeInitInv, GeNextInv, PTL DEF Ge!Spec

\* PUT, PATCH, DELETE and the clean-up reach no service of somebody else, not
\* even one that took the port after their look.
THEOREM GeForeignSpared == ASSUME Ge!GeAssumption PROVE Ge!Spec => []Ge!ForeignServiceSpared
  BY GeInvariance, PTL DEF GeIInv

\* A PATCH that passed has reprovisioned the service, or read truncated output.
THEOREM GePatchReal == ASSUME Ge!GeAssumption PROVE Ge!Spec => []Ge!PatchEvidenceIsReal
<1>1. GeIInv => Ge!PatchEvidenceIsReal
  BY DEF GeIInv, GeWatched, Ge!PatchEvidenceIsReal
<1> QED
  BY <1>1, GeInvariance, PTL

\* A service of the run that a session leaves on the port is reported.
THEOREM GeLeftReported == ASSUME Ge!GeAssumption PROVE Ge!Spec => []Ge!LeftServiceIsReported
<1>1. GeIInv => Ge!LeftServiceIsReported
  BY DEF GeIInv, GeAccounted, Ge!LeftServiceIsReported, Ge!Done
<1> QED
  BY <1>1, GeInvariance, PTL

(***************************************************************************)
(* Types, part by part.                                                    *)
(***************************************************************************)
GeSteps == {"next", "start", "look", "delete", "gone", "create", "state", "cli", "request", "settle", "watch",
            "watch_success", "watch_other", "verify", "second", "still", "profiles", "done"}
GePosition == geTest \in Ge!TestNames \cup {"", "down"} /\ gePc \in GeSteps /\ (geTest = "" => gePc = "next")

\* The monitor has a round left whenever it watches.
GeCount == geN \in 0..Attempts /\ (gePc \in GeWatching \/ (geTest = "patch" /\ gePc \in {"look", "request"}) => geN > 0)
GeFixtures == geTpl \in {"none", "up", "broken", "gone"} /\ gePrep \in {"none", "ok", "broken"} /\ geTorn \in {"no", "clean", "failed"}
GeHistory == geHarmed \subseteq Ge!TestNames \cup {"down"} /\ geRedone \in BOOLEAN /\ geGarbled \in BOOLEAN
GeBounds == geOthers \in 0..Others

GeTInv == GePosition /\ GeCount /\ GeFixtures /\ GeHistory /\ GeBounds

\* The parts make up the type invariant.
LEMMA GeTypes == GeIInv /\ GeTInv => Ge!TypeOK
<1> SUFFICES ASSUME GeIInv, GeTInv PROVE Ge!TypeOK
  OBVIOUS
<1>1. geId \in 0..geGen /\ geGen \in Nat
  BY DEF GeIInv, GeLookedUp
<1>2. /\ geTodo \in Seq(Ge!TestNames)
      /\ geWf \in [post : Ge!Outcome, cli : Ge!Outcome, put : Ge!Outcome, patch : Ge!Outcome]
      /\ geEvidence \in [reprovision : BOOLEAN, cleared : BOOLEAN, restored : BOOLEAN]
  BY DEF GeIInv, GePatchOnce, GeRecorded, GeWorkflows, GeSights, GeOutcomes, Ge!Outcome
<1> QED
  BY <1>1, <1>2 DEF GeIInv, GeWorld, GeTInv, Ge!TypeOK, GePosition, GeCount, GeFixtures, GeHistory, GeBounds,
     GeSteps

\* The initial states have these types.
LEMMA GeInitTypes == ASSUME Ge!GeAssumption PROVE Ge!Init => GeTInv
<1> SUFFICES ASSUME Ge!Init PROVE GeTInv
  OBVIOUS
<1>1. Attempts \in Nat /\ Others \in Nat
  BY DEF Ge!GeAssumption
<1>2. geN = 0 /\ geOthers = 0 /\ gePc = "next"
  BY DEF Ge!Init
<1>3. GeCount /\ GeBounds
  BY <1>1, <1>2 DEF GeCount, GeBounds, GeWatching
<1>4. GePosition /\ GeFixtures /\ GeHistory
  BY DEF Ge!Init, GePosition, GeSteps, GeFixtures, GeHistory
<1> QED
  BY <1>3, <1>4 DEF GeTInv

\* Every step leaves a run at one of its steps.
LEMMA GePositionKept == GePosition /\ GePatchOnce /\ [Ge!Next]_(Ge!vars) => GePosition'
<1> SUFFICES ASSUME GePosition, GePatchOnce, [Ge!Next]_(Ge!vars) PROVE GePosition'
  OBVIOUS
<1> USE DEF GePosition, GeSteps, Ge!Go, Ge!Fail, Ge!Finish, Ge!Local, Ge!Quiet, Ge!work, Ge!ems, Ge!history, Ge!run, Ge!vars
<1>1. CASE Ge!NextTest
  <2>1. Head(geTodo) \in Ge!TestNames /\ geTest' = Head(geTodo) /\ gePc' = "start"
    BY <1>1, HeadTailProperties DEF Ge!NextTest, GePatchOnce
  <2>2. geTest' # ""
    BY <2>1 DEF Ge!TestNames
  <2> QED
    BY <2>1, <2>2
<1>2. CASE Ge!PrepFixture
  BY <1>2 DEF Ge!PrepFixture
<1>3. CASE Ge!MakeTemplate
  BY <1>3 DEF Ge!MakeTemplate
<1>4. CASE Ge!Skip
  BY <1>4 DEF Ge!Skip
<1>5. CASE Ge!Start
  BY <1>5 DEF Ge!Start
<1>6. CASE Ge!Look
  BY <1>6 DEF Ge!Look
<1>7. CASE Ge!Delete
  BY <1>7 DEF Ge!Delete
<1>8. CASE Ge!AwaitRemoval
  BY <1>8 DEF Ge!AwaitRemoval
<1>9. CASE Ge!Create
  BY <1>9 DEF Ge!Create
<1>10. CASE Ge!AwaitCreated
  BY <1>10 DEF Ge!AwaitCreated
<1>11. CASE Ge!AwaitCli
  BY <1>11 DEF Ge!AwaitCli
<1>12. CASE Ge!Put
  BY <1>12 DEF Ge!Put
<1>13. CASE Ge!AwaitUpdated
  BY <1>13 DEF Ge!AwaitUpdated
<1>14. CASE Ge!Patch
  BY <1>14 DEF Ge!Patch
<1>15. CASE Ge!WatchState
  BY <1>15 DEF Ge!WatchState
<1>16. CASE Ge!WatchCli
  BY <1>16 DEF Ge!WatchCli
<1>17. CASE Ge!VerifyRemoved
  BY <1>17 DEF Ge!VerifyRemoved
<1>18. CASE Ge!StartTeardown
  BY <1>18 DEF Ge!StartTeardown
<1>19. CASE Ge!DeleteProfiles
  BY <1>19 DEF Ge!DeleteProfiles
<1>20. CASE Ge!Ems
  BY <1>20 DEF Ge!Ems
<1>21. CASE Ge!OtherClient
  BY <1>21 DEF Ge!OtherClient
<1>22. CASE UNCHANGED Ge!vars
  BY <1>22 DEF Ge!vars
<1>23. CASE Ge!SecondDelete
  BY <1>23 DEF Ge!SecondDelete
<1>24. CASE Ge!StillRemoved
  BY <1>24 DEF Ge!StillRemoved
<1> QED
  BY <1>1, <1>2, <1>3, <1>4, <1>5, <1>6, <1>7, <1>8, <1>9, <1>10, <1>11, <1>12, <1>13, <1>14, <1>15,
     <1>16, <1>17, <1>18, <1>19, <1>20, <1>21, <1>22, <1>23, <1>24 DEF Ge!Next, Ge!Tests

\* Every wait counts down to its deadline and not beyond.
LEMMA GeCountKept == ASSUME Ge!GeAssumption PROVE GeWatched /\ GeCount /\ [Ge!Next]_(Ge!vars) => GeCount'
<1> SUFFICES ASSUME GeWatched, GeCount, [Ge!Next]_(Ge!vars) PROVE GeCount'
  OBVIOUS
<1>a. Attempts \in Nat
  BY DEF Ge!GeAssumption
<1>e. Ge!Fail \/ (\E changed : Ge!Finish(changed)) => gePc' \in {"next", "done"}
  BY DEF Ge!Fail, Ge!Finish
<1>q. UNCHANGED <<geN, geTest, gePc>> => GeCount'
  BY DEF GeCount
<1>m. UNCHANGED geN /\ gePc' \in {"next", "done", "start", "look", "delete", "gone", "create", "state", "cli", "request", "settle", "verify", "second", "still", "profiles"}
      /\ (gePc' \in {"look", "request"} => UNCHANGED geTest /\ (geTest = "patch" => gePc \in {"look", "request"})) => GeCount'
  BY DEF GeCount, GeWatching
<1>1. CASE Ge!NextTest
  BY <1>1, <1>m DEF Ge!NextTest, Ge!Go
<1>2. CASE Ge!PrepFixture
  BY <1>2, <1>q DEF Ge!PrepFixture
<1>3. CASE Ge!MakeTemplate
  BY <1>3, <1>q DEF Ge!MakeTemplate
<1>4. CASE Ge!Skip
  BY <1>4, <1>m DEF Ge!Skip, Ge!Go
<1>5. CASE Ge!Start
  BY <1>5, <1>a DEF Ge!Start, GeCount, GeWatching
<1>6. CASE Ge!Look
  BY <1>6, <1>e, <1>m DEF Ge!Look, Ge!Go, Ge!Local
<1>7. CASE Ge!Delete
  BY <1>7, <1>e, <1>m DEF Ge!Delete, Ge!Go, Ge!Local
<1>8. CASE Ge!AwaitRemoval
  BY <1>8, <1>e, <1>m DEF Ge!AwaitRemoval, Ge!Go, Ge!Local
<1>9. CASE Ge!Create
  <2>1. gePc = "create" /\ UNCHANGED geTest /\ (gePc' = "look" => geTest # "patch")
        /\ gePc' \in {"next", "done", "state", "look"}
    BY <1>9, <1>e DEF Ge!Create, Ge!Go, Ge!Local
  <2>2. geN' = geN \/ (geN # 0 /\ geN' = geN - 1)
    BY <1>9 DEF Ge!Create, Ge!RoundsLeft
  <2>3. geN \in 0..Attempts => geN' \in 0..Attempts
    BY <2>2, <1>a
  <2> QED
    BY <2>1, <2>3 DEF GeCount, GeWatching
<1>10. CASE Ge!AwaitCreated
  BY <1>10, <1>e, <1>m DEF Ge!AwaitCreated, Ge!Local
<1>11. CASE Ge!AwaitCli
  BY <1>11, <1>e, <1>m DEF Ge!AwaitCli, Ge!Local
<1>12. CASE Ge!Put
  BY <1>12, <1>e, <1>m DEF Ge!Put, Ge!Go, Ge!Local
<1>13. CASE Ge!AwaitUpdated
  BY <1>13, <1>e, <1>m DEF Ge!AwaitUpdated, Ge!Go, Ge!Local
<1>14. CASE Ge!Patch
  BY <1>14, <1>e DEF Ge!Patch, Ge!Go, Ge!Local, GeCount, GeWatching
<1>15. CASE Ge!WatchState
  BY <1>15, <1>e DEF Ge!WatchState, Ge!Go, Ge!Local, GeCount, GeWatching
<1>16. CASE Ge!WatchCli
  <2>1. /\ gePc \in GeWatching /\ UNCHANGED geTest /\ geN' = geN - 1
        /\ gePc' \in {"next", "done", "cli"} \/ (gePc' = "watch" /\ geN > 1)
    BY <1>16, <1>e DEF Ge!WatchCli, Ge!Go, Ge!Local, Ge!RoundsLeft, GeWatching
  <2>2. geN \in 1..Attempts
    BY <2>1, <1>a DEF GeCount
  <2>3. geN' \in 0..Attempts /\ (gePc' = "watch" => geN' > 0)
    BY <2>1, <2>2, <1>a
  <2> QED
    BY <2>1, <2>3 DEF GeCount, GeWatching
<1>17. CASE Ge!VerifyRemoved
  BY <1>17, <1>e, <1>m DEF Ge!VerifyRemoved, Ge!Go, Ge!Local
<1>18. CASE Ge!StartTeardown
  BY <1>18 DEF Ge!StartTeardown, Ge!Go, GeCount, GeWatching
<1>19. CASE Ge!DeleteProfiles
  BY <1>19, <1>e, <1>m DEF Ge!DeleteProfiles, Ge!Local
<1>20. CASE Ge!Ems
  BY <1>20, <1>q DEF Ge!Ems, Ge!run
<1>21. CASE Ge!OtherClient
  BY <1>21, <1>q DEF Ge!OtherClient, Ge!run
<1>22. CASE UNCHANGED Ge!vars
  BY <1>22, <1>q DEF Ge!vars, Ge!run
<1>23. CASE Ge!SecondDelete
  BY <1>23, <1>e, <1>m DEF Ge!SecondDelete, Ge!Go, Ge!Local
<1>24. CASE Ge!StillRemoved
  BY <1>24, <1>e, <1>m DEF Ge!StillRemoved, Ge!Local
<1> QED
  BY <1>1, <1>2, <1>3, <1>4, <1>5, <1>6, <1>7, <1>8, <1>9, <1>10, <1>11, <1>12, <1>13, <1>14, <1>15,
     <1>16, <1>17, <1>18, <1>19, <1>20, <1>21, <1>22, <1>23, <1>24 DEF Ge!Next, Ge!Tests

\* The fixtures keep their types.
LEMMA GeFixturesKept == GeFixtures /\ [Ge!Next]_(Ge!vars) => GeFixtures'
<1> SUFFICES ASSUME GeFixtures, [Ge!Next]_(Ge!vars) PROVE GeFixtures'
  OBVIOUS
<1> USE DEF GeFixtures, Ge!Go, Ge!Fail, Ge!Finish, Ge!Local, Ge!Quiet, Ge!work, Ge!ems, Ge!history, Ge!run, Ge!vars
<1>1. CASE Ge!NextTest
  BY <1>1 DEF Ge!NextTest
<1>2. CASE Ge!PrepFixture
  BY <1>2 DEF Ge!PrepFixture
<1>3. CASE Ge!MakeTemplate
  BY <1>3 DEF Ge!MakeTemplate
<1>4. CASE Ge!Skip
  BY <1>4 DEF Ge!Skip
<1>5. CASE Ge!Start
  BY <1>5 DEF Ge!Start
<1>6. CASE Ge!Look
  BY <1>6 DEF Ge!Look
<1>7. CASE Ge!Delete
  BY <1>7 DEF Ge!Delete
<1>8. CASE Ge!AwaitRemoval
  BY <1>8 DEF Ge!AwaitRemoval
<1>9. CASE Ge!Create
  BY <1>9 DEF Ge!Create
<1>10. CASE Ge!AwaitCreated
  BY <1>10 DEF Ge!AwaitCreated
<1>11. CASE Ge!AwaitCli
  BY <1>11 DEF Ge!AwaitCli
<1>12. CASE Ge!Put
  BY <1>12 DEF Ge!Put
<1>13. CASE Ge!AwaitUpdated
  BY <1>13 DEF Ge!AwaitUpdated
<1>14. CASE Ge!Patch
  BY <1>14 DEF Ge!Patch
<1>15. CASE Ge!WatchState
  BY <1>15 DEF Ge!WatchState
<1>16. CASE Ge!WatchCli
  BY <1>16 DEF Ge!WatchCli
<1>17. CASE Ge!VerifyRemoved
  BY <1>17 DEF Ge!VerifyRemoved
<1>18. CASE Ge!StartTeardown
  BY <1>18 DEF Ge!StartTeardown
<1>19. CASE Ge!DeleteProfiles
  BY <1>19 DEF Ge!DeleteProfiles
<1>20. CASE Ge!Ems
  BY <1>20 DEF Ge!Ems
<1>21. CASE Ge!OtherClient
  BY <1>21 DEF Ge!OtherClient
<1>22. CASE UNCHANGED Ge!vars
  BY <1>22 DEF Ge!vars
<1>23. CASE Ge!SecondDelete
  BY <1>23 DEF Ge!SecondDelete
<1>24. CASE Ge!StillRemoved
  BY <1>24 DEF Ge!StillRemoved
<1> QED
  BY <1>1, <1>2, <1>3, <1>4, <1>5, <1>6, <1>7, <1>8, <1>9, <1>10, <1>11, <1>12, <1>13, <1>14, <1>15,
     <1>16, <1>17, <1>18, <1>19, <1>20, <1>21, <1>22, <1>23, <1>24 DEF Ge!Next, Ge!Tests

\* The history keeps its types.
LEMMA GeHistoryKept == GePosition /\ GeHistory /\ [Ge!Next]_(Ge!vars) => GeHistory'
<1> SUFFICES ASSUME GePosition, GeHistory, [Ge!Next]_(Ge!vars) PROVE GeHistory'
  OBVIOUS
<1> USE DEF GeHistory, Ge!Harm, Ge!Go, Ge!Fail, Ge!Finish, Ge!Local, Ge!Quiet, Ge!work, Ge!ems, Ge!history, Ge!run, Ge!vars
<1>1. CASE Ge!NextTest
  BY <1>1 DEF Ge!NextTest
<1>2. CASE Ge!PrepFixture
  BY <1>2 DEF Ge!PrepFixture
<1>3. CASE Ge!MakeTemplate
  BY <1>3 DEF Ge!MakeTemplate
<1>4. CASE Ge!Skip
  BY <1>4 DEF Ge!Skip
<1>5. CASE Ge!Start
  BY <1>5 DEF Ge!Start
<1>6. CASE Ge!Look
  BY <1>6 DEF Ge!Look
<1>7. CASE Ge!Delete
  <2>1. /\ UNCHANGED <<geRedone, geGarbled>> /\ geHarmed' \in {geHarmed, geHarmed \cup {geTest}} /\ gePc = "delete"
    BY <1>7 DEF Ge!Delete, Ge!DeleteAnswers, Ge!Removed
  <2>2. geTest \in Ge!TestNames \cup {"down"}
    BY <2>1 DEF GePosition
  <2> QED
    BY <2>1, <2>2
<1>8. CASE Ge!AwaitRemoval
  BY <1>8 DEF Ge!AwaitRemoval
<1>9. CASE Ge!Create
  BY <1>9 DEF Ge!Create, Ge!PostAnswers, Ge!Created
<1>10. CASE Ge!AwaitCreated
  BY <1>10 DEF Ge!AwaitCreated
<1>11. CASE Ge!AwaitCli
  BY <1>11 DEF Ge!AwaitCli
<1>12. CASE Ge!Put
  <2>1. UNCHANGED <<geRedone, geGarbled>> /\ geHarmed' \in {geHarmed, geHarmed \cup {"put"}}
    BY <1>12 DEF Ge!Put
  <2>2. "put" \in Ge!TestNames
    BY DEF Ge!TestNames
  <2> QED
    BY <2>1, <2>2
<1>13. CASE Ge!AwaitUpdated
  BY <1>13 DEF Ge!AwaitUpdated
<1>14. CASE Ge!Patch
  <2>1. geRedone' \in BOOLEAN /\ geGarbled' \in BOOLEAN /\ geHarmed' \in {geHarmed, geHarmed \cup {"patch"}}
    BY <1>14 DEF Ge!Patch
  <2>2. "patch" \in Ge!TestNames
    BY DEF Ge!TestNames
  <2> QED
    BY <2>1, <2>2
<1>15. CASE Ge!WatchState
  BY <1>15 DEF Ge!WatchState
<1>16. CASE Ge!WatchCli
  BY <1>16 DEF Ge!WatchCli
<1>17. CASE Ge!VerifyRemoved
  BY <1>17 DEF Ge!VerifyRemoved
<1>18. CASE Ge!StartTeardown
  BY <1>18 DEF Ge!StartTeardown
<1>19. CASE Ge!DeleteProfiles
  BY <1>19 DEF Ge!DeleteProfiles
<1>20. CASE Ge!Ems
  BY <1>20 DEF Ge!Ems
<1>21. CASE Ge!OtherClient
  BY <1>21 DEF Ge!OtherClient
<1>22. CASE UNCHANGED Ge!vars
  BY <1>22 DEF Ge!vars
<1>23. CASE Ge!SecondDelete
  <2>1. /\ UNCHANGED <<geRedone, geGarbled>> /\ geHarmed' \in {geHarmed, geHarmed \cup {geTest}} /\ gePc = "second"
    BY <1>23 DEF Ge!SecondDelete, Ge!DeleteAnswers, Ge!Removed
  <2>2. geTest \in Ge!TestNames \cup {"down"}
    BY <2>1 DEF GePosition
  <2> QED
    BY <2>1, <2>2
<1>24. CASE Ge!StillRemoved
  BY <1>24 DEF Ge!StillRemoved
<1> QED
  BY <1>1, <1>2, <1>3, <1>4, <1>5, <1>6, <1>7, <1>8, <1>9, <1>10, <1>11, <1>12, <1>13, <1>14, <1>15,
     <1>16, <1>17, <1>18, <1>19, <1>20, <1>21, <1>22, <1>23, <1>24 DEF Ge!Next, Ge!Tests

\* Others do no more than they may.
LEMMA GeBoundsKept == ASSUME Ge!GeAssumption PROVE GeBounds /\ [Ge!Next]_(Ge!vars) => GeBounds'
<1> SUFFICES ASSUME GeBounds, [Ge!Next]_(Ge!vars) PROVE GeBounds'
  OBVIOUS
<1>a. Others \in Nat
  BY DEF Ge!GeAssumption
<1>q. UNCHANGED geOthers => GeBounds'
  BY DEF GeBounds
<1> USE DEF Ge!run, Ge!vars
<1>1. CASE Ge!NextTest
  BY <1>1, <1>q DEF Ge!NextTest
<1>2. CASE Ge!PrepFixture
  BY <1>2, <1>q DEF Ge!PrepFixture
<1>3. CASE Ge!MakeTemplate
  BY <1>3, <1>q DEF Ge!MakeTemplate
<1>4. CASE Ge!Skip
  BY <1>4, <1>q DEF Ge!Skip
<1>5. CASE Ge!Start
  BY <1>5, <1>q DEF Ge!Start
<1>6. CASE Ge!Look
  BY <1>6, <1>q DEF Ge!Look
<1>7. CASE Ge!Delete
  BY <1>7, <1>q DEF Ge!Delete
<1>8. CASE Ge!AwaitRemoval
  BY <1>8, <1>q DEF Ge!AwaitRemoval
<1>9. CASE Ge!Create
  BY <1>9, <1>q DEF Ge!Create
<1>10. CASE Ge!AwaitCreated
  BY <1>10, <1>q DEF Ge!AwaitCreated
<1>11. CASE Ge!AwaitCli
  BY <1>11, <1>q DEF Ge!AwaitCli
<1>12. CASE Ge!Put
  BY <1>12, <1>q DEF Ge!Put
<1>13. CASE Ge!AwaitUpdated
  BY <1>13, <1>q DEF Ge!AwaitUpdated
<1>14. CASE Ge!Patch
  BY <1>14, <1>q DEF Ge!Patch
<1>15. CASE Ge!WatchState
  BY <1>15, <1>q DEF Ge!WatchState
<1>16. CASE Ge!WatchCli
  BY <1>16, <1>q DEF Ge!WatchCli
<1>17. CASE Ge!VerifyRemoved
  BY <1>17, <1>q DEF Ge!VerifyRemoved
<1>18. CASE Ge!StartTeardown
  BY <1>18, <1>q DEF Ge!StartTeardown
<1>19. CASE Ge!DeleteProfiles
  BY <1>19, <1>q DEF Ge!DeleteProfiles
<1>20. CASE Ge!Ems
  BY <1>20, <1>q DEF Ge!Ems
<1>21. CASE Ge!OtherClient
  <2>1. geOthers < Others /\ geOthers' = geOthers + 1
    BY <1>21 DEF Ge!OtherClient
  <2> QED
    BY <1>a, <2>1 DEF GeBounds
<1>22. CASE UNCHANGED Ge!vars
  BY <1>22, <1>q DEF Ge!vars
<1>23. CASE Ge!SecondDelete
  BY <1>23, <1>q DEF Ge!SecondDelete
<1>24. CASE Ge!StillRemoved
  BY <1>24, <1>q DEF Ge!StillRemoved
<1> QED
  BY <1>1, <1>2, <1>3, <1>4, <1>5, <1>6, <1>7, <1>8, <1>9, <1>10, <1>11, <1>12, <1>13, <1>14, <1>15,
     <1>16, <1>17, <1>18, <1>19, <1>20, <1>21, <1>22, <1>23, <1>24 DEF Ge!Next, Ge!Tests

\* Every step keeps these types.
LEMMA GeTypesKept == ASSUME Ge!GeAssumption PROVE GeIInv /\ GeTInv /\ [Ge!Next]_(Ge!vars) => GeTInv'
  BY GePositionKept, GeCountKept, GeFixturesKept, GeHistoryKept, GeBoundsKept DEF GeIInv, GeTInv

\* The tests, the monitor, the EMS and the device keep their types.
THEOREM GeTypeCorrect == ASSUME Ge!GeAssumption PROVE Ge!Spec => []Ge!TypeOK
  BY GeInvariance, GeInitInv, GeNextInv, GeInitTypes, GeTypesKept, GeTypes, PTL DEF Ge!Spec


-----------------------------------------------------------------------------
(***************************************************************************)
(* The profile tests and their workspace.                                  *)
(***************************************************************************)
WspOpNames == {"remove", "need", "find", "read", "create", "post", "patch", "restore", "absent", "post_invalid", "residual",
               "patch_invalid", "compare", "sweep", "swept"}
WspOps   == [op : WspOpNames, p : Wsp!Profiles]
WspCases == [op : Wsp!CaseNames, p : Wsp!Profiles]
WspSteps == {"call", "create", "repair", "replace", "gone", "await", "delete", "again", "undo"}

\* What the operations of a case follow: a PATCH is followed by its restore, a
\* residual is looked for right after the invalid POST, an absence is verified
\* right after the removal, and the clean-up goes top-down.
WspShaped(s) ==
  /\ s \in Seq(WspOps)
  /\ \A i \in DOMAIN s : s[i].op = "patch" => i + 1 \in DOMAIN s /\ s[i + 1] = Wsp!Op("restore", s[i].p)
  /\ \A i \in DOMAIN s : s[i].op = "post_invalid" => i + 1 \in DOMAIN s /\ s[i + 1] = Wsp!Op("residual", s[i].p)
  /\ \A i \in DOMAIN s : i + 1 \in DOMAIN s /\ s[i + 1].op = "residual" => s[i] = Wsp!Op("post_invalid", s[i + 1].p)
  /\ \A i \in DOMAIN s : i + 1 \in DOMAIN s /\ s[i + 1].op = "absent" => s[i] = Wsp!Op("remove", s[i + 1].p)
  /\ \A i \in DOMAIN s : s[i].op = "swept" => i = Len(s)
  /\ \A i, j \in DOMAIN s : i < j /\ s[i].op = "sweep" /\ s[j].op = "sweep" => s[i].p \notin Below[s[j].p]

\* A case restores what it has read.
WspBased(s, read) ==
  \A i \in DOMAIN s :
    s[i].op \in {"patch", "restore", "compare"} => read # "none" \/ \E j \in DOMAIN s : j < i /\ s[j].op = "read"

WspForm ==
  /\ WspShaped(wspOps) /\ WspBased(wspOps, wspBase) /\ wspAt \in WspSteps
  /\ wspCases \in Seq(WspCases) /\ wspCase \in [op : Wsp!CaseNames \cup {"start", "end"}, p : Wsp!Profiles]
  /\ wspOps # <<>> /\ wspCase.op # "end" => wspCase.op \in Wsp!CaseNames
  /\ wspAt = "await" => wspOps # <<>> /\ Head(wspOps).op \in {"need", "patch", "restore", "compare"}
  /\ wspTorn # "no" => wspOps = <<>>
  /\ wspCase.op = "end" => \A i \in DOMAIN wspOps : wspOps[i].op \in {"sweep", "swept"}

WspWorld ==
  /\ wspProf \in [Wsp!Profiles -> Wsp!Contents] /\ wspBase \in Wsp!Contents
  /\ wspOurs \subseteq Wsp!Profiles /\ \A p \in wspOurs : Wsp!Has(p)
  /\ wspCreated \subseteq Wsp!Profiles /\ wspPlanned \subseteq Wsp!Profiles /\ wspBorrowed \subseteq Wsp!Profiles
  /\ wspPinned \subseteq Wsp!Profiles /\ wspUnsure \subseteq Wsp!Profiles
  /\ (wspCreated \cup wspBorrowed) \cap wspPlanned = {} /\ wspCreated \cap wspBorrowed = {}

\* A profile the run knows of is its own, unless something has gone wrong with it.
WspKnown(p) == Wsp!Has(p) => p \in wspOurs \cup wspUnsure
WspSpared ==
  /\ \A p \in wspCreated \cup wspPlanned : WspKnown(p)
  /\ \A i \in DOMAIN wspOps : wspOps[i].op = "sweep" => WspKnown(wspOps[i].p)
  /\ wspOps # <<>> /\ Head(wspOps).op = "residual" => WspKnown(Head(wspOps).p)
  /\ Wsp!CleanUpSparesOthers

\* What the run has created is the workspace's to delete, or a case has failed over it.
WspTracked ==
  /\ \A p \in wspOurs : \/ p \in wspCreated \/ (wspFailed /\ p \in wspUnsure)
                        \/ wspFailed /\ wspOps # <<>> /\ Head(wspOps).op = "residual" /\ Head(wspOps).p = p /\ wspAt = "call"
  /\ wspOps # <<>> /\ Head(wspOps).op = "absent" /\ wspAt = "call" /\ Head(wspOps).p \in wspOurs => Head(wspOps).p \in wspUnsure
  /\ wspCase.op = "end" /\ wspOps # <<>> /\ ~wspErrors => \A p \in wspCreated : \E i \in DOMAIN wspOps : wspOps[i] = Wsp!Op("sweep", p)
  /\ wspTorn = "clean" => wspCreated = {}

\* A PATCH that has not failed is undone.
WspUndone ==
  ~wspFailed =>
    /\ wspBase # "changed"
    /\ \A p \in Wsp!Profiles : wspProf[p] = "changed" =>
         /\ wspOps # <<>> /\ Head(wspOps).p = p
         /\ (Head(wspOps).op = "patch" /\ wspAt = "await") \/ (Head(wspOps).op = "restore" /\ wspAt = "call")

WspBounds == wspAttempt \in 0..1 /\ wspOthers \in 0..Others
WspFlags == wspTorn \in {"no", "clean", "failed"} /\ wspErrors \in BOOLEAN /\ wspFailed \in BOOLEAN

\* A set of naturals has a least element.
LEMMA WspLeast == ASSUME NEW T \in SUBSET Nat, T # {} PROVE \E x \in T : \A y \in T : ~(y < x)
<1>1. IsWellFoundedOn({pair \in Nat \X Nat : pair[1] < pair[2]}, Nat)
  BY NatLessThanWellFounded DEF OpToRel
<1>2. \E x \in T : \A y \in T : ~(<<y, x>> \in {pair \in Nat \X Nat : pair[1] < pair[2]})
  BY <1>1, WFMin
<1> QED
  BY <1>2

\* What holds of zero and of a number's successor holds up to a bound.
LEMMA WspUpTo ==
  ASSUME NEW top \in Nat, NEW T, 0 \in T, \A n \in 1..top : n - 1 \in T => n \in T
  PROVE  0..top \subseteq T
<1> DEFINE Beyond == (0..top) \ T
<1>1. SUFFICES ASSUME Beyond # {} PROVE FALSE
  OBVIOUS
<1>2. PICK x \in Beyond : \A y \in Beyond : ~(y < x)
  <2>1. Beyond \in SUBSET Nat
    OBVIOUS
  <2> QED
    BY <1>1, <2>1, WspLeast
<1>3. x \in 1..top
  BY <1>2
<1>4. x - 1 \in 0..top /\ x - 1 < x
  BY <1>3
<1>5. x - 1 \in T
  BY <1>2, <1>4
<1> QED
  BY <1>2, <1>3, <1>5

\* definitions_create_order is well defined: each prefix of the order extends the one before.
WspUpToN(some, f, n) == f = [m \in 0..n |-> IF m = 0 THEN <<>> ELSE IF Order[m] \in some THEN Append(f[m - 1], Order[m]) ELSE f[m - 1]]

LEMMA WspWellDefined == ASSUME NEW some, Len(Order) \in Nat PROVE \E f : WspUpToN(some, f, Len(Order))
<1> DEFINE T == {n \in 0..Len(Order) : \E f : WspUpToN(some, f, n)}
<1>1. 0 \in T
  <2>1. WspUpToN(some, [m \in 0..0 |-> <<>>], 0)
    BY DEF WspUpToN
  <2> QED
    BY <2>1
<1>2. ASSUME NEW n \in 1..Len(Order), n - 1 \in T PROVE n \in T
  <2>1. PICK f : WspUpToN(some, f, n - 1)
    BY <1>2
  <2> DEFINE g == [m \in 0..n |-> IF m = n THEN IF Order[n] \in some THEN Append(f[n - 1], Order[n]) ELSE f[n - 1] ELSE f[m]]
  <2>2. \A m \in 0..n : m # n => m \in 0..(n - 1) /\ (m # 0 => m - 1 \in 0..n /\ m - 1 # n)
    OBVIOUS
  <2>3. n - 1 \in 0..n /\ n - 1 # n /\ n # 0
    OBVIOUS
  <2>4. \A m \in 0..n : g[m] = IF m = 0 THEN <<>> ELSE IF Order[m] \in some THEN Append(g[m - 1], Order[m]) ELSE g[m - 1]
    BY <2>1, <2>2, <2>3 DEF WspUpToN
  <2>5. WspUpToN(some, g, n)
    BY <2>4 DEF WspUpToN
  <2> QED
    BY <2>5
<1>3. 0..Len(Order) \subseteq T
  BY <1>1, <1>2, WspUpTo
<1>4. Len(Order) \in 0..Len(Order)
  OBVIOUS
<1> QED
  BY <1>3, <1>4

LEMMA WspOrders ==
  ASSUME NEW some, Len(Order) \in Nat
  PROVE  \E f : WspUpToN(some, f, Len(Order)) /\ Wsp!CreateOrder(some) = f[Len(Order)]
<1> DEFINE upTo == CHOOSE f : WspUpToN(some, f, Len(Order))
<1>1. WspUpToN(some, upTo, Len(Order))
  BY WspWellDefined
<1>2. Wsp!CreateOrder(some) = upTo[Len(Order)]
  BY DEF Wsp!CreateOrder, WspUpToN
<1> QED
  BY <1>1, <1>2

\* A sequence of some of the catalogue's profiles, all that are asked for, each before what references it.
WspOrdered(s, some) ==
  /\ s \in Seq(some)
  /\ \A p \in some : \E i \in DOMAIN s : s[i] = p
  /\ \A i, j \in DOMAIN s : i < j => s[j] \notin Below[s[i]]

LEMMA WspCreateOrdered ==
  ASSUME Wsp!WorkspaceAssumption, NEW some \in SUBSET Wsp!Profiles
  PROVE  WspOrdered(Wsp!CreateOrder(some), some)
<1>a. /\ Order \in Seq(Wsp!Profiles) /\ Len(Order) \in Nat /\ DOMAIN Order = 1..Len(Order)
      /\ \A i, j \in DOMAIN Order : Order[i] \in Below[Order[j]] => i < j
  BY LenProperties DEF Wsp!WorkspaceAssumption
<1>1. PICK f : WspUpToN(some, f, Len(Order)) /\ Wsp!CreateOrder(some) = f[Len(Order)]
  BY <1>a, WspOrders
<1> DEFINE Good(n) == /\ f[n] \in Seq(some)
                      /\ \A m \in 1..n : Order[m] \in some => \E i \in DOMAIN f[n] : f[n][i] = Order[m]
                      /\ \A i \in DOMAIN f[n] : \E m \in 1..n : f[n][i] = Order[m]
                      /\ \A i, j \in DOMAIN f[n] : i < j => f[n][j] \notin Below[f[n][i]]
           T == {n \in 0..Len(Order) : Good(n)}
<1>2. 0 \in T
  <2>1. f[0] = <<>> /\ 0 \in 0..Len(Order)
    BY <1>a, <1>1 DEF WspUpToN
  <2>2. DOMAIN f[0] = {} /\ f[0] \in Seq(some)
    BY <2>1
  <2>3. 1..0 = {}
    OBVIOUS
  <2>4. Good(0)
    BY <2>2, <2>3
  <2> QED
    BY <2>1, <2>4
<1>3. ASSUME NEW n \in 1..Len(Order), n - 1 \in T PROVE n \in T
  <2>1. n \in 0..Len(Order) /\ n # 0 /\ n \in DOMAIN Order /\ n - 1 \in Nat /\ f[n - 1] \in Seq(some)
    BY <1>3, <1>a
  <2>2. f[n] = IF Order[n] \in some THEN Append(f[n - 1], Order[n]) ELSE f[n - 1]
    BY <1>1, <2>1 DEF WspUpToN
  <2>3. 1..n = 1..(n - 1) \cup {n}
    BY <2>1
  <2>4. CASE Order[n] \notin some
    BY <1>3, <2>1, <2>2, <2>3, <2>4
  <2>5. CASE Order[n] \in some
    <3> DEFINE s == f[n - 1]
    <3>1. f[n] = Append(s, Order[n])
      BY <2>2, <2>5
    <3>2. /\ s \in Seq(some) /\ Len(s) \in Nat /\ DOMAIN s = 1..Len(s)
          /\ f[n] \in Seq(some) /\ DOMAIN f[n] = 1..(Len(s) + 1)
          /\ \A i \in 1..Len(s) : f[n][i] = s[i]
          /\ f[n][Len(s) + 1] = Order[n]
      BY <2>1, <2>5, <3>1, AppendProperties, LenProperties
    <3>3. \A m \in 1..n : Order[m] \in some => \E i \in DOMAIN f[n] : f[n][i] = Order[m]
      <4>1. CASE n - 1 \in T
        <5> SUFFICES ASSUME NEW m \in 1..n, Order[m] \in some PROVE \E i \in DOMAIN f[n] : f[n][i] = Order[m]
          OBVIOUS
        <5>1. CASE m = n
          <6>1. Len(s) + 1 \in DOMAIN f[n]
            BY <3>2
          <6> QED
            BY <3>2, <5>1, <6>1
        <5>2. CASE m \in 1..(n - 1)
          <6>1. PICK i \in DOMAIN s : s[i] = Order[m]
            BY <4>1, <5>2
          <6>2. i \in DOMAIN f[n] /\ f[n][i] = s[i]
            BY <3>2, <6>1
          <6> QED
            BY <6>1, <6>2
        <5> QED
          BY <2>3, <5>1, <5>2
      <4> QED
        BY <1>3, <4>1
    <3>4. \A i \in DOMAIN f[n] : i = Len(s) + 1 \/ i \in DOMAIN s
      BY <3>2
    <3>5. \A i \in DOMAIN s : \E m \in 1..(n - 1) : f[n][i] = Order[m]
      BY <1>3, <3>2
    <3>6. \A i \in DOMAIN f[n] : \E m \in 1..n : f[n][i] = Order[m]
      BY <2>1, <2>3, <3>2, <3>4, <3>5
    <3>7. \A i \in DOMAIN s : Order[n] \notin Below[f[n][i]]
      <4> SUFFICES ASSUME NEW i \in DOMAIN s, Order[n] \in Below[f[n][i]] PROVE FALSE
        OBVIOUS
      <4>1. PICK m \in 1..(n - 1) : f[n][i] = Order[m]
        BY <3>5
      <4>2. m \in DOMAIN Order /\ m < n
        BY <1>a, <2>1, <4>1
      <4> QED
        BY <1>a, <2>1, <4>1, <4>2
    <3>8. \A i, j \in DOMAIN f[n] : i < j => f[n][j] \notin Below[f[n][i]]
      <4> SUFFICES ASSUME NEW i \in DOMAIN f[n], NEW j \in DOMAIN f[n], i < j PROVE f[n][j] \notin Below[f[n][i]]
        OBVIOUS
      <4>1. i \in DOMAIN s
        BY <3>2
      <4>2. CASE j = Len(s) + 1
        BY <3>2, <3>7, <4>1, <4>2
      <4>3. CASE j \in DOMAIN s
        BY <1>3, <3>2, <4>1, <4>3
      <4> QED
        BY <3>4, <4>2, <4>3
    <3> QED
      BY <2>1, <3>2, <3>3, <3>6, <3>8
  <2> QED
    BY <2>4, <2>5
<1>4. Len(Order) \in T
  <2>1. 0..Len(Order) \subseteq T
    <3> HIDE DEF T
    <3> QED
      BY <1>2, <1>3, <1>a, WspUpTo
  <2> QED
    BY <2>1, <1>a
<1>5. \A p \in some : \E m \in 1..Len(Order) : p = Order[m]
  BY <1>a DEF Wsp!Profiles, Wsp!ToSet
<1> QED
  BY <1>1, <1>4, <1>5 DEF WspOrdered

\* The other way round: what references a profile comes before it.
WspTopDown(s, some) ==
  /\ s \in Seq(some)
  /\ \A p \in some : \E i \in DOMAIN s : s[i] = p
  /\ \A i, j \in DOMAIN s : i < j => s[i] \notin Below[s[j]]

LEMMA WspDeleteTopDown ==
  ASSUME Wsp!WorkspaceAssumption, NEW some \in SUBSET Wsp!Profiles
  PROVE  WspTopDown(Wsp!DeleteOrder(some), some)
<1> DEFINE s == Wsp!CreateOrder(some)
           d == Wsp!DeleteOrder(some)
<1>1. WspOrdered(s, some)
  BY WspCreateOrdered
<1>2. s \in Seq(some) /\ Len(s) \in Nat /\ DOMAIN s = 1..Len(s) /\ \A i \in DOMAIN s : s[i] \in some
  BY <1>1, LenProperties DEF WspOrdered
<1> HIDE DEF s
<1>3. d = [i \in 1..Len(s) |-> s[(Len(s) - i) + 1]]
  BY DEF Wsp!DeleteOrder, Wsp!Reverse, s
<1>4. \A i \in 1..Len(s) : (Len(s) - i) + 1 \in 1..Len(s)
  BY <1>2
<1>5. d \in Seq(some) /\ DOMAIN d = DOMAIN s
  <2>1. d \in [1..Len(s) -> some]
    BY <1>2, <1>3, <1>4
  <2> QED
    BY <1>2, <2>1
<1>6. \A p \in some : \E i \in DOMAIN d : d[i] = p
  <2> SUFFICES ASSUME NEW p \in some PROVE \E i \in DOMAIN d : d[i] = p
    OBVIOUS
  <2>1. PICK i \in DOMAIN s : s[i] = p
    BY <1>1 DEF WspOrdered
  <2>2. (Len(s) - i) + 1 \in DOMAIN d /\ (Len(s) - ((Len(s) - i) + 1)) + 1 = i
    BY <1>2, <1>5, <2>1
  <2> QED
    BY <1>2, <1>3, <1>5, <2>1, <2>2
<1>7. \A i, j \in DOMAIN d : i < j => d[i] \notin Below[d[j]]
  <2> SUFFICES ASSUME NEW i \in DOMAIN d, NEW j \in DOMAIN d, i < j PROVE d[i] \notin Below[d[j]]
    OBVIOUS
  <2>1. (Len(s) - j) + 1 \in DOMAIN s /\ (Len(s) - i) + 1 \in DOMAIN s /\ (Len(s) - j) + 1 < (Len(s) - i) + 1
    BY <1>2, <1>5
  <2>2. d[i] = s[(Len(s) - i) + 1] /\ d[j] = s[(Len(s) - j) + 1]
    BY <1>2, <1>3, <1>5
  <2> QED
    BY <1>1, <2>1, <2>2 DEF WspOrdered
<1> QED
  BY <1>5, <1>6, <1>7 DEF WspTopDown

\* Operations that stand on their own.
WspPlainNames == {"remove", "need", "find", "read", "create", "post", "patch_invalid", "restore", "compare"}
WspOnly(names, s) == s \in Seq(WspOps) /\ \A i \in DOMAIN s : s[i].op \in names
WspPlain(s) == WspOnly(WspPlainNames, s)

LEMMA WspPlainShaped == ASSUME NEW s, WspPlain(s) PROVE WspShaped(s)
  BY DEF WspPlain, WspOnly, WspPlainNames, WspShaped

LEMMA WspPlainSingle ==
  ASSUME NEW o \in WspOps, o.op \in WspPlainNames
  PROVE  WspPlain(<<o>>)
<1>1. <<o>> \in Seq(WspOps)
  OBVIOUS
<1>2. \A i \in DOMAIN <<o>> : <<o>>[i] = o
  OBVIOUS
<1> QED
  BY <1>1, <1>2 DEF WspPlain, WspOnly

LEMMA WspPlainOne ==
  ASSUME NEW p \in Wsp!Profiles, NEW name \in WspPlainNames
  PROVE  WspPlain(<<Wsp!Op(name, p)>>)
<1>1. Wsp!Op(name, p) \in WspOps /\ Wsp!Op(name, p).op = name
  BY DEF Wsp!Op, WspOps, WspOpNames, WspPlainNames
<1> QED
  BY <1>1, WspPlainSingle

\* Where the elements of a concatenation are.
LEMMA WspPlaces ==
  ASSUME NEW S, NEW a \in Seq(S), NEW b \in Seq(S)
  PROVE  /\ a \o b \in Seq(S)
         /\ \A i \in DOMAIN a : i \in DOMAIN (a \o b) /\ (a \o b)[i] = a[i]
         /\ \A j \in DOMAIN b : Len(a) + j \in DOMAIN (a \o b) /\ (a \o b)[Len(a) + j] = b[j]
         /\ \A i \in DOMAIN (a \o b) : i \in DOMAIN a \/ \E j \in DOMAIN b : i = Len(a) + j
<1>1. Len(a) \in Nat /\ DOMAIN a = 1..Len(a)
  BY LenProperties
<1>2. Len(b) \in Nat /\ DOMAIN b = 1..Len(b)
  BY LenProperties
<1>3. a \o b \in Seq(S) /\ Len(a \o b) = Len(a) + Len(b)
  BY ConcatProperties
<1>4. DOMAIN (a \o b) = 1..(Len(a) + Len(b))
  BY <1>3, LenProperties
<1>5. \A i \in 1..(Len(a) + Len(b)) : (a \o b)[i] = IF i <= Len(a) THEN a[i] ELSE b[i - Len(a)]
  BY ConcatProperties
<1> DEFINE la == Len(a)
           lb == Len(b)
           s  == a \o b
<1>6. la \in Nat /\ lb \in Nat /\ DOMAIN a = 1..la /\ DOMAIN b = 1..lb /\ DOMAIN s = 1..(la + lb)
      /\ \A i \in 1..(la + lb) : s[i] = IF i <= la THEN a[i] ELSE b[i - la]
  BY <1>1, <1>2, <1>4, <1>5
<1> HIDE DEF la, lb, s
<1>7. \A i \in DOMAIN a : i \in DOMAIN s /\ s[i] = a[i]
  BY <1>6
<1>8. \A j \in DOMAIN b : la + j \in DOMAIN s /\ s[la + j] = b[j]
  BY <1>6
<1>9. \A i \in DOMAIN s : i \in DOMAIN a \/ (i - la \in DOMAIN b /\ i = la + (i - la))
  BY <1>6
<1> QED
  BY <1>3, <1>7, <1>8, <1>9 DEF la, s

LEMMA WspOnlyJoined == ASSUME NEW names, NEW a, NEW b, WspOnly(names, a), WspOnly(names, b) PROVE WspOnly(names, a \o b)
<1> DEFINE s == a \o b
<1>1. a \in Seq(WspOps) /\ b \in Seq(WspOps)
  BY DEF WspOnly
<1>2. /\ s \in Seq(WspOps)
      /\ \A i \in DOMAIN a : s[i] = a[i]
      /\ \A j \in DOMAIN b : s[Len(a) + j] = b[j]
      /\ \A i \in DOMAIN s : i \in DOMAIN a \/ \E j \in DOMAIN b : i = Len(a) + j
  BY <1>1, WspPlaces
<1> HIDE DEF s
<1>3. \A i \in DOMAIN s : (\E j \in DOMAIN a : s[i] = a[j]) \/ (\E j \in DOMAIN b : s[i] = b[j])
  BY <1>2
<1>4. WspOnly(names, s)
  BY <1>2, <1>3 DEF WspOnly
<1> QED
  BY <1>4 DEF s

LEMMA WspPlainJoined == ASSUME NEW a, NEW b, WspPlain(a), WspPlain(b) PROVE WspPlain(a \o b)
  BY WspOnlyJoined DEF WspPlain

\* Operations that stand on their own may come before others that do not need another one before them.
WspLed(a, b, first, second) == a # <<>> /\ b # <<>> /\ b[1].op = second => a[Len(a)] = Wsp!Op(first, b[1].p)

LEMMA WspJoined ==
  ASSUME NEW a, NEW b, WspPlain(a), WspShaped(b), WspLed(a, b, "post_invalid", "residual"), WspLed(a, b, "remove", "absent")
  PROVE  WspShaped(a \o b)
<1> DEFINE s == a \o b
           la == Len(a)
<1>1. a \in Seq(WspOps) /\ b \in Seq(WspOps) /\ Len(a) \in Nat /\ Len(b) \in Nat /\ DOMAIN a = 1..Len(a) /\ DOMAIN b = 1..Len(b)
  BY LenProperties DEF WspPlain, WspOnly, WspShaped
<1>2. /\ s \in Seq(WspOps)
      /\ \A i \in DOMAIN a : i \in DOMAIN s /\ s[i] = a[i]
      /\ \A j \in DOMAIN b : la + j \in DOMAIN s /\ s[la + j] = b[j]
      /\ \A i \in DOMAIN s : i \in DOMAIN a \/ \E j \in DOMAIN b : i = la + j
  BY <1>1, WspPlaces
<1>3. Len(s) = la + Len(b)
  BY <1>1, ConcatProperties
<1>n. la \in Nat /\ Len(b) \in Nat /\ DOMAIN a = 1..la /\ DOMAIN b = 1..Len(b)
  BY <1>1
<1> HIDE DEF s, la
<1>m. /\ \A j \in DOMAIN b : j \in Nat /\ j >= 1
      /\ \A i \in DOMAIN a : i \in Nat /\ i <= la
  BY <1>n
<1>4. \A i \in DOMAIN s : s[i].op \in {"patch", "post_invalid", "residual", "absent", "swept", "sweep"} =>
        \E j \in DOMAIN b : i = la + j /\ s[i] = b[j]
  BY <1>2 DEF WspPlain, WspOnly, WspPlainNames
<1>5. ASSUME NEW i \in DOMAIN s, NEW first, NEW second, s[i].op = first, first \in {"patch", "post_invalid"},
             \A k \in DOMAIN b : b[k].op = first => k + 1 \in DOMAIN b /\ b[k + 1] = Wsp!Op(second, b[k].p)
      PROVE  i + 1 \in DOMAIN s /\ s[i + 1] = Wsp!Op(second, s[i].p)
  <2>1. PICK j \in DOMAIN b : i = la + j /\ s[i] = b[j]
    BY <1>4, <1>5
  <2>2. j + 1 \in DOMAIN b /\ b[j + 1] = Wsp!Op(second, s[i].p)
    BY <1>5, <2>1
  <2>3. la + (j + 1) = i + 1
    BY <1>n, <1>m, <2>1
  <2> QED
    BY <1>2, <2>2, <2>3
<1>p. \A i \in DOMAIN s : s[i].op = "patch" => i + 1 \in DOMAIN s /\ s[i + 1] = Wsp!Op("restore", s[i].p)
  <2>1. \A k \in DOMAIN b : b[k].op = "patch" => k + 1 \in DOMAIN b /\ b[k + 1] = Wsp!Op("restore", b[k].p)
    BY DEF WspShaped
  <2>2. "patch" \in {"patch", "post_invalid"}
    OBVIOUS
  <2> QED
    BY <1>5, <2>1, <2>2
<1>q. \A i \in DOMAIN s : s[i].op = "post_invalid" => i + 1 \in DOMAIN s /\ s[i + 1] = Wsp!Op("residual", s[i].p)
  <2>1. \A k \in DOMAIN b : b[k].op = "post_invalid" => k + 1 \in DOMAIN b /\ b[k + 1] = Wsp!Op("residual", b[k].p)
    BY DEF WspShaped
  <2>2. "post_invalid" \in {"patch", "post_invalid"}
    OBVIOUS
  <2> QED
    BY <1>5, <2>1, <2>2
<1>6. ASSUME NEW i \in DOMAIN s, NEW first, NEW second, i + 1 \in DOMAIN s, s[i + 1].op = second, second \in {"residual", "absent"},
             \A k \in DOMAIN b : k + 1 \in DOMAIN b /\ b[k + 1].op = second => b[k] = Wsp!Op(first, b[k + 1].p),
             WspLed(a, b, first, second)
      PROVE  s[i] = Wsp!Op(first, s[i + 1].p)
  <2>1. PICK j \in DOMAIN b : i + 1 = la + j /\ s[i + 1] = b[j]
    BY <1>4, <1>6
  <2>2. CASE i \in DOMAIN a
    <3>1. i = la /\ j = 1
      BY <1>n, <1>m, <2>1, <2>2
    <3>2. a # <<>> /\ b # <<>>
      BY <2>1, <2>2
    <3>3. a[Len(a)] = Wsp!Op(first, b[1].p) /\ s[i] = a[Len(a)] /\ b[1] = s[i + 1]
      BY <1>2, <1>6, <2>1, <2>2, <3>1, <3>2 DEF WspLed, la
    <3> QED
      BY <3>3
  <2>3. CASE \E k \in DOMAIN b : i = la + k
    <3>1. PICK k \in DOMAIN b : i = la + k
      BY <2>3
    <3>2. j = k + 1
      BY <1>n, <1>m, <2>1, <3>1
    <3> QED
      BY <1>2, <1>6, <2>1, <3>1, <3>2
  <2> QED
    BY <1>2, <2>2, <2>3
<1>7. \A i \in DOMAIN s : i + 1 \in DOMAIN s /\ s[i + 1].op = "residual" => s[i] = Wsp!Op("post_invalid", s[i + 1].p)
  BY <1>6 DEF WspShaped
<1>8. \A i \in DOMAIN s : i + 1 \in DOMAIN s /\ s[i + 1].op = "absent" => s[i] = Wsp!Op("remove", s[i + 1].p)
  BY <1>6 DEF WspShaped
<1>9. \A i \in DOMAIN s : s[i].op = "swept" => i = Len(s)
  BY <1>3, <1>4 DEF WspShaped
<1>10. \A i, j \in DOMAIN s : i < j /\ s[i].op = "sweep" /\ s[j].op = "sweep" => s[i].p \notin Below[s[j].p]
  <2> SUFFICES ASSUME NEW i \in DOMAIN s, NEW j \in DOMAIN s, i < j, s[i].op = "sweep", s[j].op = "sweep"
               PROVE  s[i].p \notin Below[s[j].p]
    OBVIOUS
  <2>1. PICK k \in DOMAIN b : i = la + k /\ s[i] = b[k]
    BY <1>4
  <2>2. PICK l \in DOMAIN b : j = la + l /\ s[j] = b[l]
    BY <1>4
  <2>3. k < l
    BY <1>n, <1>m, <2>1, <2>2
  <2> QED
    BY <2>1, <2>2, <2>3 DEF WspShaped
<1> QED
  BY <1>2, <1>p, <1>q, <1>7, <1>8, <1>9, <1>10 DEF WspShaped, s

\* What is left of a case's operations.
LEMMA WspShapedTail == ASSUME NEW s, WspShaped(s), s # <<>> PROVE WspShaped(Tail(s))
<1> DEFINE t == Tail(s)
<1>1. s \in Seq(WspOps) /\ t \in Seq(WspOps) /\ Len(t) = Len(s) - 1 /\ \A i \in 1..Len(t) : t[i] = s[i + 1]
  BY HeadTailProperties DEF WspShaped
<1>2. Len(s) \in Nat /\ Len(t) \in Nat /\ DOMAIN s = 1..Len(s) /\ DOMAIN t = 1..Len(t)
  BY <1>1, LenProperties
<1> HIDE DEF t
<1>3. \A i \in DOMAIN t : i \in Nat /\ i + 1 \in DOMAIN s /\ t[i] = s[i + 1]
  BY <1>1, <1>2
<1>4. \A i \in DOMAIN t : (i + 1) + 1 \in DOMAIN s => i + 1 \in DOMAIN t
  BY <1>1, <1>2
<1>5. \A i \in DOMAIN t : t[i].op = "patch" => i + 1 \in DOMAIN t /\ t[i + 1] = Wsp!Op("restore", t[i].p)
  BY <1>3, <1>4 DEF WspShaped
<1>q. \A i \in DOMAIN t : t[i].op = "post_invalid" => i + 1 \in DOMAIN t /\ t[i + 1] = Wsp!Op("residual", t[i].p)
  BY <1>3, <1>4 DEF WspShaped
<1>6. \A i \in DOMAIN t : i + 1 \in DOMAIN t /\ t[i + 1].op = "residual" => t[i] = Wsp!Op("post_invalid", t[i + 1].p)
  BY <1>3 DEF WspShaped
<1>7. \A i \in DOMAIN t : i + 1 \in DOMAIN t /\ t[i + 1].op = "absent" => t[i] = Wsp!Op("remove", t[i + 1].p)
  BY <1>3 DEF WspShaped
<1>8. \A i \in DOMAIN t : t[i].op = "swept" => i = Len(t)
  <2> SUFFICES ASSUME NEW i \in DOMAIN t, t[i].op = "swept" PROVE i = Len(t)
    OBVIOUS
  <2>1. i + 1 = Len(s)
    BY <1>3 DEF WspShaped
  <2> QED
    BY <1>1, <1>2, <1>3, <2>1
<1>9. \A i, j \in DOMAIN t : i < j /\ t[i].op = "sweep" /\ t[j].op = "sweep" => t[i].p \notin Below[t[j].p]
  <2> SUFFICES ASSUME NEW i \in DOMAIN t, NEW j \in DOMAIN t, i < j, t[i].op = "sweep", t[j].op = "sweep"
               PROVE  t[i].p \notin Below[t[j].p]
    OBVIOUS
  <2>1. i + 1 < j + 1
    BY <1>3
  <2>2. i + 1 \in DOMAIN s /\ t[i] = s[i + 1] /\ j + 1 \in DOMAIN s /\ t[j] = s[j + 1]
    BY <1>3
  <2>3. s[i + 1].op = "sweep" /\ s[j + 1].op = "sweep"
    BY <2>2
  <2> QED
    BY <2>1, <2>2, <2>3 DEF WspShaped
<1> QED
  BY <1>1, <1>5, <1>q, <1>6, <1>7, <1>8, <1>9 DEF WspShaped, t

\* What a case restores it has read, also when the operations before it are done.
LEMMA WspBasedTail ==
  ASSUME NEW s \in Seq(WspOps), s # <<>>, NEW read, NEW later, WspBased(s, read), later # "none" \/ (Head(s).op # "read" /\ later = read)
  PROVE  WspBased(Tail(s), later)
<1> DEFINE t == Tail(s)
<1>1. t \in Seq(WspOps) /\ Len(t) = Len(s) - 1 /\ \A i \in 1..Len(t) : t[i] = s[i + 1]
  BY HeadTailProperties
<1>2. Len(s) \in Nat /\ Len(t) \in Nat /\ DOMAIN s = 1..Len(s) /\ DOMAIN t = 1..Len(t) /\ Head(s) = s[1]
  BY <1>1, LenProperties
<1> HIDE DEF t
<1>3. SUFFICES ASSUME NEW i \in DOMAIN t, t[i].op \in {"patch", "restore", "compare"}, later = "none"
               PROVE  \E j \in DOMAIN t : j < i /\ t[j].op = "read"
  BY DEF WspBased, t
<1>4. i + 1 \in DOMAIN s /\ t[i] = s[i + 1] /\ i \in Nat /\ read = "none" /\ Head(s).op # "read"
  BY <1>1, <1>2, <1>3
<1>5. PICK j \in DOMAIN s : j < i + 1 /\ s[j].op = "read"
  BY <1>3, <1>4 DEF WspBased
<1>6. j # 1 /\ j \in 1..Len(s)
  BY <1>2, <1>4, <1>5
<1>7. j - 1 \in 1..Len(t) /\ (j - 1) + 1 = j /\ j - 1 < i
  BY <1>1, <1>2, <1>4, <1>5, <1>6
<1>8. t[j - 1] = s[j]
  BY <1>1, <1>7
<1> QED
  BY <1>2, <1>5, <1>7, <1>8

WspUnreadNames == WspOpNames \ {"patch", "restore", "compare"}
WspUnread(s) == WspOnly(WspUnreadNames, s)

LEMMA WspBasedJoined ==
  ASSUME NEW a, NEW b \in Seq(WspOps), WspUnread(a), NEW read, WspBased(b, read) \/ \E i \in DOMAIN a : a[i].op = "read"
  PROVE  WspBased(a \o b, read)
<1> DEFINE s == a \o b
           la == Len(a)
<1>1. a \in Seq(WspOps) /\ Len(a) \in Nat /\ Len(b) \in Nat /\ DOMAIN a = 1..Len(a) /\ DOMAIN b = 1..Len(b)
  BY LenProperties DEF WspUnread, WspUnreadNames, WspOnly
<1>2. /\ \A i \in DOMAIN a : i \in DOMAIN s /\ s[i] = a[i]
      /\ \A j \in DOMAIN b : la + j \in DOMAIN s /\ s[la + j] = b[j]
      /\ \A i \in DOMAIN s : i \in DOMAIN a \/ \E j \in DOMAIN b : i = la + j
  BY <1>1, WspPlaces
<1>n. la \in Nat /\ Len(b) \in Nat /\ DOMAIN a = 1..la /\ DOMAIN b = 1..Len(b)
  BY <1>1
<1> HIDE DEF s, la
<1>3. SUFFICES ASSUME NEW i \in DOMAIN s, s[i].op \in {"patch", "restore", "compare"}, read = "none"
               PROVE  \E j \in DOMAIN s : j < i /\ s[j].op = "read"
  BY DEF WspBased, s
<1>4. PICK k \in DOMAIN b : i = la + k /\ s[i] = b[k]
  BY <1>2, <1>3 DEF WspUnread, WspUnreadNames, WspOnly
<1>5. CASE WspBased(b, read)
  <2>1. PICK j \in DOMAIN b : j < k /\ b[j].op = "read"
    BY <1>3, <1>4, <1>5 DEF WspBased
  <2>2. la + j < i
    BY <1>n, <1>4, <2>1
  <2> QED
    BY <1>2, <2>1, <2>2
<1>6. CASE \E j \in DOMAIN a : a[j].op = "read"
  <2>1. PICK j \in DOMAIN a : a[j].op = "read"
    BY <1>6
  <2>2. j < i
    BY <1>n, <1>4, <2>1
  <2> QED
    BY <1>2, <2>1, <2>2
<1> QED
  BY <1>5, <1>6

\* The operations of a case: shaped, and ready to restore.
WspFit(s) == WspShaped(s) /\ \A read : WspBased(s, read)

LEMMA WspUnreadFit == ASSUME NEW s, WspPlain(s), WspUnread(s) PROVE WspFit(s)
  BY WspPlainShaped DEF WspFit, WspBased, WspUnread, WspUnreadNames, WspOnly

LEMMA WspUnreadOne ==
  ASSUME NEW p \in Wsp!Profiles, NEW name \in WspUnreadNames
  PROVE  WspUnread(<<Wsp!Op(name, p)>>)
<1> DEFINE o == Wsp!Op(name, p)
<1>1. o \in WspOps /\ o.op = name
  BY DEF Wsp!Op, WspOps, WspUnreadNames
<1> HIDE DEF o
<1>2. <<o>> \in Seq(WspOps)
  BY <1>1
<1>3. \A i \in DOMAIN <<o>> : <<o>>[i] = o
  OBVIOUS
<1> QED
  BY <1>1, <1>2, <1>3 DEF WspUnread, WspUnreadNames, WspOnly, o

LEMMA WspUnreadJoined == ASSUME NEW a, NEW b, WspUnread(a), WspUnread(b) PROVE WspUnread(a \o b)
  BY WspOnlyJoined DEF WspUnread

\* An operation for each of some profiles.
LEMMA WspEachPlain ==
  ASSUME NEW q, q \in Seq(Wsp!Profiles), NEW name \in {"remove", "need"}
  PROVE  WspPlain(Wsp!Each(name, q)) /\ WspUnread(Wsp!Each(name, q))
<1> DEFINE s == Wsp!Each(name, q)
<1>1. Len(q) \in Nat /\ DOMAIN q = 1..Len(q) /\ \A i \in DOMAIN q : q[i] \in Wsp!Profiles
  BY LenProperties
<1>2. s = [i \in 1..Len(q) |-> Wsp!Op(name, q[i])]
  BY <1>1 DEF Wsp!Each
<1>3. \A i \in 1..Len(q) : Wsp!Op(name, q[i]) \in WspOps /\ Wsp!Op(name, q[i]).op = name
  BY <1>1 DEF Wsp!Op, WspOps, WspOpNames
<1> HIDE DEF s
<1>4. s \in Seq(WspOps) /\ DOMAIN s = 1..Len(q)
  <2>1. s \in [1..Len(q) -> WspOps]
    BY <1>2, <1>3
  <2> QED
    BY <1>1, <2>1
<1>5. \A i \in DOMAIN s : s[i].op = name
  BY <1>2, <1>3, <1>4
<1> QED
  BY <1>4, <1>5 DEF WspPlain, WspOnly, WspPlainNames, WspUnread, WspUnreadNames, WspOpNames, s

LEMMA WspNeedPlain == ASSUME Wsp!WorkspaceAssumption, NEW p \in Wsp!Profiles PROVE WspPlain(Wsp!Need(p)) /\ WspUnread(Wsp!Need(p))
<1>1. Below[p] \in SUBSET Wsp!Profiles
  BY DEF Wsp!WorkspaceAssumption
<1>2. Wsp!Refs(p) \in Seq(Below[p])
  BY <1>1, WspCreateOrdered DEF WspOrdered, Wsp!Refs
<1>3. Wsp!Refs(p) \in Seq(Wsp!Profiles)
  BY <1>1, <1>2
<1> QED
  BY <1>3, WspEachPlain DEF Wsp!Need

LEMMA WspRemovalPlain ==
  ASSUME Wsp!WorkspaceAssumption, NEW p \in Wsp!Profiles
  PROVE  /\ WspPlain(Wsp!Removal(p)) /\ WspUnread(Wsp!Removal(p)) /\ Wsp!Removal(p) # <<>>
         /\ Wsp!Removal(p)[Len(Wsp!Removal(p))] = Wsp!Op("remove", p)
<1> DEFINE above == {q \in Wsp!Profiles : p \in Below[q]}
           a == Wsp!Each("remove", Wsp!Dependents(p))
           b == <<Wsp!Op("remove", p)>>
<1>1. Wsp!Dependents(p) \in Seq(above)
  BY WspDeleteTopDown DEF WspTopDown, Wsp!Dependents
<1>2. Wsp!Dependents(p) \in Seq(Wsp!Profiles)
  BY <1>1
<1>3. WspPlain(a) /\ WspUnread(a)
  BY <1>2, WspEachPlain
<1>4. WspPlain(b) /\ WspUnread(b)
  BY WspPlainOne, WspUnreadOne DEF WspPlainNames, WspUnreadNames, WspOpNames
<1>5. a \in Seq(WspOps) /\ b \in Seq(WspOps) /\ Len(b) = 1 /\ b[1] = Wsp!Op("remove", p) /\ DOMAIN b = {1}
  BY <1>3, <1>4 DEF WspPlain, WspOnly
<1>6. Wsp!Removal(p) = a \o b
  BY DEF Wsp!Removal
<1> HIDE DEF a, b
<1>7. WspPlain(a \o b) /\ WspUnread(a \o b)
  BY <1>3, <1>4, WspPlainJoined, WspUnreadJoined
<1>8. (a \o b)[Len(a) + 1] = Wsp!Op("remove", p) /\ Len(a \o b) = Len(a) + 1
  <2>1. 1 \in DOMAIN b /\ (a \o b)[Len(a) + 1] = b[1]
    BY <1>5, WspPlaces
  <2>2. Len(a \o b) = Len(a) + 1
    BY <1>5, ConcatProperties
  <2> QED
    BY <1>5, <2>1, <2>2
<1>9. a \o b # <<>>
  BY <1>5, <1>8, LenProperties, EmptySeq
<1> QED
  BY <1>6, <1>7, <1>8, <1>9

\* A PATCH and its restore, an invalid POST and the look for what it has left.
LEMMA WspCouple ==
  ASSUME NEW p \in Wsp!Profiles, NEW first, NEW second, <<first, second>> \in {<<"patch", "restore">>, <<"post_invalid", "residual">>}
  PROVE  WspShaped(<<Wsp!Op(first, p), Wsp!Op(second, p)>>)
<1> DEFINE s == <<Wsp!Op(first, p), Wsp!Op(second, p)>>
<1>1. Wsp!Op(first, p) \in WspOps /\ Wsp!Op(second, p) \in WspOps /\ Wsp!Op(first, p).op = first /\ Wsp!Op(second, p).op = second
      /\ Wsp!Op(first, p).p = p /\ Wsp!Op(second, p).p = p
  BY DEF Wsp!Op, WspOps, WspOpNames
<1>2. s \in Seq(WspOps) /\ DOMAIN s = 1..2 /\ s[1] = Wsp!Op(first, p) /\ s[2] = Wsp!Op(second, p) /\ Len(s) = 2
  BY <1>1
<1>3. \A i \in DOMAIN s : i = 1 \/ i = 2
  BY <1>2
<1>a. 1 \in DOMAIN s /\ 2 \in DOMAIN s /\ 1 + 1 = 2 /\ 2 + 1 \notin DOMAIN s
  BY <1>2
<1> HIDE DEF s
<1>4. CASE first = "patch" /\ second = "restore"
  BY <1>1, <1>2, <1>3, <1>4, <1>a DEF WspShaped, s
<1>5. CASE first = "post_invalid" /\ second = "residual"
  BY <1>1, <1>2, <1>3, <1>5, <1>a DEF WspShaped, s
<1> QED
  BY <1>4, <1>5

\* An absence is verified right after the removal.
LEMMA WspLone ==
  ASSUME NEW p \in Wsp!Profiles, NEW name \in {"absent", "swept"}
  PROVE  WspShaped(<<Wsp!Op(name, p)>>) /\ WspUnread(<<Wsp!Op(name, p)>>)
<1> DEFINE o == Wsp!Op(name, p)
           s == <<o>>
<1>1. o \in WspOps /\ o.op = name
  BY DEF Wsp!Op, WspOps, WspOpNames
<1> HIDE DEF o
<1>2. s \in Seq(WspOps) /\ DOMAIN s = {1} /\ s[1] = o /\ Len(s) = 1
  BY <1>1
<1> HIDE DEF s
<1>3. WspShaped(s)
  BY <1>1, <1>2 DEF WspShaped
<1>4. WspUnread(s)
  BY <1>1, <1>2 DEF WspUnread, WspUnreadNames, WspOpNames, WspOnly
<1> QED
  BY <1>3, <1>4 DEF s, o

\* The operations of every case.
LEMMA WspCaseFit == ASSUME Wsp!WorkspaceAssumption, NEW c \in WspCases PROVE WspFit(Wsp!OpsOf(c))
<1> DEFINE p == c.p
<1>0. p \in Wsp!Profiles /\ c.op \in Wsp!CaseNames
  BY DEF WspCases
<1> HIDE DEF p
<1>1. /\ WspPlain(Wsp!Need(p)) /\ WspUnread(Wsp!Need(p)) /\ WspPlain(Wsp!Removal(p)) /\ WspUnread(Wsp!Removal(p)) /\ Wsp!Removal(p) # <<>>
      /\ Wsp!Removal(p)[Len(Wsp!Removal(p))] = Wsp!Op("remove", p)
  BY <1>0, WspNeedPlain, WspRemovalPlain
<1>2. \A name \in {"find", "read", "post", "patch_invalid", "compare"} : WspPlain(<<Wsp!Op(name, p)>>)
  BY <1>0, WspPlainOne DEF WspPlainNames
<1>3. \A name \in {"find", "read", "post", "patch_invalid"} : WspUnread(<<Wsp!Op(name, p)>>)
  BY <1>0, WspUnreadOne DEF WspUnreadNames, WspOpNames
<1> DEFINE look == <<Wsp!Op("find", p), Wsp!Op("read", p)>> \o Wsp!Need(p)
<1>4. WspPlain(look) /\ WspUnread(look) /\ \E i \in DOMAIN look : look[i].op = "read"
  <2> DEFINE a == <<Wsp!Op("find", p), Wsp!Op("read", p)>>
  <2>1. a = <<Wsp!Op("find", p)>> \o <<Wsp!Op("read", p)>>
    OBVIOUS
  <2>2. WspPlain(a) /\ WspUnread(a)
    BY <1>2, <1>3, <2>1, WspPlainJoined, WspUnreadJoined
  <2>3. 2 \in DOMAIN a /\ a[2] = Wsp!Op("read", p) /\ a[2].op = "read"
    BY DEF Wsp!Op
  <2> HIDE DEF a
  <2>4. WspPlain(a \o Wsp!Need(p)) /\ WspUnread(a \o Wsp!Need(p))
    BY <1>1, <2>2, WspPlainJoined, WspUnreadJoined
  <2>5. a \in Seq(WspOps) /\ Wsp!Need(p) \in Seq(WspOps)
    BY <1>1, <2>2 DEF WspPlain, WspOnly
  <2>6. 2 \in DOMAIN (a \o Wsp!Need(p)) /\ (a \o Wsp!Need(p))[2].op = "read"
    BY <2>3, <2>5, WspPlaces
  <2> QED
    BY <2>4, <2>6 DEF a
<1> HIDE DEF look
<1>5. \A q : WspLed(look, q, "post_invalid", "residual") /\ WspShaped(q) /\ WspLed(look, q, "remove", "absent") => WspFit(look \o q)
  <2> SUFFICES ASSUME NEW q, WspLed(look, q, "post_invalid", "residual"), WspShaped(q), WspLed(look, q, "remove", "absent")
               PROVE  WspFit(look \o q)
    OBVIOUS
  <2>1. q \in Seq(WspOps)
    BY DEF WspShaped
  <2>2. WspShaped(look \o q)
    BY <1>4, WspJoined
  <2>3. \A read : WspBased(look \o q, read)
    BY <1>4, <2>1, WspBasedJoined
  <2> QED
    BY <2>2, <2>3 DEF WspFit
<1>6. CASE c.op = "post"
  <2>1. Wsp!OpsOf(c) = (Wsp!Removal(p) \o Wsp!Need(p)) \o <<Wsp!Op("post", p)>>
    BY <1>6 DEF Wsp!OpsOf, p
  <2>2. WspPlain(Wsp!Removal(p) \o Wsp!Need(p)) /\ WspUnread(Wsp!Removal(p) \o Wsp!Need(p))
    BY <1>1, WspPlainJoined, WspUnreadJoined
  <2> QED
    BY <1>2, <1>3, <2>1, <2>2, WspPlainJoined, WspUnreadJoined, WspUnreadFit
<1>7. CASE c.op = "get"
  <2>1. Wsp!OpsOf(c) = <<Wsp!Op("find", p)>>
    BY <1>7 DEF Wsp!OpsOf, p
  <2> QED
    BY <1>2, <1>3, <2>1, WspUnreadFit
<1>8. CASE c.op = "patch"
  <2> DEFINE q == <<Wsp!Op("patch", p), Wsp!Op("restore", p)>>
  <2>1. Wsp!OpsOf(c) = look \o q
    BY <1>8 DEF Wsp!OpsOf, p, look
  <2>2. q[1].op = "patch" /\ WspShaped(q)
    BY <1>0, WspCouple DEF Wsp!Op
  <2> HIDE DEF q
  <2>3. WspLed(look, q, "post_invalid", "residual") /\ WspLed(look, q, "remove", "absent")
    BY <2>2 DEF WspLed
  <2> QED
    BY <1>5, <2>1, <2>2, <2>3
<1>9. CASE c.op = "delete"
  <2> DEFINE q == <<Wsp!Op("absent", p)>>
             a == <<Wsp!Op("find", p)>> \o Wsp!Removal(p)
  <2>1. Wsp!OpsOf(c) = a \o q
    BY <1>9 DEF Wsp!OpsOf, p
  <2>2. WspPlain(a) /\ WspUnread(a)
    BY <1>1, <1>2, <1>3, WspPlainJoined, WspUnreadJoined
  <2>3. q[1].op = "absent" /\ q[1].p = p /\ WspShaped(q) /\ WspUnread(q)
    BY <1>0, WspLone DEF Wsp!Op
  <2>4. a[Len(a)] = Wsp!Op("remove", p)
    <3> DEFINE f == <<Wsp!Op("find", p)>>
               r == Wsp!Removal(p)
    <3>1. f \in Seq(WspOps) /\ r \in Seq(WspOps) /\ Len(f) = 1
      BY <1>1, <1>2 DEF WspPlain, WspOnly
    <3>2. a = f \o r /\ r[Len(r)] = Wsp!Op("remove", p) /\ r # <<>>
      BY <1>1
    <3> HIDE DEF a, f, r
    <3>3. Len(a) = Len(f) + Len(r)
      BY <3>1, <3>2, ConcatProperties
    <3>4. Len(r) \in DOMAIN r
      BY <3>1, <3>2, LenProperties, EmptySeq
    <3> QED
      BY <3>1, <3>2, <3>3, <3>4, WspPlaces
  <2> HIDE DEF a, q
  <2>5. WspLed(a, q, "post_invalid", "residual") /\ WspLed(a, q, "remove", "absent")
    BY <2>3, <2>4 DEF WspLed
  <2>6. WspShaped(a \o q)
    BY <2>2, <2>3, <2>5, WspJoined
  <2>7. WspUnread(a \o q)
    BY <2>2, <2>3, WspUnreadJoined
  <2> QED
    BY <2>1, <2>6, <2>7 DEF WspFit, WspBased, WspUnread, WspUnreadNames, WspOnly
<1>10. CASE c.op = "post_invalid"
  <2> DEFINE q == <<Wsp!Op("post_invalid", p), Wsp!Op("residual", p)>>
             a == Wsp!Removal(p) \o Wsp!Need(p)
  <2>1. Wsp!OpsOf(c) = a \o q
    BY <1>10 DEF Wsp!OpsOf, p
  <2>2. WspPlain(a) /\ WspUnread(a)
    BY <1>1, WspPlainJoined, WspUnreadJoined
  <2>3. q[1].op = "post_invalid" /\ WspShaped(q)
    BY <1>0, WspCouple DEF Wsp!Op
  <2>4. WspUnread(q)
    <3>1. q = <<Wsp!Op("post_invalid", p)>> \o <<Wsp!Op("residual", p)>>
      OBVIOUS
    <3> QED
      BY <1>0, <3>1, WspUnreadOne, WspUnreadJoined DEF WspUnreadNames, WspOpNames
  <2> HIDE DEF a, q
  <2>5. WspLed(a, q, "post_invalid", "residual") /\ WspLed(a, q, "remove", "absent")
    BY <2>3 DEF WspLed
  <2>6. WspShaped(a \o q)
    BY <2>2, <2>3, <2>5, WspJoined
  <2>7. WspUnread(a \o q)
    BY <2>2, <2>4, WspUnreadJoined
  <2> QED
    BY <2>1, <2>6, <2>7 DEF WspFit, WspBased, WspUnread, WspUnreadNames, WspOnly
<1>11. CASE c.op = "patch_invalid"
  <2> DEFINE q == <<Wsp!Op("patch_invalid", p), Wsp!Op("compare", p)>>
  <2>1. Wsp!OpsOf(c) = look \o q
    BY <1>11 DEF Wsp!OpsOf, p, look
  <2>2. q[1].op = "patch_invalid"
    BY DEF Wsp!Op
  <2>3. q = <<Wsp!Op("patch_invalid", p)>> \o <<Wsp!Op("compare", p)>>
    OBVIOUS
  <2>4. WspShaped(q)
    BY <1>2, <2>3, WspPlainJoined, WspPlainShaped
  <2> HIDE DEF q
  <2>5. WspLed(look, q, "post_invalid", "residual") /\ WspLed(look, q, "remove", "absent")
    BY <2>2 DEF WspLed
  <2> QED
    BY <1>5, <2>1, <2>4, <2>5
<1> QED
  BY <1>0, <1>6, <1>7, <1>8, <1>9, <1>10, <1>11 DEF Wsp!CaseNames

\* A case starts with an operation of its own, and cleans nothing up.
LEMMA WspOpens ==
  ASSUME NEW a, NEW b \in Seq(WspOps), WspPlain(a), a # <<>>
  PROVE  a \o b # <<>> /\ (a \o b)[1].op \in WspPlainNames
<1>1. a \in Seq(WspOps) /\ 1 \in DOMAIN a /\ a[1].op \in WspPlainNames
  BY LenProperties, EmptySeq DEF WspPlain, WspOnly
<1>2. 1 \in DOMAIN (a \o b) /\ (a \o b)[1] = a[1]
  BY <1>1, WspPlaces
<1>3. a \o b # <<>>
  BY <1>2
<1> QED
  BY <1>1, <1>2, <1>3

LEMMA WspCaseOpens ==
  ASSUME Wsp!WorkspaceAssumption, NEW c \in WspCases
  PROVE  Wsp!OpsOf(c) # <<>> /\ Wsp!OpsOf(c)[1].op \in WspPlainNames /\ WspOnly(WspOpNames \ {"sweep"}, Wsp!OpsOf(c))
<1> DEFINE p == c.p
           N == WspOpNames \ {"sweep"}
<1>0. p \in Wsp!Profiles /\ c.op \in Wsp!CaseNames
  BY DEF WspCases
<1> HIDE DEF p, N
<1>1. WspPlain(Wsp!Need(p)) /\ WspPlain(Wsp!Removal(p)) /\ Wsp!Removal(p) # <<>>
  BY <1>0, WspNeedPlain, WspRemovalPlain
<1>2. \A q : WspPlain(q) => WspOnly(N, q)
  BY DEF WspPlain, WspOnly, WspPlainNames, WspOpNames, N
<1>3. \A name \in N : WspOnly(N, <<Wsp!Op(name, p)>>)
  <2> SUFFICES ASSUME NEW name \in N PROVE WspOnly(N, <<Wsp!Op(name, p)>>)
    OBVIOUS
  <2> DEFINE o == Wsp!Op(name, p)
  <2>1. o \in WspOps /\ o.op = name
    BY <1>0 DEF Wsp!Op, WspOps, N
  <2> HIDE DEF o
  <2>2. <<o>> \in Seq(WspOps)
    BY <2>1
  <2>3. \A i \in DOMAIN <<o>> : <<o>>[i] = o
    OBVIOUS
  <2>4. WspOnly(N, <<o>>)
    BY <2>1, <2>2, <2>3 DEF WspOnly
  <2> QED
    BY <2>4 DEF o
<1>4. \A name \in {"find", "read", "post", "patch_invalid", "compare"} : WspPlain(<<Wsp!Op(name, p)>>)
  BY <1>0, WspPlainOne DEF WspPlainNames
<1>5. \A first \in N, second \in N : WspOnly(N, <<Wsp!Op(first, p), Wsp!Op(second, p)>>)
  <2> SUFFICES ASSUME NEW first \in N, NEW second \in N PROVE WspOnly(N, <<Wsp!Op(first, p), Wsp!Op(second, p)>>)
    OBVIOUS
  <2>1. <<Wsp!Op(first, p), Wsp!Op(second, p)>> = <<Wsp!Op(first, p)>> \o <<Wsp!Op(second, p)>>
    OBVIOUS
  <2> QED
    BY <1>3, <2>1, WspOnlyJoined
<1>6. \A a, b : WspPlain(a) /\ a # <<>> /\ WspOnly(N, b) => a \o b # <<>> /\ (a \o b)[1].op \in WspPlainNames /\ WspOnly(N, a \o b)
  BY <1>2, WspOpens, WspOnlyJoined DEF WspOnly
<1>7. WspPlain(Wsp!Removal(p) \o Wsp!Need(p)) /\ Wsp!Removal(p) \o Wsp!Need(p) # <<>>
  BY <1>1, WspPlainJoined, WspOpens DEF WspPlain, WspOnly
<1>8. /\ WspPlain(<<Wsp!Op("find", p), Wsp!Op("read", p)>> \o Wsp!Need(p)) /\ <<Wsp!Op("find", p), Wsp!Op("read", p)>> \o Wsp!Need(p) # <<>>
  <2>1. <<Wsp!Op("find", p), Wsp!Op("read", p)>> = <<Wsp!Op("find", p)>> \o <<Wsp!Op("read", p)>> /\ <<Wsp!Op("find", p), Wsp!Op("read", p)>> # <<>>
    OBVIOUS
  <2>2. WspPlain(<<Wsp!Op("find", p), Wsp!Op("read", p)>>)
    BY <1>4, <2>1, WspPlainJoined
  <2> QED
    BY <1>1, <2>1, <2>2, WspPlainJoined, WspOpens DEF WspPlain, WspOnly
<1>9. WspPlain(<<Wsp!Op("find", p)>> \o Wsp!Removal(p)) /\ <<Wsp!Op("find", p)>> \o Wsp!Removal(p) # <<>>
  <2>1. <<Wsp!Op("find", p)>> # <<>>
    OBVIOUS
  <2> QED
    BY <1>1, <1>4, <2>1, WspPlainJoined, WspOpens DEF WspPlain, WspOnly
<1>n. {"post", "patch", "restore", "absent", "post_invalid", "residual", "patch_invalid", "compare"} \subseteq N
  BY DEF N, WspOpNames
<1>10. CASE c.op = "post"
  BY <1>3, <1>6, <1>7, <1>10, <1>n DEF Wsp!OpsOf, p, N
<1>11. CASE c.op = "get"
  <2>1. WspPlain(<<Wsp!Op("find", p)>>) /\ <<Wsp!Op("find", p)>>[1] = Wsp!Op("find", p) /\ <<Wsp!Op("find", p)>> # <<>>
    BY <1>4
  <2>2. Wsp!OpsOf(c) = <<Wsp!Op("find", p)>> /\ Wsp!Op("find", p).op \in WspPlainNames
    BY <1>11 DEF Wsp!OpsOf, p, Wsp!Op, WspPlainNames
  <2> QED
    BY <1>2, <2>1, <2>2 DEF N
<1>12. CASE c.op = "patch"
  BY <1>5, <1>6, <1>8, <1>12, <1>n DEF Wsp!OpsOf, p, N
<1>13. CASE c.op = "delete"
  BY <1>3, <1>6, <1>9, <1>13, <1>n DEF Wsp!OpsOf, p, N
<1>14. CASE c.op = "post_invalid"
  BY <1>5, <1>6, <1>7, <1>14, <1>n DEF Wsp!OpsOf, p, N
<1>15. CASE c.op = "patch_invalid"
  BY <1>5, <1>6, <1>8, <1>15, <1>n DEF Wsp!OpsOf, p, N
<1> QED
  BY <1>0, <1>10, <1>11, <1>12, <1>13, <1>14, <1>15 DEF Wsp!CaseNames, N

\* A profile that is not found is created after what it needs.
LEMMA WspFoundFirst ==
  ASSUME Wsp!WorkspaceAssumption, NEW p \in Wsp!Profiles, NEW t \in Seq(WspOps)
  PROVE  /\ (Wsp!Need(p) \o <<Wsp!Op("create", p)>>) \o t \in Seq(WspOps) /\ (Wsp!Need(p) \o <<Wsp!Op("create", p)>>) \o t # <<>>
         /\ ((Wsp!Need(p) \o <<Wsp!Op("create", p)>>) \o t)[1].op \in WspPlainNames
         /\ WspPlain(Wsp!Need(p) \o <<Wsp!Op("create", p)>>)
<1> DEFINE a == Wsp!Need(p) \o <<Wsp!Op("create", p)>>
<1>1. WspPlain(<<Wsp!Op("create", p)>>) /\ WspPlain(Wsp!Need(p))
  BY WspNeedPlain, WspPlainOne DEF WspPlainNames
<1>2. WspPlain(a)
  BY <1>1, WspPlainJoined
<1>3. a # <<>>
  BY <1>1, ConcatProperties, LenProperties, EmptySeq DEF WspPlain, WspOnly
<1> HIDE DEF a
<1>4. a \o t \in Seq(WspOps) /\ a \o t # <<>> /\ (a \o t)[1].op \in WspPlainNames
  BY <1>2, <1>3, WspOpens, WspPlaces DEF WspPlain, WspOnly
<1> QED
  BY <1>2, <1>4 DEF a

\* The clean-up takes what the workspace owns, all of it, top-down.
LEMMA WspSweepFit ==
  ASSUME Wsp!WorkspaceAssumption, NEW owned \in SUBSET Wsp!Profiles
  PROVE  /\ WspFit(Wsp!Sweep(owned))
         /\ \A i \in DOMAIN Wsp!Sweep(owned) : Wsp!Sweep(owned)[i].op \in {"sweep", "swept"}
         /\ \A i \in DOMAIN Wsp!Sweep(owned) : Wsp!Sweep(owned)[i].op = "sweep" => Wsp!Sweep(owned)[i].p \in owned
         /\ \A p \in owned : \E i \in DOMAIN Wsp!Sweep(owned) : Wsp!Sweep(owned)[i] = Wsp!Op("sweep", p)
<1> DEFINE d == Wsp!DeleteOrder(owned)
           a == Wsp!Each("sweep", d)
           b == <<Wsp!Op("swept", Order[1])>>
           s == a \o b
<1>1. WspTopDown(d, owned)
  BY WspDeleteTopDown
<1>2. d \in Seq(owned) /\ Len(d) \in Nat /\ DOMAIN d = 1..Len(d) /\ \A i \in DOMAIN d : d[i] \in owned
  BY <1>1, LenProperties DEF WspTopDown
<1>3. a = [i \in 1..Len(d) |-> Wsp!Op("sweep", d[i])]
  BY <1>2 DEF Wsp!Each
<1>o. Order[1] \in Wsp!Profiles
  BY EmptySeq, LenProperties DEF Wsp!WorkspaceAssumption
<1>4. WspShaped(b) /\ WspUnread(b)
  BY <1>o, WspLone
<1>5. b \in Seq(WspOps) /\ DOMAIN b = {1} /\ b[1].op = "swept" /\ Len(b) = 1
  BY <1>4 DEF WspUnread, WspUnreadNames, WspOnly, Wsp!Op
<1>6. \A i \in 1..Len(d) : Wsp!Op("sweep", d[i]) \in WspOps /\ Wsp!Op("sweep", d[i]).op = "sweep" /\ Wsp!Op("sweep", d[i]).p = d[i]
  BY <1>2 DEF Wsp!Op, WspOps, WspOpNames
<1>7. a \in Seq(WspOps) /\ DOMAIN a = 1..Len(d) /\ Len(a) = Len(d)
  <2>1. a \in [1..Len(d) -> WspOps]
    BY <1>3, <1>6
  <2> QED
    BY <1>2, <2>1
<1> HIDE DEF a, b, d
<1>8. /\ s \in Seq(WspOps)
      /\ \A i \in DOMAIN a : i \in DOMAIN s /\ s[i] = a[i]
      /\ \A j \in DOMAIN b : Len(a) + j \in DOMAIN s /\ s[Len(a) + j] = b[j]
      /\ \A i \in DOMAIN s : i \in DOMAIN a \/ \E j \in DOMAIN b : i = Len(a) + j
  BY <1>5, <1>7, WspPlaces
<1>9. Len(s) = Len(d) + 1
  <2>1. Len(a \o b) = Len(a) + Len(b)
    BY <1>5, <1>7, ConcatProperties
  <2> QED
    BY <1>5, <1>7, <2>1
<1> HIDE DEF s
<1>10. \A i \in DOMAIN s : \/ i \in 1..Len(d) /\ s[i].op = "sweep" /\ s[i].p = d[i]
                           \/ i = Len(d) + 1 /\ s[i].op = "swept"
  BY <1>3, <1>5, <1>6, <1>7, <1>8
<1>11. \A i \in DOMAIN s : s[i].op = "sweep" => i \in 1..Len(d) /\ s[i].p = d[i]
  BY <1>10
<1>12. \A i, j \in DOMAIN s : i < j /\ s[i].op = "sweep" /\ s[j].op = "sweep" => s[i].p \notin Below[s[j].p]
  BY <1>1, <1>2, <1>11 DEF WspTopDown
<1>13. \A i \in DOMAIN s : s[i].op \in {"sweep", "swept"}
  BY <1>10
<1>14. \A i \in DOMAIN s : s[i].op = "swept" => i = Len(s)
  BY <1>9, <1>10
<1>15. WspShaped(s)
  <2>1. \A i \in DOMAIN s : i + 1 \in DOMAIN s => s[i + 1].op \in {"sweep", "swept"}
    BY <1>13
  <2> QED
    BY <1>8, <1>12, <1>13, <1>14, <2>1 DEF WspShaped
<1>16. WspFit(s)
  BY <1>13, <1>15 DEF WspFit, WspBased
<1>17. \A i \in DOMAIN s : s[i].op = "sweep" => s[i].p \in owned
  BY <1>2, <1>11
<1>18. \A p \in owned : \E i \in DOMAIN s : s[i] = Wsp!Op("sweep", p)
  <2> SUFFICES ASSUME NEW p \in owned PROVE \E i \in DOMAIN s : s[i] = Wsp!Op("sweep", p)
    OBVIOUS
  <2>1. PICK i \in DOMAIN d : d[i] = p
    BY <1>1 DEF WspTopDown
  <2>2. i \in DOMAIN a /\ a[i] = Wsp!Op("sweep", p)
    BY <1>2, <1>3, <1>7, <2>1
  <2> QED
    BY <1>8, <2>2
<1>19. Wsp!Sweep(owned) = s
  BY DEF Wsp!Sweep, s, a, b, d
<1> QED
  BY <1>13, <1>16, <1>17, <1>18, <1>19

\* The operation a step is about, and what follows it.
LEMMA WspReading ==
  ASSUME WspForm, wspOps # <<>>
  PROVE  /\ Wsp!P \in Wsp!Profiles /\ Head(wspOps) \in WspOps /\ Head(wspOps) = wspOps[1] /\ wspOps \in Seq(WspOps)
         /\ Tail(wspOps) \in Seq(WspOps) /\ <<>> \o Tail(wspOps) = Tail(wspOps)
         /\ 1 \in DOMAIN wspOps /\ \A i \in DOMAIN Tail(wspOps) : i + 1 \in DOMAIN wspOps /\ Tail(wspOps)[i] = wspOps[i + 1]
         /\ \A i \in DOMAIN wspOps : i = 1 \/ (i - 1 \in DOMAIN Tail(wspOps) /\ wspOps[i] = Tail(wspOps)[i - 1])
<1>1. wspOps \in Seq(WspOps)
  BY DEF WspForm, WspShaped
<1>2. Head(wspOps) \in WspOps /\ Tail(wspOps) \in Seq(WspOps) /\ Len(Tail(wspOps)) = Len(wspOps) - 1 /\ Head(wspOps) = wspOps[1]
      /\ \A i \in 1..Len(Tail(wspOps)) : Tail(wspOps)[i] = wspOps[i + 1]
  BY <1>1, HeadTailProperties
<1>3. <<>> \o Tail(wspOps) = Tail(wspOps)
  BY <1>2, ConcatEmptySeq
<1> DEFINE t == Tail(wspOps)
<1>4. Len(wspOps) \in Nat /\ Len(t) \in Nat /\ DOMAIN wspOps = 1..Len(wspOps) /\ DOMAIN t = 1..Len(t) /\ Len(wspOps) # 0
  BY <1>1, <1>2, LenProperties, EmptySeq
<1>5. Len(t) = Len(wspOps) - 1 /\ \A i \in 1..Len(t) : t[i] = wspOps[i + 1]
  BY <1>2
<1> HIDE DEF t
<1>6. 1 \in DOMAIN wspOps /\ \A i \in DOMAIN t : i + 1 \in DOMAIN wspOps /\ t[i] = wspOps[i + 1]
  BY <1>4, <1>5
<1>7. \A i \in DOMAIN wspOps : i = 1 \/ (i - 1 \in DOMAIN t /\ wspOps[i] = t[i - 1])
  BY <1>4, <1>5
<1>8. Wsp!P \in Wsp!Profiles
  BY <1>2 DEF Wsp!P, WspOps
<1> QED
  BY <1>1, <1>2, <1>3, <1>6, <1>7, <1>8 DEF t

\* How a step changes the operations left: the clean-up and a new case apart, it
\* stays at the first, goes on to the next, or ends the case.
WspShift ==
  \/ wspOps' = wspOps /\ wspBase' = wspBase
  \/ wspOps # <<>> /\ wspOps' = Tail(wspOps) /\ (wspBase' # "none" \/ (Head(wspOps).op # "read" /\ wspBase' = wspBase))
  \/ wspOps # <<>> /\ wspOps' = <<>> /\ wspBase' = wspBase
  \/ wspOps # <<>> /\ Head(wspOps).op = "patch" /\ wspOps' = <<Wsp!Op("restore", Wsp!P)>> /\ wspBase' = wspBase
  \/ wspOps # <<>> /\ Head(wspOps).op = "find" /\ wspOps' = (Wsp!Need(Wsp!P) \o <<Wsp!Op("create", Wsp!P)>>) \o Tail(wspOps) /\ wspBase' = wspBase
  \/ wspOps # <<>> /\ Head(wspOps).op = "post" /\ wspOps' = Wsp!Sweep(wspCreated \cup wspPlanned') /\ wspBase' = wspBase

LEMMA WspShifts == ASSUME WspForm, Wsp!Next PROVE Wsp!StartCase \/ Wsp!Swept \/ WspShift
<1>1. wspOps # <<>> => <<>> \o Tail(wspOps) = Tail(wspOps)
  BY WspReading
<1>2. CASE Wsp!OtherClient
  BY <1>2 DEF Wsp!OtherClient, WspShift
<1>f. CASE Wsp!Find
  BY <1>1, <1>f DEF Wsp!Find, WspShift, Wsp!In, Wsp!Then, Wsp!Ok, Wsp!Leave, Wsp!Raise, Wsp!Aside
<1>c. CASE Wsp!Create
  BY <1>1, <1>c DEF Wsp!Create, WspShift, Wsp!In, Wsp!Then, Wsp!Ok, Wsp!Leave, Wsp!Raise, Wsp!Skip, Wsp!Aside
<1>n. \A step, more, bad : Wsp!Go(step) \/ Wsp!Ok \/ Wsp!Then(<<>>, bad) \/ Wsp!Raise \/ Wsp!Skip =>
        \/ wspOps' = wspOps \/ (wspOps # <<>> => wspOps' = Tail(wspOps)) \/ wspOps' = <<>> \/ (Head(wspOps).op = "patch" /\ wspOps' = <<Wsp!Op("restore", Wsp!P)>>)
  BY <1>1 DEF Wsp!Go, Wsp!Then, Wsp!Ok, Wsp!Leave, Wsp!Raise, Wsp!Skip
<1>3. CASE Wsp!NeedLook
  BY <1>n, <1>3 DEF Wsp!NeedLook, Wsp!In, WspShift, Wsp!Aside
<1>4. CASE Wsp!NeedRepair
  BY <1>n, <1>4 DEF Wsp!NeedRepair, Wsp!In, WspShift, Wsp!Aside
<1>5. CASE Wsp!NeedReplace
  BY <1>n, <1>5 DEF Wsp!NeedReplace, Wsp!In, WspShift, Wsp!Aside
<1>6. CASE Wsp!NeedCreate
  BY <1>n, <1>6 DEF Wsp!NeedCreate, Wsp!In, WspShift, Wsp!Aside
<1>7. CASE Wsp!RemoveLook
  BY <1>n, <1>7 DEF Wsp!RemoveLook, Wsp!In, WspShift, Wsp!Aside
<1>8. CASE Wsp!RemoveDelete
  BY <1>n, <1>8 DEF Wsp!RemoveDelete, Wsp!In, WspShift, Wsp!Aside
<1>9. CASE Wsp!Absent
  BY <1>n, <1>9 DEF Wsp!Absent, Wsp!In, WspShift, Wsp!Aside
<1>10. CASE Wsp!AbsentAgain
  BY <1>n, <1>10 DEF Wsp!AbsentAgain, Wsp!In, WspShift, Wsp!Aside
<1>11. CASE Wsp!ReadBase
  BY <1>1, <1>11 DEF Wsp!ReadBase, WspShift, Wsp!In, Wsp!Then, Wsp!Ok, Wsp!Leave, Wsp!Raise
<1>12. CASE Wsp!PatchCall
  BY <1>n, <1>12 DEF Wsp!PatchCall, Wsp!In, WspShift, Wsp!Aside
<1>13. CASE Wsp!Restore
  BY <1>n, <1>13 DEF Wsp!Restore, Wsp!In, WspShift, Wsp!Aside
<1>14. CASE Wsp!Await
  BY <1>n, <1>14 DEF Wsp!Await, WspForm, Wsp!In, WspShift, Wsp!Aside
<1>15. CASE Wsp!PatchInvalid
  BY <1>n, <1>15 DEF Wsp!PatchInvalid, Wsp!In, WspShift, Wsp!Aside
<1>16. CASE Wsp!Compare
  BY <1>n, <1>16 DEF Wsp!Compare, Wsp!In, WspShift, Wsp!Aside
<1>17. CASE Wsp!PostInvalid
  BY <1>n, <1>17 DEF Wsp!PostInvalid, Wsp!In, WspShift, Wsp!Aside
<1>18. CASE Wsp!Residual
  BY <1>n, <1>18 DEF Wsp!Residual, Wsp!In, WspShift, Wsp!Aside
<1>19. CASE Wsp!ResidualGone
  BY <1>n, <1>19 DEF Wsp!ResidualGone, Wsp!In, WspShift, Wsp!Aside
<1>20. CASE Wsp!SweepLook
  BY <1>n, <1>20 DEF Wsp!SweepLook, Wsp!In, WspShift, Wsp!Bad, Wsp!InSweep
<1>21. CASE Wsp!SweepDelete
  BY <1>n, <1>21 DEF Wsp!SweepDelete, Wsp!In, WspShift, Wsp!Bad, Wsp!InSweep
<1>22. CASE Wsp!SweepGone
  BY <1>n, <1>22 DEF Wsp!SweepGone, Wsp!In, WspShift, Wsp!Bad, Wsp!InSweep
<1> QED
  BY <1>2, <1>f, <1>c, <1>3, <1>4, <1>5, <1>6, <1>7, <1>8, <1>9, <1>10, <1>11, <1>12, <1>13, <1>14, <1>15,
     <1>16, <1>17, <1>18, <1>19, <1>20, <1>21, <1>22 DEF Wsp!Next, Wsp!Tests

\* Who waits: for the content of a prerequisite, of a PATCH or of its restore.
LEMMA WspWaits == ASSUME WspForm, Wsp!Next PROVE wspAt' \in WspSteps /\ (wspAt' = "await" => wspOps' # <<>> /\ Head(wspOps').op \in {"need", "patch", "restore", "compare"})
<1> USE DEF WspSteps
<1>1. wspAt \in WspSteps /\ (wspAt = "await" => wspOps # <<>> /\ Head(wspOps).op \in {"need", "patch", "restore", "compare"})
  BY DEF WspForm
<1>2. CASE wspAt' = "call"
  BY <1>2
<1>3. CASE UNCHANGED <<wspAt, wspOps>>
  BY <1>1, <1>3
<1>4. CASE wspOps = <<>>
  BY <1>1, <1>4 DEF Wsp!Next, Wsp!Tests, Wsp!StartCase, Wsp!Find, Wsp!Create, Wsp!NeedLook, Wsp!NeedRepair,
     Wsp!NeedReplace, Wsp!NeedCreate, Wsp!RemoveLook,
     Wsp!RemoveDelete, Wsp!Absent, Wsp!AbsentAgain, Wsp!ReadBase, Wsp!PatchCall, Wsp!Restore, Wsp!Await, Wsp!PatchInvalid, Wsp!Compare, Wsp!PostInvalid, Wsp!Residual,
     Wsp!ResidualGone, Wsp!SweepLook, Wsp!SweepDelete, Wsp!SweepGone, Wsp!Swept, Wsp!In, Wsp!OtherClient
<1>5. CASE wspOps # <<>> /\ \E step \in WspSteps : Wsp!Go(step) /\ (step = "await" => Head(wspOps).op \in {"need", "patch", "restore", "compare"})
  BY <1>5 DEF Wsp!Go
<1>7. Wsp!Next => \/ wspAt' = "call" \/ UNCHANGED <<wspAt, wspOps>> \/ wspOps = <<>>
                  \/ wspOps # <<>> /\ \E step \in WspSteps : Wsp!Go(step) /\ (step = "await" => Head(wspOps).op \in {"need", "patch", "restore", "compare"})
  BY DEF Wsp!Next, Wsp!Tests, Wsp!StartCase, Wsp!Find, Wsp!Create, Wsp!NeedLook, Wsp!NeedRepair,
     Wsp!NeedReplace, Wsp!NeedCreate, Wsp!RemoveLook,
     Wsp!RemoveDelete, Wsp!Absent, Wsp!AbsentAgain, Wsp!ReadBase, Wsp!PatchCall, Wsp!Restore, Wsp!Await, Wsp!PatchInvalid, Wsp!Compare, Wsp!PostInvalid, Wsp!Residual,
     Wsp!ResidualGone, Wsp!SweepLook, Wsp!SweepDelete, Wsp!SweepGone, Wsp!Swept, Wsp!In, Wsp!OtherClient, Wsp!Ok, Wsp!Then, Wsp!Raise, Wsp!Skip, Wsp!Leave, Wsp!Bad, Wsp!InSweep
<1> QED
  BY <1>2, <1>3, <1>4, <1>5, <1>7

\* What a PATCH restores has been read before.
LEMMA WspReady == ASSUME WspForm, wspOps # <<>>, Head(wspOps).op \in {"patch", "restore", "compare"} PROVE wspBase # "none"
<1>1. 1 \in DOMAIN wspOps /\ wspOps[1] = Head(wspOps) /\ wspOps \in Seq(WspOps)
  BY WspReading
<1>2. wspBase # "none" \/ \E j \in DOMAIN wspOps : j < 1 /\ wspOps[j].op = "read"
  BY <1>1 DEF WspForm, WspBased
<1>3. \A j \in DOMAIN wspOps : ~(j < 1)
  BY <1>1, LenProperties
<1> QED
  BY <1>2, <1>3

\* What a step does on the EMS.
WspEmsStep ==
  \/ UNCHANGED <<wspProf, wspOurs>>
  \/ \E p \in Wsp!Profiles : Wsp!Has(p) /\ wspProf' = [wspProf EXCEPT ![p] = "none"] /\ wspOurs' = wspOurs \ {p}
  \/ \E p \in Wsp!Profiles : ~Wsp!Has(p) /\ wspProf' = [wspProf EXCEPT ![p] = "yaml"] /\ wspOurs' = wspOurs \cup {p}
  \/ \E p \in Wsp!Profiles, content \in Wsp!Contents \ {"none"} : Wsp!Has(p) /\ wspProf' = [wspProf EXCEPT ![p] = content] /\ wspOurs' = wspOurs
  \/ \E p \in Wsp!Profiles : ~Wsp!Has(p) /\ wspProf' = [wspProf EXCEPT ![p] = "other"] /\ wspOurs' = wspOurs /\ p \in wspUnsure'

LEMMA WspEmsSteps == ASSUME WspForm, WspWorld, Wsp!Next PROVE WspEmsStep
<1>b. wspOps # <<>> /\ Head(wspOps).op \in {"restore", "compare"} => wspBase \in Wsp!Contents \ {"none"}
  BY WspReady DEF WspWorld
<1>1. CASE Wsp!StartCase \/ Wsp!Swept
  BY <1>1 DEF Wsp!StartCase, Wsp!Swept, WspEmsStep, Wsp!ems
<1>2. CASE Wsp!OtherClient
  BY <1>2 DEF Wsp!OtherClient, WspEmsStep, Wsp!Drop, Wsp!Write
<1>e. \A p, answer : p \in Wsp!Profiles /\ (Wsp!Deletes(p, answer) \/ Wsp!Posts(p, answer)) => WspEmsStep
  BY DEF Wsp!Deletes, Wsp!Posts, WspEmsStep, Wsp!Drop, Wsp!Enter, Wsp!Write, Wsp!ems
<1>a. \A p, answer, content : p \in Wsp!Profiles /\ content \in Wsp!Contents \ {"none"} /\ Wsp!Patches(p, content, answer) => WspEmsStep
  BY DEF Wsp!Patches, WspEmsStep, Wsp!Alter, Wsp!Write, Wsp!ems
<1>p. wspOps # <<>> => Wsp!P \in Wsp!Profiles
  BY WspReading
<1>3. CASE Wsp!Find
  BY <1>3 DEF Wsp!Find, WspEmsStep, Wsp!ems
<1>4. CASE Wsp!Create
  BY <1>4, <1>e, <1>p DEF Wsp!Create, Wsp!In
<1>5. CASE Wsp!NeedLook
  BY <1>5 DEF Wsp!NeedLook, WspEmsStep, Wsp!ems
<1>6. CASE Wsp!NeedRepair
  BY <1>6, <1>a, <1>p DEF Wsp!NeedRepair, Wsp!In, Wsp!Contents
<1>7. CASE Wsp!NeedReplace
  BY <1>7, <1>e, <1>p DEF Wsp!NeedReplace, Wsp!In
<1>8. CASE Wsp!NeedCreate
  BY <1>8, <1>e, <1>p DEF Wsp!NeedCreate, Wsp!In
<1>9. CASE Wsp!RemoveLook
  BY <1>9 DEF Wsp!RemoveLook, WspEmsStep, Wsp!ems
<1>10. CASE Wsp!RemoveDelete
  BY <1>10, <1>e, <1>p DEF Wsp!RemoveDelete, Wsp!In
<1>11. CASE Wsp!Absent
  BY <1>11 DEF Wsp!Absent, WspEmsStep, Wsp!ems
<1>12. CASE Wsp!AbsentAgain
  BY <1>12, <1>e, <1>p DEF Wsp!AbsentAgain, Wsp!In
<1>13. CASE Wsp!ReadBase
  BY <1>13 DEF Wsp!ReadBase, WspEmsStep, Wsp!ems
<1>14. CASE Wsp!PatchCall
  BY <1>14, <1>a, <1>p DEF Wsp!PatchCall, Wsp!In, Wsp!Contents
<1>15. CASE Wsp!Restore
  BY <1>15, <1>a, <1>p, <1>b DEF Wsp!Restore, Wsp!In
<1>16. CASE Wsp!Await
  BY <1>16 DEF Wsp!Await, WspEmsStep, Wsp!ems
<1>17. CASE Wsp!PatchInvalid
  BY <1>17, <1>a, <1>p DEF Wsp!PatchInvalid, Wsp!In, Wsp!Contents
<1>18. CASE Wsp!Compare
  BY <1>18 DEF Wsp!Compare, WspEmsStep, Wsp!ems
<1>19. CASE Wsp!PostInvalid
  BY <1>19, <1>e, <1>p DEF Wsp!PostInvalid, Wsp!In
<1>20. CASE Wsp!Residual
  BY <1>20 DEF Wsp!Residual, WspEmsStep, Wsp!ems
<1>21. CASE Wsp!ResidualGone
  BY <1>21 DEF Wsp!ResidualGone, WspEmsStep, Wsp!ems
<1>22. CASE Wsp!SweepLook
  BY <1>22 DEF Wsp!SweepLook, WspEmsStep, Wsp!ems
<1>23. CASE Wsp!SweepDelete
  BY <1>23, <1>e, <1>p DEF Wsp!SweepDelete, Wsp!In
<1>24. CASE Wsp!SweepGone
  BY <1>24 DEF Wsp!SweepGone, WspEmsStep, Wsp!ems
<1> QED
  BY <1>1, <1>2, <1>3, <1>4, <1>5, <1>6, <1>7, <1>8, <1>9, <1>10, <1>11, <1>12, <1>13, <1>14, <1>15,
     <1>16, <1>17, <1>18, <1>19, <1>20, <1>21, <1>22, <1>23, <1>24 DEF Wsp!Next, Wsp!Tests

LEMMA WspWorldKept == ASSUME Wsp!WorkspaceAssumption, WspForm, WspWorld, Wsp!Next PROVE WspWorld'
<1>1. WspEmsStep
  BY WspEmsSteps
<1>2. wspProf' \in [Wsp!Profiles -> Wsp!Contents] /\ wspOurs' \subseteq Wsp!Profiles
  BY <1>1 DEF WspWorld, WspEmsStep, Wsp!Contents
<1>3. \A p \in wspOurs' : wspProf'[p] # "none"
  BY <1>1, <1>2 DEF WspWorld, WspEmsStep, Wsp!Has
<1>p. wspOps # <<>> => Wsp!P \in Wsp!Profiles
  BY WspReading
<1>4. wspBase' \in Wsp!Contents
  <2>1. CASE Wsp!ReadBase
    BY <2>1, <1>p DEF Wsp!ReadBase, Wsp!In, Wsp!Looks, WspWorld
  <2>2. CASE ~Wsp!ReadBase
    BY <2>2 DEF Wsp!Next, Wsp!Tests, Wsp!StartCase, Wsp!Swept, Wsp!OtherClient, Wsp!Find, Wsp!Create,
       Wsp!NeedLook, Wsp!NeedRepair, Wsp!NeedReplace, Wsp!NeedCreate, Wsp!RemoveLook, Wsp!RemoveDelete,
       Wsp!Absent, Wsp!AbsentAgain,
         Wsp!PatchCall, Wsp!Restore, Wsp!Await, Wsp!PatchInvalid, Wsp!Compare, Wsp!PostInvalid, Wsp!Residual, Wsp!ResidualGone, Wsp!SweepLook,
         Wsp!SweepDelete, Wsp!SweepGone, Wsp!Aside, WspWorld
  <2> QED
    BY <2>1, <2>2
<1>5. wspUnsure' \subseteq Wsp!Profiles
  BY <1>p DEF Wsp!Next, Wsp!Tests, Wsp!StartCase, Wsp!Swept, Wsp!OtherClient, Wsp!Find, Wsp!Create,
     Wsp!NeedLook, Wsp!NeedRepair, Wsp!NeedReplace, Wsp!NeedCreate, Wsp!RemoveLook, Wsp!RemoveDelete,
     Wsp!Absent, Wsp!AbsentAgain,
         Wsp!ReadBase, Wsp!PatchCall, Wsp!Restore, Wsp!Await, Wsp!PatchInvalid, Wsp!Compare, Wsp!PostInvalid, Wsp!Residual, Wsp!ResidualGone, Wsp!SweepLook,
         Wsp!SweepDelete, Wsp!SweepGone, Wsp!Doubt, WspWorld, Wsp!In, Wsp!Write
<1>8. wspPinned' \subseteq Wsp!Profiles
  <2>1. \A p, answer, content : Wsp!Deletes(p, answer) \/ Wsp!Posts(p, answer) \/ Wsp!Patches(p, content, answer) => wspPinned' = wspPinned
    BY DEF Wsp!Deletes, Wsp!Posts, Wsp!Patches, Wsp!Drop, Wsp!Enter, Wsp!Alter, Wsp!Write, Wsp!ems
  <2>2. wspPinned' = wspPinned \/ Wsp!OtherClient
    BY <2>1 DEF Wsp!Next, Wsp!Tests, Wsp!StartCase, Wsp!Swept, Wsp!Find, Wsp!Create, Wsp!NeedLook,
       Wsp!NeedRepair, Wsp!NeedReplace, Wsp!NeedCreate, Wsp!RemoveLook, Wsp!RemoveDelete, Wsp!Absent,
       Wsp!AbsentAgain,
         Wsp!ReadBase, Wsp!PatchCall, Wsp!Restore, Wsp!Await, Wsp!PatchInvalid, Wsp!Compare, Wsp!PostInvalid, Wsp!Residual, Wsp!ResidualGone, Wsp!SweepLook,
         Wsp!SweepDelete, Wsp!SweepGone, Wsp!ems
  <2>3. CASE Wsp!OtherClient
    BY <2>3 DEF Wsp!OtherClient, WspWorld, Wsp!Drop, Wsp!Write
  <2> QED
    BY <2>2, <2>3 DEF WspWorld
<1>6. Wsp!wksp' = Wsp!wksp \/ (wspOps # <<>> /\ (Wsp!Plan(Wsp!P) \/ Wsp!Add(Wsp!P) \/ Wsp!Borrow(Wsp!P) \/ Wsp!Discard(Wsp!P) \/ Wsp!Forget)) \/ (wspBorrowed'
        = {} /\ UNCHANGED <<wspCreated, wspPlanned>>)
  BY DEF Wsp!Next, Wsp!Tests, Wsp!StartCase, Wsp!Swept, Wsp!OtherClient, Wsp!Find, Wsp!Create, Wsp!NeedLook,
     Wsp!NeedRepair, Wsp!NeedReplace,
     Wsp!NeedCreate, Wsp!RemoveLook, Wsp!RemoveDelete, Wsp!Absent, Wsp!AbsentAgain, Wsp!ReadBase, Wsp!PatchCall, Wsp!Restore, Wsp!Await,
     Wsp!PatchInvalid, Wsp!Compare, Wsp!PostInvalid, Wsp!Residual, Wsp!ResidualGone, Wsp!SweepLook, Wsp!SweepDelete, Wsp!SweepGone, Wsp!Same,
     Wsp!In, Wsp!InSweep, Wsp!wksp
<1>7. /\ wspCreated' \subseteq Wsp!Profiles /\ wspPlanned' \subseteq Wsp!Profiles /\ wspBorrowed' \subseteq Wsp!Profiles
      /\ (wspCreated' \cup wspBorrowed') \cap wspPlanned' = {} /\ wspCreated' \cap wspBorrowed' = {}
  BY <1>6, <1>p DEF WspWorld, Wsp!wksp, Wsp!Plan, Wsp!Add, Wsp!Borrow, Wsp!Discard, Wsp!Forget
<1> QED
  BY <1>2, <1>3, <1>4, <1>5, <1>7, <1>8 DEF WspWorld, Wsp!Has

LEMMA WspFormKept == ASSUME Wsp!WorkspaceAssumption, WspForm, WspWorld, [Wsp!Next]_(Wsp!vars) PROVE WspForm'
<1>1. CASE UNCHANGED Wsp!vars
  BY <1>1 DEF WspForm, WspShaped, WspBased, Wsp!vars, Wsp!ctl
<1> SUFFICES ASSUME Wsp!Next PROVE WspForm'
  BY <1>1
<1>2. wspAt' \in WspSteps /\ (wspAt' = "await" => wspOps' # <<>> /\ Head(wspOps').op \in {"need", "patch", "restore", "compare"})
  BY WspWaits
<1>3. wspCreated \in SUBSET Wsp!Profiles /\ wspPlanned \in SUBSET Wsp!Profiles
  BY DEF WspWorld
<1>4. CASE Wsp!StartCase
  <2>1. CASE wspCases # <<>>
    <3>1. wspCases \in Seq(WspCases) /\ Head(wspCases) \in WspCases /\ Tail(wspCases) \in Seq(WspCases)
      BY <2>1, HeadTailProperties DEF WspForm
    <3>2. WspFit(wspOps') /\ wspCase' = Head(wspCases) /\ wspCases' = Tail(wspCases) /\ wspTorn' = "no"
      BY <1>4, <2>1, <3>1, WspCaseFit DEF Wsp!StartCase
    <3>3. wspCase'.op \in Wsp!CaseNames /\ wspCase' \in [op : Wsp!CaseNames \cup {"start", "end"}, p : Wsp!Profiles] /\ wspCase'.op # "end"
      BY <3>1, <3>2 DEF WspCases, Wsp!CaseNames
    <3> QED
      BY <1>2, <3>1, <3>2, <3>3 DEF WspForm, WspFit
  <2>2. CASE wspCases = <<>>
    <3>1. WspFit(wspOps') /\ (\A i \in DOMAIN wspOps' : wspOps'[i].op \in {"sweep", "swept"}) /\ wspCase' = Wsp!Op("end", Order[1])
          /\ wspCases' = wspCases /\ wspTorn' = "no"
      BY <1>3, <1>4, <2>2, WspSweepFit DEF Wsp!StartCase
    <3>2. Order[1] \in Wsp!Profiles
      BY EmptySeq, LenProperties DEF Wsp!WorkspaceAssumption
    <3>3. wspCase' \in [op : Wsp!CaseNames \cup {"start", "end"}, p : Wsp!Profiles] /\ wspCase'.op = "end"
      BY <3>1, <3>2 DEF Wsp!Op
    <3> QED
      BY <1>2, <3>1, <3>3 DEF WspForm, WspFit
  <2> QED
    BY <2>1, <2>2
<1>5. CASE Wsp!Swept
  <2>0. UNCHANGED <<wspCases, wspCase>> /\ wspCases \in Seq(WspCases) /\ wspCase \in [op : Wsp!CaseNames \cup {"start", "end"}, p : Wsp!Profiles]
    BY <1>5 DEF Wsp!Swept, WspForm
  <2>1. CASE wspCase.op = "end"
    <3>1. wspOps' = <<>>
      BY <1>5, <2>1 DEF Wsp!Swept
    <3>2. WspShaped(wspOps') /\ WspBased(wspOps', wspBase') /\ (\A i \in DOMAIN wspOps' : wspOps'[i].op \in {"sweep", "swept"})
      BY <3>1 DEF WspShaped, WspBased
    <3> QED
      BY <1>2, <2>0, <2>1, <3>1, <3>2 DEF WspForm
  <2>2. CASE wspCase.op # "end"
    <3>1. wspCase \in WspCases
      BY <1>5, <2>2 DEF Wsp!Swept, WspForm, Wsp!In, WspCases
    <3>2. WspFit(Wsp!OpsOf(wspCase)) /\ (wspOps' = <<>> \/ wspOps' = Wsp!OpsOf(wspCase)) /\ wspTorn' = wspTorn /\ wspTorn = "no"
      BY <1>5, <2>2, <3>1, WspCaseFit DEF Wsp!Swept, Wsp!In, WspForm
    <3>a. WspShaped(<<>>) /\ WspBased(<<>>, wspBase')
      BY DEF WspShaped, WspBased
    <3>3. WspShaped(wspOps') /\ WspBased(wspOps', wspBase')
      BY <3>2, <3>a DEF WspFit
    <3> QED
      BY <1>2, <2>0, <2>2, <3>1, <3>2, <3>3 DEF WspForm, WspCases
  <2> QED
    BY <2>1, <2>2
<1>6. CASE WspShift /\ ~Wsp!StartCase /\ ~Wsp!Swept
  <2>0. UNCHANGED <<wspCases, wspCase, wspTorn>>
    BY <1>6 DEF Wsp!Next, Wsp!Tests, Wsp!Find, Wsp!Create, Wsp!NeedLook, Wsp!NeedRepair, Wsp!NeedReplace,
       Wsp!NeedCreate, Wsp!RemoveLook,
     Wsp!RemoveDelete, Wsp!Absent, Wsp!AbsentAgain, Wsp!ReadBase, Wsp!PatchCall, Wsp!Restore, Wsp!Await, Wsp!PatchInvalid, Wsp!Compare, Wsp!PostInvalid, Wsp!Residual,
     Wsp!ResidualGone, Wsp!SweepLook, Wsp!SweepDelete, Wsp!SweepGone, Wsp!OtherClient, Wsp!Ok, Wsp!Then, Wsp!Raise, Wsp!Skip, Wsp!Leave, Wsp!Bad, Wsp!Go, Wsp!ctl
  <2>n. /\ wspCases \in Seq(WspCases) /\ wspCase \in [op : Wsp!CaseNames \cup {"start", "end"}, p : Wsp!Profiles]
        /\ wspOps # <<>> /\ wspCase.op # "end" => wspCase.op \in Wsp!CaseNames
        /\ wspTorn # "no" => wspOps = <<>>
        /\ wspCase.op = "end" => \A i \in DOMAIN wspOps : wspOps[i].op \in {"sweep", "swept"}
        /\ WspShaped(wspOps) /\ WspBased(wspOps, wspBase) /\ wspOps \in Seq(WspOps)
    BY DEF WspForm, WspShaped
  <2> SUFFICES /\ WspShaped(wspOps') /\ WspBased(wspOps', wspBase')
               /\ wspOps' # <<>> => wspOps # <<>>
               /\ wspCase.op = "end" => \A i \in DOMAIN wspOps' : wspOps'[i].op \in {"sweep", "swept"}
    BY <1>2, <2>0, <2>n DEF WspForm
  <2>1. CASE wspOps' = wspOps /\ wspBase' = wspBase
    BY <2>1, <2>n
  <2>2. CASE wspOps # <<>> /\ wspOps' = Tail(wspOps) /\ (wspBase' # "none" \/ (Head(wspOps).op # "read" /\ wspBase' = wspBase))
    <3>1. WspShaped(wspOps') /\ WspBased(wspOps', wspBase')
      BY <2>2, <2>n, WspShapedTail, WspBasedTail
    <3> QED
      BY <2>2, <2>n, <3>1, WspReading
  <2>3. CASE wspOps # <<>> /\ wspOps' = <<>> /\ wspBase' = wspBase
    BY <2>3 DEF WspShaped, WspBased
  <2>4. CASE wspOps # <<>> /\ Head(wspOps).op = "patch" /\ wspOps' = <<Wsp!Op("restore", Wsp!P)>> /\ wspBase' = wspBase
    <3>1. Wsp!P \in Wsp!Profiles /\ 1 \in DOMAIN wspOps /\ wspOps[1].op = "patch"
      BY <2>4, WspReading
    <3>2. WspShaped(wspOps')
      BY <2>4, <3>1, WspPlainOne, WspPlainShaped DEF WspPlainNames
    <3>3. wspBase # "none"
      BY <2>4, WspReady
    <3> QED
      BY <2>4, <2>n, <3>1, <3>2, <3>3 DEF WspBased
  <2>5. CASE wspOps # <<>> /\ Head(wspOps).op = "find" /\ wspOps' = (Wsp!Need(Wsp!P) \o <<Wsp!Op("create", Wsp!P)>>) \o Tail(wspOps) /\ wspBase' = wspBase
    <3> DEFINE a == Wsp!Need(Wsp!P) \o <<Wsp!Op("create", Wsp!P)>>
               t == Tail(wspOps)
    <3>1. Wsp!P \in Wsp!Profiles /\ 1 \in DOMAIN wspOps /\ wspOps[1] = Head(wspOps) /\ t \in Seq(WspOps)
          /\ \A i \in DOMAIN t : i + 1 \in DOMAIN wspOps /\ t[i] = wspOps[i + 1]
      BY <2>5, WspReading
    <3>2. WspPlain(a) /\ WspUnread(a)
      BY <3>1, WspNeedPlain, WspPlainOne, WspUnreadOne, WspPlainJoined, WspUnreadJoined DEF WspPlainNames,
         WspUnreadNames, WspOpNames
    <3>3. WspShaped(t) /\ WspBased(t, wspBase)
      BY <2>5, <2>n, WspShapedTail, WspBasedTail
    <3>4. t # <<>> => t[1].op \notin {"residual", "absent"}
      <4> SUFFICES ASSUME t # <<>>, t[1].op \in {"residual", "absent"} PROVE FALSE
        OBVIOUS
      <4>1. 1 \in DOMAIN t
        BY <3>1, LenProperties, EmptySeq
      <4>2. 1 + 1 \in DOMAIN wspOps /\ wspOps[1 + 1] = t[1]
        BY <3>1, <4>1
      <4> QED
        BY <2>5, <2>n, <3>1, <4>2 DEF WspShaped, Wsp!Op
    <3> HIDE DEF a, t
    <3>5. WspShaped(a \o t) /\ WspBased(a \o t, wspBase)
      BY <3>1, <3>2, <3>3, <3>4, WspJoined, WspBasedJoined DEF WspLed
    <3>6. wspCase.op # "end"
      BY <2>5, <2>n, <3>1
    <3> QED
      BY <2>5, <3>5, <3>6 DEF a, t
  <2>6. CASE wspOps # <<>> /\ Head(wspOps).op = "post" /\ wspOps' = Wsp!Sweep(wspCreated \cup wspPlanned') /\ wspBase' = wspBase
    <3>1. wspPlanned' \in SUBSET Wsp!Profiles
      BY WspWorldKept DEF WspWorld
    <3> QED
      BY <1>3, <2>6, <3>1, WspSweepFit DEF WspFit
  <2> QED
    BY <1>6, <2>1, <2>2, <2>3, <2>4, <2>5, <2>6 DEF WspShift
<1> QED
  BY <1>4, <1>5, <1>6, WspShifts

\* Whatever happens to a profile the run knows of, it stays known.
LEMMA WspDoubts == ASSUME WspForm, WspWorld, Wsp!Next PROVE wspUnsure \subseteq wspUnsure'
  BY DEF Wsp!Next, Wsp!Tests, Wsp!StartCase, Wsp!Swept, Wsp!OtherClient, Wsp!Find, Wsp!Create, Wsp!NeedLook,
     Wsp!NeedRepair, Wsp!NeedReplace, Wsp!NeedCreate,
     Wsp!RemoveLook, Wsp!RemoveDelete, Wsp!Absent, Wsp!AbsentAgain, Wsp!ReadBase, Wsp!PatchCall, Wsp!Restore, Wsp!Await, Wsp!PatchInvalid, Wsp!Compare, Wsp!PostInvalid,
     Wsp!Residual, Wsp!ResidualGone, Wsp!SweepLook, Wsp!SweepDelete, Wsp!SweepGone, Wsp!Doubt

WspKnownNext(p) == wspProf'[p] # "none" => p \in wspOurs' \cup wspUnsure'

LEMMA WspKnownKept == ASSUME WspForm, WspWorld, Wsp!Next, NEW p \in Wsp!Profiles, WspKnown(p) PROVE WspKnownNext(p)
<1>1. WspEmsStep /\ wspUnsure \subseteq wspUnsure' /\ wspProf \in [Wsp!Profiles -> Wsp!Contents]
  BY WspEmsSteps, WspDoubts DEF WspWorld
<1> QED
  BY <1>1 DEF WspEmsStep, WspKnown, WspKnownNext, Wsp!Has

\* What a POST may have created is known.
LEMMA WspPosted ==
  ASSUME WspWorld, NEW p \in Wsp!Profiles, NEW answer \in {"ok", "error", "capacity", "raise"}, Wsp!Posts(p, answer), Wsp!Doubt(p, answer)
  PROVE  WspKnownNext(p)
  BY DEF Wsp!Posts, Wsp!Doubt, Wsp!Enter, Wsp!Write, WspKnownNext, Wsp!Has, WspWorld, Wsp!ems

\* What the workspace is to delete is known.
LEMMA WspOwnedKnown == ASSUME WspForm, WspWorld, WspSpared, Wsp!Next PROVE \A p \in wspCreated' \cup wspPlanned' : WspKnownNext(p)
<1>p. wspOps # <<>> => Wsp!P \in Wsp!Profiles
  BY WspReading
<1>2. \A p \in wspCreated \cup wspPlanned : WspKnownNext(p)
  BY WspKnownKept DEF WspSpared, WspWorld
<1>3. CASE Wsp!Create \/ Wsp!NeedCreate \/ Wsp!PostInvalid
  <2>1. WspKnownNext(Wsp!P) /\ Wsp!P \in Wsp!Profiles
    BY <1>3, <1>p, WspPosted DEF Wsp!Create, Wsp!NeedCreate, Wsp!PostInvalid, Wsp!In
  <2>2. wspCreated' \cup wspPlanned' \subseteq wspCreated \cup wspPlanned \cup {Wsp!P}
    BY <1>3 DEF Wsp!Create, Wsp!NeedCreate, Wsp!PostInvalid, Wsp!Plan, Wsp!Add
  <2> QED
    BY <1>2, <2>1, <2>2
<1>4. CASE Wsp!Residual
  <2>1. Wsp!P \in Wsp!Profiles /\ WspKnown(Wsp!P)
    BY <1>4, <1>p DEF Wsp!Residual, Wsp!In, WspSpared, Wsp!P
  <2>2. wspCreated' \cup wspPlanned' \subseteq wspCreated \cup wspPlanned \cup {Wsp!P}
    BY <1>4 DEF Wsp!Residual, Wsp!Same, Wsp!Discard, Wsp!Add, Wsp!wksp
  <2> QED
    BY <1>2, <2>1, <2>2, WspKnownKept
<1>5. wspCreated' \cup wspPlanned' \subseteq wspCreated \cup wspPlanned \/ Wsp!Create \/ Wsp!NeedCreate \/ Wsp!PostInvalid \/ Wsp!Residual
  BY DEF Wsp!Next, Wsp!Tests, Wsp!StartCase, Wsp!Swept, Wsp!OtherClient, Wsp!Find, Wsp!NeedLook,
     Wsp!NeedRepair, Wsp!NeedReplace, Wsp!RemoveLook, Wsp!RemoveDelete,
     Wsp!Absent, Wsp!AbsentAgain, Wsp!ReadBase, Wsp!PatchCall, Wsp!Restore, Wsp!Await, Wsp!PatchInvalid, Wsp!Compare, Wsp!ResidualGone, Wsp!SweepLook, Wsp!SweepDelete,
     Wsp!SweepGone, Wsp!Same, Wsp!Borrow, Wsp!Discard, Wsp!Forget, Wsp!wksp
<1> QED
  BY <1>2, <1>3, <1>4, <1>5

LEMMA WspSparedKept == ASSUME Wsp!WorkspaceAssumption, WspForm, WspWorld, WspSpared, [Wsp!Next]_(Wsp!vars) PROVE WspSpared'
<1>1. CASE UNCHANGED Wsp!vars
  BY <1>1 DEF WspSpared, WspKnown, Wsp!Has, Wsp!CleanUpSparesOthers, Wsp!vars, Wsp!wksp, Wsp!ems
<1> SUFFICES ASSUME Wsp!Next PROVE WspSpared'
  BY <1>1
<1>2. \A p \in wspCreated' \cup wspPlanned' : WspKnownNext(p)
  BY WspOwnedKnown
<1>3. \A p \in Wsp!Profiles : WspKnown(p) => WspKnownNext(p)
  BY WspKnownKept
<1>w. /\ wspCreated \in SUBSET Wsp!Profiles /\ wspPlanned \in SUBSET Wsp!Profiles
      /\ wspCreated' \in SUBSET Wsp!Profiles /\ wspPlanned' \in SUBSET Wsp!Profiles
  BY WspWorldKept DEF WspWorld
<1>r. /\ wspOps # <<>> => /\ Wsp!P \in Wsp!Profiles /\ Head(wspOps) = wspOps[1] /\ 1 \in DOMAIN wspOps
                          /\ \A i \in DOMAIN Tail(wspOps) : i + 1 \in DOMAIN wspOps /\ Tail(wspOps)[i] = wspOps[i + 1]
                          /\ Tail(wspOps) \in Seq(WspOps)
  BY WspReading
<1>s. wspOps \in Seq(WspOps) /\ \A i \in DOMAIN wspOps : wspOps[i].p \in Wsp!Profiles
  <2>1. wspOps \in Seq(WspOps)
    BY DEF WspForm, WspShaped
  <2>2. \A i \in DOMAIN wspOps : wspOps[i] \in WspOps
    BY <2>1
  <2> QED
    BY <2>1, <2>2 DEF WspOps
<1>h. \A q \in Seq(WspOps) : q # <<>> => Head(q) = q[1] /\ 1 \in DOMAIN q
  BY HeadTailProperties, LenProperties, EmptySeq
<1>o. \A i \in DOMAIN wspOps : wspOps[i].op = "sweep" => WspKnownNext(wspOps[i].p)
  BY <1>3, <1>s DEF WspSpared
<1>a. ASSUME NEW owned \in SUBSET Wsp!Profiles, wspOps' = Wsp!Sweep(owned), \A p \in owned : WspKnownNext(p)
      PROVE  /\ \A i \in DOMAIN wspOps' : wspOps'[i].op = "sweep" => WspKnownNext(wspOps'[i].p)
             /\ wspOps' # <<>> => Head(wspOps').op # "residual"
  <2>1. /\ \A i \in DOMAIN wspOps' : wspOps'[i].op \in {"sweep", "swept"}
        /\ \A i \in DOMAIN wspOps' : wspOps'[i].op = "sweep" => wspOps'[i].p \in owned
        /\ wspOps' \in Seq(WspOps)
    BY <1>a, WspSweepFit DEF WspFit, WspShaped
  <2> QED
    BY <1>a, <1>h, <2>1
<1>b. ASSUME NEW c \in WspCases, wspOps' = Wsp!OpsOf(c)
      PROVE  /\ \A i \in DOMAIN wspOps' : wspOps'[i].op = "sweep" => WspKnownNext(wspOps'[i].p)
             /\ wspOps' # <<>> => Head(wspOps').op # "residual"
  <2>1. Wsp!OpsOf(c) \in Seq(WspOps) /\ Wsp!OpsOf(c)[1].op \in WspPlainNames /\ \A i \in DOMAIN Wsp!OpsOf(c) : Wsp!OpsOf(c)[i].op # "sweep"
    BY WspCaseOpens DEF WspOnly
  <2> QED
    BY <1>b, <1>h, <2>1 DEF WspPlainNames
<1>4. /\ \A i \in DOMAIN wspOps' : wspOps'[i].op = "sweep" => WspKnownNext(wspOps'[i].p)
      /\ wspOps' # <<>> /\ Head(wspOps').op = "residual" => WspKnownNext(Head(wspOps').p)
  <2>1. CASE Wsp!StartCase
    <3>1. CASE wspCases # <<>>
      <4>1. Head(wspCases) \in WspCases /\ wspOps' = Wsp!OpsOf(Head(wspCases))
        BY <2>1, <3>1, HeadTailProperties DEF WspForm, Wsp!StartCase
      <4> QED
        BY <1>b, <4>1
    <3>2. CASE wspCases = <<>>
      <4>1. wspOps' = Wsp!Sweep(wspCreated \cup wspPlanned) /\ wspCreated' = wspCreated /\ wspPlanned' = wspPlanned
        BY <2>1, <3>2 DEF Wsp!StartCase, Wsp!wksp
      <4> QED
        BY <1>a, <1>2, <1>w, <4>1
    <3> QED
      BY <3>1, <3>2
  <2>2. CASE Wsp!Swept
    <3>1. wspOps' = <<>> \/ (wspOps' = Wsp!OpsOf(wspCase) /\ wspCase \in WspCases)
      BY <2>2 DEF Wsp!Swept, WspForm, Wsp!In, WspCases
    <3> QED
      BY <1>b, <3>1
  <2>3. CASE WspShift /\ ~Wsp!StartCase /\ ~Wsp!Swept
    <3>1. CASE wspOps' = wspOps
      BY <1>o, <1>3, <1>r, <1>s, <3>1 DEF WspSpared, Wsp!P
    <3>2. CASE wspOps # <<>> /\ wspOps' = Tail(wspOps)
      <4>1. \A i \in DOMAIN wspOps' : wspOps'[i].op = "sweep" => WspKnownNext(wspOps'[i].p)
        BY <1>o, <1>r, <3>2
      <4>2. ASSUME wspOps' # <<>>, Head(wspOps').op = "residual" PROVE WspKnownNext(Head(wspOps').p)
        <5>1. Head(wspOps') = wspOps'[1] /\ 1 \in DOMAIN wspOps'
          BY <1>r, <1>h, <3>2, <4>2
        <5>2. 1 + 1 \in DOMAIN wspOps /\ wspOps'[1] = wspOps[1 + 1]
          BY <1>r, <3>2, <5>1
        <5>3. wspOps[1] = Wsp!Op("post_invalid", Head(wspOps').p)
          BY <1>r, <3>2, <4>2, <5>1, <5>2 DEF WspForm, WspShaped
        <5>4. Head(wspOps).op = "post_invalid" /\ Wsp!P = Head(wspOps').p /\ Wsp!P \in Wsp!Profiles
          <6>1. Wsp!Op("post_invalid", Head(wspOps').p).op = "post_invalid" /\ Wsp!Op("post_invalid", Head(wspOps').p).p = Head(wspOps').p
            BY DEF Wsp!Op
          <6>2. Head(wspOps) = Wsp!Op("post_invalid", Head(wspOps').p) /\ Wsp!P \in Wsp!Profiles
            BY <1>r, <3>2, <5>3
          <6> QED
            BY <6>1, <6>2 DEF Wsp!P
        <5>5. wspOps' # wspOps
          BY <5>1, <5>2, <5>4, <4>2
        <5>6. Wsp!PostInvalid
          BY <2>3, <3>2, <5>4, <5>5
             DEF WspForm, Wsp!Next, Wsp!Tests, Wsp!OtherClient, Wsp!Find, Wsp!Create, Wsp!NeedLook, Wsp!NeedRepair, Wsp!NeedReplace, Wsp!NeedCreate, Wsp!RemoveLook, Wsp!RemoveDelete,
                 Wsp!Absent, Wsp!AbsentAgain, Wsp!ReadBase, Wsp!PatchCall, Wsp!Restore, Wsp!Await, Wsp!PatchInvalid, Wsp!Compare, Wsp!Residual, Wsp!ResidualGone,
                 Wsp!SweepLook, Wsp!SweepDelete, Wsp!SweepGone, Wsp!In, Wsp!InSweep
        <5> QED
          BY <5>4, <5>6, WspPosted DEF Wsp!PostInvalid
      <4> QED
        BY <4>1, <4>2
    <3>3. CASE wspOps' = <<>>
      BY <3>3
    <3>4. CASE wspOps # <<>> /\ wspOps' = <<Wsp!Op("restore", Wsp!P)>>
      BY <3>4 DEF Wsp!Op
    <3>5. CASE wspOps # <<>> /\ wspOps' = (Wsp!Need(Wsp!P) \o <<Wsp!Op("create", Wsp!P)>>) \o Tail(wspOps)
      <4> DEFINE a == Wsp!Need(Wsp!P) \o <<Wsp!Op("create", Wsp!P)>>
                 t == Tail(wspOps)
      <4>1. t \in Seq(WspOps) /\ Wsp!P \in Wsp!Profiles
        BY <1>r, <3>5
      <4>2. WspPlain(a)
        BY <4>1, WspFoundFirst
      <4> HIDE DEF a
      <4>3. a \o t \in Seq(WspOps) /\ a \o t # <<>> /\ (a \o t)[1].op \in WspPlainNames
        BY <4>1, WspFoundFirst DEF a
      <4>4. Head(wspOps').op # "residual"
        BY <1>h, <3>5, <4>3 DEF WspPlainNames, a
      <4>5. \A i \in DOMAIN (a \o t) : (i \in DOMAIN a /\ (a \o t)[i] = a[i]) \/ \E j \in DOMAIN t : (a \o t)[i] = t[j]
        <5>1. a \in Seq(WspOps) /\ t \in Seq(WspOps)
          BY <4>1, <4>2 DEF WspPlain, WspOnly
        <5> HIDE DEF t
        <5>2. /\ \A i \in DOMAIN a : (a \o t)[i] = a[i]
              /\ \A j \in DOMAIN t : (a \o t)[Len(a) + j] = t[j]
              /\ \A i \in DOMAIN (a \o t) : i \in DOMAIN a \/ \E j \in DOMAIN t : i = Len(a) + j
          BY <5>1, WspPlaces
        <5> QED
          BY <5>2
      <4>6. \A i \in DOMAIN (a \o t) : (a \o t)[i].op = "sweep" => WspKnownNext((a \o t)[i].p)
        BY <1>o, <1>r, <3>5, <4>2, <4>5 DEF WspPlain, WspOnly, WspPlainNames
      <4> QED
        BY <3>5, <4>4, <4>6 DEF a
    <3>6. CASE wspOps' = Wsp!Sweep(wspCreated \cup wspPlanned') /\ Head(wspOps).op = "post" /\ wspOps # <<>> /\ ~UNCHANGED wspOps
      <4>1. wspCreated \subseteq wspCreated'
        BY <2>3, <3>6 DEF Wsp!Next, Wsp!Tests, Wsp!OtherClient, Wsp!Find, Wsp!Create, Wsp!NeedLook,
           Wsp!NeedRepair, Wsp!NeedReplace, Wsp!NeedCreate, Wsp!RemoveLook, Wsp!RemoveDelete,
                 Wsp!Absent, Wsp!AbsentAgain, Wsp!ReadBase, Wsp!PatchCall, Wsp!Restore, Wsp!Await, Wsp!PatchInvalid, Wsp!Compare, Wsp!Residual, Wsp!ResidualGone, Wsp!PostInvalid,
                 Wsp!SweepLook, Wsp!SweepDelete, Wsp!SweepGone, Wsp!In, Wsp!InSweep, Wsp!Plan, Wsp!Add, Wsp!Same, Wsp!wksp
      <4> QED
        BY <1>a, <1>2, <1>w, <3>6, <4>1
    <3> QED
      BY <2>3, <3>1, <3>2, <3>3, <3>4, <3>5, <3>6 DEF WspShift
  <2> QED
    BY <2>1, <2>2, <2>3, WspShifts
<1>5. Wsp!CleanUpSparesOthers'
  <2>1. wspUnsure \subseteq wspUnsure'
    BY WspDoubts
  <2>2. CASE Wsp!SweepDelete
    <3>1. wspOps # <<>> /\ Head(wspOps).op = "sweep" /\ Wsp!Has(Wsp!P) /\ Wsp!P \notin wspOurs => Wsp!P \in wspUnsure
      BY <1>r DEF WspSpared, WspKnown, Wsp!P
    <3> QED
      BY <2>1, <2>2, <3>1 DEF Wsp!SweepDelete, Wsp!InSweep, WspSpared, Wsp!CleanUpSparesOthers
  <2>3. CASE ~Wsp!SweepDelete
    <3>1. wspSwept' = wspSwept
      BY <2>3 DEF Wsp!Next, Wsp!Tests, Wsp!StartCase, Wsp!Swept, Wsp!OtherClient, Wsp!Find, Wsp!Create,
         Wsp!NeedLook, Wsp!NeedRepair, Wsp!NeedReplace, Wsp!NeedCreate, Wsp!RemoveLook, Wsp!RemoveDelete,
         Wsp!Absent, Wsp!AbsentAgain, Wsp!ReadBase, Wsp!PatchCall, Wsp!Restore, Wsp!Await, Wsp!PatchInvalid, Wsp!Compare, Wsp!PostInvalid, Wsp!Residual, Wsp!ResidualGone,
         Wsp!SweepLook, Wsp!SweepGone, Wsp!Aside
    <3> QED
      BY <2>1, <3>1 DEF WspSpared, Wsp!CleanUpSparesOthers
  <2> QED
    BY <2>2, <2>3
<1> QED
  BY <1>2, <1>4, <1>5 DEF WspSpared, WspKnown, WspKnownNext, Wsp!Has

\* A case that has failed has failed.
LEMMA WspFailedStays == ASSUME Wsp!Next PROVE wspFailed => wspFailed'
  BY DEF Wsp!Next, Wsp!Tests, Wsp!StartCase, Wsp!Swept, Wsp!OtherClient, Wsp!Find, Wsp!Create, Wsp!NeedLook,
     Wsp!NeedRepair, Wsp!NeedReplace, Wsp!NeedCreate, Wsp!RemoveLook,
     Wsp!RemoveDelete, Wsp!Absent, Wsp!AbsentAgain, Wsp!ReadBase, Wsp!PatchCall, Wsp!Restore, Wsp!Await, Wsp!PatchInvalid, Wsp!Compare, Wsp!PostInvalid, Wsp!Residual,
     Wsp!ResidualGone, Wsp!SweepLook, Wsp!SweepDelete, Wsp!SweepGone,
     Wsp!Ok, Wsp!Then, Wsp!Raise, Wsp!Skip, Wsp!Leave, Wsp!Bad, Wsp!Go

\* Who is at work when an operation is.
LEMMA WspAtWork ==
  ASSUME WspForm, Wsp!Next, wspOps # <<>>
  PROVE  /\ Head(wspOps).op = "absent" => Wsp!Absent \/ Wsp!AbsentAgain \/ Wsp!OtherClient
         /\ Head(wspOps).op = "remove" => Wsp!RemoveLook \/ Wsp!RemoveDelete \/ Wsp!OtherClient
         /\ Head(wspOps).op = "residual" => Wsp!Residual \/ Wsp!ResidualGone \/ Wsp!SweepDelete \/ Wsp!OtherClient
         /\ Head(wspOps).op = "sweep" => Wsp!SweepLook \/ Wsp!SweepDelete \/ Wsp!SweepGone \/ Wsp!OtherClient
         /\ Head(wspOps).op = "swept" => Wsp!Swept \/ Wsp!OtherClient
  BY DEF WspForm, Wsp!Next, Wsp!Tests, Wsp!StartCase, Wsp!Swept, Wsp!OtherClient, Wsp!Find, Wsp!Create,
     Wsp!NeedLook, Wsp!NeedRepair, Wsp!NeedReplace, Wsp!NeedCreate, Wsp!RemoveLook,
     Wsp!RemoveDelete, Wsp!Absent, Wsp!AbsentAgain, Wsp!ReadBase, Wsp!PatchCall, Wsp!Restore, Wsp!Await, Wsp!PatchInvalid, Wsp!Compare, Wsp!PostInvalid, Wsp!Residual,
     Wsp!ResidualGone, Wsp!SweepLook, Wsp!SweepDelete, Wsp!SweepGone,
     Wsp!In, Wsp!InSweep

LEMMA WspTrackedKept == ASSUME Wsp!WorkspaceAssumption, WspForm, WspWorld, WspTracked, [Wsp!Next]_(Wsp!vars) PROVE WspTracked'
<1>1. CASE UNCHANGED Wsp!vars
  BY <1>1 DEF WspTracked, Wsp!vars, Wsp!wksp, Wsp!ctl, Wsp!ems
<1> SUFFICES ASSUME Wsp!Next PROVE WspTracked'
  BY <1>1
<1>r. wspOps # <<>> => /\ Wsp!P \in Wsp!Profiles /\ Head(wspOps) = wspOps[1] /\ 1 \in DOMAIN wspOps
                       /\ \A i \in DOMAIN Tail(wspOps) : i + 1 \in DOMAIN wspOps /\ Tail(wspOps)[i] = wspOps[i + 1]
                       /\ \A i \in DOMAIN wspOps : i = 1 \/ (i - 1 \in DOMAIN Tail(wspOps) /\ wspOps[i] = Tail(wspOps)[i - 1])
                       /\ Tail(wspOps) \in Seq(WspOps) /\ <<>> \o Tail(wspOps) = Tail(wspOps)
  BY WspReading
<1>h. \A q \in Seq(WspOps) : q # <<>> => Head(q) = q[1] /\ 1 \in DOMAIN q
  BY HeadTailProperties, LenProperties, EmptySeq
<1>f. wspFailed => wspFailed'
  BY WspFailedStays
<1>u. wspUnsure \subseteq wspUnsure'
  BY WspDoubts
<1>2. ASSUME NEW p \in wspOurs'
      PROVE  \/ p \in wspCreated' \/ (wspFailed' /\ p \in wspUnsure')
             \/ wspFailed' /\ wspOps' # <<>> /\ Head(wspOps').op = "residual" /\ Head(wspOps').p = p /\ wspAt' = "call"
  <2>1. CASE p \in wspOurs
    <3>0. Wsp!Has(p)
      BY <2>1 DEF WspWorld
    <3>1. CASE p \in wspCreated
      <4>1. CASE Wsp!Absent
        BY <1>r, <2>1, <3>0, <3>1, <4>1, <1>u DEF Wsp!Absent, Wsp!In, WspTracked, Wsp!Raise, Wsp!Leave,
           Wsp!Discard, Wsp!P
      <4>2. CASE ~Wsp!Absent
        <5>1. p \in wspCreated'
          BY <3>0, <3>1, <4>2 DEF Wsp!Next, Wsp!Tests, Wsp!StartCase, Wsp!Swept, Wsp!OtherClient, Wsp!Find,
             Wsp!Create, Wsp!NeedLook, Wsp!NeedRepair, Wsp!NeedReplace, Wsp!NeedCreate, Wsp!RemoveLook,
             Wsp!RemoveDelete, Wsp!AbsentAgain, Wsp!ReadBase, Wsp!PatchCall, Wsp!Restore, Wsp!Await,
             Wsp!PatchInvalid, Wsp!Compare, Wsp!PostInvalid, Wsp!Residual, Wsp!ResidualGone, Wsp!SweepLook,
             Wsp!SweepDelete, Wsp!SweepGone,
             Wsp!Same, Wsp!Plan, Wsp!Add, Wsp!Borrow, Wsp!Discard, Wsp!Forget, Wsp!Has, Wsp!Looks, Wsp!wksp
        <5> QED
          BY <5>1
      <4> QED
        BY <4>1, <4>2
    <3>2. CASE wspFailed /\ p \in wspUnsure
      BY <1>f, <1>u, <3>2
    <3>3. CASE wspFailed /\ wspOps # <<>> /\ Head(wspOps).op = "residual" /\ Wsp!P = p /\ wspAt = "call"
      <4>1. CASE Wsp!OtherClient
        BY <1>f, <3>3, <4>1 DEF Wsp!OtherClient, Wsp!P
      <4>2. CASE Wsp!Residual
        BY <1>f, <3>0, <3>3, <4>2 DEF Wsp!Residual, Wsp!Doubt, Wsp!Add, Wsp!Looks, Wsp!Has, Wsp!Raise,
           Wsp!Leave
      <4>3. ~Wsp!ResidualGone /\ ~Wsp!SweepDelete
        BY <3>3 DEF Wsp!ResidualGone, Wsp!SweepDelete, Wsp!In
      <4> QED
        BY <3>3, <4>1, <4>2, <4>3, WspAtWork
    <3> QED
      BY <2>1, <3>1, <3>2, <3>3 DEF WspTracked, Wsp!P
  <2>2. CASE p \notin wspOurs
    <3>1. \A q, answer, content : Wsp!Deletes(q, answer) \/ Wsp!Patches(q, content, answer) => wspOurs' \subseteq wspOurs
      BY DEF Wsp!Deletes, Wsp!Patches, Wsp!Drop, Wsp!Alter, Wsp!Write, Wsp!ems
    <3>2. Wsp!Create \/ Wsp!NeedCreate \/ Wsp!PostInvalid
      BY <2>2, <3>1 DEF Wsp!Next, Wsp!Tests, Wsp!StartCase, Wsp!Swept, Wsp!OtherClient, Wsp!Find,
         Wsp!NeedLook, Wsp!NeedRepair, Wsp!NeedReplace, Wsp!RemoveLook, Wsp!RemoveDelete, Wsp!Absent,
         Wsp!AbsentAgain, Wsp!ReadBase, Wsp!PatchCall, Wsp!Restore, Wsp!Await, Wsp!PatchInvalid, Wsp!Compare,
         Wsp!Residual, Wsp!ResidualGone, Wsp!SweepLook, Wsp!SweepDelete, Wsp!SweepGone,
         Wsp!ems, Wsp!Drop, Wsp!Write
    <3>3. \A answer : Wsp!Posts(Wsp!P, answer) => p = Wsp!P /\ answer \in {"ok", "raise"}
      BY <2>2 DEF Wsp!Posts, Wsp!Enter, Wsp!Write, Wsp!ems
    <3>4. CASE Wsp!Create
      BY <3>3, <3>4 DEF Wsp!Create, Wsp!Doubt, Wsp!Add, Wsp!Ok, Wsp!Raise, Wsp!Leave
    <3>5. CASE Wsp!NeedCreate
      BY <3>3, <3>5 DEF Wsp!NeedCreate, Wsp!Doubt, Wsp!Add, Wsp!Raise, Wsp!Leave
    <3>6. CASE Wsp!PostInvalid
      <4>1. PICK a \in {"ok", "error", "raise"} : Wsp!Posts(Wsp!P, a) /\ Wsp!Doubt(Wsp!P, a) /\ IF a = "raise" THEN Wsp!Raise ELSE Wsp!Then(<<>>, a = "ok")
        BY <3>6 DEF Wsp!PostInvalid
      <4>2. CASE a = "raise"
        BY <3>3, <4>1, <4>2 DEF Wsp!Doubt, Wsp!Raise, Wsp!Leave
      <4>3. CASE a = "ok"
        <5>1. wspOps # <<>> /\ Head(wspOps).op = "post_invalid"
          BY <3>6 DEF Wsp!PostInvalid, Wsp!In
        <5>2. 1 + 1 \in DOMAIN wspOps /\ wspOps[1 + 1] = Wsp!Op("residual", Wsp!P)
          BY <1>r, <5>1 DEF WspForm, WspShaped, Wsp!P
        <5>3. wspOps' = Tail(wspOps) /\ wspFailed' /\ wspAt' = "call"
          BY <1>r, <4>1, <4>3, <5>1 DEF Wsp!Then
        <5>4. 1 \in DOMAIN Tail(wspOps) /\ Tail(wspOps)[1] = Wsp!Op("residual", Wsp!P)
          <6>1. (1 + 1) - 1 = 1 /\ 1 + 1 # 1
            OBVIOUS
          <6> QED
            BY <1>r, <5>1, <5>2, <6>1
        <5>5. Tail(wspOps) # <<>> /\ Head(Tail(wspOps)) = Wsp!Op("residual", Wsp!P)
          BY <1>r, <1>h, <5>1, <5>4
        <5> QED
          BY <3>3, <4>1, <5>3, <5>5 DEF Wsp!Op
      <4> QED
        BY <3>3, <4>1, <4>2, <4>3
    <3> QED
      BY <3>2, <3>4, <3>5, <3>6
  <2> QED
    BY <2>1, <2>2
<1>s. wspCreated' \subseteq Wsp!Profiles /\ wspCreated \subseteq Wsp!Profiles /\ wspPlanned \subseteq Wsp!Profiles /\ wspPlanned' \subseteq Wsp!Profiles
  BY WspWorldKept DEF WspWorld
<1>3. ASSUME wspOps' # <<>>, Head(wspOps').op = "absent", wspAt' = "call", Head(wspOps').p \in wspOurs'
      PROVE  Head(wspOps').p \in wspUnsure'
  <2>0. wspOps' \in Seq(WspOps) /\ Head(wspOps') = wspOps'[1] /\ 1 \in DOMAIN wspOps'
    BY <1>3, <1>h, WspFormKept DEF WspForm, WspShaped
  <2>1. CASE Wsp!StartCase
    <3>1. \A c \in WspCases : Wsp!OpsOf(c)[1].op # "absent"
      BY WspCaseOpens DEF WspPlainNames
    <3>2. \A owned \in SUBSET Wsp!Profiles : 1 \in DOMAIN Wsp!Sweep(owned) => Wsp!Sweep(owned)[1].op # "absent"
      BY WspSweepFit
    <3>3. wspCases # <<>> => Head(wspCases) \in WspCases
      BY HeadTailProperties DEF WspForm
    <3> QED
      BY <1>3, <1>s, <2>0, <2>1, <3>1, <3>2, <3>3 DEF Wsp!StartCase
  <2>2. CASE Wsp!Swept
    <3>1. wspOps' = Wsp!OpsOf(wspCase) /\ wspCase \in WspCases
      BY <1>3, <2>2 DEF Wsp!Swept, WspForm, Wsp!In, WspCases
    <3> QED
      BY <1>3, <2>0, <3>1, WspCaseOpens DEF WspPlainNames
  <2>3. CASE WspShift /\ ~Wsp!StartCase /\ ~Wsp!Swept
    <3>1. CASE wspOps' = wspOps
      <4>1. Wsp!Absent \/ Wsp!AbsentAgain \/ Wsp!OtherClient
        BY <1>3, <3>1, WspAtWork
      <4>2. ~Wsp!Absent /\ ~Wsp!AbsentAgain
        BY <1>3, <3>1, <1>r DEF Wsp!Absent, Wsp!AbsentAgain, Wsp!Go, Wsp!Raise, Wsp!Leave, Wsp!Ok, Wsp!Then
      <4>3. Wsp!OtherClient /\ wspAt = wspAt' /\ wspOurs' \subseteq wspOurs
        BY <4>1, <4>2 DEF Wsp!OtherClient, Wsp!Drop, Wsp!Write
      <4> QED
        BY <1>3, <1>u, <3>1, <4>3 DEF WspTracked
    <3>2. CASE wspOps # <<>> /\ wspOps' = Tail(wspOps) /\ wspOps' # wspOps
      <4>1. wspOps[1 + 1] = wspOps'[1] /\ 1 + 1 \in DOMAIN wspOps
        BY <1>r, <2>0, <3>2
      <4>2. wspOps[1] = Wsp!Op("remove", wspOps'[1].p)
        BY <1>3, <1>r, <2>0, <3>2, <4>1 DEF WspForm, WspShaped
      <4>3. Head(wspOps).op = "remove" /\ Wsp!P = Head(wspOps').p
        BY <1>r, <2>0, <3>2, <4>2 DEF Wsp!P, Wsp!Op
      <4>4. CASE Wsp!RemoveLook
        BY <1>3, <3>2, <4>3, <4>4 DEF Wsp!RemoveLook, Wsp!Doubt, Wsp!Ok, Wsp!Then, Wsp!Raise, Wsp!Leave,
           Wsp!Go, WspWorld, Wsp!Has, Wsp!Looks, Wsp!ems
      <4>5. CASE Wsp!RemoveDelete
        BY <1>3, <3>2, <4>3, <4>5 DEF Wsp!RemoveDelete, Wsp!Deletes, Wsp!Drop, Wsp!Write, Wsp!Raise, Wsp!Skip,
           Wsp!Leave
      <4> QED
        BY <3>2, <4>3, <4>4, <4>5, WspAtWork DEF Wsp!OtherClient
    <3>3. CASE wspOps' = <<>>
      BY <1>3, <3>3
    <3>4. CASE wspOps # <<>> /\ wspOps' = <<Wsp!Op("restore", Wsp!P)>>
      BY <1>3, <3>4 DEF Wsp!Op
    <3>5. CASE wspOps # <<>> /\ wspOps' = (Wsp!Need(Wsp!P) \o <<Wsp!Op("create", Wsp!P)>>) \o Tail(wspOps)
      BY <1>3, <1>r, <2>0, <3>5, WspFoundFirst DEF WspPlainNames
    <3>6. CASE wspOps' = Wsp!Sweep(wspCreated \cup wspPlanned')
      <4>1. wspCreated \cup wspPlanned' \in SUBSET Wsp!Profiles
        BY <1>s
      <4> QED
        BY <1>3, <2>0, <3>6, <4>1, WspSweepFit
    <3> QED
      BY <2>3, <3>1, <3>2, <3>3, <3>4, <3>5, <3>6 DEF WspShift
  <2> QED
    BY <2>1, <2>2, <2>3, WspShifts
<1>4. ASSUME wspCase'.op = "end", wspOps' # <<>>, ~wspErrors', NEW p \in wspCreated' PROVE \E i \in DOMAIN wspOps' : wspOps'[i] = Wsp!Op("sweep", p)
  <2>1. CASE Wsp!StartCase
    <3>1. wspCases = <<>>
      <4>1. wspCases # <<>> => Head(wspCases) \in WspCases
        BY HeadTailProperties DEF WspForm
      <4> QED
        BY <1>4, <2>1, <4>1 DEF Wsp!StartCase, WspCases, Wsp!CaseNames
    <3>2. wspOps' = Wsp!Sweep(wspCreated \cup wspPlanned) /\ wspCreated' = wspCreated
      BY <2>1, <3>1 DEF Wsp!StartCase, Wsp!wksp
    <3> QED
      BY <1>4, <1>s, <3>2, WspSweepFit
  <2>2. CASE Wsp!Swept
    BY <1>4, <2>2 DEF Wsp!Swept
  <2>3. CASE ~Wsp!StartCase /\ ~Wsp!Swept
    <3>1. wspCase' = wspCase /\ wspOps # <<>>
      BY <1>4, <2>3 DEF Wsp!Next, Wsp!Tests, Wsp!StartCase, Wsp!Swept, Wsp!OtherClient, Wsp!Find, Wsp!Create,
         Wsp!NeedLook, Wsp!NeedRepair, Wsp!NeedReplace, Wsp!NeedCreate, Wsp!RemoveLook,
     Wsp!RemoveDelete, Wsp!Absent, Wsp!AbsentAgain, Wsp!ReadBase, Wsp!PatchCall, Wsp!Restore, Wsp!Await, Wsp!PatchInvalid, Wsp!Compare, Wsp!PostInvalid, Wsp!Residual,
     Wsp!ResidualGone, Wsp!SweepLook, Wsp!SweepDelete, Wsp!SweepGone,
         Wsp!Ok, Wsp!Then, Wsp!Raise, Wsp!Skip, Wsp!Leave, Wsp!Bad, Wsp!Go, Wsp!ctl, Wsp!In, Wsp!InSweep
    <3>2. wspOps[1].op \in {"sweep", "swept"} /\ Head(wspOps).op \in {"sweep", "swept"}
      BY <1>4, <1>r, <3>1 DEF WspForm
    <3>3. Wsp!SweepLook \/ Wsp!SweepDelete \/ Wsp!SweepGone \/ Wsp!OtherClient
      BY <2>3, <3>1, <3>2, WspAtWork
    <3>4. CASE wspOps' = wspOps /\ UNCHANGED <<wspErrors, wspCreated>>
      BY <1>4, <3>1, <3>4 DEF WspTracked
    <3>5. CASE wspOps' = Tail(wspOps) /\ wspCreated' = wspCreated \ {Wsp!P} /\ UNCHANGED wspErrors
      <4>1. PICK i \in DOMAIN wspOps : wspOps[i] = Wsp!Op("sweep", p)
        BY <1>4, <3>1, <3>5 DEF WspTracked
      <4>2. i # 1
        BY <1>4, <1>r, <3>1, <3>5, <4>1 DEF Wsp!P, Wsp!Op
      <4> QED
        BY <1>r, <3>1, <3>5, <4>1, <4>2
    <3>6. \/ wspOps' = wspOps /\ UNCHANGED <<wspErrors, wspCreated>>
          \/ wspOps' = Tail(wspOps) /\ wspCreated' = wspCreated \ {Wsp!P} /\ UNCHANGED wspErrors
      <4>1. Wsp!InSweep \/ Wsp!OtherClient
        BY <3>1, <3>2, <3>3 DEF Wsp!SweepLook, Wsp!SweepDelete, Wsp!SweepGone, Wsp!In, Wsp!InSweep
      <4> QED
        BY <1>4, <1>r, <3>1, <3>3, <4>1
           DEF Wsp!SweepLook, Wsp!SweepDelete, Wsp!SweepGone, Wsp!OtherClient, Wsp!Ok, Wsp!Then, Wsp!Go, Wsp!Bad, Wsp!Forget, Wsp!Same, Wsp!wksp
    <3> QED
      BY <3>4, <3>5, <3>6
  <2> QED
    BY <2>1, <2>2, <2>3
<1>5. ASSUME wspTorn' = "clean" PROVE wspCreated' = {}
  <2>1. CASE Wsp!Swept
    <3>1. wspCase.op = "end" /\ ~wspErrors /\ wspCreated' = wspCreated /\ wspOps # <<>> /\ Head(wspOps).op = "swept"
      BY <1>5, <2>1 DEF Wsp!Swept, Wsp!In, WspForm
    <3>2. Len(wspOps) = 1 /\ DOMAIN wspOps = {1} /\ wspOps[1].op = "swept"
      <4>1. wspOps[1].op = "swept" /\ 1 \in DOMAIN wspOps /\ wspOps \in Seq(WspOps)
        BY <1>r, <3>1 DEF WspForm, WspShaped
      <4>2. Len(wspOps) = 1
        BY <4>1 DEF WspForm, WspShaped
      <4> QED
        BY <4>1, <4>2, LenProperties
    <3>3. \A p \in wspCreated : FALSE
      BY <3>1, <3>2 DEF WspTracked, Wsp!Op
    <3> QED
      BY <3>1, <3>3
  <2>2. CASE ~Wsp!Swept
    <3>1. wspTorn' = wspTorn
      BY <2>2 DEF Wsp!Next, Wsp!Tests, Wsp!StartCase, Wsp!Swept, Wsp!OtherClient, Wsp!Find, Wsp!Create,
         Wsp!NeedLook, Wsp!NeedRepair, Wsp!NeedReplace, Wsp!NeedCreate, Wsp!RemoveLook,
     Wsp!RemoveDelete, Wsp!Absent, Wsp!AbsentAgain, Wsp!ReadBase, Wsp!PatchCall, Wsp!Restore, Wsp!Await, Wsp!PatchInvalid, Wsp!Compare, Wsp!PostInvalid, Wsp!Residual,
     Wsp!ResidualGone, Wsp!SweepLook, Wsp!SweepDelete, Wsp!SweepGone,
         Wsp!Ok, Wsp!Then, Wsp!Raise, Wsp!Skip, Wsp!Leave, Wsp!Bad, Wsp!Go, Wsp!ctl
    <3>2. wspOps = <<>> /\ wspTorn # "no"
      BY <1>5, <3>1 DEF WspForm
    <3>3. Wsp!OtherClient
      BY <3>2, <2>2 DEF Wsp!Next, Wsp!Tests, Wsp!StartCase, Wsp!Swept, Wsp!OtherClient, Wsp!Find, Wsp!Create,
         Wsp!NeedLook, Wsp!NeedRepair, Wsp!NeedReplace, Wsp!NeedCreate, Wsp!RemoveLook,
     Wsp!RemoveDelete, Wsp!Absent, Wsp!AbsentAgain, Wsp!ReadBase, Wsp!PatchCall, Wsp!Restore, Wsp!Await, Wsp!PatchInvalid, Wsp!Compare, Wsp!PostInvalid, Wsp!Residual,
     Wsp!ResidualGone, Wsp!SweepLook, Wsp!SweepDelete, Wsp!SweepGone, Wsp!In
    <3> QED
      BY <1>5, <3>1, <3>3 DEF Wsp!OtherClient, WspTracked, Wsp!wksp
  <2> QED
    BY <2>1, <2>2
<1> QED
  BY <1>2, <1>3, <1>4, <1>5 DEF WspTracked

LEMMA WspUndoneKept == ASSUME WspForm, WspWorld, WspUndone, [Wsp!Next]_(Wsp!vars) PROVE WspUndone'
<1>1. CASE UNCHANGED Wsp!vars
  BY <1>1 DEF WspUndone, Wsp!vars, Wsp!ctl, Wsp!ems
<1> SUFFICES ASSUME Wsp!Next, ~wspFailed' PROVE WspUndone'
  BY <1>1 DEF WspUndone
<1>r. wspOps # <<>> => /\ Wsp!P \in Wsp!Profiles /\ Head(wspOps) = wspOps[1] /\ 1 \in DOMAIN wspOps
                       /\ \A i \in DOMAIN wspOps : i = 1 \/ (i - 1 \in DOMAIN Tail(wspOps) /\ wspOps[i] = Tail(wspOps)[i - 1])
                       /\ Tail(wspOps) \in Seq(WspOps) /\ <<>> \o Tail(wspOps) = Tail(wspOps)
  BY WspReading
<1>h. \A q \in Seq(WspOps) : q # <<>> => Head(q) = q[1] /\ 1 \in DOMAIN q
  BY HeadTailProperties, LenProperties, EmptySeq
<1>f. ~wspFailed
  BY WspFailedStays
<1>2. /\ wspBase # "changed"
      /\ \A p \in Wsp!Profiles : wspProf[p] = "changed" =>
           /\ wspOps # <<>> /\ Wsp!P = p
           /\ (Head(wspOps).op = "patch" /\ wspAt = "await") \/ (Head(wspOps).op = "restore" /\ wspAt = "call")
  BY <1>f DEF WspUndone, Wsp!P
<1>3. wspBase' # "changed"
  <2>1. CASE Wsp!ReadBase
    <3>1. wspOps # <<>> /\ Head(wspOps).op = "read"
      BY <2>1 DEF Wsp!ReadBase, Wsp!In
    <3> QED
      BY <1>2, <1>r, <2>1, <3>1 DEF Wsp!ReadBase, Wsp!Looks
  <2>2. CASE ~Wsp!ReadBase
    BY <1>2, <2>2 DEF Wsp!Next, Wsp!Tests, Wsp!StartCase, Wsp!Swept, Wsp!OtherClient, Wsp!Find, Wsp!Create,
       Wsp!NeedLook, Wsp!NeedRepair, Wsp!NeedReplace, Wsp!NeedCreate, Wsp!RemoveLook, Wsp!RemoveDelete,
       Wsp!Absent, Wsp!AbsentAgain, Wsp!PatchCall, Wsp!Restore, Wsp!Await, Wsp!PatchInvalid, Wsp!Compare,
       Wsp!PostInvalid, Wsp!Residual, Wsp!ResidualGone, Wsp!SweepLook, Wsp!SweepDelete, Wsp!SweepGone,
       Wsp!Aside
  <2> QED
    BY <2>1, <2>2
<1>4. ASSUME NEW p \in Wsp!Profiles, wspProf'[p] = "changed"
      PROVE  /\ wspOps' # <<>> /\ Head(wspOps').p = p
             /\ (Head(wspOps').op = "patch" /\ wspAt' = "await") \/ (Head(wspOps').op = "restore" /\ wspAt' = "call")
  <2>0. wspProf \in [Wsp!Profiles -> Wsp!Contents]
    BY DEF WspWorld
  <2>1. CASE Wsp!PatchCall
    BY <1>2, <1>4, <1>r, <2>0, <2>1 DEF Wsp!PatchCall, Wsp!In, Wsp!Patches, Wsp!Alter, Wsp!Write, Wsp!Go,
       Wsp!Raise, Wsp!Leave, Wsp!P
  <2>2. CASE Wsp!PatchInvalid
    <3>1. wspProf' = wspProf
      BY <1>r, <2>2 DEF Wsp!PatchInvalid, Wsp!Patches, Wsp!Raise, Wsp!Leave, Wsp!Then, Wsp!ems
    <3> QED
      BY <1>2, <1>4, <2>2, <3>1 DEF Wsp!PatchInvalid, Wsp!In
  <2>3. CASE Wsp!Restore
    <3>1. wspProf' = [wspProf EXCEPT ![Wsp!P] = wspBase] /\ Wsp!P \in Wsp!Profiles
      BY <1>r, <2>3 DEF Wsp!Restore, Wsp!In, Wsp!Patches, Wsp!Alter, Wsp!Write, Wsp!Raise, Wsp!Leave
    <3> QED
      BY <1>2, <1>4, <2>0, <2>3, <3>1 DEF Wsp!Restore, Wsp!In
  <2>4. CASE ~Wsp!PatchCall /\ ~Wsp!PatchInvalid /\ ~Wsp!Restore
    <3>1. \A q, answer : (Wsp!Deletes(q, answer) \/ Wsp!Posts(q, answer) \/ Wsp!Patches(q, "yaml", answer)) => wspProf[p] = "changed"
      BY <1>4, <2>0 DEF Wsp!Deletes, Wsp!Posts, Wsp!Patches, Wsp!Drop, Wsp!Enter, Wsp!Alter, Wsp!Write,
         Wsp!ems
    <3>2. wspProf[p] = "changed"
      BY <1>4, <2>0, <2>4, <3>1 DEF Wsp!Next, Wsp!Tests, Wsp!StartCase, Wsp!Swept, Wsp!OtherClient, Wsp!Find,
         Wsp!Create, Wsp!NeedLook, Wsp!NeedRepair, Wsp!NeedReplace, Wsp!NeedCreate, Wsp!RemoveLook,
         Wsp!RemoveDelete, Wsp!Absent, Wsp!AbsentAgain, Wsp!ReadBase, Wsp!Await, Wsp!Compare, Wsp!PostInvalid,
         Wsp!Residual, Wsp!ResidualGone, Wsp!SweepLook, Wsp!SweepDelete, Wsp!SweepGone,
         Wsp!Drop, Wsp!Write, Wsp!ems
    <3>3. /\ wspOps # <<>> /\ Wsp!P = p
          /\ (Head(wspOps).op = "patch" /\ wspAt = "await") \/ (Head(wspOps).op = "restore" /\ wspAt = "call")
      BY <1>2, <3>2
    <3>4. Wsp!Await \/ Wsp!OtherClient
      BY <2>4, <3>3 DEF Wsp!Next, Wsp!Tests, Wsp!StartCase, Wsp!Swept, Wsp!OtherClient, Wsp!Find, Wsp!Create,
         Wsp!NeedLook, Wsp!NeedRepair, Wsp!NeedReplace, Wsp!NeedCreate, Wsp!RemoveLook,
     Wsp!RemoveDelete, Wsp!Absent, Wsp!AbsentAgain, Wsp!ReadBase, Wsp!PatchCall, Wsp!Restore, Wsp!Await, Wsp!PatchInvalid, Wsp!Compare, Wsp!PostInvalid, Wsp!Residual,
     Wsp!ResidualGone, Wsp!SweepLook, Wsp!SweepDelete, Wsp!SweepGone, Wsp!In, Wsp!InSweep
    <3>5. CASE Wsp!OtherClient
      BY <3>3, <3>5 DEF Wsp!OtherClient, Wsp!P
    <3>6. CASE Wsp!Await /\ ~Wsp!OtherClient
      <4>1. Head(wspOps).op = "patch" /\ wspOps' = Tail(wspOps) /\ wspAt' = "call"
        BY <1>r, <3>3, <3>6 DEF Wsp!Await, Wsp!In, Wsp!Ok, Wsp!Then, Wsp!Raise, Wsp!Leave
      <4>2. 1 + 1 \in DOMAIN wspOps /\ wspOps[1 + 1] = Wsp!Op("restore", Wsp!P)
        BY <1>r, <3>3, <4>1 DEF WspForm, WspShaped, Wsp!P
      <4>3. 1 \in DOMAIN Tail(wspOps) /\ Tail(wspOps)[1] = Wsp!Op("restore", Wsp!P)
        <5>1. (1 + 1) - 1 = 1 /\ 1 + 1 # 1
          OBVIOUS
        <5> QED
          BY <1>r, <3>3, <4>2, <5>1
      <4>4. Tail(wspOps) # <<>> /\ Head(Tail(wspOps)) = Wsp!Op("restore", Wsp!P)
        BY <1>r, <1>h, <3>3, <4>3
      <4> QED
        BY <3>3, <4>1, <4>4 DEF Wsp!Op
    <3> QED
      BY <3>4, <3>5, <3>6
  <2> QED
    BY <2>1, <2>2, <2>3, <2>4
<1> QED
  BY <1>3, <1>4 DEF WspUndone

LEMMA WspBoundsKept == ASSUME Wsp!WorkspaceAssumption, WspBounds, Wsp!Next PROVE WspBounds'
<1>1. wspAttempt' = wspAttempt \/ wspAttempt' \in {0, 1}
  BY DEF Wsp!Next, Wsp!Tests, Wsp!StartCase, Wsp!Swept, Wsp!OtherClient, Wsp!Find, Wsp!Create, Wsp!NeedLook,
     Wsp!NeedRepair, Wsp!NeedReplace, Wsp!NeedCreate, Wsp!RemoveLook,
     Wsp!RemoveDelete, Wsp!Absent, Wsp!AbsentAgain, Wsp!ReadBase, Wsp!PatchCall, Wsp!Restore, Wsp!Await, Wsp!PatchInvalid, Wsp!Compare, Wsp!PostInvalid, Wsp!Residual,
     Wsp!ResidualGone, Wsp!SweepLook, Wsp!SweepDelete, Wsp!SweepGone,
     Wsp!Ok, Wsp!Then, Wsp!Raise, Wsp!Skip, Wsp!Leave, Wsp!Bad, Wsp!Go, Wsp!ctl
<1>2. wspOthers' = wspOthers \/ (wspOthers < Others /\ wspOthers' = wspOthers + 1)
  BY DEF Wsp!Next, Wsp!Tests, Wsp!StartCase, Wsp!Swept, Wsp!OtherClient, Wsp!Find, Wsp!Create, Wsp!NeedLook,
     Wsp!NeedRepair, Wsp!NeedReplace, Wsp!NeedCreate, Wsp!RemoveLook,
     Wsp!RemoveDelete, Wsp!Absent, Wsp!AbsentAgain, Wsp!ReadBase, Wsp!PatchCall, Wsp!Restore, Wsp!Await, Wsp!PatchInvalid, Wsp!Compare, Wsp!PostInvalid, Wsp!Residual,
     Wsp!ResidualGone, Wsp!SweepLook, Wsp!SweepDelete, Wsp!SweepGone, Wsp!Aside
<1> QED
  BY <1>1, <1>2 DEF WspBounds, Wsp!WorkspaceAssumption

LEMMA WspFlagsKept == ASSUME WspFlags, Wsp!Next PROVE WspFlags'
<1>1. wspTorn' \in {"no", "clean", "failed"}
  BY DEF WspFlags, Wsp!Next, Wsp!Tests, Wsp!StartCase, Wsp!Swept, Wsp!OtherClient, Wsp!Find, Wsp!Create,
     Wsp!NeedLook, Wsp!NeedRepair, Wsp!NeedReplace, Wsp!NeedCreate, Wsp!RemoveLook,
     Wsp!RemoveDelete, Wsp!Absent, Wsp!AbsentAgain, Wsp!ReadBase, Wsp!PatchCall, Wsp!Restore, Wsp!Await, Wsp!PatchInvalid, Wsp!Compare, Wsp!PostInvalid, Wsp!Residual,
     Wsp!ResidualGone, Wsp!SweepLook, Wsp!SweepDelete, Wsp!SweepGone,
     Wsp!Ok, Wsp!Then, Wsp!Raise, Wsp!Skip, Wsp!Leave, Wsp!Bad, Wsp!Go, Wsp!ctl
<1>2. wspErrors' = wspErrors \/ wspErrors' = TRUE \/ wspErrors' = FALSE
  BY DEF Wsp!Next, Wsp!Tests, Wsp!StartCase, Wsp!Swept, Wsp!OtherClient, Wsp!Find, Wsp!Create, Wsp!NeedLook,
     Wsp!NeedRepair, Wsp!NeedReplace, Wsp!NeedCreate, Wsp!RemoveLook,
     Wsp!RemoveDelete, Wsp!Absent, Wsp!AbsentAgain, Wsp!ReadBase, Wsp!PatchCall, Wsp!Restore, Wsp!Await, Wsp!PatchInvalid, Wsp!Compare, Wsp!PostInvalid, Wsp!Residual,
     Wsp!ResidualGone, Wsp!SweepLook, Wsp!SweepDelete, Wsp!SweepGone,
     Wsp!Bad, Wsp!Aside
<1>3. wspFailed' = wspFailed \/ (\E bad \in BOOLEAN : wspFailed' = (wspFailed \/ bad)) \/ wspFailed' = (wspFailed \/ wspErrors)
  BY DEF Wsp!Next, Wsp!Tests, Wsp!StartCase, Wsp!Swept, Wsp!OtherClient, Wsp!Find, Wsp!Create, Wsp!NeedLook,
     Wsp!NeedRepair, Wsp!NeedReplace, Wsp!NeedCreate, Wsp!RemoveLook,
     Wsp!RemoveDelete, Wsp!Absent, Wsp!AbsentAgain, Wsp!ReadBase, Wsp!PatchCall, Wsp!Restore, Wsp!Await, Wsp!PatchInvalid, Wsp!Compare, Wsp!PostInvalid, Wsp!Residual,
     Wsp!ResidualGone, Wsp!SweepLook, Wsp!SweepDelete, Wsp!SweepGone,
     Wsp!Ok, Wsp!Then, Wsp!Raise, Wsp!Skip, Wsp!Leave, Wsp!Bad, Wsp!Go
<1> QED
  BY <1>1, <1>2, <1>3 DEF WspFlags

WspIInv == WspForm /\ WspWorld /\ WspSpared /\ WspTracked /\ WspUndone /\ WspBounds /\ WspFlags

LEMMA WspInitially == ASSUME Wsp!WorkspaceAssumption, Wsp!Init PROVE WspIInv
<1>1. Order[1] \in Wsp!Profiles
  BY EmptySeq, LenProperties DEF Wsp!WorkspaceAssumption
<1>2. WspShaped(<<>>) /\ WspBased(<<>>, wspBase)
  BY DEF WspShaped, WspBased
<1>3. WspForm
  <2>1. wspCases \in Seq(WspCases)
    BY DEF Wsp!Init, Wsp!WorkspaceAssumption, WspCases
  <2> QED
    BY <1>1, <1>2, <2>1 DEF Wsp!Init, WspForm, Wsp!Op, WspSteps
<1>4. WspWorld
  BY DEF Wsp!Init, WspWorld, Wsp!WorkspaceAssumption, Wsp!Contents
<1>5. WspSpared
  BY DEF Wsp!Init, WspSpared, Wsp!CleanUpSparesOthers
<1>6. WspTracked
  BY DEF Wsp!Init, WspTracked, Wsp!Op
<1>7. WspUndone
  <2>1. \A p \in Wsp!Profiles : wspProf[p] # "changed"
    BY DEF Wsp!Init, Wsp!WorkspaceAssumption
  <2> QED
    BY <2>1 DEF Wsp!Init, WspUndone
<1>8. WspBounds
  BY DEF Wsp!Init, WspBounds, Wsp!WorkspaceAssumption
<1>9. WspFlags
  BY DEF Wsp!Init, WspFlags
<1> QED
  BY <1>3, <1>4, <1>5, <1>6, <1>7, <1>8, <1>9 DEF WspIInv

LEMMA WspInductive == ASSUME Wsp!WorkspaceAssumption, WspIInv, [Wsp!Next]_(Wsp!vars) PROVE WspIInv'
<1>1. WspForm' /\ WspSpared' /\ WspTracked' /\ WspUndone'
  BY WspFormKept, WspSparedKept, WspTrackedKept, WspUndoneKept DEF WspIInv
<1>2. CASE Wsp!Next
  <2>1. WspWorld' /\ WspBounds' /\ WspFlags'
    BY <1>2, WspWorldKept, WspBoundsKept, WspFlagsKept DEF WspIInv
  <2> QED
    BY <1>1, <2>1 DEF WspIInv
<1>3. CASE UNCHANGED Wsp!vars
  <2>1. WspWorld' /\ WspBounds' /\ WspFlags'
    BY <1>3 DEF WspIInv, WspWorld, WspBounds, WspFlags, Wsp!Has, Wsp!vars, Wsp!wksp, Wsp!ctl, Wsp!ems
  <2> QED
    BY <1>1, <2>1 DEF WspIInv
<1> QED
  BY <1>2, <1>3

LEMMA WspTypes == ASSUME WspIInv PROVE Wsp!TypeOK
<1>1. wspCase.p \in Wsp!Profiles /\ wspCases \in Seq([op : Wsp!CaseNames, p : Wsp!Profiles])
  BY DEF WspIInv, WspForm, WspCases
<1>2. \A i \in DOMAIN wspOps : wspOps[i].p \in Wsp!Profiles
  <2>1. wspOps \in Seq(WspOps)
    BY DEF WspIInv, WspForm, WspShaped
  <2>2. \A i \in DOMAIN wspOps : wspOps[i] \in WspOps
    BY <2>1
  <2> QED
    BY <2>2 DEF WspOps
<1>3. wspSwept \subseteq Wsp!Profiles
  BY DEF WspIInv, WspWorld, WspSpared, Wsp!CleanUpSparesOthers
<1> QED
  BY <1>1, <1>2, <1>3 DEF WspIInv, WspWorld, WspBounds, WspFlags, Wsp!TypeOK

LEMMA WspReports == ASSUME WspIInv PROVE Wsp!LeftProfilesAreReported
  BY DEF WspIInv, WspForm, WspTracked, WspFlags, Wsp!LeftProfilesAreReported, Wsp!Done

LEMMA WspUndoes == ASSUME WspIInv PROVE Wsp!PatchesAreUndone
  BY DEF WspIInv, WspForm, WspUndone, Wsp!PatchesAreUndone, Wsp!Done

LEMMA WspDescends == ASSUME WspIInv PROVE Wsp!CleanUpTopDown
<1> SUFFICES ASSUME Wsp!InSweep, NEW i \in 2..Len(wspOps), wspOps[i].op = "sweep" PROVE Wsp!P \notin Below[wspOps[i].p]
  BY DEF Wsp!CleanUpTopDown
<1>1. WspForm /\ wspOps # <<>> /\ Head(wspOps).op = "sweep"
  BY DEF WspIInv, Wsp!InSweep
<1>2. wspOps \in Seq(WspOps) /\ Head(wspOps) = wspOps[1] /\ 1 \in DOMAIN wspOps
  BY <1>1, WspReading
<1>3. i \in DOMAIN wspOps /\ 1 < i
  BY <1>2, LenProperties
<1> QED
  BY <1>1, <1>2, <1>3 DEF WspForm, WspShaped, Wsp!P

\* The case list, the contents and what the workspace and the histories record stay what they are declared.
THEOREM WspTypeCorrect == ASSUME Wsp!WorkspaceAssumption PROVE Wsp!Spec => []Wsp!TypeOK
<1>1. Wsp!Init => WspIInv
  BY WspInitially
<1>2. WspIInv /\ [Wsp!Next]_(Wsp!vars) => WspIInv'
  BY WspInductive
<1>3. WspIInv => Wsp!TypeOK
  BY WspTypes
<1> QED
  BY <1>1, <1>2, <1>3, PTL DEF Wsp!Spec

\* Whatever the cases, their prerequisites and the other clients do, the clean-up of the workspace deletes a profile of
\* others only after a request for it was refused or broken off, or after another client registered it.
THEOREM WspOthersSpared == ASSUME Wsp!WorkspaceAssumption PROVE Wsp!Spec => []Wsp!CleanUpSparesOthers
<1>1. Wsp!Init => WspIInv
  BY WspInitially
<1>2. WspIInv /\ [Wsp!Next]_(Wsp!vars) => WspIInv'
  BY WspInductive
<1>3. WspIInv => Wsp!CleanUpSparesOthers
  BY DEF WspIInv, WspSpared
<1> QED
  BY <1>1, <1>2, <1>3, PTL DEF Wsp!Spec

\* A profile the run created and left behind fails the teardown, or a case whose request for it went wrong.
THEOREM WspLeftReported == ASSUME Wsp!WorkspaceAssumption PROVE Wsp!Spec => []Wsp!LeftProfilesAreReported
<1>1. Wsp!Init => WspIInv
  BY WspInitially
<1>2. WspIInv /\ [Wsp!Next]_(Wsp!vars) => WspIInv'
  BY WspInductive
<1>3. WspIInv => Wsp!LeftProfilesAreReported
  BY WspReports
<1> QED
  BY <1>1, <1>2, <1>3, PTL DEF Wsp!Spec

\* A run of which no case failed leaves no profile with a test's content.
THEOREM WspPatchesUndone == ASSUME Wsp!WorkspaceAssumption PROVE Wsp!Spec => []Wsp!PatchesAreUndone
<1>1. Wsp!Init => WspIInv
  BY WspInitially
<1>2. WspIInv /\ [Wsp!Next]_(Wsp!vars) => WspIInv'
  BY WspInductive
<1>3. WspIInv => Wsp!PatchesAreUndone
  BY WspUndoes
<1> QED
  BY <1>1, <1>2, <1>3, PTL DEF Wsp!Spec

\* The clean-up deletes what references a profile before the profile, for any catalogue in a references-first order.
THEOREM WspSweepTopDown == ASSUME Wsp!WorkspaceAssumption PROVE Wsp!Spec => []Wsp!CleanUpTopDown
<1>1. Wsp!Init => WspIInv
  BY WspInitially
<1>2. WspIInv /\ [Wsp!Next]_(Wsp!vars) => WspIInv'
  BY WspInductive
<1>3. WspIInv => Wsp!CleanUpTopDown
  BY WspDescends
<1> QED
  BY <1>1, <1>2, <1>3, PTL DEF Wsp!Spec


-----------------------------------------------------------------------------
(***************************************************************************)
(* The NeoX configuration tests.                                           *)
(***************************************************************************)
\* Join is well defined: what it has built after i elements follows from what it has built after i - 1.
NeoJoinN(a, b, f, n) == f = [i \in 0..n |-> IF i = 0 THEN a ELSE IF b[i] \in Neo!ToSet(f[i - 1]) THEN f[i - 1] ELSE Append(f[i - 1], b[i])]

LEMMA NeoJoinExists == ASSUME NEW a, NEW b, Len(b) \in Nat PROVE \E f : NeoJoinN(a, b, f, Len(b))
<1> DEFINE T == {n \in 0..Len(b) : \E f : NeoJoinN(a, b, f, n)}
<1>1. 0 \in T
  <2>1. NeoJoinN(a, b, [i \in 0..0 |-> a], 0)
    BY DEF NeoJoinN
  <2> QED
    BY <2>1
<1>2. ASSUME NEW n \in 1..Len(b), n - 1 \in T PROVE n \in T
  <2>1. PICK f : NeoJoinN(a, b, f, n - 1)
    BY <1>2
  <2> DEFINE last == IF b[n] \in Neo!ToSet(f[n - 1]) THEN f[n - 1] ELSE Append(f[n - 1], b[n])
             g == [i \in 0..n |-> IF i = n THEN last ELSE f[i]]
  <2>2. \A i \in 0..n : i # n => i \in 0..(n - 1) /\ (i # 0 => i - 1 \in 0..n /\ i - 1 # n)
    OBVIOUS
  <2>3. n - 1 \in 0..n /\ n - 1 # n /\ n # 0
    OBVIOUS
  <2>4. \A i \in 0..n : g[i] = IF i = 0 THEN a ELSE IF b[i] \in Neo!ToSet(g[i - 1]) THEN g[i - 1] ELSE Append(g[i - 1], b[i])
    BY <2>1, <2>2, <2>3 DEF NeoJoinN
  <2>5. NeoJoinN(a, b, g, n)
    BY <2>4 DEF NeoJoinN
  <2> QED
    BY <2>5
<1>3. 0..Len(b) \subseteq T
  BY <1>1, <1>2, WspUpTo
<1>4. Len(b) \in 0..Len(b)
  OBVIOUS
<1> QED
  BY <1>3, <1>4

LEMMA NeoJoinIs == ASSUME NEW a, NEW b, Len(b) \in Nat PROVE \E f : NeoJoinN(a, b, f, Len(b)) /\ Neo!Join(a, b) = f[Len(b)]
<1> DEFINE made == CHOOSE f : NeoJoinN(a, b, f, Len(b))
<1>1. NeoJoinN(a, b, made, Len(b))
  BY NeoJoinExists
<1>2. Neo!Join(a, b) = made[Len(b)]
  BY DEF Neo!Join, NeoJoinN
<1> QED
  BY <1>1, <1>2

\* So is Visited.
NeoVisitedN(p, below, f, n) == f = [i \in 0..n |-> IF i = 0 THEN <<>> ELSE Neo!Join(f[i - 1], Append(below[Direct[p][i]], Direct[p][i]))]

LEMMA NeoVisitedExists == ASSUME NEW p, NEW below, Len(Direct[p]) \in Nat PROVE \E f : NeoVisitedN(p, below, f, Len(Direct[p]))
<1> DEFINE T == {n \in 0..Len(Direct[p]) : \E f : NeoVisitedN(p, below, f, n)}
<1>1. 0 \in T
  <2>1. NeoVisitedN(p, below, [i \in 0..0 |-> <<>>], 0)
    BY DEF NeoVisitedN
  <2> QED
    BY <2>1
<1>2. ASSUME NEW n \in 1..Len(Direct[p]), n - 1 \in T PROVE n \in T
  <2>1. PICK f : NeoVisitedN(p, below, f, n - 1)
    BY <1>2
  <2> DEFINE last == Neo!Join(f[n - 1], Append(below[Direct[p][n]], Direct[p][n]))
             g == [i \in 0..n |-> IF i = n THEN last ELSE f[i]]
  <2>2. \A i \in 0..n : i # n => i \in 0..(n - 1) /\ (i # 0 => i - 1 \in 0..n /\ i - 1 # n)
    OBVIOUS
  <2>3. n - 1 \in 0..n /\ n - 1 # n /\ n # 0
    OBVIOUS
  <2>4. \A i \in 0..n : g[i] = IF i = 0 THEN <<>> ELSE Neo!Join(g[i - 1], Append(below[Direct[p][i]], Direct[p][i]))
    BY <2>1, <2>2, <2>3 DEF NeoVisitedN
  <2>5. NeoVisitedN(p, below, g, n)
    BY <2>4 DEF NeoVisitedN
  <2> QED
    BY <2>5
<1>3. 0..Len(Direct[p]) \subseteq T
  BY <1>1, <1>2, WspUpTo
<1>4. Len(Direct[p]) \in 0..Len(Direct[p])
  OBVIOUS
<1> QED
  BY <1>3, <1>4

LEMMA NeoVisitedIs == ASSUME NEW p, NEW below, Len(Direct[p]) \in Nat PROVE \E f : NeoVisitedN(p, below, f, Len(Direct[p])) /\ Neo!Visited(p, below) = f[Len(Direct[p])]
<1> DEFINE made == CHOOSE f : NeoVisitedN(p, below, f, Len(Direct[p]))
<1>1. NeoVisitedN(p, below, made, Len(Direct[p]))
  BY NeoVisitedExists
<1>2. Neo!Visited(p, below) = made[Len(Direct[p])]
  BY DEF Neo!Visited, NeoVisitedN
<1> QED
  BY <1>1, <1>2


\* And the table of what a profile needs.
NeoTableN(f, n) == f = [depth \in 0..n |-> [p \in NeoProfiles |-> IF depth = 0 THEN <<>> ELSE Neo!Visited(p, f[depth - 1])]]

LEMMA NeoTableExists == ASSUME NeoDepth \in Nat PROVE \E f : NeoTableN(f, NeoDepth)
<1> DEFINE T == {n \in 0..NeoDepth : \E f : NeoTableN(f, n)}
<1>1. 0 \in T
  <2>1. NeoTableN([depth \in 0..0 |-> [p \in NeoProfiles |-> <<>>]], 0)
    BY DEF NeoTableN
  <2> QED
    BY <2>1
<1>2. ASSUME NEW n \in 1..NeoDepth, n - 1 \in T PROVE n \in T
  <2>1. PICK f : NeoTableN(f, n - 1)
    BY <1>2
  <2> DEFINE g == [i \in 0..n |-> IF i = n THEN [p \in NeoProfiles |-> Neo!Visited(p, f[n - 1])] ELSE f[i]]
  <2>2. \A i \in 0..n : i # n => i \in 0..(n - 1) /\ (i # 0 => i - 1 \in 0..n /\ i - 1 # n)
    OBVIOUS
  <2>3. n - 1 \in 0..n /\ n - 1 # n /\ n # 0 /\ n \in 0..n
    OBVIOUS
  <2>4. g[n - 1] = f[n - 1] /\ g[n] = [p \in NeoProfiles |-> Neo!Visited(p, g[n - 1])]
    BY <2>3
  <2>5. \A i \in 0..n : i # n => g[i] = [p \in NeoProfiles |-> IF i = 0 THEN <<>> ELSE Neo!Visited(p, f[i - 1])]
    BY <2>1, <2>2 DEF NeoTableN
  <2>6. \A i \in 0..n : i # n /\ i # 0 => g[i - 1] = f[i - 1]
    BY <2>2
  <2>7. \A i \in 0..n : g[i] = [p \in NeoProfiles |-> IF i = 0 THEN <<>> ELSE Neo!Visited(p, g[i - 1])]
    <3> SUFFICES ASSUME NEW i \in 0..n PROVE g[i] = [p \in NeoProfiles |-> IF i = 0 THEN <<>> ELSE Neo!Visited(p, g[i - 1])]
      OBVIOUS
    <3>1. CASE i = n
      BY <2>3, <2>4, <3>1
    <3>2. CASE i # n /\ i # 0
      BY <2>5, <2>6, <3>2
    <3>3. CASE i # n /\ i = 0
      BY <2>5, <3>3
    <3> QED
      BY <3>1, <3>2, <3>3
  <2>8. NeoTableN(g, n)
    <3> HIDE DEF g
    <3> DEFINE h == [i \in 0..n |-> [p \in NeoProfiles |-> IF i = 0 THEN <<>> ELSE Neo!Visited(p, g[i - 1])]]
    <3>1. g = [i \in 0..n |-> g[i]]
      BY DEF g
    <3>2. h = [i \in 0..n |-> h[i]] /\ \A i \in 0..n : g[i] = h[i]
      BY <2>7
    <3>3. g = h
      BY <3>1, <3>2
    <3> QED
      BY <3>3 DEF NeoTableN
  <2> QED
    BY <2>8
<1>3. 0..NeoDepth \subseteq T
  BY <1>1, <1>2, WspUpTo
<1>4. NeoDepth \in 0..NeoDepth
  OBVIOUS
<1> QED
  BY <1>3, <1>4

LEMMA NeoTableIs == ASSUME NeoDepth \in Nat PROVE NeoTableN(Neo!NeedsDownTo, NeoDepth)
<1>1. NeoTableN(CHOOSE f : NeoTableN(f, NeoDepth), NeoDepth)
  BY NeoTableExists
<1>2. Neo!NeedsDownTo = CHOOSE f : NeoTableN(f, NeoDepth)
  BY DEF Neo!NeedsDownTo, NeoTableN
<1> QED
  BY <1>1, <1>2

\* A list of profiles in which each comes after all that it references, and before nothing that it references.
NeoIn(s, x) == \E i \in DOMAIN s : s[i] = x
NeoRooted(s) ==
  /\ s \in Seq(NeoProfiles)
  /\ \A i \in DOMAIN s : \A q \in Neo!ToSet(Direct[s[i]]) : \E j \in DOMAIN s : j < i /\ s[j] = q
NeoSorted(s) == \A i, j \in DOMAIN s : i < j => s[j] \notin Neo!ToSet(Direct[s[i]])
NeoTidy(s) == NeoRooted(s) /\ NeoSorted(s)
NeoHas(s, p) == \A q \in Neo!ToSet(Direct[p]) : NeoIn(s, q)

LEMMA NeoInSet == ASSUME NEW s, NEW x PROVE x \in Neo!ToSet(s) <=> NeoIn(s, x)
  BY DEF Neo!ToSet, NeoIn

LEMMA NeoAppended ==
  ASSUME NEW S, NEW s \in Seq(S), NEW x \in S
  PROVE  /\ Append(s, x) \in Seq(S) /\ Len(s) \in Nat /\ DOMAIN s = 1..Len(s)
         /\ Len(Append(s, x)) = Len(s) + 1 /\ DOMAIN Append(s, x) = 1..(Len(s) + 1)
         /\ \A i \in DOMAIN s : i \in DOMAIN Append(s, x) /\ Append(s, x)[i] = s[i] /\ i < Len(s) + 1
         /\ Append(s, x)[Len(s) + 1] = x /\ Len(s) + 1 \in DOMAIN Append(s, x)
         /\ \A i \in DOMAIN Append(s, x) : i \in DOMAIN s \/ i = Len(s) + 1
<1>1. /\ Append(s, x) \in Seq(S) /\ Len(s) \in Nat /\ DOMAIN s = 1..Len(s)
      /\ Len(Append(s, x)) = Len(s) + 1
      /\ \A i \in 1..Len(s) : Append(s, x)[i] = s[i]
      /\ Append(s, x)[Len(s) + 1] = x
  BY AppendProperties, LenProperties
<1>2. DOMAIN Append(s, x) = 1..(Len(s) + 1)
  BY <1>1, LenProperties
<1> HIDE DEF Neo!ToSet
<1> QED
  BY <1>1, <1>2

LEMMA NeoInAppended ==
  ASSUME NEW S, NEW s \in Seq(S), NEW x \in S, NEW y
  PROVE  NeoIn(Append(s, x), y) <=> NeoIn(s, y) \/ y = x
<1> DEFINE t == Append(s, x)
<1>1. /\ \A i \in DOMAIN s : i \in DOMAIN t /\ t[i] = s[i]
      /\ t[Len(s) + 1] = x /\ Len(s) + 1 \in DOMAIN t
      /\ \A i \in DOMAIN t : i \in DOMAIN s \/ i = Len(s) + 1
  BY NeoAppended
<1> HIDE DEF t
<1>2. NeoIn(t, y) <=> NeoIn(s, y) \/ y = x
  BY <1>1 DEF NeoIn
<1> QED
  BY <1>2 DEF t

LEMMA NeoRootedAppended ==
  ASSUME NEW s, NeoRooted(s), NEW p \in NeoProfiles, NeoHas(s, p)
  PROVE  NeoRooted(Append(s, p))
<1> DEFINE t == Append(s, p)
<1>1. /\ t \in Seq(NeoProfiles) /\ DOMAIN s = 1..Len(s)
      /\ \A i \in DOMAIN s : i \in DOMAIN t /\ t[i] = s[i] /\ i < Len(s) + 1
      /\ t[Len(s) + 1] = p
      /\ \A i \in DOMAIN t : i \in DOMAIN s \/ i = Len(s) + 1
  BY NeoAppended DEF NeoRooted
<1> HIDE DEF t
<1>2. \A i \in DOMAIN t : \A q \in Neo!ToSet(Direct[t[i]]) : \E j \in DOMAIN t : j < i /\ t[j] = q
  <2> SUFFICES ASSUME NEW i \in DOMAIN t, NEW q \in Neo!ToSet(Direct[t[i]]) PROVE \E j \in DOMAIN t : j < i /\ t[j] = q
    OBVIOUS
  <2>1. CASE i \in DOMAIN s
    <3>1. q \in Neo!ToSet(Direct[s[i]])
      BY <1>1, <2>1
    <3>2. PICK j \in DOMAIN s : j < i /\ s[j] = q
      BY <2>1, <3>1 DEF NeoRooted
    <3> QED
      BY <1>1, <3>2
  <2>2. CASE i = Len(s) + 1
    <3>1. NeoIn(s, q)
      BY <1>1, <2>2 DEF NeoHas
    <3>2. PICK j \in DOMAIN s : s[j] = q
      BY <3>1 DEF NeoIn
    <3> QED
      BY <1>1, <2>2, <3>2
  <2> QED
    BY <1>1, <2>1, <2>2
<1> QED
  BY <1>1, <1>2 DEF NeoRooted, t

LEMMA NeoSortedAppended ==
  ASSUME NEW s, NeoTidy(s), NEW p \in NeoProfiles, ~NeoIn(s, p)
  PROVE  NeoSorted(Append(s, p))
<1> DEFINE t == Append(s, p)
<1>1. /\ DOMAIN s = 1..Len(s) /\ Len(s) \in Nat
      /\ \A i \in DOMAIN s : i \in DOMAIN t /\ t[i] = s[i] /\ i < Len(s) + 1
      /\ t[Len(s) + 1] = p
      /\ \A i \in DOMAIN t : i \in DOMAIN s \/ i = Len(s) + 1
  BY NeoAppended DEF NeoTidy, NeoRooted
<1> HIDE DEF t
<1>2. SUFFICES ASSUME NEW i \in DOMAIN t, NEW j \in DOMAIN t, i < j PROVE t[j] \notin Neo!ToSet(Direct[t[i]])
  BY DEF NeoSorted, t
<1>3. i \in DOMAIN s
  BY <1>1, <1>2
<1>4. CASE j \in DOMAIN s
  <2>1. s[j] \notin Neo!ToSet(Direct[s[i]])
    BY <1>2, <1>3, <1>4 DEF NeoTidy, NeoSorted
  <2> QED
    BY <1>1, <1>3, <1>4, <2>1
<1>5. CASE j = Len(s) + 1
  <2>1. p \notin Neo!ToSet(Direct[s[i]])
    BY <1>3 DEF NeoTidy, NeoRooted, NeoIn
  <2> QED
    BY <1>1, <1>3, <1>5, <2>1
<1> QED
  BY <1>1, <1>4, <1>5

LEMMA NeoTidyAppended ==
  ASSUME NEW s, NeoTidy(s), NEW p \in NeoProfiles, NeoHas(s, p), ~NeoIn(s, p)
  PROVE  NeoTidy(Append(s, p))
  BY NeoRootedAppended, NeoSortedAppended DEF NeoTidy

\* Joining keeps lists tidy, and holds what both hold.
LEMMA NeoJoined ==
  ASSUME NEW a, NEW b, NeoTidy(a), NeoRooted(b)
  PROVE  NeoTidy(Neo!Join(a, b)) /\ \A x : NeoIn(Neo!Join(a, b), x) <=> NeoIn(a, x) \/ NeoIn(b, x)
<1>a. a \in Seq(NeoProfiles) /\ b \in Seq(NeoProfiles) /\ Len(b) \in Nat /\ DOMAIN b = 1..Len(b)
  BY LenProperties DEF NeoTidy, NeoRooted
<1>1. PICK f : NeoJoinN(a, b, f, Len(b)) /\ Neo!Join(a, b) = f[Len(b)]
  BY <1>a, NeoJoinIs
<1> DEFINE Upto(n, x) == \E i \in 1..n : b[i] = x
           Fine(n) == NeoTidy(f[n]) /\ \A x : NeoIn(f[n], x) <=> NeoIn(a, x) \/ Upto(n, x)
           T == {n \in 0..Len(b) : Fine(n)}
<1>2. 0 \in T
  <2>1. f[0] = a /\ 0 \in 0..Len(b)
    BY <1>1, <1>a DEF NeoJoinN
  <2>2. ~ \E i \in 1..0 : TRUE
    OBVIOUS
  <2>3. Fine(0)
    BY <2>1, <2>2
  <2> QED
    BY <2>1, <2>3
<1>3. ASSUME NEW n \in 1..Len(b), n - 1 \in T PROVE n \in T
  <2>1. n \in 0..Len(b) /\ n # 0 /\ n \in DOMAIN b /\ b[n] \in NeoProfiles /\ Fine(n - 1)
    BY <1>3, <1>a, ElementOfSeq
  <2>2. f[n] = IF b[n] \in Neo!ToSet(f[n - 1]) THEN f[n - 1] ELSE Append(f[n - 1], b[n])
    BY <1>1, <2>1 DEF NeoJoinN
  <2>3. \A x : Upto(n, x) <=> Upto(n - 1, x) \/ x = b[n]
    <3>1. 1..n = 1..(n - 1) \cup {n}
      BY <2>1
    <3> QED
      BY <3>1
  <2> HIDE DEF Upto
  <2>4. CASE NeoIn(f[n - 1], b[n])
    <3>1. f[n] = f[n - 1]
      BY <2>2, <2>4, NeoInSet
    <3>2. Fine(n)
      BY <2>1, <2>3, <2>4, <3>1
    <3> QED
      BY <2>1, <3>2
  <2>5. CASE ~NeoIn(f[n - 1], b[n])
    <3>1. f[n] = Append(f[n - 1], b[n])
      BY <2>2, <2>5, NeoInSet
    <3>2. NeoHas(f[n - 1], b[n])
      <4> SUFFICES ASSUME NEW q \in Neo!ToSet(Direct[b[n]]) PROVE NeoIn(f[n - 1], q)
        BY DEF NeoHas
      <4>1. PICK j \in DOMAIN b : j < n /\ b[j] = q
        BY <2>1 DEF NeoRooted
      <4>2. j \in 1..(n - 1)
        BY <1>a, <2>1, <4>1
      <4>3. Upto(n - 1, q)
        BY <4>1, <4>2 DEF Upto
      <4> QED
        BY <2>1, <4>3
    <3>3. NeoTidy(f[n])
      BY <2>1, <2>5, <3>1, <3>2, NeoTidyAppended
    <3>4. f[n - 1] \in Seq(NeoProfiles)
      BY <2>1 DEF NeoTidy, NeoRooted
    <3>5. \A x : NeoIn(f[n], x) <=> NeoIn(f[n - 1], x) \/ x = b[n]
      BY <2>1, <3>1, <3>4, NeoInAppended
    <3>6. Fine(n)
      BY <2>1, <2>3, <3>3, <3>5
    <3> QED
      BY <2>1, <3>6
  <2> QED
    BY <2>4, <2>5
<1>4. Fine(Len(b))
  <2>1. 0..Len(b) \subseteq T
    <3> HIDE DEF T
    <3> QED
      BY <1>2, <1>3, <1>a, WspUpTo
  <2> QED
    BY <2>1, <1>a
<1>5. \A x : Upto(Len(b), x) <=> NeoIn(b, x)
  BY <1>a DEF NeoIn
<1> HIDE DEF Upto
<1> QED
  BY <1>1, <1>4, <1>5

\* What a profile needs: all that it references and all that those need, in order, and nothing at its own level.
NeoDown(level) ==
  /\ level \in [NeoProfiles -> 0..NeoDepth]
  /\ \A p \in NeoProfiles : \A q \in Neo!ToSet(Direct[p]) : level[q] < level[p]
NeoServed(level, p, s) == NeoTidy(s) /\ NeoHas(s, p) /\ \A x : NeoIn(s, x) => x \in NeoProfiles /\ level[x] < level[p]

LEMMA NeoNothingTidy == NeoTidy(<<>>) /\ \A x : ~NeoIn(<<>>, x)
  BY DEF NeoTidy, NeoRooted, NeoSorted, NeoIn

LEMMA NeoVisitedServes ==
  ASSUME Neo!NeoxAssumption, NEW level, NeoDown(level), NEW p \in NeoProfiles, NEW below,
         \A q \in Neo!ToSet(Direct[p]) : NeoServed(level, q, below[q])
  PROVE  NeoServed(level, p, Neo!Visited(p, below))
<1>a. /\ Direct[p] \in Seq(NeoProfiles) /\ Len(Direct[p]) \in Nat /\ DOMAIN Direct[p] = 1..Len(Direct[p])
      /\ \A i \in DOMAIN Direct[p] : Direct[p][i] \in NeoProfiles /\ Direct[p][i] \in Neo!ToSet(Direct[p])
  <2>1. Direct[p] \in Seq(NeoProfiles)
    BY DEF Neo!NeoxAssumption
  <2>2. Len(Direct[p]) \in Nat /\ DOMAIN Direct[p] = 1..Len(Direct[p])
    BY <2>1, LenProperties
  <2>3. \A i \in DOMAIN Direct[p] : Direct[p][i] \in NeoProfiles
    BY <2>1, <2>2, ElementOfSeq
  <2> QED
    BY <2>1, <2>2, <2>3 DEF Neo!ToSet
<1>1. PICK f : NeoVisitedN(p, below, f, Len(Direct[p])) /\ Neo!Visited(p, below) = f[Len(Direct[p])]
  BY <1>a, NeoVisitedIs
<1> DEFINE Fine(n) == /\ NeoTidy(f[n])
                      /\ \A i \in 1..n : NeoIn(f[n], Direct[p][i])
                      /\ \A x : NeoIn(f[n], x) => x \in NeoProfiles /\ level[x] < level[p]
           T == {n \in 0..Len(Direct[p]) : Fine(n)}
<1>2. 0 \in T
  <2>1. f[0] = <<>> /\ 0 \in 0..Len(Direct[p])
    BY <1>1, <1>a DEF NeoVisitedN
  <2>2. ~ \E i \in 1..0 : TRUE
    OBVIOUS
  <2>3. Fine(0)
    BY <2>1, <2>2, NeoNothingTidy
  <2> QED
    BY <2>1, <2>3
<1>3. ASSUME NEW n \in 1..Len(Direct[p]), n - 1 \in T PROVE n \in T
  <2>1. n \in 0..Len(Direct[p]) /\ n # 0 /\ n \in DOMAIN Direct[p] /\ Fine(n - 1)
    BY <1>3, <1>a
  <2> DEFINE q == Direct[p][n]
             more == Append(below[q], q)
  <2>2. f[n] = Neo!Join(f[n - 1], more)
    BY <1>1, <2>1 DEF NeoVisitedN
  <2>3. q \in NeoProfiles /\ q \in Neo!ToSet(Direct[p]) /\ NeoServed(level, q, below[q])
    BY <1>a, <2>1
  <2> HIDE DEF q
  <2>4. below[q] \in Seq(NeoProfiles)
    BY <2>3 DEF NeoServed, NeoTidy, NeoRooted
  <2>5. NeoRooted(more)
    BY <2>3, NeoRootedAppended DEF NeoServed, NeoTidy
  <2>6. \A x : NeoIn(more, x) <=> NeoIn(below[q], x) \/ x = q
    BY <2>3, <2>4, NeoInAppended
  <2> HIDE DEF more
  <2>7. NeoTidy(f[n]) /\ \A x : NeoIn(f[n], x) <=> NeoIn(f[n - 1], x) \/ NeoIn(more, x)
    BY <2>1, <2>2, <2>5, NeoJoined
  <2>8. \A i \in 1..n : NeoIn(f[n], Direct[p][i])
    <3>1. 1..n = 1..(n - 1) \cup {n}
      BY <2>1
    <3> QED
      BY <2>1, <2>6, <2>7, <3>1 DEF q
  <2>9. ASSUME NEW x, NeoIn(f[n], x) PROVE x \in NeoProfiles /\ level[x] < level[p]
    <3>0. level[q] < level[p] /\ level[q] \in Nat /\ level[p] \in Nat
      BY <2>3 DEF NeoDown
    <3>1. CASE NeoIn(f[n - 1], x)
      BY <2>1, <3>1
    <3>2. CASE NeoIn(below[q], x)
      <4>1. x \in NeoProfiles /\ level[x] < level[q] /\ level[x] \in Nat
        BY <2>3, <3>2 DEF NeoServed, NeoDown
      <4> QED
        BY <3>0, <4>1
    <3>3. CASE x = q
      BY <2>3, <3>0, <3>3
    <3> QED
      BY <2>6, <2>7, <2>9, <3>1, <3>2, <3>3
  <2>10. Fine(n)
    BY <2>7, <2>8, <2>9
  <2> QED
    BY <2>1, <2>10
<1>4. Fine(Len(Direct[p]))
  <2>1. 0..Len(Direct[p]) \subseteq T
    <3> HIDE DEF T
    <3> QED
      BY <1>2, <1>3, <1>a, WspUpTo
  <2> QED
    BY <2>1, <1>a
<1>5. NeoHas(f[Len(Direct[p])], p)
  BY <1>4, <1>a DEF NeoHas, Neo!ToSet
<1> QED
  BY <1>1, <1>4, <1>5 DEF NeoServed

LEMMA NeoNeedsServe == ASSUME Neo!NeoxAssumption, NEW level, NeoDown(level), NEW p \in NeoProfiles PROVE NeoServed(level, p, Neo!Needs(p))
<1>a. NeoDepth \in Nat /\ level \in [NeoProfiles -> 0..NeoDepth]
  BY DEF Neo!NeoxAssumption, NeoDown
<1>1. NeoTableN(Neo!NeedsDownTo, NeoDepth)
  BY <1>a, NeoTableIs
<1> DEFINE Fine(n) == \A q \in NeoProfiles : level[q] <= n => NeoServed(level, q, Neo!NeedsDownTo[n][q])
           T == {n \in 0..NeoDepth : Fine(n)}
<1>2. 0 \in T
  <2>1. 0 \in 0..NeoDepth /\ \A q \in NeoProfiles : Neo!NeedsDownTo[0][q] = <<>>
    BY <1>1, <1>a DEF NeoTableN
  <2>2. ASSUME NEW q \in NeoProfiles, level[q] <= 0 PROVE NeoServed(level, q, Neo!NeedsDownTo[0][q])
    <3>1. ASSUME NEW r \in Neo!ToSet(Direct[q]) PROVE FALSE
      <4>1. Direct[q] \in Seq(NeoProfiles)
        BY DEF Neo!NeoxAssumption
      <4>2. r \in NeoProfiles
        BY <4>1 DEF Neo!ToSet
      <4>3. level[r] < level[q] /\ level[r] \in Nat
        BY <3>1, <4>2, <1>a DEF NeoDown
      <4> QED
        BY <2>2, <4>3, <1>a
    <3>2. NeoHas(<<>>, q)
      BY <3>1 DEF NeoHas
    <3> QED
      BY <2>1, <3>2, NeoNothingTidy DEF NeoServed
  <2> QED
    BY <2>1, <2>2
<1>3. ASSUME NEW n \in 1..NeoDepth, n - 1 \in T PROVE n \in T
  <2>1. n \in 0..NeoDepth /\ n # 0 /\ Fine(n - 1)
    BY <1>3, <1>a
  <2>2. \A q \in NeoProfiles : Neo!NeedsDownTo[n][q] = Neo!Visited(q, Neo!NeedsDownTo[n - 1])
    <3>1. \A depth \in 0..NeoDepth : Neo!NeedsDownTo[depth] = [q \in NeoProfiles |-> IF depth = 0 THEN <<>> ELSE Neo!Visited(q, Neo!NeedsDownTo[depth - 1])]
      <4> DEFINE g == Neo!NeedsDownTo
      <4>1. NeoTableN(g, NeoDepth)
        BY <1>1
      <4> HIDE DEF g
      <4>2. \A depth \in 0..NeoDepth : g[depth] = [q \in NeoProfiles |-> IF depth = 0 THEN <<>> ELSE Neo!Visited(q, g[depth - 1])]
        BY <4>1 DEF NeoTableN
      <4> QED
        BY <4>2 DEF g
    <3>2. Neo!NeedsDownTo[n] = [q \in NeoProfiles |-> Neo!Visited(q, Neo!NeedsDownTo[n - 1])]
      BY <2>1, <3>1
    <3> QED
      BY <3>2
  <2>3. ASSUME NEW q \in NeoProfiles, level[q] <= n PROVE NeoServed(level, q, Neo!NeedsDownTo[n][q])
    <3>1. ASSUME NEW r \in Neo!ToSet(Direct[q]) PROVE NeoServed(level, r, Neo!NeedsDownTo[n - 1][r])
      <4>1. Direct[q] \in Seq(NeoProfiles)
        BY DEF Neo!NeoxAssumption
      <4>2. r \in NeoProfiles
        BY <4>1 DEF Neo!ToSet
      <4>3. level[r] < level[q] /\ level[r] \in Nat /\ level[q] \in Nat
        BY <3>1, <4>2, <1>a DEF NeoDown
      <4>4. level[r] <= n - 1
        BY <2>3, <4>3, <1>a
      <4> QED
        BY <2>1, <4>2, <4>4
    <3> QED
      BY <2>2, <3>1, NeoVisitedServes
  <2> QED
    BY <2>1, <2>3
<1>4. Fine(NeoDepth)
  <2>1. 0..NeoDepth \subseteq T
    <3> HIDE DEF T
    <3> QED
      BY <1>2, <1>3, <1>a, WspUpTo
  <2> QED
    BY <2>1, <1>a
<1>5. level[p] <= NeoDepth
  BY <1>a
<1> QED
  BY <1>4, <1>5 DEF Neo!Needs

\* What the tests use of it.
LEMMA NeoNeedsTidy == ASSUME Neo!NeoxAssumption, NEW p \in NeoProfiles
  PROVE  /\ Neo!Needs(p) \in Seq(NeoProfiles) /\ NeoSorted(Neo!Needs(p))
         /\ \A i \in DOMAIN Neo!Needs(p) : p \notin Neo!ToSet(Direct[Neo!Needs(p)[i]])
<1>1. PICK level : NeoDown(level)
  BY DEF Neo!NeoxAssumption, NeoDown
<1>2. NeoServed(level, p, Neo!Needs(p))
  BY <1>1, NeoNeedsServe
<1>3. Neo!Needs(p) \in Seq(NeoProfiles) /\ NeoSorted(Neo!Needs(p))
  BY <1>2 DEF NeoServed, NeoTidy, NeoRooted
<1>4. ASSUME NEW i \in DOMAIN Neo!Needs(p), p \in Neo!ToSet(Direct[Neo!Needs(p)[i]]) PROVE FALSE
  <2>1. NeoIn(Neo!Needs(p), p)
    BY <1>2, <1>4 DEF NeoServed, NeoTidy, NeoRooted, NeoIn
  <2>2. level[p] < level[p] /\ level[p] \in Nat
    BY <1>1, <1>2, <2>1 DEF NeoServed, NeoDown
  <2> QED
    BY <2>2
<1> QED
  BY <1>3, <1>4

\* The operations of a test.
NeoAdds     == {"add_delete", "add_post", "add_strict", "add_finally"}
NeoRequests == {"drop", "clear", "post", "delete", "post_invalid", "delete_invalid", "absent", "assert", "look", "note",
                "same", "gone", "ensure"}
NeoOps   == [op : NeoAdds \cup NeoRequests \cup {"scenario", "end"}, x : Neo!Objects]
NeoPlain == [op : NeoAdds \cup NeoRequests, x : Neo!Objects]
NeoCalm  == [op : NeoRequests, x : Neo!Objects]

\* What an operation takes for granted: that the removal of what it posts, or the return of the ONT it changes, is registered.
NeoBacked(given) == \E g \in given : g.op \in {"add_post", "add_strict"}
NeoWarranted(o, given) ==
  /\ o.op = "post" /\ o.x \in NeoProfiles \cup {"port"} => Neo!Op("add_delete", o.x) \in given
  /\ o.op \in {"clear", "drop", "post", "delete", "add_delete"} /\ o.x = "ont" => NeoBacked(given)
  /\ o.op \in {"add_post", "add_strict"} => o.x = "ont"
  /\ (o.op = "ensure" => o.x \in Neo!Sfu) /\ (o.op = "scenario" => o.x = "ont") /\ (o.op = "add_finally" => o.x # "ont")
NeoBefore(s, i) == {s[j] : j \in 1..(i - 1)}
NeoFit(s, given) == \A i \in DOMAIN s : NeoWarranted(s[i], given \cup NeoBefore(s, i))
NeoChain(s, given) == s \in Seq(NeoPlain) /\ NeoFit(s, given)

LEMMA NeoWarrantedMore == ASSUME NEW o, NEW g, NEW h, NeoWarranted(o, g), g \subseteq h PROVE NeoWarranted(o, h)
  BY DEF NeoWarranted, NeoBacked

LEMMA NeoOpIs == ASSUME NEW name, NEW x PROVE Neo!Op(name, x).op = name /\ Neo!Op(name, x).x = x
  BY DEF Neo!Op

LEMMA NeoObjective == /\ \A p \in NeoProfiles : p \in Neo!Objects
                      /\ {"port", "ont", "sfu", "sfu_profile"} \subseteq Neo!Objects
  BY DEF Neo!Objects, Neo!Sfu

LEMMA NeoPlainOp == ASSUME NEW name \in NeoAdds \cup NeoRequests, NEW x \in Neo!Objects PROVE Neo!Op(name, x) \in NeoPlain
  BY DEF Neo!Op, NeoPlain

LEMMA NeoCalmPlain == NeoCalm \subseteq NeoPlain /\ NeoPlain \subseteq NeoOps
  BY DEF NeoCalm, NeoPlain, NeoOps

LEMMA NeoPlaces ==
  ASSUME NEW S, NEW a \in Seq(S), NEW b \in Seq(S)
  PROVE  /\ a \o b \in Seq(S)
         /\ \A i \in DOMAIN a : i \in DOMAIN (a \o b) /\ (a \o b)[i] = a[i]
         /\ \A j \in DOMAIN b : Len(a) + j \in DOMAIN (a \o b) /\ (a \o b)[Len(a) + j] = b[j]
         /\ \A i \in DOMAIN (a \o b) : i \in DOMAIN a \/ \E j \in DOMAIN b : i = Len(a) + j
<1>1. Len(a) \in Nat /\ DOMAIN a = 1..Len(a)
  BY LenProperties
<1>2. Len(b) \in Nat /\ DOMAIN b = 1..Len(b)
  BY LenProperties
<1>3. /\ a \o b \in Seq(S) /\ Len(a \o b) = Len(a) + Len(b)
      /\ \A i \in 1..(Len(a) + Len(b)) : (a \o b)[i] = IF i <= Len(a) THEN a[i] ELSE b[i - Len(a)]
  BY ConcatProperties
<1>4. DOMAIN (a \o b) = 1..(Len(a) + Len(b))
  BY <1>3, LenProperties
<1> DEFINE c == a \o b
<1> HIDE DEF c
<1>5. /\ \A i \in DOMAIN a : i \in DOMAIN c /\ c[i] = a[i]
      /\ \A j \in DOMAIN b : Len(a) + j \in DOMAIN c /\ c[Len(a) + j] = b[j]
  BY <1>1, <1>2, <1>3, <1>4 DEF c
<1>6. \A i \in DOMAIN c : i \in DOMAIN a \/ \E j \in DOMAIN b : i = Len(a) + j
  <2> SUFFICES ASSUME NEW i \in DOMAIN c, i \notin DOMAIN a PROVE \E j \in DOMAIN b : i = Len(a) + j
    OBVIOUS
  <2>1. i - Len(a) \in DOMAIN b /\ i = Len(a) + (i - Len(a))
    BY <1>1, <1>2, <1>4 DEF c
  <2> QED
    BY <2>1
<1> QED
  BY <1>3, <1>5, <1>6 DEF c

LEMMA NeoInJoined ==
  ASSUME NEW S, NEW a \in Seq(S), NEW b \in Seq(S), NEW x
  PROVE  x \in Neo!ToSet(a \o b) <=> x \in Neo!ToSet(a) \/ x \in Neo!ToSet(b)
<1> DEFINE c == a \o b
<1>1. /\ \A i \in DOMAIN a : i \in DOMAIN c /\ c[i] = a[i]
      /\ \A j \in DOMAIN b : Len(a) + j \in DOMAIN c /\ c[Len(a) + j] = b[j]
      /\ \A i \in DOMAIN c : i \in DOMAIN a \/ \E j \in DOMAIN b : i = Len(a) + j
  BY NeoPlaces
<1> HIDE DEF c
<1>2. x \in Neo!ToSet(c) <=> x \in Neo!ToSet(a) \/ x \in Neo!ToSet(b)
  BY <1>1 DEF Neo!ToSet
<1> QED
  BY <1>2 DEF c

\* What an operation takes for granted may have been registered by those before it.
LEMMA NeoChainJoined ==
  ASSUME NEW s, NEW t, NEW g, NEW h, NeoChain(s, g), NeoChain(t, h), h \subseteq g \cup Neo!ToSet(s)
  PROVE  NeoChain(s \o t, g)
<1> DEFINE c == s \o t
<1>0. s \in Seq(NeoPlain) /\ t \in Seq(NeoPlain)
  BY DEF NeoChain
<1>1. /\ c \in Seq(NeoPlain)
      /\ \A i \in DOMAIN s : i \in DOMAIN c /\ c[i] = s[i]
      /\ \A j \in DOMAIN t : Len(s) + j \in DOMAIN c /\ c[Len(s) + j] = t[j]
      /\ \A i \in DOMAIN c : i \in DOMAIN s \/ \E j \in DOMAIN t : i = Len(s) + j
  BY <1>0, NeoPlaces
<1>2. /\ Len(s) \in Nat /\ DOMAIN s = 1..Len(s)
      /\ Len(t) \in Nat /\ DOMAIN t = 1..Len(t)
  BY <1>0, LenProperties
<1> HIDE DEF c
<1>3. ASSUME NEW i \in DOMAIN s PROVE NeoWarranted(c[i], g \cup NeoBefore(c, i))
  <2>1. \A j \in 1..(i - 1) : j \in DOMAIN s
    BY <1>2
  <2>2. NeoBefore(s, i) \subseteq NeoBefore(c, i)
    BY <1>1, <2>1 DEF NeoBefore
  <2>3. NeoWarranted(s[i], g \cup NeoBefore(s, i))
    BY DEF NeoChain, NeoFit
  <2>4. g \cup NeoBefore(s, i) \subseteq g \cup NeoBefore(c, i)
    BY <2>2
  <2> QED
    BY <1>1, <2>3, <2>4, NeoWarrantedMore
<1>4. ASSUME NEW j \in DOMAIN t PROVE NeoWarranted(c[Len(s) + j], g \cup NeoBefore(c, Len(s) + j))
  <2>1. ASSUME NEW k \in 1..(j - 1) PROVE t[k] \in NeoBefore(c, Len(s) + j)
    <3>1. k \in DOMAIN t /\ Len(s) + k \in 1..((Len(s) + j) - 1)
      BY <1>2
    <3> QED
      BY <1>1, <3>1 DEF NeoBefore
  <2>2. ASSUME NEW k \in DOMAIN s PROVE s[k] \in NeoBefore(c, Len(s) + j)
    <3>1. k \in 1..((Len(s) + j) - 1)
      BY <1>2
    <3> QED
      BY <1>1, <3>1 DEF NeoBefore
  <2>3. h \cup NeoBefore(t, j) \subseteq g \cup NeoBefore(c, Len(s) + j)
    BY <2>1, <2>2 DEF NeoBefore, Neo!ToSet
  <2>4. NeoWarranted(t[j], h \cup NeoBefore(t, j))
    BY DEF NeoChain, NeoFit
  <2> QED
    BY <1>1, <2>3, <2>4, NeoWarrantedMore
<1>5. NeoFit(c, g)
  BY <1>1, <1>3, <1>4 DEF NeoFit
<1> QED
  BY <1>1, <1>5 DEF NeoChain, c

\* One operation after the other on one object whose removal is registered.
LEMMA NeoChainMore ==
  ASSUME NEW s, NEW t, NEW d, NeoChain(s, {}), d \in Neo!ToSet(s), NeoChain(t, {d})
  PROVE  NeoChain(s \o t, {}) /\ d \in Neo!ToSet(s \o t)
<1>1. {d} \subseteq {} \cup Neo!ToSet(s)
  OBVIOUS
<1>2. NeoChain(s \o t, {})
  BY <1>1, NeoChainJoined
<1>3. s \in Seq(NeoPlain) /\ t \in Seq(NeoPlain)
  BY DEF NeoChain
<1> QED
  BY <1>2, <1>3, NeoInJoined

LEMMA NeoChainEach ==
  ASSUME NEW s \in Seq(NeoPlain), NEW g, \A i \in DOMAIN s : NeoWarranted(s[i], g)
  PROVE  NeoChain(s, g)
<1>1. ASSUME NEW i \in DOMAIN s PROVE NeoWarranted(s[i], g \cup NeoBefore(s, i))
  <2>1. g \subseteq g \cup NeoBefore(s, i)
    OBVIOUS
  <2> QED
    BY <2>1, NeoWarrantedMore
<1> QED
  BY <1>1 DEF NeoChain, NeoFit

LEMMA NeoAddedChain ==
  ASSUME NEW x \in Neo!Objects, NEW g, x = "ont" => NeoBacked(g)
  PROVE  NeoChain(Neo!Added(x), g) /\ Neo!Op("add_delete", x) \in Neo!ToSet(Neo!Added(x))
<1>1. Neo!Op("add_delete", x) \in NeoPlain
  BY NeoPlainOp DEF NeoAdds
<1>2. Neo!Added(x) \in Seq(NeoPlain) /\ \A i \in DOMAIN Neo!Added(x) : Neo!Added(x)[i] = Neo!Op("add_delete", x)
  BY <1>1 DEF Neo!Added
<1>3. NeoWarranted(Neo!Op("add_delete", x), g)
  BY NeoOpIs DEF NeoWarranted
<1>4. 1 \in DOMAIN Neo!Added(x)
  BY DEF Neo!Added
<1>5. NeoChain(Neo!Added(x), g)
  BY <1>2, <1>3, NeoChainEach
<1> QED
  BY <1>2, <1>4, <1>5 DEF Neo!ToSet

\* Which adds may follow which: a clean-up goes the other way.
NeoApart(a, b) == a.op = "add_delete" /\ b.op = "add_delete" /\ a.x \in NeoProfiles => b.x \notin Neo!ToSet(Direct[a.x])
NeoDescends(s) == \A i, j \in DOMAIN s : i < j => NeoApart(s[i], s[j])
NeoAllApart(s, t) == \A i \in DOMAIN s : \A j \in DOMAIN t : NeoApart(s[i], t[j])

LEMMA NeoDescendsJoined ==
  ASSUME NEW s \in Seq(NeoOps), NEW t \in Seq(NeoOps), NeoDescends(s), NeoDescends(t), NeoAllApart(s, t)
  PROVE  NeoDescends(s \o t)
<1> DEFINE c == s \o t
<1>1. /\ \A i \in DOMAIN s : i \in DOMAIN c /\ c[i] = s[i]
      /\ \A j \in DOMAIN t : Len(s) + j \in DOMAIN c /\ c[Len(s) + j] = t[j]
      /\ \A i \in DOMAIN c : i \in DOMAIN s \/ \E j \in DOMAIN t : i = Len(s) + j
  BY NeoPlaces
<1>2. /\ Len(s) \in Nat /\ DOMAIN s = 1..Len(s)
      /\ Len(t) \in Nat /\ DOMAIN t = 1..Len(t)
  BY LenProperties
<1> HIDE DEF c
<1>3. SUFFICES ASSUME NEW i \in DOMAIN c, NEW j \in DOMAIN c, i < j PROVE NeoApart(c[i], c[j])
  BY DEF NeoDescends, c
<1>4. CASE i \in DOMAIN s /\ j \in DOMAIN s
  BY <1>1, <1>3, <1>4 DEF NeoDescends
<1>5. ASSUME i \in DOMAIN s, NEW l \in DOMAIN t, j = Len(s) + l PROVE NeoApart(c[i], c[j])
  BY <1>1, <1>5 DEF NeoAllApart
<1>6. ASSUME NEW k \in DOMAIN t, i = Len(s) + k, NEW l \in DOMAIN t, j = Len(s) + l PROVE NeoApart(c[i], c[j])
  <2>1. k < l
    BY <1>2, <1>3, <1>6
  <2> QED
    BY <1>1, <1>6, <2>1 DEF NeoDescends
<1>7. ASSUME NEW k \in DOMAIN t, i = Len(s) + k, j \in DOMAIN s PROVE FALSE
  BY <1>2, <1>3, <1>7
<1> QED
  BY <1>1, <1>4, <1>5, <1>6, <1>7

LEMMA NeoCalmApart == ASSUME NEW s, NEW t \in Seq(NeoCalm) PROVE NeoDescends(t) /\ NeoAllApart(s, t)
<1>1. \A i \in DOMAIN t : t[i].op # "add_delete"
  <2>1. \A i \in DOMAIN t : t[i] \in NeoCalm
    BY ElementOfSeq, LenProperties
  <2> QED
    BY <2>1 DEF NeoCalm, NeoRequests
<1> QED
  BY <1>1 DEF NeoDescends, NeoAllApart, NeoApart

\* Removals of the port and of the ONT.
NeoOdd(s) == \A i \in DOMAIN s : s[i].op = "add_delete" => s[i].x \in {"port", "ont"}
LEMMA NeoOddApart ==
  ASSUME Neo!NeoxAssumption, NEW s \in Seq(NeoOps), NEW t, NeoOdd(t)
  PROVE  NeoDescends(t) /\ NeoAllApart(s, t)
<1>1. "port" \notin NeoProfiles /\ "ont" \notin NeoProfiles
  BY DEF Neo!NeoxAssumption
<1>2. ASSUME NEW p \in NeoProfiles PROVE "port" \notin Neo!ToSet(Direct[p]) /\ "ont" \notin Neo!ToSet(Direct[p])
  <2>1. Direct[p] \in Seq(NeoProfiles)
    BY DEF Neo!NeoxAssumption
  <2>2. Neo!ToSet(Direct[p]) \subseteq NeoProfiles
    BY <2>1 DEF Neo!ToSet
  <2> QED
    BY <1>1, <2>2
<1>3. NeoDescends(t)
  BY <1>1 DEF NeoOdd, NeoDescends, NeoApart
<1>4. NeoAllApart(s, t)
  BY <1>2 DEF NeoOdd, NeoAllApart, NeoApart
<1> QED
  BY <1>3, <1>4

LEMMA NeoOddJoined == ASSUME NEW s \in Seq(NeoOps), NEW t \in Seq(NeoOps), NeoOdd(s), NeoOdd(t) PROVE NeoOdd(s \o t)
<1> DEFINE c == s \o t
<1>1. /\ \A i \in DOMAIN s : i \in DOMAIN c /\ c[i] = s[i]
      /\ \A j \in DOMAIN t : Len(s) + j \in DOMAIN c /\ c[Len(s) + j] = t[j]
      /\ \A i \in DOMAIN c : i \in DOMAIN s \/ \E j \in DOMAIN t : i = Len(s) + j
  BY NeoPlaces
<1> HIDE DEF c
<1>2. NeoOdd(c)
  BY <1>1 DEF NeoOdd
<1> QED
  BY <1>2 DEF c

\* EnsureDependencies takes three operations for each profile that is needed.
NeoRound(q) == Neo!Added(q) \o Neo!Replace(q)
LEMMA NeoRoundIs ==
  ASSUME NEW q \in NeoProfiles
  PROVE  NeoRound(q)[1] = Neo!Op("add_delete", q) /\ NeoRound(q)[2] = Neo!Op("drop", q) /\ NeoRound(q)[3] = Neo!Op("post", q)
<1> DEFINE a == <<Neo!Op("add_delete", q)>>
           b == <<Neo!Op("drop", q), Neo!Op("post", q)>>
<1>1. Neo!Op("add_delete", q) \in NeoPlain /\ Neo!Op("drop", q) \in NeoPlain /\ Neo!Op("post", q) \in NeoPlain
  BY NeoPlainOp, NeoObjective DEF NeoAdds, NeoRequests
<1>2. a \in Seq(NeoPlain) /\ b \in Seq(NeoPlain) /\ Len(a) = 1 /\ Len(b) = 2 /\ DOMAIN a = 1..1 /\ DOMAIN b = 1..2
  BY <1>1
<1>3. a[1] = Neo!Op("add_delete", q) /\ b[1] = Neo!Op("drop", q) /\ b[2] = Neo!Op("post", q)
  OBVIOUS
<1> HIDE DEF a, b
<1>4. (a \o b)[1] = a[1] /\ (a \o b)[1 + 1] = b[1] /\ (a \o b)[1 + 2] = b[2]
  BY <1>2, NeoPlaces
<1>5. NeoRound(q) = a \o b
  BY DEF NeoRound, Neo!Added, Neo!Replace, a, b
<1>6. 1 + 1 = 2 /\ 1 + 2 = 3
  OBVIOUS
<1>7. (a \o b)[1] = a[1] /\ (a \o b)[2] = b[1] /\ (a \o b)[3] = b[2]
  BY <1>4, <1>6, Zenon
<1> QED
  BY <1>3, <1>5, <1>7, Zenon

LEMMA NeoThirds ==
  ASSUME NEW n \in Nat, NEW i \in 1..3 * n
  PROVE  LET k == (i + 2) \div 3 IN
         /\ k \in 1..n
         /\ \/ i = 3 * k - 2 /\ ((i - 1) % 3) + 1 = 1
            \/ i = 3 * k - 1 /\ ((i - 1) % 3) + 1 = 2
            \/ i = 3 * k /\ ((i - 1) % 3) + 1 = 3
  OBVIOUS

LEMMA NeoEnsureIs ==
  ASSUME NEW p, Neo!Needs(p) \in Seq(NeoProfiles)
  PROVE  LET e == Neo!EnsureDependencies(p) IN
         /\ e \in Seq(NeoPlain) /\ DOMAIN e = 1..3 * Len(Neo!Needs(p)) /\ Len(Neo!Needs(p)) \in Nat
         /\ \A i \in DOMAIN e : \E k \in 1..Len(Neo!Needs(p)) :
              \/ i = 3 * k - 2 /\ e[i] = Neo!Op("add_delete", Neo!Needs(p)[k])
              \/ i = 3 * k - 1 /\ e[i] = Neo!Op("drop", Neo!Needs(p)[k])
              \/ i = 3 * k /\ e[i] = Neo!Op("post", Neo!Needs(p)[k])
         /\ \A k \in 1..Len(Neo!Needs(p)) : 3 * k - 2 \in DOMAIN e /\ e[3 * k - 2] = Neo!Op("add_delete", Neo!Needs(p)[k])
<1> DEFINE n == Neo!Needs(p)
           e == Neo!EnsureDependencies(p)
<1>1. Len(n) \in Nat /\ DOMAIN n = 1..Len(n) /\ \A k \in 1..Len(n) : n[k] \in NeoProfiles
  BY LenProperties, ElementOfSeq
<1>2. e = [i \in 1..3 * Len(n) |-> NeoRound(n[(i + 2) \div 3])[((i - 1) % 3) + 1]]
  <2> DEFINE round == [q \in NeoProfiles |-> NeoRound(q)]
  <2>1. e = [i \in 1..3 * Len(n) |-> round[n[(i + 3 - 1) \div 3]][((i - 1) % 3) + 1]]
    BY DEF Neo!EnsureDependencies, Neo!InTurn, NeoRound
  <2>2. \A i \in 1..3 * Len(n) : i + 3 - 1 = i + 2
    BY <1>1
  <2>3. \A i \in 1..3 * Len(n) : (i + 2) \div 3 \in 1..Len(n)
    BY <1>1, NeoThirds
  <2>4. \A i \in 1..3 * Len(n) : round[n[(i + 2) \div 3]] = NeoRound(n[(i + 2) \div 3])
    BY <1>1, <2>3
  <2> HIDE DEF round
  <2> QED
    BY <2>1, <2>2, <2>4
<1> HIDE DEF n, e
<1>3. ASSUME NEW i \in 1..3 * Len(n)
      PROVE  /\ (i + 2) \div 3 \in 1..Len(n)
             /\ \/ i = 3 * ((i + 2) \div 3) - 2 /\ e[i] = Neo!Op("add_delete", n[(i + 2) \div 3])
                \/ i = 3 * ((i + 2) \div 3) - 1 /\ e[i] = Neo!Op("drop", n[(i + 2) \div 3])
                \/ i = 3 * ((i + 2) \div 3) /\ e[i] = Neo!Op("post", n[(i + 2) \div 3])
  <2> DEFINE k == (i + 2) \div 3
             m == ((i - 1) % 3) + 1
  <2>1. /\ k \in 1..Len(n)
        /\ (i = 3 * k - 2 /\ m = 1) \/ (i = 3 * k - 1 /\ m = 2) \/ (i = 3 * k /\ m = 3)
    BY <1>1, NeoThirds
  <2>2. e[i] = NeoRound(n[k])[m]
    BY <1>2
  <2> HIDE DEF k, m
  <2>3. n[k] \in NeoProfiles
    BY <1>1, <2>1
  <2>4. /\ m = 1 => e[i] = Neo!Op("add_delete", n[k])
        /\ m = 2 => e[i] = Neo!Op("drop", n[k])
        /\ m = 3 => e[i] = Neo!Op("post", n[k])
    BY <2>2, <2>3, NeoRoundIs
  <2>5. /\ k \in 1..Len(n)
        /\ \/ i = 3 * k - 2 /\ e[i] = Neo!Op("add_delete", n[k])
           \/ i = 3 * k - 1 /\ e[i] = Neo!Op("drop", n[k])
           \/ i = 3 * k /\ e[i] = Neo!Op("post", n[k])
    BY <2>1, <2>4
  <2> QED
    BY <2>5 DEF k
<1>4. DOMAIN e = 1..3 * Len(n)
  BY <1>2
<1>5. \A i \in DOMAIN e : e[i] \in NeoPlain
  <2> SUFFICES ASSUME NEW i \in 1..3 * Len(n) PROVE e[i] \in NeoPlain
    BY <1>4
  <2>1. PICK name \in {"add_delete", "drop", "post"}, k \in 1..Len(n) : e[i] = Neo!Op(name, n[k])
    BY <1>3
  <2>2. n[k] \in Neo!Objects /\ name \in NeoAdds \cup NeoRequests
    BY <1>1, NeoObjective DEF NeoAdds, NeoRequests
  <2> QED
    BY <2>1, <2>2, NeoPlainOp
<1>6. e \in Seq(NeoPlain)
  <2>1. e \in [1..3 * Len(n) -> NeoPlain]
    BY <1>2, <1>4, <1>5
  <2>2. 3 * Len(n) \in Nat
    BY <1>1
  <2> QED
    BY <2>1, <2>2
<1>7. ASSUME NEW k \in 1..Len(n) PROVE 3 * k - 2 \in DOMAIN e /\ e[3 * k - 2] = Neo!Op("add_delete", n[k])
  <2> DEFINE i == 3 * k - 2
  <2>1. i \in 1..3 * Len(n)
    BY <1>1
  <2>2. (i + 2) \div 3 = k /\ i # 3 * k - 1 /\ i # 3 * k
    BY <1>1
  <2> HIDE DEF i
  <2>3. e[i] = Neo!Op("add_delete", n[k])
    BY <1>3, <2>1, <2>2
  <2> QED
    BY <1>4, <2>1, <2>3 DEF i
<1>8. \A i \in DOMAIN e : \E k \in 1..Len(n) :
              \/ i = 3 * k - 2 /\ e[i] = Neo!Op("add_delete", n[k])
              \/ i = 3 * k - 1 /\ e[i] = Neo!Op("drop", n[k])
              \/ i = 3 * k /\ e[i] = Neo!Op("post", n[k])
  BY <1>3, <1>4
<1> QED
  BY <1>1, <1>4, <1>6, <1>7, <1>8 DEF n, e

\* It registers each removal before it posts, in an order whose reverse the EMS accepts, and the profile itself may follow.
LEMMA NeoEnsureFits ==
  ASSUME Neo!NeoxAssumption, NEW p \in NeoProfiles
  PROVE  /\ NeoChain(Neo!EnsureDependencies(p), {}) /\ NeoDescends(Neo!EnsureDependencies(p))
         /\ NeoAllApart(Neo!EnsureDependencies(p), Neo!Added(p))
<1> DEFINE n == Neo!Needs(p)
           e == Neo!EnsureDependencies(p)
<1>1. /\ n \in Seq(NeoProfiles) /\ NeoSorted(n)
      /\ \A i \in DOMAIN n : p \notin Neo!ToSet(Direct[n[i]])
  BY NeoNeedsTidy
<1>2. Len(n) \in Nat /\ DOMAIN n = 1..Len(n) /\ \A k \in 1..Len(n) : n[k] \in NeoProfiles
  BY <1>1, LenProperties, ElementOfSeq
<1>3. /\ e \in Seq(NeoPlain) /\ DOMAIN e = 1..3 * Len(n)
      /\ \A i \in DOMAIN e : \E k \in 1..Len(n) :
           \/ i = 3 * k - 2 /\ e[i] = Neo!Op("add_delete", n[k])
           \/ i = 3 * k - 1 /\ e[i] = Neo!Op("drop", n[k])
           \/ i = 3 * k /\ e[i] = Neo!Op("post", n[k])
      /\ \A k \in 1..Len(n) : 3 * k - 2 \in DOMAIN e /\ e[3 * k - 2] = Neo!Op("add_delete", n[k])
  BY <1>1, NeoEnsureIs
<1> HIDE DEF n, e
<1>4. "ont" \notin NeoProfiles
  BY DEF Neo!NeoxAssumption
<1>5. ASSUME NEW i \in DOMAIN e PROVE NeoWarranted(e[i], {} \cup NeoBefore(e, i))
  <2>1. PICK k \in 1..Len(n) : \/ i = 3 * k - 2 /\ e[i] = Neo!Op("add_delete", n[k])
                               \/ i = 3 * k - 1 /\ e[i] = Neo!Op("drop", n[k])
                               \/ i = 3 * k /\ e[i] = Neo!Op("post", n[k])
    BY <1>3
  <2>2. n[k] \in NeoProfiles /\ n[k] # "ont"
    BY <1>2, <1>4
  <2>3. i = 3 * k => Neo!Op("add_delete", n[k]) \in NeoBefore(e, i)
    <3>1. i = 3 * k => 3 * k - 2 \in 1..(i - 1)
      BY <1>2
    <3> QED
      BY <1>3, <3>1 DEF NeoBefore
  <2>4. \/ e[i].op = "add_delete" /\ e[i].x = n[k]
        \/ e[i].op = "drop" /\ e[i].x = n[k]
        \/ e[i].op = "post" /\ e[i].x = n[k] /\ Neo!Op("add_delete", n[k]) \in NeoBefore(e, i)
    BY <2>1, <2>3, NeoOpIs
  <2> QED
    BY <2>2, <2>4 DEF NeoWarranted
<1>6. ASSUME NEW i \in DOMAIN e, e[i].op = "add_delete"
      PROVE  \E k \in 1..Len(n) : i = 3 * k - 2 /\ e[i].x = n[k]
  <2>1. PICK k \in 1..Len(n) : \/ i = 3 * k - 2 /\ e[i] = Neo!Op("add_delete", n[k])
                               \/ i = 3 * k - 1 /\ e[i] = Neo!Op("drop", n[k])
                               \/ i = 3 * k /\ e[i] = Neo!Op("post", n[k])
    BY <1>3
  <2> QED
    BY <1>6, <2>1, NeoOpIs
<1>7. NeoDescends(e)
  <2> SUFFICES ASSUME NEW i \in DOMAIN e, NEW j \in DOMAIN e, i < j, e[i].op = "add_delete", e[j].op = "add_delete"
               PROVE  e[j].x \notin Neo!ToSet(Direct[e[i].x])
    BY DEF NeoDescends, NeoApart
  <2>1. PICK k \in 1..Len(n) : i = 3 * k - 2 /\ e[i].x = n[k]
    BY <1>6
  <2>2. PICK l \in 1..Len(n) : j = 3 * l - 2 /\ e[j].x = n[l]
    BY <1>6
  <2>3. k < l
    BY <1>2, <2>1, <2>2
  <2>4. n[l] \notin Neo!ToSet(Direct[n[k]])
    BY <1>1, <1>2, <2>3 DEF NeoSorted
  <2> QED
    BY <2>1, <2>2, <2>4
<1>8. NeoAllApart(e, Neo!Added(p))
  <2>1. \A j \in DOMAIN Neo!Added(p) : Neo!Added(p)[j].x = p
    BY NeoOpIs DEF Neo!Added
  <2> SUFFICES ASSUME NEW i \in DOMAIN e, e[i].op = "add_delete" PROVE p \notin Neo!ToSet(Direct[e[i].x])
    BY <2>1 DEF NeoAllApart, NeoApart
  <2>2. PICK k \in 1..Len(n) : e[i].x = n[k]
    BY <1>6
  <2> QED
    BY <1>1, <1>2, <2>2
<1> QED
  BY <1>3, <1>5, <1>7, <1>8 DEF NeoChain, NeoFit, e

\* Requests for one object.
NeoOn(s, x) == s \in Seq(NeoCalm) /\ \A i \in DOMAIN s : s[i].x = x /\ s[i].op # "ensure"
NeoAsked == NeoRequests \ {"ensure"}

LEMMA NeoCalmOp == ASSUME NEW name \in NeoRequests, NEW x \in Neo!Objects PROVE Neo!Op(name, x) \in NeoCalm
  BY DEF Neo!Op, NeoCalm

LEMMA NeoOnOne == ASSUME NEW n \in NeoAsked, NEW x \in Neo!Objects PROVE NeoOn(<<Neo!Op(n, x)>>, x)
<1>1. Neo!Op(n, x) \in NeoCalm /\ Neo!Op(n, x).x = x /\ Neo!Op(n, x).op # "ensure"
  BY NeoCalmOp, NeoOpIs DEF NeoAsked
<1> DEFINE a == Neo!Op(n, x)
<1> HIDE DEF a
<1>2. <<a>> \in Seq(NeoCalm) /\ \A i \in DOMAIN <<a>> : <<a>>[i] = a
  BY <1>1 DEF a
<1>3. NeoOn(<<a>>, x)
  BY <1>1, <1>2 DEF NeoOn, a
<1> QED
  BY <1>3 DEF a

LEMMA NeoOnJoined == ASSUME NEW s, NEW t, NEW x, NeoOn(s, x), NeoOn(t, x) PROVE NeoOn(s \o t, x)
<1> DEFINE c == s \o t
<1>1. s \in Seq(NeoCalm) /\ t \in Seq(NeoCalm)
  BY DEF NeoOn
<1>2. /\ c \in Seq(NeoCalm)
      /\ \A i \in DOMAIN s : i \in DOMAIN c /\ c[i] = s[i]
      /\ \A j \in DOMAIN t : Len(s) + j \in DOMAIN c /\ c[Len(s) + j] = t[j]
      /\ \A i \in DOMAIN c : i \in DOMAIN s \/ \E j \in DOMAIN t : i = Len(s) + j
  BY <1>1, NeoPlaces
<1> HIDE DEF c
<1>3. NeoOn(c, x)
  BY <1>2 DEF NeoOn
<1> QED
  BY <1>3 DEF c

LEMMA NeoOnTwo == ASSUME NEW n \in NeoAsked, NEW m \in NeoAsked, NEW x \in Neo!Objects PROVE NeoOn(<<Neo!Op(n, x), Neo!Op(m, x)>>, x)
<1> DEFINE a == Neo!Op(n, x)
           b == Neo!Op(m, x)
<1>1. a \in NeoCalm /\ a.x = x /\ a.op # "ensure" /\ b \in NeoCalm /\ b.x = x /\ b.op # "ensure"
  BY NeoCalmOp, NeoOpIs DEF NeoAsked
<1> HIDE DEF a, b
<1>2. <<a, b>> \in Seq(NeoCalm) /\ \A i \in DOMAIN <<a, b>> : <<a, b>>[i] = a \/ <<a, b>>[i] = b
  BY <1>1
<1>3. NeoOn(<<a, b>>, x)
  BY <1>1, <1>2 DEF NeoOn
<1> QED
  BY <1>3 DEF a, b

LEMMA NeoRefusalsOn ==
  ASSUME NEW n \in NeoAsked, NEW x \in Neo!Objects, NEW last, last = <<>> \/ NeoOn(last, x)
  PROVE  NeoOn(Neo!Refusals(n, x, last), x)
<1>1. NeoOn(<<Neo!Op(n, x), Neo!Op("post_invalid", x)>>, x)
  BY NeoOnTwo DEF NeoAsked, NeoRequests
<1>2. NeoOn(<<>>, x)
  BY DEF NeoOn
<1> QED
  BY <1>1, <1>2, NeoOnJoined DEF Neo!Refusals

LEMMA NeoReplaceOn == ASSUME NEW x \in Neo!Objects PROVE NeoOn(Neo!Replace(x), x)
  BY NeoOnTwo DEF Neo!Replace, NeoAsked, NeoRequests

\* They are warranted once the removal of the object is registered.
LEMMA NeoOnChain ==
  ASSUME Neo!NeoxAssumption, NEW x \in NeoProfiles \cup {"port"}, NEW s, NeoOn(s, x)
  PROVE  NeoChain(s, {Neo!Op("add_delete", x)})
<1>1. x # "ont" /\ s \in Seq(NeoPlain)
  <2>1. s \in Seq(NeoCalm)
    BY DEF NeoOn
  <2> QED
    BY <2>1, NeoCalmPlain, SeqMonotonic DEF Neo!NeoxAssumption
<1>2. \A i \in DOMAIN s : s[i].op \in NeoAsked /\ s[i].x = x
  <2>1. s \in Seq(NeoCalm) /\ \A i \in DOMAIN s : s[i] \in NeoCalm
    BY ElementOfSeq, LenProperties DEF NeoOn
  <2> QED
    BY <2>1 DEF NeoOn, NeoCalm, NeoAsked
<1>3. \A i \in DOMAIN s : NeoWarranted(s[i], {Neo!Op("add_delete", x)})
  BY <1>1, <1>2 DEF NeoWarranted, NeoAsked, NeoRequests
<1> QED
  BY <1>1, <1>3, NeoChainEach

\* So are requests that post nothing, for anything but the ONT.
LEMMA NeoIdleChain ==
  ASSUME Neo!NeoxAssumption, NEW x \in NeoProfiles \cup {"port"}, NEW s, NeoOn(s, x), \A i \in DOMAIN s : s[i].op # "post"
  PROVE  NeoChain(s, {})
<1>1. x # "ont" /\ s \in Seq(NeoPlain)
  <2>1. s \in Seq(NeoCalm)
    BY DEF NeoOn
  <2> QED
    BY <2>1, NeoCalmPlain, SeqMonotonic DEF Neo!NeoxAssumption
<1>2. \A i \in DOMAIN s : s[i].op \in NeoAsked /\ s[i].x = x
  <2>1. s \in Seq(NeoCalm) /\ \A i \in DOMAIN s : s[i] \in NeoCalm
    BY ElementOfSeq, LenProperties DEF NeoOn
  <2> QED
    BY <2>1 DEF NeoOn, NeoCalm, NeoAsked
<1>3. \A i \in DOMAIN s : NeoWarranted(s[i], {})
  BY <1>1, <1>2 DEF NeoWarranted, NeoAsked, NeoRequests
<1> QED
  BY <1>1, <1>3, NeoChainEach

LEMMA NeoCalmBefore == ASSUME NEW s \in Seq(NeoCalm), NEW t PROVE NeoAllApart(s, t)
<1>1. \A i \in DOMAIN s : s[i].op # "add_delete"
  <2>1. \A i \in DOMAIN s : s[i] \in NeoCalm
    BY ElementOfSeq, LenProperties
  <2> QED
    BY <2>1 DEF NeoCalm, NeoRequests
<1> QED
  BY <1>1 DEF NeoAllApart, NeoApart

\* A list that registers the removal of x, in a good order, and whatever is then asked of x.
NeoGood(s) == NeoChain(s, {}) /\ NeoDescends(s)
NeoHolds(s, x) == NeoGood(s) /\ Neo!Op("add_delete", x) \in Neo!ToSet(s)

LEMMA NeoAddedHolds == ASSUME Neo!NeoxAssumption, NEW x \in NeoProfiles \cup {"port"} PROVE NeoHolds(Neo!Added(x), x)
<1>1. x \in Neo!Objects /\ x # "ont"
  BY NeoObjective DEF Neo!NeoxAssumption
<1>2. \A i, j \in DOMAIN Neo!Added(x) : ~(i < j)
  BY DEF Neo!Added
<1> QED
  BY <1>1, <1>2, NeoAddedChain DEF NeoHolds, NeoGood, NeoDescends

LEMMA NeoHoldsMore ==
  ASSUME Neo!NeoxAssumption, NEW x \in NeoProfiles \cup {"port"}, NEW s, NEW t, NeoHolds(s, x), NeoOn(t, x)
  PROVE  NeoHolds(s \o t, x)
<1>1. NeoChain(t, {Neo!Op("add_delete", x)})
  BY NeoOnChain
<1>2. NeoChain(s \o t, {}) /\ Neo!Op("add_delete", x) \in Neo!ToSet(s \o t)
  BY <1>1, NeoChainMore DEF NeoHolds, NeoGood
<1>3. s \in Seq(NeoOps) /\ t \in Seq(NeoCalm) /\ t \in Seq(NeoOps)
  <2>1. s \in Seq(NeoPlain) /\ t \in Seq(NeoCalm)
    BY DEF NeoHolds, NeoGood, NeoChain, NeoOn
  <2>2. NeoPlain \subseteq NeoOps /\ NeoCalm \subseteq NeoOps
    BY NeoCalmPlain
  <2> QED
    BY <2>1, <2>2, SeqMonotonic
<1>4. NeoDescends(s \o t)
  BY <1>3, NeoCalmApart, NeoDescendsJoined DEF NeoHolds, NeoGood
<1> QED
  BY <1>2, <1>4 DEF NeoHolds, NeoGood

LEMMA NeoEnsureHolds == ASSUME Neo!NeoxAssumption, NEW x \in NeoProfiles PROVE NeoHolds(Neo!EnsureDependencies(x) \o Neo!Added(x), x)
<1> DEFINE e == Neo!EnsureDependencies(x)
           a == Neo!Added(x)
<1>1. NeoChain(e, {}) /\ NeoDescends(e) /\ NeoAllApart(e, a)
  BY NeoEnsureFits
<1>2. NeoHolds(a, x)
  BY NeoAddedHolds
<1> HIDE DEF e, a
<1>3. e \in Seq(NeoPlain) /\ a \in Seq(NeoPlain) /\ e \in Seq(NeoOps) /\ a \in Seq(NeoOps)
  <2>1. e \in Seq(NeoPlain) /\ a \in Seq(NeoPlain)
    BY <1>1, <1>2 DEF NeoChain, NeoHolds, NeoGood
  <2> QED
    BY <2>1, NeoCalmPlain, SeqMonotonic
<1>4. NeoDescends(e \o a)
  BY <1>1, <1>2, <1>3, NeoDescendsJoined DEF NeoHolds, NeoGood
<1>5. NeoChain(e \o a, {})
  BY <1>1, <1>2, NeoChainJoined DEF NeoHolds, NeoGood
<1>6. Neo!Op("add_delete", x) \in Neo!ToSet(e \o a)
  BY <1>2, <1>3, NeoInJoined DEF NeoHolds
<1> QED
  BY <1>4, <1>5, <1>6 DEF NeoHolds, NeoGood, e, a

LEMMA NeoSetAndClearHolds == ASSUME Neo!NeoxAssumption, NEW x \in NeoProfiles \cup {"port"} PROVE NeoHolds(Neo!SetAndClear(x), x)
<1>1. NeoOn(<<Neo!Op("post", x), Neo!Op("delete", x)>>, x)
  BY NeoOnTwo, NeoObjective DEF NeoAsked, NeoRequests
<1> QED
  BY <1>1, NeoAddedHolds, NeoHoldsMore DEF Neo!SetAndClear

LEMMA NeoClearedHolds == ASSUME Neo!NeoxAssumption, NEW x \in NeoProfiles \cup {"port"} PROVE NeoHolds(Neo!Cleared(x), x)
<1> DEFINE a == <<Neo!Op("clear", x), Neo!Op("note", x)>>
           b == Neo!SetAndClear(x)
           c == <<Neo!Op("same", x)>>
<1>0. x \in Neo!Objects
  BY NeoObjective
<1>1. NeoOn(a, x) /\ NeoOn(c, x)
  BY <1>0, NeoOnTwo, NeoOnOne DEF NeoAsked, NeoRequests
<1>2. NeoHolds(b, x)
  BY NeoSetAndClearHolds
<1>3. \A i \in DOMAIN a : a[i].op # "post"
  BY NeoOpIs
<1> HIDE DEF a, b, c
<1>4. NeoChain(a, {})
  BY <1>1, <1>3, NeoIdleChain
<1>5. a \in Seq(NeoPlain) /\ b \in Seq(NeoPlain) /\ a \in Seq(NeoOps) /\ b \in Seq(NeoOps) /\ a \in Seq(NeoCalm)
  <2>1. a \in Seq(NeoPlain) /\ b \in Seq(NeoPlain) /\ a \in Seq(NeoCalm)
    BY <1>1, <1>2, <1>4 DEF NeoChain, NeoHolds, NeoGood, NeoOn
  <2> QED
    BY <2>1, NeoCalmPlain, SeqMonotonic
<1>6. NeoChain(a \o b, {})
  BY <1>2, <1>4, NeoChainJoined DEF NeoHolds, NeoGood
<1>7. NeoDescends(a \o b)
  BY <1>2, <1>5, NeoCalmApart, NeoCalmBefore, NeoDescendsJoined DEF NeoHolds, NeoGood
<1>8. Neo!Op("add_delete", x) \in Neo!ToSet(a \o b)
  BY <1>2, <1>5, NeoInJoined DEF NeoHolds
<1>9. NeoHolds(a \o b, x)
  BY <1>6, <1>7, <1>8 DEF NeoHolds, NeoGood
<1>10. NeoHolds((a \o b) \o c, x)
  BY <1>1, <1>9, NeoHoldsMore
<1> QED
  BY <1>10 DEF Neo!Cleared, a, b, c

\* The tests that keep to one object and what it references.
LEMMA NeoChainWiden == ASSUME NEW s, NEW g, NEW h, NeoChain(s, g), g \subseteq h PROVE NeoChain(s, h)
<1>1. ASSUME NEW i \in DOMAIN s PROVE NeoWarranted(s[i], h \cup NeoBefore(s, i))
  <2>1. NeoWarranted(s[i], g \cup NeoBefore(s, i)) /\ g \cup NeoBefore(s, i) \subseteq h \cup NeoBefore(s, i)
    BY DEF NeoChain, NeoFit
  <2> QED
    BY <2>1, NeoWarrantedMore
<1> QED
  BY <1>1 DEF NeoChain, NeoFit

LEMMA NeoRejectedGood ==
  ASSUME Neo!NeoxAssumption, NEW x \in NeoProfiles \cup {"port"}
  PROVE  NeoGood(<<Neo!Op("post_invalid", x), Neo!Op("delete_invalid", x)>>)
<1> DEFINE s == <<Neo!Op("post_invalid", x), Neo!Op("delete_invalid", x)>>
<1>0. x \in Neo!Objects
  BY NeoObjective
<1>1. NeoOn(s, x)
  BY <1>0, NeoOnTwo DEF NeoAsked, NeoRequests
<1>2. \A i \in DOMAIN s : s[i].op # "post"
  BY NeoOpIs
<1> HIDE DEF s
<1>3. NeoChain(s, {})
  BY <1>1, <1>2, NeoIdleChain
<1>4. NeoDescends(s)
  BY <1>1, NeoCalmApart DEF NeoOn
<1>5. NeoGood(s)
  BY <1>3, <1>4 DEF NeoGood
<1> QED
  BY <1>5 DEF s

LEMMA NeoErrorsGood ==
  ASSUME Neo!NeoxAssumption, NEW x \in NeoProfiles \cup {"port"}
  PROVE  NeoGood(Neo!Added(x) \o Neo!Refusals("clear", x, <<>>) \o Neo!Refusals("clear", x, <<Neo!Op("assert", x)>>))
<1>0. x \in Neo!Objects
  BY NeoObjective
<1>1. NeoOn(<<Neo!Op("assert", x)>>, x)
  BY <1>0, NeoOnOne DEF NeoAsked, NeoRequests
<1>2. NeoOn(Neo!Refusals("clear", x, <<>>), x) /\ NeoOn(Neo!Refusals("clear", x, <<Neo!Op("assert", x)>>), x)
  BY <1>0, <1>1, NeoRefusalsOn DEF NeoAsked, NeoRequests
<1>3. NeoHolds(Neo!Added(x) \o Neo!Refusals("clear", x, <<>>), x)
  BY <1>2, NeoAddedHolds, NeoHoldsMore
<1> QED
  BY <1>2, <1>3, NeoHoldsMore DEF NeoHolds

LEMMA NeoPrepared ==
  ASSUME Neo!NeoxAssumption, NEW x \in NeoProfiles
  PROVE  NeoHolds(Neo!EnsureDependencies(x) \o Neo!Added(x) \o Neo!Replace(x), x)
<1>1. x \in Neo!Objects
  BY NeoObjective
<1> QED
  BY <1>1, NeoEnsureHolds, NeoReplaceOn, NeoHoldsMore

LEMMA NeoProfileGood ==
  ASSUME Neo!NeoxAssumption, NEW x \in NeoProfiles, NEW n \in NeoAsked
  PROVE  NeoGood(Neo!EnsureDependencies(x) \o Neo!Added(x) \o Neo!Replace(x) \o <<Neo!Op(n, x)>>)
<1>1. x \in Neo!Objects
  BY NeoObjective
<1>2. NeoOn(<<Neo!Op(n, x)>>, x)
  BY <1>1, NeoOnOne
<1> QED
  BY <1>2, NeoPrepared, NeoHoldsMore DEF NeoHolds

LEMMA NeoProfileClearGood ==
  ASSUME Neo!NeoxAssumption, NEW x \in NeoProfiles
  PROVE  NeoGood(Neo!EnsureDependencies(x) \o Neo!Added(x) \o
         <<Neo!Op("drop", x), Neo!Op("note", x), Neo!Op("post", x), Neo!Op("delete", x), Neo!Op("same", x)>>)
<1> DEFINE a == Neo!Op("drop", x)
           b == Neo!Op("note", x)
           c == Neo!Op("post", x)
           d == Neo!Op("delete", x)
           e == Neo!Op("same", x)
           s == <<a, b, c, d, e>>
<1>1. x \in Neo!Objects
  BY NeoObjective
<1>2. {a, b, c, d, e} \subseteq NeoCalm
  BY <1>1, NeoCalmOp DEF NeoRequests
<1>3. \A o \in {a, b, c, d, e} : o.x = x /\ o.op # "ensure"
  BY NeoOpIs
<1> HIDE DEF a, b, c, d, e
<1>4. s \in Seq(NeoCalm) /\ \A i \in DOMAIN s : s[i] \in {a, b, c, d, e}
  BY <1>2
<1>5. NeoOn(s, x)
  BY <1>3, <1>4 DEF NeoOn
<1>6. NeoGood(Neo!EnsureDependencies(x) \o Neo!Added(x) \o s)
  BY <1>5, NeoEnsureHolds, NeoHoldsMore DEF NeoHolds
<1> QED
  BY <1>6 DEF a, b, c, d, e

\* The tests that register the removal of their own object first.
LEMMA NeoAcceptedChain ==
  ASSUME Neo!NeoxAssumption, NEW x \in NeoProfiles
  PROVE  NeoChain(Neo!Accepted(x), {Neo!Op("add_delete", x)})
<1> DEFINE d == Neo!Op("add_delete", x)
           e == Neo!EnsureDependencies(x)
           r == Neo!Replace(x)
           l == <<Neo!Op("look", x)>>
<1>1. x \in Neo!Objects
  BY NeoObjective
<1>2. NeoOn(r, x) /\ NeoOn(l, x)
  BY <1>1, NeoReplaceOn, NeoOnOne DEF NeoAsked, NeoRequests
<1>3. NeoChain(r, {d}) /\ NeoChain(l, {d})
  BY <1>2, NeoOnChain
<1>4. NeoChain(e, {d})
  BY NeoEnsureFits, NeoChainWiden
<1> HIDE DEF d, e, r, l
<1>5. NeoChain(e \o r, {d})
  BY <1>3, <1>4, NeoChainJoined
<1>6. NeoChain((e \o r) \o l, {d})
  BY <1>3, <1>5, NeoChainJoined
<1> QED
  BY <1>6 DEF Neo!Accepted, d, e, r, l

LEMMA NeoMinChain == ASSUME Neo!NeoxAssumption, NEW x \in NeoProfiles PROVE NeoChain(Neo!Added(x) \o Neo!Accepted(x) \o Neo!Accepted(x), {})
<1>1. NeoChain(Neo!Added(x), {}) /\ Neo!Op("add_delete", x) \in Neo!ToSet(Neo!Added(x))
  BY NeoAddedHolds DEF NeoHolds, NeoGood
<1>2. NeoChain(Neo!Added(x) \o Neo!Accepted(x), {}) /\ Neo!Op("add_delete", x) \in Neo!ToSet(Neo!Added(x) \o Neo!Accepted(x))
  BY <1>1, NeoAcceptedChain, NeoChainMore
<1> QED
  BY <1>2, NeoAcceptedChain, NeoChainMore

LEMMA NeoProfileErrorsChain ==
  ASSUME Neo!NeoxAssumption, NEW x \in NeoProfiles
  PROVE  NeoChain(Neo!Added(x) \o Neo!EnsureDependencies(x) \o Neo!Refusals("drop", x, <<Neo!Op("absent", x), Neo!Op("assert", x)>>), {})
<1> DEFINE d == Neo!Op("add_delete", x)
           e == Neo!EnsureDependencies(x)
           r == Neo!Refusals("drop", x, <<Neo!Op("absent", x), Neo!Op("assert", x)>>)
<1>1. x \in Neo!Objects
  BY NeoObjective
<1>2. NeoOn(<<Neo!Op("absent", x), Neo!Op("assert", x)>>, x)
  BY <1>1, NeoOnTwo DEF NeoAsked, NeoRequests
<1>3. NeoOn(r, x)
  BY <1>1, <1>2, NeoRefusalsOn DEF NeoAsked, NeoRequests
<1>4. NeoChain(r, {d})
  BY <1>3, NeoOnChain
<1>5. NeoChain(e, {d})
  BY NeoEnsureFits, NeoChainWiden
<1>6. NeoChain(Neo!Added(x), {}) /\ d \in Neo!ToSet(Neo!Added(x))
  BY NeoAddedHolds DEF NeoHolds, NeoGood
<1> HIDE DEF d, e, r
<1>7. NeoChain(Neo!Added(x) \o e, {}) /\ d \in Neo!ToSet(Neo!Added(x) \o e)
  BY <1>5, <1>6, NeoChainMore
<1>8. NeoChain((Neo!Added(x) \o e) \o r, {})
  BY <1>4, <1>7, NeoChainMore
<1> QED
  BY <1>8 DEF e, r

LEMMA NeoShownOn == ASSUME NEW x \in Neo!Objects PROVE NeoOn(Neo!Shown(x), x)
<1> DEFINE a == Neo!Op("clear", x)
           b == Neo!Op("post", x)
           c == Neo!Op("look", x)
<1>1. {a, b, c} \subseteq NeoCalm /\ \A o \in {a, b, c} : o.x = x /\ o.op # "ensure"
  BY NeoCalmOp, NeoOpIs DEF NeoRequests
<1> HIDE DEF a, b, c
<1>2. <<a, b, c>> \in Seq(NeoCalm) /\ \A i \in DOMAIN <<a, b, c>> : <<a, b, c>>[i] \in {a, b, c}
  BY <1>1
<1>3. NeoOn(<<a, b, c>>, x)
  BY <1>1, <1>2 DEF NeoOn
<1> QED
  BY <1>3 DEF Neo!Shown, a, b, c

LEMMA NeoVariantChain ==
  ASSUME Neo!NeoxAssumption, NEW x \in NeoProfiles
  PROVE  NeoChain(Neo!Added(x) \o <<Neo!Op("clear", x)>> \o Neo!EnsureDependencies(x) \o <<Neo!Op("post", x), Neo!Op("look", x)>>, {})
<1> DEFINE d == Neo!Op("add_delete", x)
           e == Neo!EnsureDependencies(x)
           c == <<Neo!Op("clear", x)>>
           r == <<Neo!Op("post", x), Neo!Op("look", x)>>
<1>1. x \in Neo!Objects
  BY NeoObjective
<1>2. NeoOn(c, x) /\ NeoOn(r, x)
  BY <1>1, NeoOnOne, NeoOnTwo DEF NeoAsked, NeoRequests
<1>3. NeoChain(r, {d})
  BY <1>2, NeoOnChain
<1>4. NeoChain(e, {d})
  BY NeoEnsureFits, NeoChainWiden
<1>5. NeoChain(Neo!Added(x) \o c, {}) /\ d \in Neo!ToSet(Neo!Added(x) \o c)
  BY <1>2, NeoAddedHolds, NeoHoldsMore DEF NeoHolds, NeoGood
<1> HIDE DEF d, e, c, r
<1>6. NeoChain((Neo!Added(x) \o c) \o e, {}) /\ d \in Neo!ToSet((Neo!Added(x) \o c) \o e)
  BY <1>4, <1>5, NeoChainMore
<1>7. NeoChain(((Neo!Added(x) \o c) \o e) \o r, {})
  BY <1>3, <1>6, NeoChainMore
<1> QED
  BY <1>7 DEF e, c, r

LEMMA NeoGeMaxGood ==
  ASSUME Neo!NeoxAssumption, NEW x \in NeoProfiles
  PROVE  NeoGood(Neo!EnsureDependencies(x) \o Neo!Added(x) \o Neo!Shown(x))
<1>1. NeoOn(Neo!Shown(x), x)
  BY NeoObjective, NeoShownOn
<1> QED
  BY <1>1, NeoEnsureHolds, NeoHoldsMore DEF NeoHolds

\* The removals that the IGMP test registers: two callbacks and two finally blocks.
LEMMA NeoFourRemovals ==
  ASSUME Neo!NeoxAssumption, NEW x \in NeoProfiles
  PROVE  NeoHolds(Neo!Added(x) \o Neo!Added(x) \o <<Neo!Op("add_finally", x), Neo!Op("add_finally", x)>>, x)
<1> DEFINE a == Neo!Added(x)
           o == Neo!Op("add_finally", x)
           f == <<o, o>>
<1>1. x \in Neo!Objects /\ x # "ont"
  BY NeoObjective DEF Neo!NeoxAssumption
<1>2. x \notin Neo!ToSet(Direct[x])
  <2>1. PICK level \in [NeoProfiles -> 0..NeoDepth] : \A p \in NeoProfiles : \A q \in Neo!ToSet(Direct[p]) : level[q] < level[p]
    BY DEF Neo!NeoxAssumption
  <2>2. level[x] \in 0..NeoDepth /\ NeoDepth \in Nat
    BY <2>1 DEF Neo!NeoxAssumption
  <2> QED
    BY <2>1, <2>2
<1>3. NeoHolds(a, x) /\ \A i \in DOMAIN a : a[i] = Neo!Op("add_delete", x)
  BY NeoAddedHolds DEF Neo!Added
<1>4. NeoAllApart(a, a)
  BY <1>2, <1>3, NeoOpIs DEF NeoAllApart, NeoApart
<1>5. o \in NeoPlain /\ o.op = "add_finally" /\ o.x = x
  BY <1>1, NeoPlainOp, NeoOpIs DEF NeoAdds
<1>6. NeoWarranted(o, {})
  BY <1>1, <1>5 DEF NeoWarranted
<1> HIDE DEF a, o
<1>7. f \in Seq(NeoPlain) /\ \A i \in DOMAIN f : f[i] = o
  BY <1>5
<1> HIDE DEF f
<1>8. NeoChain(f, {})
  BY <1>6, <1>7, NeoChainEach
<1>9. NeoDescends(f) /\ NeoAllApart(a \o a, f)
  BY <1>5, <1>7 DEF NeoDescends, NeoAllApart, NeoApart
<1>10. a \in Seq(NeoPlain) /\ a \in Seq(NeoOps) /\ f \in Seq(NeoOps) /\ a \o a \in Seq(NeoPlain) /\ a \o a \in Seq(NeoOps)
  <2>1. a \in Seq(NeoPlain)
    BY <1>3 DEF NeoHolds, NeoGood, NeoChain
  <2>2. a \o a \in Seq(NeoPlain)
    BY <2>1, NeoPlaces
  <2> QED
    BY <2>1, <2>2, <1>7, NeoCalmPlain, SeqMonotonic
<1>11. NeoChain(a \o a, {}) /\ NeoChain((a \o a) \o f, {})
  BY <1>3, <1>8, NeoChainJoined DEF NeoHolds, NeoGood
<1>12. NeoDescends(a \o a)
  BY <1>3, <1>4, <1>10, NeoDescendsJoined DEF NeoHolds, NeoGood
<1>13. NeoDescends((a \o a) \o f)
  BY <1>9, <1>10, <1>12, NeoDescendsJoined
<1>14. Neo!Op("add_delete", x) \in Neo!ToSet((a \o a) \o f)
  <2>1. Neo!Op("add_delete", x) \in Neo!ToSet(a \o a)
    BY <1>3, <1>10, NeoInJoined DEF NeoHolds
  <2> QED
    BY <1>7, <1>10, <2>1, NeoInJoined
<1>15. NeoHolds((a \o a) \o f, x)
  BY <1>11, <1>13, <1>14 DEF NeoHolds, NeoGood
<1> QED
  BY <1>15 DEF a, f, o

LEMMA NeoBandwidthGood == ASSUME Neo!NeoxAssumption, NEW x \in NeoProfiles PROVE NeoGood(Neo!Bandwidth(x))
<1> DEFINE p == Neo!Added(x) \o Neo!Added(x) \o <<Neo!Op("add_finally", x), Neo!Op("add_finally", x)>>
           a == Neo!Op("clear", x)
           b == Neo!Op("gone", x)
           c == Neo!Op("drop", x)
           d == Neo!Op("post_invalid", x)
           s == <<a, b, c, d, b>>
<1>1. x \in Neo!Objects
  BY NeoObjective
<1>2. {a, b, c, d} \subseteq NeoCalm /\ \A o \in {a, b, c, d} : o.x = x /\ o.op # "ensure"
  BY <1>1, NeoCalmOp, NeoOpIs DEF NeoRequests
<1> HIDE DEF a, b, c, d
<1>3. s \in Seq(NeoCalm) /\ \A i \in DOMAIN s : s[i] \in {a, b, c, d}
  BY <1>2
<1>4. NeoOn(s, x)
  BY <1>2, <1>3 DEF NeoOn
<1>5. NeoHolds(p, x)
  BY NeoFourRemovals
<1> HIDE DEF s, p
<1>6. NeoHolds(p \o Neo!Shown(x), x)
  BY <1>1, <1>5, NeoShownOn, NeoHoldsMore
<1>7. NeoHolds((p \o Neo!Shown(x)) \o s, x)
  BY <1>4, <1>6, NeoHoldsMore
<1>8. Neo!Bandwidth(x) = (p \o Neo!Shown(x)) \o s
  BY DEF Neo!Bandwidth, p, s, a, b, c, d
<1> QED
  BY <1>7, <1>8 DEF NeoHolds

\* The tests of the ONT.
NeoSt == Neo!Op("add_strict", "ont")
LEMMA NeoStIs == /\ NeoSt \in NeoPlain /\ NeoSt.op = "add_strict" /\ NeoSt.x = "ont" /\ NeoBacked({NeoSt})
  BY NeoOpIs, NeoPlainOp, NeoObjective DEF NeoSt, NeoAdds, NeoBacked

LEMMA NeoOntChain == ASSUME Neo!NeoxAssumption, NEW s, NeoOn(s, "ont") PROVE NeoChain(s, {NeoSt}) /\ NeoOdd(s)
<1>1. s \in Seq(NeoCalm) /\ s \in Seq(NeoPlain)
  <2>1. s \in Seq(NeoCalm)
    BY DEF NeoOn
  <2> QED
    BY <2>1, NeoCalmPlain, SeqMonotonic
<1>2. \A i \in DOMAIN s : s[i].op \in NeoAsked /\ s[i].x = "ont"
  <2>1. s \in Seq(NeoCalm) /\ \A i \in DOMAIN s : s[i] \in NeoCalm
    BY ElementOfSeq, LenProperties DEF NeoOn
  <2> QED
    BY <2>1 DEF NeoOn, NeoCalm, NeoAsked
<1>3. "ont" \notin NeoProfiles \cup {"port"}
  BY DEF Neo!NeoxAssumption
<1>4. \A i \in DOMAIN s : NeoWarranted(s[i], {NeoSt})
  BY <1>2, <1>3, NeoStIs DEF NeoWarranted, NeoAsked, NeoRequests
<1>5. NeoOdd(s)
  BY <1>2 DEF NeoOdd
<1> QED
  BY <1>1, <1>4, <1>5, NeoChainEach

LEMMA NeoStFirst ==
  ASSUME Neo!NeoxAssumption, NEW s, NeoChain(s, {NeoSt}), NeoOdd(s)
  PROVE  NeoGood(<<NeoSt>> \o s)
<1> DEFINE f == <<NeoSt>>
<1>1. f \in Seq(NeoPlain) /\ \A i \in DOMAIN f : f[i] = NeoSt
  BY NeoStIs
<1>2. NeoWarranted(NeoSt, {})
  BY NeoStIs DEF NeoWarranted
<1>3. 1 \in DOMAIN f
  OBVIOUS
<1>4. NeoOdd(f)
  BY <1>1, NeoStIs DEF NeoOdd
<1> HIDE DEF f
<1>5. NeoChain(f, {})
  BY <1>1, <1>2, NeoChainEach
<1>6. NeoSt \in Neo!ToSet(f)
  BY <1>1, <1>3 DEF Neo!ToSet
<1>7. NeoChain(f \o s, {})
  BY <1>5, <1>6, NeoChainMore
<1>8. s \in Seq(NeoPlain) /\ f \in Seq(NeoOps) /\ s \in Seq(NeoOps) /\ f \o s \in Seq(NeoOps)
  <2>1. s \in Seq(NeoPlain) /\ f \in Seq(NeoPlain) /\ f \o s \in Seq(NeoPlain)
    BY <1>1, <1>7 DEF NeoChain
  <2> QED
    BY <2>1, NeoCalmPlain, SeqMonotonic
<1>9. NeoOdd(f \o s)
  BY <1>4, <1>8, NeoOddJoined
<1>10. NeoGood(f \o s)
  BY <1>7, <1>8, <1>9, NeoOddApart DEF NeoGood
<1> QED
  BY <1>10 DEF f

LEMMA NeoOntClearGood == ASSUME Neo!NeoxAssumption PROVE NeoGood(<<NeoSt>> \o Neo!Cleared("ont"))
<1> DEFINE a == <<Neo!Op("clear", "ont"), Neo!Op("note", "ont")>>
           b == Neo!Added("ont")
           c == <<Neo!Op("post", "ont"), Neo!Op("delete", "ont")>>
           d == <<Neo!Op("same", "ont")>>
<1>1. "ont" \in Neo!Objects
  BY NeoObjective
<1>2. NeoOn(a, "ont") /\ NeoOn(c, "ont") /\ NeoOn(d, "ont")
  BY <1>1, NeoOnTwo, NeoOnOne DEF NeoAsked, NeoRequests
<1>3. NeoChain(a, {NeoSt}) /\ NeoChain(c, {NeoSt}) /\ NeoChain(d, {NeoSt}) /\ NeoOdd(a) /\ NeoOdd(c) /\ NeoOdd(d)
  BY <1>2, NeoOntChain
<1>4. NeoChain(b, {NeoSt})
  BY <1>1, NeoStIs, NeoAddedChain
<1>5. NeoOdd(b)
  BY NeoOpIs DEF NeoOdd, Neo!Added
<1> HIDE DEF a, b, c, d
<1>6. {NeoSt} \subseteq {NeoSt} \cup Neo!ToSet(b) /\ {NeoSt} \subseteq {NeoSt} \cup Neo!ToSet(a)
  OBVIOUS
<1>7. NeoChain(b \o c, {NeoSt})
  BY <1>3, <1>4, NeoChainJoined
<1>8. NeoChain(a \o (b \o c), {NeoSt})
  BY <1>3, <1>7, NeoChainJoined
<1>9. NeoChain((a \o (b \o c)) \o d, {NeoSt})
  BY <1>3, <1>8, NeoChainJoined
<1>10. \A s : NeoChain(s, {NeoSt}) => s \in Seq(NeoOps)
  <2>1. \A s : NeoChain(s, {NeoSt}) => s \in Seq(NeoPlain)
    BY DEF NeoChain
  <2> QED
    BY <2>1, NeoCalmPlain, SeqMonotonic
<1>11. NeoOdd(b \o c)
  BY <1>3, <1>4, <1>5, <1>10, NeoOddJoined
<1>12. NeoOdd(a \o (b \o c))
  BY <1>3, <1>7, <1>11, <1>10, NeoOddJoined
<1>13. NeoOdd((a \o (b \o c)) \o d)
  BY <1>3, <1>8, <1>12, <1>10, NeoOddJoined
<1>14. Neo!Cleared("ont") = (a \o (b \o c)) \o d
  BY DEF Neo!Cleared, Neo!SetAndClear, a, b, c, d
<1> QED
  BY <1>9, <1>13, <1>14, NeoStFirst

LEMMA NeoOntErrorsGood == ASSUME Neo!NeoxAssumption PROVE NeoGood(<<NeoSt>> \o Neo!Refusals("clear", "ont", <<Neo!Op("assert", "ont")>>))
<1>1. "ont" \in Neo!Objects
  BY NeoObjective
<1>2. NeoOn(<<Neo!Op("assert", "ont")>>, "ont")
  BY <1>1, NeoOnOne DEF NeoAsked, NeoRequests
<1>3. NeoOn(Neo!Refusals("clear", "ont", <<Neo!Op("assert", "ont")>>), "ont")
  BY <1>1, <1>2, NeoRefusalsOn DEF NeoAsked, NeoRequests
<1> QED
  BY <1>3, NeoOntChain, NeoStFirst

\* The create test of the ONT registers its return before anything is asked of it.
LEMMA NeoOntPartGood ==
  ASSUME Neo!NeoxAssumption
  PROVE  LET s == <<Neo!Op("add_post", "ont"), Neo!Op("add_delete", "ont"), Neo!Op("clear", "ont"), Neo!Op("post", "ont"), Neo!Op("look", "ont")>>
         IN  NeoChain(s, {}) /\ NeoOdd(s)
<1> DEFINE a == Neo!Op("add_post", "ont")
           b == Neo!Op("add_delete", "ont")
           c == Neo!Op("clear", "ont")
           d == Neo!Op("post", "ont")
           e == Neo!Op("look", "ont")
           s == <<a, b, c, d, e>>
<1>1. {a, b, c, d, e} \subseteq NeoPlain
  BY NeoPlainOp, NeoObjective DEF NeoRequests, NeoAdds
<1>2. \A o \in {a, b, c, d, e} : o.x = "ont" /\ o.op \notin {"ensure", "drop", "add_finally"}
  BY NeoOpIs
<1>3. a.op = "add_post"
  BY NeoOpIs
<1>0. "ont" \notin NeoProfiles \cup {"port"}
  BY DEF Neo!NeoxAssumption
<1>4. NeoWarranted(a, {}) /\ \A o \in {a, b, c, d, e} : NeoWarranted(o, {a})
  <2>1. NeoBacked({a})
    BY <1>3 DEF NeoBacked
  <2>2. \A o \in {a, b, c, d, e} : NeoWarranted(o, {a})
    BY <1>0, <1>2, <2>1 DEF NeoWarranted
  <2>3. NeoWarranted(a, {})
    BY <1>0, NeoOpIs DEF NeoWarranted
  <2> QED
    BY <2>2, <2>3
<1> HIDE DEF a, b, c, d, e
<1>5. s \in Seq(NeoPlain) /\ DOMAIN s = 1..5 /\ s[1] = a /\ \A i \in DOMAIN s : s[i] \in {a, b, c, d, e}
  BY <1>1
<1> HIDE DEF s
<1>6. ASSUME NEW i \in DOMAIN s PROVE NeoWarranted(s[i], {} \cup NeoBefore(s, i))
  <2>1. CASE i = 1
    <3>1. {} \subseteq {} \cup NeoBefore(s, i)
      OBVIOUS
    <3> QED
      BY <2>1, <1>4, <1>5, <3>1, NeoWarrantedMore
  <2>2. CASE i # 1
    <3>1. 1 \in 1..(i - 1)
      BY <2>2, <1>5
    <3>2. {a} \subseteq {} \cup NeoBefore(s, i)
      BY <3>1, <1>5 DEF NeoBefore
    <3> QED
      BY <1>4, <1>5, <3>2, NeoWarrantedMore
  <2> QED
    BY <2>1, <2>2
<1>7. NeoChain(s, {})
  BY <1>5, <1>6 DEF NeoChain, NeoFit
<1>8. NeoOdd(s)
  BY <1>2, <1>5 DEF NeoOdd
<1> QED
  BY <1>7, <1>8 DEF s, a, b, c, d, e

LEMMA NeoOntCreateGood ==
  ASSUME Neo!NeoxAssumption, NEW x \in NeoProfiles
  PROVE  NeoGood(Neo!EnsureDependencies(x) \o Neo!Added(x) \o Neo!Replace(x) \o
         <<Neo!Op("add_post", "ont"), Neo!Op("add_delete", "ont"), Neo!Op("clear", "ont"), Neo!Op("post", "ont"), Neo!Op("look", "ont")>>)
<1> DEFINE s == Neo!EnsureDependencies(x) \o Neo!Added(x) \o Neo!Replace(x)
           t == <<Neo!Op("add_post", "ont"), Neo!Op("add_delete", "ont"), Neo!Op("clear", "ont"), Neo!Op("post", "ont"), Neo!Op("look", "ont")>>
<1>1. NeoGood(s)
  BY NeoPrepared DEF NeoHolds
<1>2. NeoChain(t, {}) /\ NeoOdd(t)
  BY NeoOntPartGood
<1> HIDE DEF s, t
<1>3. NeoChain(s \o t, {})
  BY <1>1, <1>2, NeoChainJoined DEF NeoGood
<1>4. s \in Seq(NeoOps) /\ t \in Seq(NeoOps)
  <2>1. s \in Seq(NeoPlain) /\ t \in Seq(NeoPlain)
    BY <1>1, <1>2 DEF NeoChain, NeoGood
  <2> QED
    BY <2>1, NeoCalmPlain, SeqMonotonic
<1>5. NeoDescends(s \o t)
  BY <1>1, <1>2, <1>4, NeoOddApart, NeoDescendsJoined DEF NeoGood
<1>6. NeoGood(s \o t)
  BY <1>3, <1>5 DEF NeoGood
<1> QED
  BY <1>6 DEF s, t

\* Every test but the one with the scenario of a template.
LEMMA NeoTestFits ==
  ASSUME Neo!NeoxAssumption, NEW t \in Neo!Tests, t.name # "ont_template"
  PROVE  /\ NeoChain(Neo!OpsOf(t), {})
         /\ t.name \notin Neo!OwnFirst => NeoDescends(Neo!OpsOf(t))
<1> DEFINE x == t.of
<1>1. CASE t.name = "rejected"
  <2>1. x \in NeoProfiles \cup {"port"}
    BY <1>1 DEF Neo!Tests
  <2>2. Neo!OpsOf(t) = <<Neo!Op("post_invalid", x), Neo!Op("delete_invalid", x)>>
    BY <1>1 DEF Neo!OpsOf
  <2> QED
    BY <2>1, <2>2, NeoRejectedGood DEF NeoGood
<1>2. CASE t.name \in {"set_and_clear", "created", "clear", "errors"}
  <2>1. x \in NeoProfiles \cup {"port"} /\ x \in Neo!Objects
    BY <1>2, NeoObjective DEF Neo!Tests
  <2>2. NeoOn(<<Neo!Op("post", x)>>, x)
    BY <2>1, NeoOnOne DEF NeoAsked, NeoRequests
  <2>3. NeoGood(Neo!SetAndClear(x)) /\ NeoGood(Neo!Added(x) \o <<Neo!Op("post", x)>>) /\ NeoGood(Neo!Cleared(x))
    BY <2>1, <2>2, NeoSetAndClearHolds, NeoClearedHolds, NeoAddedHolds, NeoHoldsMore DEF NeoHolds
  <2>4. NeoGood(Neo!OpsOf(t))
    <3>1. CASE t.name = "set_and_clear"
      BY <3>1, <2>3 DEF Neo!OpsOf
    <3>2. CASE t.name = "created"
      BY <3>2, <2>3 DEF Neo!OpsOf
    <3>3. CASE t.name = "clear"
      BY <3>3, <2>3 DEF Neo!OpsOf
    <3>4. CASE t.name = "errors"
      BY <3>4, <2>1, NeoErrorsGood DEF Neo!OpsOf
    <3> QED
      BY <1>2, <3>1, <3>2, <3>3, <3>4
  <2> QED
    BY <2>4 DEF NeoGood
<1>3. CASE t.name \in {"profile", "profile_max", "profile_clear", "igmp_bandwidth", "ge_max", "ont_create"}
  <2>1. x \in NeoProfiles
    BY <1>3 DEF Neo!Tests
  <2>2. NeoGood(Neo!OpsOf(t))
    <3>1. CASE t.name = "profile"
      BY <3>1, <2>1, NeoProfileGood DEF Neo!OpsOf, NeoAsked, NeoRequests
    <3>2. CASE t.name = "profile_max"
      BY <3>2, <2>1, NeoProfileGood DEF Neo!OpsOf, NeoAsked, NeoRequests
    <3>3. CASE t.name = "profile_clear"
      BY <3>3, <2>1, NeoProfileClearGood DEF Neo!OpsOf
    <3>4. CASE t.name = "ont_create"
      BY <3>4, <2>1, NeoOntCreateGood DEF Neo!OpsOf
    <3>5. CASE t.name = "igmp_bandwidth"
      BY <3>5, <2>1, NeoBandwidthGood DEF Neo!OpsOf
    <3>6. CASE t.name = "ge_max"
      BY <3>6, <2>1, NeoGeMaxGood DEF Neo!OpsOf
    <3> QED
      BY <1>3, <3>1, <3>2, <3>3, <3>4, <3>5, <3>6
  <2> QED
    BY <2>2 DEF NeoGood
<1>4. CASE t.name \in Neo!OwnFirst
  <2>1. x \in NeoProfiles
    BY <1>4 DEF Neo!Tests, Neo!OwnFirst
  <2>2. CASE t.name = "profile_min"
    BY <2>1, <2>2, NeoMinChain DEF Neo!OpsOf, Neo!OwnFirst
  <2>3. CASE t.name = "profile_errors"
    BY <2>1, <2>3, NeoProfileErrorsChain DEF Neo!OpsOf, Neo!OwnFirst
  <2>4. CASE t.name = "ge_variant"
    BY <2>1, <2>4, NeoVariantChain DEF Neo!OpsOf, Neo!OwnFirst
  <2> QED
    BY <1>4, <2>2, <2>3, <2>4 DEF Neo!OwnFirst
<1>5. CASE t.name \in {"ont_clear", "ont_errors"}
  <2>1. CASE t.name = "ont_clear"
    BY <2>1, NeoOntClearGood DEF Neo!OpsOf, NeoSt, NeoGood
  <2>2. CASE t.name = "ont_errors"
    BY <2>2, NeoOntErrorsGood DEF Neo!OpsOf, NeoSt, NeoGood
  <2> QED
    BY <1>5, <2>1, <2>2
<1> QED
  BY <1>1, <1>2, <1>3, <1>4, <1>5 DEF Neo!Tests, Neo!OwnFirst

\* The operations left of a test: an end, and it alone, comes last; each one finds its removal registered; a scenario that
\* puts the ONT back is the last to do anything, and nothing but the strict return of the ONT is registered then.
NeoListed(s) == s \in Seq(NeoOps) /\ \A i \in DOMAIN s : s[i].op = "end" <=> i = Len(s)
NeoLastWord(s, c) ==
  \A i \in DOMAIN s : s[i].op = "scenario" =>
    /\ i + 1 = Len(s)
    /\ \A j \in DOMAIN s : s[j].op \notin {"add_delete", "add_post", "add_finally"}
    /\ \A j \in DOMAIN c : c[j].op = "add_strict"
NeoOrdered(s, c) == NeoListed(s) /\ NeoFit(s, Neo!ToSet(c)) /\ NeoLastWord(s, c)

LEMMA NeoEndOp == ASSUME NEW x \in Neo!Objects
  PROVE Neo!Op("end", x) \in NeoOps /\ Neo!Op("end", x).op = "end" /\ \A g : NeoWarranted(Neo!Op("end", x), g)
<1>1. Neo!Op("end", x) \in NeoOps
  BY DEF Neo!Op, NeoOps
<1> QED
  BY <1>1, NeoOpIs DEF NeoWarranted

LEMMA NeoFitEnds ==
  ASSUME NEW s \in Seq(NeoOps), NeoFit(s, {}), NEW x \in Neo!Objects
  PROVE  Append(s, Neo!Op("end", x)) \in Seq(NeoOps) /\ NeoFit(Append(s, Neo!Op("end", x)), {})
<1> DEFINE o == Neo!Op("end", x)
           c == Append(s, o)
<1>1. o \in NeoOps /\ o.op = "end" /\ \A g : NeoWarranted(o, g)
  BY NeoEndOp
<1> HIDE DEF o
<1>2. /\ c \in Seq(NeoOps) /\ Len(s) \in Nat /\ DOMAIN s = 1..Len(s)
      /\ \A i \in DOMAIN s : i \in DOMAIN c /\ c[i] = s[i]
      /\ c[Len(s) + 1] = o
      /\ \A i \in DOMAIN c : i \in DOMAIN s \/ i = Len(s) + 1
  BY <1>1, NeoAppended
<1> HIDE DEF c
<1>3. ASSUME NEW i \in DOMAIN c PROVE NeoWarranted(c[i], {} \cup NeoBefore(c, i))
  <2>1. CASE i \in DOMAIN s
    <3>1. \A j \in 1..(i - 1) : j \in DOMAIN s
      BY <1>2, <2>1
    <3>2. NeoBefore(c, i) = NeoBefore(s, i)
      BY <1>2, <3>1 DEF NeoBefore
    <3> QED
      BY <1>2, <2>1, <3>2 DEF NeoFit
  <2>2. CASE i = Len(s) + 1
    BY <2>2, <1>1, <1>2
  <2> QED
    BY <1>2, <2>1, <2>2
<1>4. c \in Seq(NeoOps) /\ NeoFit(c, {})
  BY <1>2, <1>3 DEF NeoFit
<1> QED
  BY <1>4 DEF c, o

LEMMA NeoChainEnds ==
  ASSUME NEW s, NeoChain(s, {}), NEW x \in Neo!Objects
  PROVE  NeoOrdered(Append(s, Neo!Op("end", x)), <<>>)
<1> DEFINE o == Neo!Op("end", x)
           c == Append(s, o)
<1>1. o \in NeoOps /\ o.op = "end"
  BY NeoEndOp
<1>2. s \in Seq(NeoPlain) /\ s \in Seq(NeoOps)
  <2>1. s \in Seq(NeoPlain)
    BY DEF NeoChain
  <2> QED
    BY <2>1, NeoCalmPlain, SeqMonotonic
<1>3. c \in Seq(NeoOps) /\ NeoFit(c, {})
  BY <1>2, NeoFitEnds DEF NeoChain
<1>4. \A i \in DOMAIN s : s[i].op \notin {"end", "scenario"}
  <2>1. \A i \in DOMAIN s : s[i] \in NeoPlain
    BY <1>2, ElementOfSeq, LenProperties
  <2> QED
    BY <2>1 DEF NeoPlain, NeoAdds, NeoRequests
<1> HIDE DEF o
<1>5. /\ Len(s) \in Nat /\ DOMAIN s = 1..Len(s) /\ Len(c) = Len(s) + 1
      /\ \A i \in DOMAIN s : i \in DOMAIN c /\ c[i] = s[i]
      /\ c[Len(s) + 1] = o
      /\ \A i \in DOMAIN c : i \in DOMAIN s \/ i = Len(s) + 1
  BY <1>1, <1>2, NeoAppended
<1> HIDE DEF c
<1>6. ASSUME NEW i \in DOMAIN c PROVE (c[i].op = "end" <=> i = Len(c)) /\ c[i].op # "scenario"
  <2>1. CASE i \in DOMAIN s
    BY <1>4, <1>5, <2>1
  <2>2. CASE i = Len(s) + 1
    BY <1>1, <1>5, <2>2
  <2> QED
    BY <1>5, <2>1, <2>2
<1>7. Neo!ToSet(<<>>) = {}
  BY DEF Neo!ToSet
<1>8. NeoListed(c)
  BY <1>3, <1>6 DEF NeoListed
<1>9. NeoLastWord(c, <<>>)
  BY <1>6 DEF NeoLastWord
<1>10. NeoFit(c, Neo!ToSet(<<>>))
  BY <1>3, <1>7
<1>11. NeoOrdered(c, <<>>)
  BY <1>8, <1>9, <1>10 DEF NeoOrdered
<1> QED
  BY <1>11 DEF c, o

\* The test of a template.
LEMMA NeoTemplateFits ==
  ASSUME Neo!NeoxAssumption, NEW x \in Neo!Objects
  PROVE  LET s == <<Neo!Op("ensure", "sfu_profile"), Neo!Op("ensure", "sfu"), Neo!Op("add_strict", "ont"), Neo!Op("look", "ont"), Neo!Op("clear", "ont"), Neo!Op("post", "ont"),
                    Neo!Op("look", "ont"), Neo!Op("scenario", "ont")>>
         IN  s \in Seq(NeoOps) /\ NeoFit(s, {}) /\ NeoOdd(s) /\ NeoOrdered(Append(s, Neo!Op("end", x)), <<>>)
<1> DEFINE g == Neo!Op("ensure", "sfu_profile")
           a == Neo!Op("ensure", "sfu")
           b == Neo!Op("add_strict", "ont")
           c == Neo!Op("look", "ont")
           d == Neo!Op("clear", "ont")
           e == Neo!Op("post", "ont")
           f == Neo!Op("scenario", "ont")
           o == Neo!Op("end", x)
           s == <<g, a, b, c, d, e, c, f>>
           w == Append(s, o)
<1>0. "sfu" \in Neo!Objects /\ "sfu_profile" \in Neo!Objects /\ "ont" \in Neo!Objects /\ "ont" \notin NeoProfiles \cup {"port"}
  BY NeoObjective DEF Neo!NeoxAssumption
<1>1. {g, a, b, c, d, e, f} \subseteq NeoOps
  BY <1>0 DEF NeoOps, Neo!Op, NeoRequests, NeoAdds
<1>2. /\ \A p \in {b, c, d, e, f} : p.x = "ont"
      /\ \A p \in {g, a, b, c, d, e} : p.op \notin {"scenario", "end", "add_delete", "add_post", "add_finally"}
      /\ \A p \in {c, d, e, f} : p.op \notin {"ensure", "add_strict"}
      /\ f.op = "scenario" /\ b.op = "add_strict"
  BY NeoOpIs
<1>3. NeoWarranted(g, {}) /\ NeoWarranted(a, {}) /\ NeoWarranted(b, {}) /\ \A p \in {c, d, e, f} : NeoWarranted(p, {b})
  <2>1. NeoBacked({b})
    BY <1>2 DEF NeoBacked
  <2>2. NeoWarranted(g, {}) /\ NeoWarranted(a, {}) /\ NeoWarranted(b, {})
    BY <1>0, NeoOpIs DEF NeoWarranted, Neo!Sfu
  <2>3. \A p \in {c, d, e, f} : p.op \notin {"ensure", "add_post", "add_strict", "add_finally"}
    BY NeoOpIs
  <2>4. \A p \in {c, d, e, f} : NeoWarranted(p, {b})
    BY <1>0, <1>2, <2>1, <2>3 DEF NeoWarranted
  <2> QED
    BY <2>2, <2>4
<1>4. o \in NeoOps /\ o.op = "end"
  BY NeoEndOp
<1> HIDE DEF g, a, b, c, d, e, f, o
<1>5. /\ s \in Seq(NeoOps) /\ DOMAIN s = 1..8 /\ Len(s) = 8 /\ s[1] = g /\ s[2] = a /\ s[3] = b /\ s[8] = f
      /\ s[4] = c /\ s[5] = d /\ s[6] = e /\ s[7] = c
  BY <1>1
<1> HIDE DEF s
<1>6. ASSUME NEW i \in DOMAIN s PROVE NeoWarranted(s[i], {} \cup NeoBefore(s, i))
  <2>1. CASE i \in {1, 2, 3}
    <3>1. {} \subseteq {} \cup NeoBefore(s, i)
      OBVIOUS
    <3> QED
      BY <2>1, <1>3, <1>5, <3>1, NeoWarrantedMore
  <2>2. CASE i \in 4..8
    <3>1. 3 \in 1..(i - 1)
      BY <2>2
    <3>2. {b} \subseteq {} \cup NeoBefore(s, i)
      BY <3>1, <1>5 DEF NeoBefore
    <3>3. s[i] \in {c, d, e, f}
      BY <2>2, <1>5
    <3> QED
      BY <1>3, <3>3, <3>2, NeoWarrantedMore
  <2> QED
    BY <1>5, <2>1, <2>2
<1>7. NeoFit(s, {})
  BY <1>6 DEF NeoFit
<1>8. /\ \A i \in DOMAIN s : s[i].op \notin {"end", "add_delete", "add_post", "add_finally"}
      /\ \A i \in DOMAIN s : s[i].op = "scenario" => i = 8
  <2>1. \A i \in DOMAIN s : s[i] \in {g, a, b, c, d, e} \/ (i = 8 /\ s[i] = f)
    BY <1>5
  <2> QED
    BY <1>2, <2>1
<1>9. w \in Seq(NeoOps) /\ NeoFit(w, {})
  BY <1>5, <1>7, NeoFitEnds DEF o
<1>10. /\ Len(w) = 9
       /\ \A i \in DOMAIN s : i \in DOMAIN w /\ w[i] = s[i]
       /\ w[9] = o
       /\ \A i \in DOMAIN w : i \in DOMAIN s \/ i = 9
  <2>1. 8 + 1 = 9
    OBVIOUS
  <2> QED
    BY <1>4, <1>5, <2>1, NeoAppended
<1> HIDE DEF w
<1>11. ASSUME NEW i \in DOMAIN w
       PROVE  /\ w[i].op = "end" <=> i = Len(w)
              /\ w[i].op = "scenario" => i + 1 = Len(w)
              /\ w[i].op \notin {"add_delete", "add_post", "add_finally"}
  <2>1. CASE i \in DOMAIN s
    BY <1>5, <1>8, <1>10, <2>1
  <2>2. CASE i = 9
    BY <1>4, <1>10, <2>2
  <2> QED
    BY <1>10, <2>1, <2>2
<1>12. Neo!ToSet(<<>>) = {}
  BY DEF Neo!ToSet
<1>13. NeoListed(w)
  BY <1>9, <1>11 DEF NeoListed
<1>14. NeoLastWord(w, <<>>)
  BY <1>11 DEF NeoLastWord
<1>15. NeoFit(w, Neo!ToSet(<<>>))
  BY <1>9, <1>12
<1>16. NeoOrdered(w, <<>>)
  BY <1>13, <1>14, <1>15 DEF NeoOrdered
<1>17. NeoOdd(s)
  BY <1>8 DEF NeoOdd
<1> QED
  BY <1>5, <1>7, <1>16, <1>17 DEF w, s, g, a, b, c, d, e, f, o

LEMMA NeoOddEnds == ASSUME NEW s \in Seq(NeoOps), NEW x \in Neo!Objects, NEW o, o = Neo!Op("end", x)
  PROVE /\ Append(s, o) \in Seq(NeoOps) /\ Append(s, o) # <<>>
        /\ NeoDescends(s) => NeoDescends(Append(s, o))
<1> DEFINE c == Append(s, o)
<1>1. o \in NeoOps /\ o.op = "end"
  BY NeoEndOp
<1>2. /\ c \in Seq(NeoOps) /\ Len(s) \in Nat /\ DOMAIN s = 1..Len(s)
      /\ \A i \in DOMAIN s : i \in DOMAIN c /\ c[i] = s[i] /\ i < Len(s) + 1
      /\ c[Len(s) + 1] = o /\ Len(s) + 1 \in DOMAIN c
      /\ \A i \in DOMAIN c : i \in DOMAIN s \/ i = Len(s) + 1
  BY <1>1, NeoAppended
<1> HIDE DEF c
<1>3. ASSUME NeoDescends(s), NEW i \in DOMAIN c, NEW j \in DOMAIN c, i < j PROVE NeoApart(c[i], c[j])
  <2>1. CASE i \in DOMAIN s /\ j \in DOMAIN s
    BY <1>2, <1>3, <2>1 DEF NeoDescends
  <2>2. CASE i = Len(s) + 1 \/ j = Len(s) + 1
    BY <1>1, <1>2, <2>2 DEF NeoApart
  <2> QED
    BY <1>2, <2>1, <2>2
<1>4. c # <<>>
  BY <1>2
<1>5. NeoDescends(s) => NeoDescends(c)
  BY <1>3 DEF NeoDescends
<1> QED
  BY <1>2, <1>4, <1>5 DEF c

LEMMA NeoTestStarts ==
  ASSUME Neo!NeoxAssumption, NEW t \in Neo!Tests
  PROVE  LET s == Append(Neo!OpsOf(t), Neo!Op("end", t.of)) IN
         /\ NeoOrdered(s, <<>>) /\ s # <<>> /\ NeoAllApart(<<>>, s)
         /\ t.name \notin Neo!OwnFirst => NeoDescends(s)
<1> DEFINE s == Append(Neo!OpsOf(t), Neo!Op("end", t.of))
<1>1. t.of \in Neo!Objects
  BY NeoObjective DEF Neo!Tests
<1>2. NeoAllApart(<<>>, s)
  BY DEF NeoAllApart
<1>3. CASE t.name # "ont_template"
  <2>1. NeoChain(Neo!OpsOf(t), {}) /\ (t.name \notin Neo!OwnFirst => NeoDescends(Neo!OpsOf(t)))
    BY <1>3, NeoTestFits
  <2>2. Neo!OpsOf(t) \in Seq(NeoOps)
    <3>1. Neo!OpsOf(t) \in Seq(NeoPlain)
      BY <2>1 DEF NeoChain
    <3> QED
      BY <3>1, NeoCalmPlain, SeqMonotonic
  <2>3. NeoOrdered(s, <<>>)
    BY <1>1, <2>1, NeoChainEnds
  <2>4. s # <<>> /\ (NeoDescends(Neo!OpsOf(t)) => NeoDescends(s))
    BY <1>1, <2>2, NeoOddEnds
  <2> QED
    BY <1>2, <2>1, <2>3, <2>4
<1>4. CASE t.name = "ont_template"
  <2> DEFINE w == <<Neo!Op("ensure", "sfu_profile"), Neo!Op("ensure", "sfu"), Neo!Op("add_strict", "ont"), Neo!Op("look", "ont"), Neo!Op("clear", "ont"), Neo!Op("post", "ont"),
                    Neo!Op("look", "ont"), Neo!Op("scenario", "ont")>>
  <2>1. Neo!OpsOf(t) = w
    BY <1>4 DEF Neo!OpsOf
  <2>2. w \in Seq(NeoOps) /\ NeoOdd(w) /\ NeoOrdered(Append(w, Neo!Op("end", t.of)), <<>>)
    BY <1>1, NeoTemplateFits
  <2> HIDE DEF w
  <2>3. NeoDescends(w)
    BY <2>2, NeoOddApart
  <2>4. s # <<>> /\ NeoDescends(s)
    BY <1>1, <2>1, <2>2, <2>3, NeoOddEnds
  <2> QED
    BY <1>2, <2>1, <2>2, <2>4
<1> QED
  BY <1>3, <1>4

LEMMA NeoTailIs ==
  ASSUME NEW s \in Seq(NeoOps), s # <<>>
  PROVE  /\ Head(s) \in NeoOps /\ Head(s) = s[1] /\ 1 \in DOMAIN s /\ Len(s) \in Nat \ {0} /\ DOMAIN s = 1..Len(s)
         /\ Tail(s) \in Seq(NeoOps) /\ Len(Tail(s)) = Len(s) - 1 /\ DOMAIN Tail(s) = 1..(Len(s) - 1)
         /\ \A i \in DOMAIN Tail(s) : i + 1 \in DOMAIN s /\ Tail(s)[i] = s[i + 1]
<1>1. /\ Head(s) \in NeoOps /\ Tail(s) \in Seq(NeoOps) /\ Len(Tail(s)) = Len(s) - 1
      /\ \A i \in 1..Len(Tail(s)) : Tail(s)[i] = s[i + 1]
  BY HeadTailProperties
<1>2. Len(s) \in Nat /\ DOMAIN s = 1..Len(s) /\ Len(s) # 0
  BY LenProperties, EmptySeq
<1>3. DOMAIN Tail(s) = 1..(Len(s) - 1)
  BY <1>1, LenProperties
<1>4. Head(s) = s[1]
  OBVIOUS
<1>5. 1 \in DOMAIN s
  BY <1>2
<1>6. \A i \in 1..(Len(s) - 1) : i + 1 \in 1..Len(s)
  BY <1>2
<1> QED
  BY <1>1, <1>2, <1>3, <1>4, <1>5, <1>6

\* Doing the first operation, or giving up, keeps the order.
LEMMA NeoContinues ==
  ASSUME NEW s, NEW c, NEW d, NeoOrdered(s, c), s # <<>>, Head(s).op # "end",
         Neo!ToSet(c) \subseteq Neo!ToSet(d), Head(s).op \in NeoAdds => Head(s) \in Neo!ToSet(d),
         \A j \in DOMAIN d : d[j] \in Neo!ToSet(c) \/ (d[j] = Head(s) /\ Head(s).op \in NeoAdds)
  PROVE  NeoOrdered(Tail(s), d) /\ Tail(s) # <<>>
<1> DEFINE t == Tail(s)
           h == Head(s)
<1>0. s \in Seq(NeoOps)
  BY DEF NeoOrdered, NeoListed
<1>1. /\ h \in NeoOps /\ h = s[1] /\ 1 \in DOMAIN s /\ Len(s) \in Nat \ {0} /\ DOMAIN s = 1..Len(s)
      /\ t \in Seq(NeoOps) /\ Len(t) = Len(s) - 1 /\ DOMAIN t = 1..(Len(s) - 1)
      /\ \A i \in DOMAIN t : i + 1 \in DOMAIN s /\ t[i] = s[i + 1]
  BY <1>0, NeoTailIs
<1>h. h.op # "end" /\ (h.op \in NeoAdds => h \in Neo!ToSet(d)) /\ \A j \in DOMAIN d : d[j] \in Neo!ToSet(c) \/ (d[j] = h /\ h.op \in NeoAdds)
  OBVIOUS
<1> HIDE DEF t, h
<1>2. Len(s) # 1
  BY <1>1, <1>h DEF NeoOrdered, NeoListed
<1>3. t # <<>>
  BY <1>1, <1>2
<1>4. NeoListed(t)
  <2>1. ASSUME NEW i \in DOMAIN t PROVE t[i].op = "end" <=> i = Len(t)
    <3>1. s[i + 1].op = "end" <=> i + 1 = Len(s)
      BY <1>1 DEF NeoOrdered, NeoListed
    <3>2. i + 1 = Len(s) <=> i = Len(t)
      BY <1>1
    <3> QED
      BY <1>1, <3>1, <3>2
  <2> QED
    BY <1>1, <2>1 DEF NeoListed
<1>5. NeoFit(t, Neo!ToSet(d))
  <2>1. ASSUME NEW i \in DOMAIN t PROVE NeoWarranted(t[i], Neo!ToSet(d) \cup NeoBefore(t, i))
    <3>1. NeoWarranted(s[i + 1], Neo!ToSet(c) \cup NeoBefore(s, i + 1))
      BY <1>1 DEF NeoOrdered, NeoFit
    <3>2. NeoBefore(s, i + 1) \subseteq {h} \cup NeoBefore(t, i)
      <4>1. ASSUME NEW j \in 1..((i + 1) - 1) PROVE s[j] \in {h} \cup NeoBefore(t, i)
        <5>1. CASE j = 1
          BY <5>1, <1>1
        <5>2. CASE j # 1
          <6>1. j - 1 \in 1..(i - 1) /\ j - 1 \in DOMAIN t /\ (j - 1) + 1 = j
            BY <5>2, <1>1
          <6>2. t[j - 1] = s[j]
            BY <6>1, <1>1
          <6> QED
            BY <6>1, <6>2 DEF NeoBefore
        <5> QED
          BY <5>1, <5>2
      <4> QED
        BY <4>1 DEF NeoBefore
    <3>3. NeoWarranted(s[i + 1], (Neo!ToSet(d) \cup NeoBefore(t, i)) \cup {h})
      <4>1. Neo!ToSet(c) \cup NeoBefore(s, i + 1) \subseteq (Neo!ToSet(d) \cup NeoBefore(t, i)) \cup {h}
        BY <3>2
      <4> QED
        BY <3>1, <4>1, NeoWarrantedMore
    <3>4. CASE h.op \in NeoAdds
      <4>1. (Neo!ToSet(d) \cup NeoBefore(t, i)) \cup {h} = Neo!ToSet(d) \cup NeoBefore(t, i)
        BY <3>4, <1>h
      <4> QED
        BY <1>1, <3>3, <4>1
    <3>5. CASE h.op \notin NeoAdds
      <4>1. \A x : h # Neo!Op("add_delete", x)
        BY <3>5, NeoOpIs DEF NeoAdds
      <4>2. NeoWarranted(s[i + 1], Neo!ToSet(d) \cup NeoBefore(t, i))
        BY <3>3, <3>5, <4>1 DEF NeoWarranted, NeoBacked, NeoAdds
      <4> QED
        BY <1>1, <4>2
    <3> QED
      BY <3>4, <3>5
  <2> QED
    BY <2>1 DEF NeoFit
<1>6. NeoLastWord(t, d)
  <2>1. ASSUME NEW i \in DOMAIN t, t[i].op = "scenario"
        PROVE  /\ i + 1 = Len(t)
               /\ \A j \in DOMAIN t : t[j].op \notin {"add_delete", "add_post", "add_finally"}
               /\ \A j \in DOMAIN d : d[j].op = "add_strict"
    <3>1. i + 1 \in DOMAIN s /\ s[i + 1].op = "scenario"
      BY <1>1, <2>1
    <3>2. /\ (i + 1) + 1 = Len(s)
          /\ \A j \in DOMAIN s : s[j].op \notin {"add_delete", "add_post", "add_finally"}
          /\ \A j \in DOMAIN c : c[j].op = "add_strict"
      BY <3>1 DEF NeoOrdered, NeoLastWord
    <3>3. i + 1 = Len(t)
      BY <3>2, <1>1
    <3>4. \A j \in DOMAIN t : t[j].op \notin {"add_delete", "add_post", "add_finally"}
      BY <3>2, <1>1
    <3>5. h.op \in NeoAdds => h.op = "add_strict"
      BY <3>2, <1>1 DEF NeoAdds
    <3>6. \A o \in Neo!ToSet(c) : o.op = "add_strict"
      BY <3>2 DEF Neo!ToSet
    <3> QED
      BY <3>3, <3>4, <3>5, <3>6, <1>h
  <2> QED
    BY <2>1 DEF NeoLastWord
<1> QED
  BY <1>3, <1>4, <1>5, <1>6 DEF NeoOrdered, t

LEMMA NeoHalts == ASSUME NEW x \in Neo!Objects, NEW c PROVE NeoOrdered(<<Neo!Op("end", x)>>, c) /\ <<Neo!Op("end", x)>> # <<>>
<1> DEFINE o == Neo!Op("end", x)
           s == <<o>>
<1>1. o \in NeoOps /\ o.op = "end" /\ \A g : NeoWarranted(o, g)
  BY NeoEndOp
<1> HIDE DEF o
<1>2. s \in Seq(NeoOps) /\ Len(s) = 1 /\ DOMAIN s = 1..1 /\ s[1] = o /\ s # <<>>
  BY <1>1
<1> HIDE DEF s
<1>3. \A i \in DOMAIN s : i = 1
  BY <1>2
<1>4. NeoListed(s) /\ NeoFit(s, Neo!ToSet(c)) /\ NeoLastWord(s, c)
  BY <1>1, <1>2, <1>3 DEF NeoListed, NeoFit, NeoLastWord
<1> QED
  BY <1>2, <1>4 DEF NeoOrdered, s, o

\* The registered clean-up: what an ONT is deleted after comes behind it, the removals go from the top down.
NeoHooks == [op : NeoAdds, x : Neo!Objects]
NeoReturns(o) == o.op \in {"add_post", "add_strict"}
NeoKept(c) ==
  /\ c \in Seq(NeoHooks)
  /\ \A i \in DOMAIN c : (NeoReturns(c[i]) => c[i].x = "ont") /\ (c[i].op = "add_finally" => c[i].x # "ont")
  /\ \A j \in DOMAIN c : c[j] = Neo!Op("add_delete", "ont") => \E i \in DOMAIN c : i < j /\ NeoReturns(c[i])
NeoPut(c, h) == IF h.op = "add_strict" THEN <<h>> \o c ELSE Append(c, h)

LEMMA NeoHookOps == NeoHooks \subseteq NeoOps /\ \A o \in NeoOps : o.op \in NeoAdds => o \in NeoHooks
<1>1. \A o \in NeoOps : o = [op |-> o.op, x |-> o.x] /\ o.x \in Neo!Objects
  BY DEF NeoOps
<1> QED
  BY <1>1 DEF NeoHooks, NeoOps

LEMMA NeoPutBehind ==
  ASSUME NEW c, NeoKept(c), NEW h \in NeoHooks, NeoWarranted(h, Neo!ToSet(c)), h.op # "add_strict"
  PROVE  /\ NeoKept(Append(c, h)) /\ Neo!ToSet(Append(c, h)) = Neo!ToSet(c) \cup {h} /\ Append(c, h) # <<>>
         /\ \A s : NeoDescends(c) /\ NeoDescends(s) /\ NeoAllApart(c, s) /\ s \in Seq(NeoOps) /\ s # <<>> /\ Head(s) = h
              => NeoDescends(Append(c, h)) /\ NeoDescends(Tail(s)) /\ NeoAllApart(Append(c, h), Tail(s))
<1> DEFINE d == Append(c, h)
<1>1. c \in Seq(NeoHooks)
  BY DEF NeoKept
<1>2. /\ d \in Seq(NeoHooks) /\ Len(c) \in Nat /\ DOMAIN c = 1..Len(c)
      /\ \A i \in DOMAIN c : i \in DOMAIN d /\ d[i] = c[i] /\ i < Len(c) + 1
      /\ d[Len(c) + 1] = h /\ Len(c) + 1 \in DOMAIN d
      /\ \A i \in DOMAIN d : i \in DOMAIN c \/ i = Len(c) + 1
  BY <1>1, NeoAppended
<1> HIDE DEF d
<1>3. Neo!ToSet(d) = Neo!ToSet(c) \cup {h}
  BY <1>2 DEF Neo!ToSet
<1>4. \A i \in DOMAIN d : (NeoReturns(d[i]) => d[i].x = "ont") /\ (d[i].op = "add_finally" => d[i].x # "ont")
  BY <1>2 DEF NeoKept, NeoWarranted, NeoReturns
<1>5. ASSUME NEW j \in DOMAIN d, d[j] = Neo!Op("add_delete", "ont") PROVE \E i \in DOMAIN d : i < j /\ NeoReturns(d[i])
  <2>1. CASE j \in DOMAIN c
    <3>1. PICK i \in DOMAIN c : i < j /\ NeoReturns(c[i])
      BY <1>2, <1>5, <2>1 DEF NeoKept
    <3> QED
      BY <1>2, <3>1
  <2>2. CASE j = Len(c) + 1
    <3>1. h.op = "add_delete" /\ h.x = "ont"
      BY <1>2, <1>5, <2>2, NeoOpIs
    <3>2. PICK o \in Neo!ToSet(c) : NeoReturns(o)
      BY <3>1 DEF NeoWarranted, NeoBacked, NeoReturns
    <3>3. PICK i \in DOMAIN c : c[i] = o
      BY <3>2 DEF Neo!ToSet
    <3> QED
      BY <1>2, <2>2, <3>2, <3>3
  <2> QED
    BY <1>2, <2>1, <2>2
<1>6. NeoKept(d)
  BY <1>2, <1>4, <1>5 DEF NeoKept
<1>7. ASSUME NEW s, NeoDescends(c), NeoDescends(s), NeoAllApart(c, s), s \in Seq(NeoOps), s # <<>>, Head(s) = h
      PROVE  NeoDescends(d) /\ NeoDescends(Tail(s)) /\ NeoAllApart(d, Tail(s))
  <2> DEFINE t == Tail(s)
  <2>1. /\ s[1] = h /\ 1 \in DOMAIN s
        /\ \A i \in DOMAIN t : i \in Nat /\ i + 1 \in DOMAIN s /\ t[i] = s[i + 1] /\ 1 < i + 1
    BY <1>7, NeoTailIs
  <2> HIDE DEF t
  <2>2. ASSUME NEW i \in DOMAIN d, NEW j \in DOMAIN d, i < j PROVE NeoApart(d[i], d[j])
    <3>1. i \in DOMAIN c /\ d[i] = c[i]
      BY <1>2, <2>2
    <3>2. CASE j \in DOMAIN c
      BY <1>2, <1>7, <2>2, <3>1, <3>2 DEF NeoDescends
    <3>3. CASE j = Len(c) + 1
      BY <1>2, <1>7, <2>1, <3>1, <3>3 DEF NeoAllApart
    <3> QED
      BY <1>2, <3>2, <3>3
  <2>3. ASSUME NEW i \in DOMAIN t, NEW j \in DOMAIN t, i < j PROVE NeoApart(t[i], t[j])
    <3>1. i + 1 < j + 1
      BY <2>1, <2>3
    <3> QED
      BY <1>7, <2>1, <3>1 DEF NeoDescends
  <2>4. ASSUME NEW i \in DOMAIN d, NEW j \in DOMAIN t PROVE NeoApart(d[i], t[j])
    <3>1. CASE i \in DOMAIN c
      BY <1>2, <1>7, <2>1, <3>1 DEF NeoAllApart
    <3>2. CASE i = Len(c) + 1
      BY <1>2, <1>7, <2>1, <3>2 DEF NeoDescends
    <3> QED
      BY <1>2, <3>1, <3>2
  <2> QED
    BY <2>2, <2>3, <2>4 DEF NeoDescends, NeoAllApart, t
<1>8. d # <<>>
  BY <1>2
<1> QED
  BY <1>3, <1>6, <1>7, <1>8 DEF d

LEMMA NeoPutInFront ==
  ASSUME NEW c, NeoKept(c), NEW h \in NeoHooks, NeoWarranted(h, Neo!ToSet(c)), h.op = "add_strict"
  PROVE  /\ NeoKept(<<h>> \o c) /\ Neo!ToSet(<<h>> \o c) = Neo!ToSet(c) \cup {h} /\ <<h>> \o c # <<>>
         /\ \A s : NeoDescends(c) /\ NeoDescends(s) /\ NeoAllApart(c, s) /\ s \in Seq(NeoOps) /\ s # <<>> /\ Head(s) = h
              => NeoDescends(<<h>> \o c) /\ NeoDescends(Tail(s)) /\ NeoAllApart(<<h>> \o c, Tail(s))
<1> DEFINE f == <<h>>
           d == f \o c
<1>1. c \in Seq(NeoHooks) /\ f \in Seq(NeoHooks) /\ DOMAIN f = 1..1 /\ f[1] = h /\ Len(f) = 1
  BY DEF NeoKept
<1> HIDE DEF f
<1>2. /\ d \in Seq(NeoHooks)
      /\ \A i \in DOMAIN f : i \in DOMAIN d /\ d[i] = f[i]
      /\ \A j \in DOMAIN c : 1 + j \in DOMAIN d /\ d[1 + j] = c[j]
      /\ \A i \in DOMAIN d : i \in DOMAIN f \/ \E j \in DOMAIN c : i = 1 + j
  <2>1. /\ d \in Seq(NeoHooks)
        /\ \A i \in DOMAIN f : i \in DOMAIN d /\ d[i] = f[i]
        /\ \A j \in DOMAIN c : Len(f) + j \in DOMAIN d /\ d[Len(f) + j] = c[j]
        /\ \A i \in DOMAIN d : i \in DOMAIN f \/ \E j \in DOMAIN c : i = Len(f) + j
    BY <1>1, NeoPlaces
  <2> HIDE DEF d
  <2> QED
    BY <1>1, <2>1
<1> HIDE DEF d
<1>3. /\ d[1] = h /\ 1 \in DOMAIN d
      /\ \A i \in DOMAIN d : i = 1 \/ \E j \in DOMAIN c : i = 1 + j
  BY <1>1, <1>2
<1>4. DOMAIN c = 1..Len(c) /\ Len(c) \in Nat
  BY <1>1, LenProperties
<1>5. Neo!ToSet(d) = Neo!ToSet(c) \cup {h}
  BY <1>2, <1>3 DEF Neo!ToSet
<1>6. ASSUME NEW i \in DOMAIN d PROVE (NeoReturns(d[i]) => d[i].x = "ont") /\ (d[i].op = "add_finally" => d[i].x # "ont")
  <2>1. CASE i = 1
    BY <1>3, <2>1 DEF NeoWarranted, NeoReturns
  <2>2. CASE i # 1
    <3>1. PICK j \in DOMAIN c : i = 1 + j
      BY <1>3, <2>2
    <3> QED
      BY <1>2, <1>6, <3>1 DEF NeoKept
  <2> QED
    BY <2>1, <2>2
<1>7. ASSUME NEW j \in DOMAIN d, d[j] = Neo!Op("add_delete", "ont") PROVE \E i \in DOMAIN d : i < j /\ NeoReturns(d[i])
  <2>1. j # 1
    BY <1>3, <1>7, NeoOpIs
  <2>2. PICK k \in DOMAIN c : j = 1 + k
    BY <1>3, <2>1
  <2>3. NeoReturns(d[1]) /\ 1 < j
    BY <1>3, <1>4, <2>2 DEF NeoReturns
  <2> QED
    BY <1>3, <2>3
<1>8. NeoKept(d)
  BY <1>2, <1>6, <1>7 DEF NeoKept
<1>9. ASSUME NEW s, NeoDescends(c), NeoDescends(s), NeoAllApart(c, s), s \in Seq(NeoOps), s # <<>>, Head(s) = h
      PROVE  NeoDescends(d) /\ NeoDescends(Tail(s)) /\ NeoAllApart(d, Tail(s))
  <2> DEFINE t == Tail(s)
  <2>1. /\ s[1] = h /\ 1 \in DOMAIN s
        /\ \A i \in DOMAIN t : i \in Nat /\ i + 1 \in DOMAIN s /\ t[i] = s[i + 1] /\ 1 < i + 1
    BY <1>9, NeoTailIs
  <2> HIDE DEF t
  <2>2. ASSUME NEW i \in DOMAIN d, NEW j \in DOMAIN d, i < j PROVE NeoApart(d[i], d[j])
    <3>1. CASE i = 1
      BY <1>3, <3>1 DEF NeoApart
    <3>2. CASE i # 1
      <4>1. PICK k \in DOMAIN c : i = 1 + k
        BY <1>3, <3>2
      <4>2. j # 1
        BY <2>2, <4>1, <1>4
      <4>3. PICK m \in DOMAIN c : j = 1 + m
        BY <1>3, <4>2
      <4>4. k < m
        BY <2>2, <4>1, <4>3, <1>4
      <4> QED
        BY <1>2, <1>9, <4>1, <4>3, <4>4 DEF NeoDescends
    <3> QED
      BY <3>1, <3>2
  <2>3. ASSUME NEW i \in DOMAIN t, NEW j \in DOMAIN t, i < j PROVE NeoApart(t[i], t[j])
    <3>1. i + 1 < j + 1
      BY <2>1, <2>3
    <3> QED
      BY <1>9, <2>1, <3>1 DEF NeoDescends
  <2>4. ASSUME NEW i \in DOMAIN d, NEW j \in DOMAIN t PROVE NeoApart(d[i], t[j])
    <3>1. CASE i = 1
      BY <1>3, <3>1 DEF NeoApart
    <3>2. CASE i # 1
      <4>1. PICK k \in DOMAIN c : i = 1 + k
        BY <1>3, <3>2
      <4> QED
        BY <1>2, <1>9, <2>1, <4>1 DEF NeoAllApart
    <3> QED
      BY <3>1, <3>2
  <2> QED
    BY <2>2, <2>3, <2>4 DEF NeoDescends, NeoAllApart, t
<1>10. d # <<>>
  BY <1>3
<1> QED
  BY <1>5, <1>8, <1>9, <1>10 DEF d, f

LEMMA NeoFrontIs ==
  ASSUME NEW c, NeoKept(c), c # <<>>
  PROVE  /\ Neo!Last(c) \in NeoHooks /\ NeoKept(Neo!Front(c)) /\ Neo!ToSet(c) = Neo!ToSet(Neo!Front(c)) \cup {Neo!Last(c)} /\ Neo!Last(c) \in Neo!ToSet(c)
         /\ (NeoReturns(Neo!Last(c)) => Neo!Last(c).x = "ont") /\ (Neo!Last(c).op = "add_finally" => Neo!Last(c).x # "ont")
         /\ Neo!Last(c) = Neo!Op("add_delete", "ont") => \E o \in Neo!ToSet(Neo!Front(c)) : NeoReturns(o)
         /\ NeoDescends(c) => /\ NeoDescends(Neo!Front(c))
                              /\ \A o \in Neo!ToSet(Neo!Front(c)) : NeoApart(o, Neo!Last(c))
<1> DEFINE d == Neo!Front(c)
           n == Len(c)
           l == Neo!Last(c)
<1>1. c \in Seq(NeoHooks) /\ n \in Nat \ {0} /\ DOMAIN c = 1..n /\ \A i \in 1..n : c[i] \in NeoHooks
  <2>1. c \in Seq(NeoHooks)
    BY DEF NeoKept
  <2>2. n \in Nat /\ DOMAIN c = 1..n /\ n # 0
    BY <2>1, LenProperties, EmptySeq
  <2> QED
    BY <2>1, <2>2, ElementOfSeq
<1>2. d = SubSeq(c, 1, n - 1) /\ l = c[n]
  BY DEF Neo!Front, Neo!Last
<1>3. /\ d \in Seq(NeoHooks) /\ Len(d) = n - 1 /\ \A i \in 1..(n - 1) : d[i] = c[i]
  <2>1. \A i \in 1..(n - 1) : c[i] \in NeoHooks
    BY <1>1
  <2>2. 1 \in Int /\ n - 1 \in Int
    BY <1>1
  <2>3. /\ SubSeq(c, 1, n - 1) \in Seq(NeoHooks)
        /\ Len(SubSeq(c, 1, n - 1)) = IF 1 <= n - 1 THEN n - 1 - 1 + 1 ELSE 0
        /\ \A i \in 1..(n - 1 - 1 + 1) : SubSeq(c, 1, n - 1)[i] = c[1 + i - 1]
    BY <2>1, <2>2, SubSeqProperties
  <2> HIDE DEF d
  <2>4. n - 1 - 1 + 1 = n - 1 /\ (~(1 <= n - 1) => n - 1 = 0)
    BY <1>1
  <2>5. \A i \in 1..(n - 1) : 1 + i - 1 = i
    BY <1>1
  <2> QED
    BY <1>2, <2>3, <2>4, <2>5
<1>4. DOMAIN d = 1..(n - 1)
  BY <1>3, LenProperties
<1> HIDE DEF d, n, l
<1>5. /\ \A i \in DOMAIN d : i \in DOMAIN c /\ d[i] = c[i] /\ i < n
      /\ \A i \in DOMAIN c : i \in DOMAIN d \/ i = n
      /\ n \in DOMAIN c /\ c[n] = l /\ l \in NeoHooks
      /\ \A i \in DOMAIN c : i < n => i \in DOMAIN d
  BY <1>1, <1>2, <1>3, <1>4
<1>6. Neo!ToSet(c) = Neo!ToSet(d) \cup {l} /\ l \in Neo!ToSet(c)
  BY <1>5 DEF Neo!ToSet
<1>7. NeoKept(d)
  <2>1. ASSUME NEW j \in DOMAIN d, d[j] = Neo!Op("add_delete", "ont") PROVE \E i \in DOMAIN d : i < j /\ NeoReturns(d[i])
    <3>1. PICK i \in DOMAIN c : i < j /\ NeoReturns(c[i])
      BY <1>5, <2>1 DEF NeoKept
    <3>2. i < n
      BY <1>1, <1>5, <3>1, <2>1
    <3> QED
      BY <1>5, <3>1, <3>2
  <2> QED
    BY <1>3, <1>5, <2>1 DEF NeoKept
<1>8. (NeoReturns(l) => l.x = "ont") /\ (l.op = "add_finally" => l.x # "ont")
  BY <1>5 DEF NeoKept
<1>9. ASSUME l = Neo!Op("add_delete", "ont") PROVE \E o \in Neo!ToSet(d) : NeoReturns(o)
  <2>1. PICK i \in DOMAIN c : i < n /\ NeoReturns(c[i])
    BY <1>5, <1>9 DEF NeoKept
  <2> QED
    BY <1>5, <2>1 DEF Neo!ToSet
<1>10. ASSUME NeoDescends(c) PROVE NeoDescends(d) /\ \A o \in Neo!ToSet(d) : NeoApart(o, l)
  <2>1. \A i \in DOMAIN d : NeoApart(d[i], l)
    BY <1>5, <1>10 DEF NeoDescends
  <2>2. NeoDescends(d)
    BY <1>5, <1>10 DEF NeoDescends
  <2> QED
    BY <2>1, <2>2 DEF Neo!ToSet
<1> QED
  BY <1>5, <1>6, <1>7, <1>8, <1>9, <1>10 DEF d, l

(***************************************************************************)
(* The invariant: what is on the device is covered by what is registered.  *)
(***************************************************************************)
NeoData ==
  /\ neoTodo \in Seq(Neo!Tests) /\ neoPhase \in {"body", "clean", "done"} /\ neoCfg \in [Neo!Objects -> Neo!Contents] /\ neoNoted \in Neo!Contents
  /\ neoWrong \in BOOLEAN /\ neoRestored \in BOOLEAN /\ neoFailed \in BOOLEAN /\ neoIgnored \subseteq Neo!Objects
NeoQueues ==
  /\ NeoOrdered(neoOps, neoCallbacks) /\ NeoKept(neoCallbacks)
  /\ neoPhase = "body" /\ neoOps = <<>> => neoCallbacks = <<>>
  /\ neoPhase # "body" => neoOps = <<>>
  /\ neoPhase = "done" => neoCallbacks = <<>>
NeoSettled ==
  neoRestored => /\ \A i \in DOMAIN neoOps : neoOps[i].op = "end"
                 /\ \A i \in DOMAIN neoCallbacks : neoCallbacks[i].op = "add_strict"
NeoDownward ==
  neoTest \notin Neo!OwnFirst => NeoDescends(neoCallbacks) /\ NeoDescends(neoOps) /\ NeoAllApart(neoCallbacks, neoOps)
NeoCovered ==
  \A x \in NeoProfiles \cup {"port"} :
    neoCfg[x] = "test" => neoFailed \/ x \in neoIgnored \/ Neo!Op("add_delete", x) \in Neo!ToSet(neoCallbacks)
NeoAwaited ==
  ~neoFailed /\ neoCfg["ont"] # "base" =>
    \/ "ont" \in neoIgnored
    \/ \E o \in Neo!ToSet(neoCallbacks) : o.op = "add_post" \/ (o.op = "add_strict" /\ ~neoRestored)
NeoIInv == NeoData /\ NeoQueues /\ NeoSettled /\ NeoDownward /\ NeoCovered /\ NeoAwaited /\ Neo!CleanUpTopDown

LEMMA NeoInitially == ASSUME Neo!NeoxAssumption, Neo!Init PROVE NeoIInv
<1>1. NeoData
  <2>1. neoTodo \in Seq(Neo!Tests) /\ neoPhase = "body" /\ neoNoted = "none" /\ neoWrong = FALSE /\ neoRestored = FALSE /\ neoFailed = FALSE
        /\ neoIgnored = {}
    BY DEF Neo!Init, Neo!NeoxAssumption
  <2>2. neoCfg \in [Neo!Objects -> Neo!Contents]
    <3>1. PICK left \in NeoExisting : neoCfg = [x \in Neo!Objects |-> IF x = "ont" THEN "base" ELSE IF x \in left THEN "old" ELSE "none"]
      BY DEF Neo!Init
    <3> QED
      BY <3>1 DEF Neo!Contents
  <2> QED
    BY <2>1, <2>2 DEF NeoData, Neo!Contents
<1>2. neoOps = <<>> /\ neoCallbacks = <<>> /\ neoPhase = "body" /\ neoRestored = FALSE /\ neoIgnored = {} /\ neoCrossed = {}
  BY DEF Neo!Init
<1>3. NeoQueues
  <2>1. <<>> \in Seq(NeoOps) /\ <<>> \in Seq(NeoHooks)
    OBVIOUS
  <2> QED
    BY <1>2, <2>1 DEF NeoQueues, NeoOrdered, NeoListed, NeoFit, NeoLastWord, NeoKept
<1>4. NeoSettled /\ NeoDownward
  BY <1>2 DEF NeoSettled, NeoDownward, NeoDescends, NeoAllApart
<1>5. NeoCovered /\ NeoAwaited
  <2>1. \A x \in Neo!Objects : neoCfg[x] # "test" /\ (x = "ont" => neoCfg[x] = "base")
    BY DEF Neo!Init
  <2> QED
    BY <2>1, NeoObjective DEF NeoCovered, NeoAwaited
<1> QED
  BY <1>1, <1>2, <1>3, <1>4, <1>5 DEF NeoIInv, Neo!CleanUpTopDown

\* The operation that is next.
LEMMA NeoNextOp ==
  ASSUME NeoIInv, neoPhase = "body", neoOps # <<>>
  PROVE  /\ Head(neoOps) \in NeoOps /\ Neo!X \in Neo!Objects /\ NeoWarranted(Head(neoOps), Neo!ToSet(neoCallbacks))
         /\ Head(neoOps).op # "end" => ~neoRestored
         /\ Head(neoOps).op = "scenario" => /\ \A i \in DOMAIN Tail(neoOps) : Tail(neoOps)[i].op = "end"
                                            /\ \A i \in DOMAIN neoCallbacks : neoCallbacks[i].op = "add_strict"
<1>1. /\ neoOps \in Seq(NeoOps) /\ Head(neoOps) \in NeoOps /\ Head(neoOps) = neoOps[1] /\ 1 \in DOMAIN neoOps
      /\ DOMAIN neoOps = 1..Len(neoOps) /\ Len(neoOps) \in Nat
      /\ DOMAIN Tail(neoOps) = 1..(Len(neoOps) - 1)
      /\ \A i \in DOMAIN Tail(neoOps) : i + 1 \in DOMAIN neoOps /\ Tail(neoOps)[i] = neoOps[i + 1]
  BY NeoTailIs DEF NeoIInv, NeoQueues, NeoOrdered, NeoListed
<1>2. NeoWarranted(neoOps[1], Neo!ToSet(neoCallbacks) \cup NeoBefore(neoOps, 1))
  BY <1>1 DEF NeoIInv, NeoQueues, NeoOrdered, NeoFit
<1>3. NeoBefore(neoOps, 1) = {}
  <2>1. \A j \in 1..(1 - 1) : FALSE
    OBVIOUS
  <2> QED
    BY <2>1 DEF NeoBefore
<1>4. Neo!ToSet(neoCallbacks) \cup {} = Neo!ToSet(neoCallbacks)
  OBVIOUS
<1>5. NeoWarranted(Head(neoOps), Neo!ToSet(neoCallbacks))
  BY <1>1, <1>2, <1>3, <1>4
<1>6. Neo!X \in Neo!Objects
  BY <1>1 DEF Neo!X, NeoOps
<1>7. Head(neoOps).op # "end" => ~neoRestored
  BY <1>1 DEF NeoIInv, NeoSettled
<1>8. ASSUME Head(neoOps).op = "scenario"
      PROVE  /\ \A i \in DOMAIN Tail(neoOps) : Tail(neoOps)[i].op = "end"
             /\ \A i \in DOMAIN neoCallbacks : neoCallbacks[i].op = "add_strict"
  <2>1. 1 + 1 = Len(neoOps) /\ \A i \in DOMAIN neoCallbacks : neoCallbacks[i].op = "add_strict"
    BY <1>1, <1>8 DEF NeoIInv, NeoQueues, NeoOrdered, NeoLastWord
  <2>2. \A i \in DOMAIN Tail(neoOps) : i + 1 = Len(neoOps)
    <3>1. \A n, i \in Nat : 1 + 1 = n /\ i \in 1..(n - 1) => i + 1 = n
      OBVIOUS
    <3>2. \A i \in DOMAIN Tail(neoOps) : i \in Nat /\ i \in 1..(Len(neoOps) - 1)
      BY <1>1
    <3> QED
      BY <1>1, <2>1, <3>1, <3>2
  <2>3. \A i \in DOMAIN Tail(neoOps) : neoOps[i + 1].op = "end"
    BY <1>1, <2>2 DEF NeoIInv, NeoQueues, NeoOrdered, NeoListed
  <2> QED
    BY <1>1, <2>1, <2>3
<1> QED
  BY <1>1, <1>5, <1>6, <1>7, <1>8

\* A step of the body that registers nothing.
NeoMoves ==
  /\ neoPhase = "body" /\ neoOps # <<>> /\ Head(neoOps).op \notin NeoAdds \cup {"end"}
  /\ neoOps' = Tail(neoOps) \/ neoOps' = <<Neo!Op("end", Neo!X)>>
  /\ UNCHANGED <<neoTodo, neoTest, neoPhase, neoCallbacks, neoIgnored, neoCrossed>>
NeoCareful ==
  \/ UNCHANGED neoCfg
  \/ \E c \in Neo!Contents :
       /\ neoCfg' = [neoCfg EXCEPT ![Neo!X] = c]
       /\ \/ neoFailed'
          \/ /\ c = "test" /\ Neo!X \in NeoProfiles \cup {"port"} => Neo!Op("add_delete", Neo!X) \in Neo!ToSet(neoCallbacks)
             /\ Neo!X = "ont" => c = "base" \/ NeoBacked(Neo!ToSet(neoCallbacks))
NeoWorks ==
  /\ NeoMoves /\ NeoCareful
  /\ neoFailed' \in BOOLEAN /\ (neoFailed => neoFailed') /\ neoWrong' \in BOOLEAN /\ neoRestored' \in BOOLEAN /\ neoNoted' \in Neo!Contents
  /\ neoRestored' => neoCfg'["ont"] = "base" /\ Head(neoOps).op = "scenario" /\ neoOps' = Tail(neoOps)

LEMMA NeoQueuesMove == ASSUME NeoIInv, NeoMoves PROVE NeoQueues' /\ NeoDownward'
<1>1. Neo!X \in Neo!Objects
  BY NeoNextOp DEF NeoMoves
<1>2. NeoOrdered(neoOps, neoCallbacks) /\ NeoKept(neoCallbacks) /\ neoOps # <<>> /\ Head(neoOps).op # "end" /\ Head(neoOps).op \notin NeoAdds
  BY DEF NeoIInv, NeoQueues, NeoMoves
<1>3. NeoOrdered(Tail(neoOps), neoCallbacks) /\ Tail(neoOps) # <<>>
  <2>1. \A j \in DOMAIN neoCallbacks : neoCallbacks[j] \in Neo!ToSet(neoCallbacks)
    BY DEF Neo!ToSet
  <2>2. Neo!ToSet(neoCallbacks) \subseteq Neo!ToSet(neoCallbacks)
    OBVIOUS
  <2> QED
    BY <1>2, <2>1, <2>2, NeoContinues
<1>4. NeoOrdered(neoOps', neoCallbacks) /\ neoOps' # <<>>
  BY <1>1, <1>3, NeoHalts DEF NeoMoves
<1>5. neoPhase' = "body" /\ neoCallbacks' = neoCallbacks /\ neoTest' = neoTest
  BY DEF NeoMoves
<1>6. NeoQueues'
  BY <1>2, <1>4, <1>5 DEF NeoQueues
<1>7. ASSUME neoTest \notin Neo!OwnFirst
      PROVE  NeoDescends(neoCallbacks) /\ NeoDescends(neoOps') /\ NeoAllApart(neoCallbacks, neoOps')
  <2>1. NeoDescends(neoCallbacks) /\ NeoDescends(neoOps) /\ NeoAllApart(neoCallbacks, neoOps)
    BY <1>7 DEF NeoIInv, NeoDownward
  <2>2. CASE neoOps' = Tail(neoOps)
    <3> DEFINE t == Tail(neoOps)
    <3>1. \A i \in DOMAIN t : i \in Nat /\ i + 1 \in DOMAIN neoOps /\ t[i] = neoOps[i + 1]
      BY <1>2, NeoTailIs DEF NeoOrdered, NeoListed
    <3> HIDE DEF t
    <3>2. \A i, j \in DOMAIN t : i < j => i + 1 < j + 1
      BY <3>1
    <3>3. NeoDescends(t) /\ NeoAllApart(neoCallbacks, t)
      BY <2>1, <3>1, <3>2 DEF NeoDescends, NeoAllApart
    <3> QED
      BY <2>1, <2>2, <3>3 DEF t
  <2>3. CASE neoOps' = <<Neo!Op("end", Neo!X)>>
    <3> DEFINE o == Neo!Op("end", Neo!X)
               s == <<o>>
    <3>1. o.op # "add_delete"
      BY NeoOpIs
    <3> HIDE DEF o
    <3>2. \A i \in DOMAIN s : s[i] = o
      OBVIOUS
    <3> HIDE DEF s
    <3>3. NeoDescends(s) /\ NeoAllApart(neoCallbacks, s)
      BY <3>1, <3>2 DEF NeoDescends, NeoAllApart, NeoApart
    <3> QED
      BY <2>1, <2>3, <3>3 DEF s, o
  <2> QED
    BY <2>2, <2>3 DEF NeoMoves
<1>8. NeoDownward'
  BY <1>5, <1>7 DEF NeoDownward
<1> QED
  BY <1>6, <1>8

LEMMA NeoWorksKeep == ASSUME Neo!NeoxAssumption, NeoIInv, NeoWorks PROVE NeoIInv'
<1>0. /\ NeoMoves /\ NeoCareful /\ neoPhase = "body" /\ neoOps # <<>> /\ neoCallbacks' = neoCallbacks /\ neoIgnored' = neoIgnored
      /\ neoCrossed' = neoCrossed /\ neoTodo' = neoTodo /\ neoPhase' = neoPhase
      /\ Head(neoOps).op # "end"
  BY DEF NeoWorks, NeoMoves
<1>1. Neo!X \in Neo!Objects /\ ~neoRestored /\ Head(neoOps).op = "scenario" =>
            (\A i \in DOMAIN Tail(neoOps) : Tail(neoOps)[i].op = "end") /\ \A i \in DOMAIN neoCallbacks : neoCallbacks[i].op = "add_strict"
  BY <1>0, NeoNextOp
<1>2. Neo!X \in Neo!Objects /\ ~neoRestored
  BY <1>0, NeoNextOp
<1>3. NeoQueues' /\ NeoDownward'
  BY <1>0, NeoQueuesMove
<1>4. neoCfg \in [Neo!Objects -> Neo!Contents]
  BY DEF NeoIInv, NeoData
<1>5. neoCfg' \in [Neo!Objects -> Neo!Contents]
  BY <1>0, <1>2, <1>4 DEF NeoCareful
<1>6. NeoData'
  BY <1>0, <1>5 DEF NeoIInv, NeoData, NeoWorks
<1>7. NeoSettled'
  <2>1. ASSUME neoRestored' PROVE (\A i \in DOMAIN neoOps' : neoOps'[i].op = "end") /\ \A i \in DOMAIN neoCallbacks : neoCallbacks[i].op = "add_strict"
    BY <1>1, <1>2, <2>1 DEF NeoWorks
  <2> QED
    BY <1>0, <2>1 DEF NeoSettled
<1>8. NeoCovered'
  <2>1. ASSUME NEW x \in NeoProfiles \cup {"port"}, neoCfg'[x] = "test"
        PROVE  neoFailed' \/ x \in neoIgnored \/ Neo!Op("add_delete", x) \in Neo!ToSet(neoCallbacks)
    <3>1. x \in Neo!Objects
      BY NeoObjective
    <3>2. neoCfg[x] = "test" => neoFailed \/ x \in neoIgnored \/ Neo!Op("add_delete", x) \in Neo!ToSet(neoCallbacks)
      BY DEF NeoIInv, NeoCovered
    <3>3. neoFailed => neoFailed'
      BY DEF NeoWorks
    <3>4. CASE UNCHANGED neoCfg
      BY <2>1, <3>2, <3>3, <3>4
    <3>5. CASE ~ UNCHANGED neoCfg
      <4>1. PICK c \in Neo!Contents :
              /\ neoCfg' = [neoCfg EXCEPT ![Neo!X] = c]
              /\ \/ neoFailed'
                 \/ c = "test" /\ Neo!X \in NeoProfiles \cup {"port"} => Neo!Op("add_delete", Neo!X) \in Neo!ToSet(neoCallbacks)
        BY <1>0, <3>5 DEF NeoCareful
      <4>2. CASE x = Neo!X
        <5>1. c = "test"
          BY <1>4, <2>1, <3>1, <4>1, <4>2
        <5> QED
          BY <4>1, <4>2, <5>1
      <4>3. CASE x # Neo!X
        <5>1. neoCfg'[x] = neoCfg[x]
          BY <1>4, <3>1, <4>1, <4>3
        <5> QED
          BY <2>1, <3>2, <3>3, <5>1
      <4> QED
        BY <4>2, <4>3
    <3> QED
      BY <3>4, <3>5
  <2> QED
    BY <1>0, <2>1 DEF NeoCovered
<1>9. NeoAwaited'
  <2>1. ASSUME ~neoFailed', neoCfg'["ont"] # "base"
        PROVE  \/ "ont" \in neoIgnored
               \/ \E o \in Neo!ToSet(neoCallbacks) : o.op = "add_post" \/ (o.op = "add_strict" /\ ~neoRestored')
    <3>1. ~neoFailed /\ ~neoRestored'
      BY <2>1 DEF NeoWorks
    <3>2. "ont" \in Neo!Objects
      BY NeoObjective
    <3>3. CASE neoCfg'["ont"] = neoCfg["ont"]
      BY <1>2, <2>1, <3>1, <3>3 DEF NeoIInv, NeoAwaited
    <3>4. CASE neoCfg'["ont"] # neoCfg["ont"]
      <4>1. PICK c \in Neo!Contents : neoCfg' = [neoCfg EXCEPT ![Neo!X] = c] /\ (Neo!X = "ont" => c = "base" \/ NeoBacked(Neo!ToSet(neoCallbacks)))
        BY <1>0, <2>1, <3>4 DEF NeoCareful
      <4>2. Neo!X = "ont"
        BY <1>4, <3>2, <3>4, <4>1
      <4>3. c # "base"
        BY <1>4, <2>1, <3>2, <4>1, <4>2
      <4>4. NeoBacked(Neo!ToSet(neoCallbacks))
        BY <4>1, <4>2, <4>3
      <4> QED
        BY <3>1, <4>4 DEF NeoBacked
    <3> QED
      BY <3>3, <3>4
  <2> QED
    BY <1>0, <2>1 DEF NeoAwaited
<1>10. Neo!CleanUpTopDown'
  BY <1>0 DEF NeoIInv, Neo!CleanUpTopDown
<1> QED
  BY <1>3, <1>6, <1>7, <1>8, <1>9, <1>10 DEF NeoIInv

\* Each action of the body but Register works in that way.
LEMMA NeoBodyIs ==
  ASSUME NeoIInv, NEW set, Neo!Doing(set), set \cap (NeoAdds \cup {"end"}) = {}
  PROVE  /\ neoPhase = "body" /\ neoOps # <<>> /\ Head(neoOps).op \in set /\ Head(neoOps).op \notin NeoAdds \cup {"end"}
         /\ Neo!X \in Neo!Objects /\ ~neoRestored /\ neoRestored = FALSE /\ NeoWarranted(Head(neoOps), Neo!ToSet(neoCallbacks)) /\ Neo!X = Head(neoOps).x
         /\ neoFailed \in BOOLEAN /\ neoWrong \in BOOLEAN /\ neoNoted \in Neo!Contents /\ neoCfg \in [Neo!Objects -> Neo!Contents]
         /\ (Neo!Continue \/ Neo!Stop) => neoFailed' \in BOOLEAN /\ (neoFailed => neoFailed') /\ (neoOps' = Tail(neoOps) \/ neoOps' = <<Neo!Op("end", Neo!X)>>)
         /\ Neo!Stop => neoFailed'
<1>1. neoPhase = "body" /\ neoOps # <<>> /\ Head(neoOps).op \in set
  BY DEF Neo!Doing
<1>2. Head(neoOps).op \notin NeoAdds \cup {"end"}
  BY <1>1
<1>3. neoFailed \in BOOLEAN /\ neoWrong \in BOOLEAN /\ neoNoted \in Neo!Contents /\ neoCfg \in [Neo!Objects -> Neo!Contents] /\ neoRestored \in BOOLEAN
  BY DEF NeoIInv, NeoData
<1>4. Neo!X \in Neo!Objects /\ ~neoRestored /\ NeoWarranted(Head(neoOps), Neo!ToSet(neoCallbacks))
  BY <1>1, <1>2, NeoNextOp
<1>5. (Neo!Continue \/ Neo!Stop) => neoFailed' \in BOOLEAN /\ (neoFailed => neoFailed') /\ (neoOps' = Tail(neoOps) \/ neoOps' = <<Neo!Op("end", Neo!X)>>)
  <2>1. Neo!Continue => neoFailed' = neoFailed /\ neoOps' = Tail(neoOps)
    BY DEF Neo!Continue
  <2>2. Neo!Stop => neoFailed' = TRUE /\ neoOps' = <<Neo!Op("end", Neo!X)>>
    BY DEF Neo!Stop
  <2> QED
    BY <1>3, <2>1, <2>2
<1> QED
  BY <1>1, <1>2, <1>3, <1>4, <1>5 DEF Neo!Stop, Neo!X

\* A step that notes nothing, puts nothing back, and writes with care.
LEMMA NeoPlainWork ==
  ASSUME NeoIInv, NEW set, Neo!Doing(set), set \cap (NeoAdds \cup {"end"}) = {}, Neo!Continue \/ Neo!Stop, NeoCareful,
         UNCHANGED <<neoCallbacks, neoRestored, neoIgnored>>, Neo!Other, neoNoted' \in Neo!Contents, neoWrong' \in BOOLEAN
  PROVE  NeoWorks
<1>1. NeoMoves
  BY NeoBodyIs DEF NeoMoves, Neo!Other
<1>2. neoFailed' \in BOOLEAN /\ (neoFailed => neoFailed') /\ neoRestored' = FALSE
  BY NeoBodyIs
<1> QED
  BY <1>1, <1>2 DEF NeoWorks

LEMMA NeoWriteIs == ASSUME NEW x, NEW c, Neo!Write(x, c) PROVE neoCfg' = [neoCfg EXCEPT ![x] = c]
  BY DEF Neo!Write

LEMMA NeoDeletesWrite == ASSUME NEW x, NEW a, Neo!Deletes(x, a)
  PROVE (UNCHANGED neoCfg \/ neoCfg' = [neoCfg EXCEPT ![x] = "none"]) /\ (a = "refused" => UNCHANGED neoCfg) /\ a \in Neo!Answers
  BY DEF Neo!Deletes, Neo!Write, Neo!Answers

LEMMA NeoPostsWrite == ASSUME NEW x, NEW c, NEW a, Neo!Posts(x, c, a)
  PROVE (UNCHANGED neoCfg \/ neoCfg' = [neoCfg EXCEPT ![x] = c]) /\ (a = "refused" => UNCHANGED neoCfg) /\ a \in Neo!Answers
        /\ (a = "ok" => neoCfg' = [neoCfg EXCEPT ![x] = c])
  BY DEF Neo!Posts, Neo!Write, Neo!Answers

LEMMA NeoRemovesWork ==
  ASSUME Neo!NeoxAssumption, NeoIInv, Neo!Doing({"drop", "clear", "delete"}), NEW a, Neo!Deletes(Neo!X, a)
  PROVE  NeoCareful
<1>1. Neo!X = "ont" => NeoBacked(Neo!ToSet(neoCallbacks))
  BY NeoBodyIs DEF NeoWarranted, NeoAdds
<1>2. "none" \in Neo!Contents /\ "none" # "test"
  BY DEF Neo!Contents
<1> QED
  BY <1>1, <1>2, NeoDeletesWrite DEF NeoCareful

LEMMA NeoDropWorks == ASSUME Neo!NeoxAssumption, NeoIInv, Neo!Drop PROVE NeoWorks
<1>1. Neo!Doing({"drop", "clear"}) /\ {"drop", "clear"} \cap (NeoAdds \cup {"end"}) = {} /\ Neo!Doing({"drop", "clear", "delete"})
  BY DEF Neo!Drop, Neo!Doing, NeoAdds
<1>2. Neo!Continue \/ Neo!Stop
  BY DEF Neo!Drop
<1>3. NeoCareful
  <2>1. CASE UNCHANGED neoCfg
    BY <2>1 DEF NeoCareful
  <2>2. CASE ~ UNCHANGED neoCfg
    <3>1. PICK a \in Neo!Answers : Neo!Deletes(Neo!X, a)
      BY <2>2 DEF Neo!Drop
    <3> QED
      BY <1>1, <3>1, NeoRemovesWork
  <2> QED
    BY <2>1, <2>2
<1>4. UNCHANGED <<neoCallbacks, neoRestored, neoIgnored>> /\ Neo!Other /\ neoNoted' \in Neo!Contents /\ neoWrong' \in BOOLEAN
  BY DEF Neo!Drop, NeoIInv, NeoData
<1> QED
  BY <1>1, <1>2, <1>3, <1>4, NeoPlainWork

LEMMA NeoDeleteWorks == ASSUME Neo!NeoxAssumption, NeoIInv, Neo!Delete PROVE NeoWorks
<1>1. Neo!Doing({"delete"}) /\ {"delete"} \cap (NeoAdds \cup {"end"}) = {} /\ Neo!Doing({"drop", "clear", "delete"})
  BY DEF Neo!Delete, Neo!Doing, NeoAdds
<1>2. Neo!Continue \/ Neo!Stop
  BY DEF Neo!Delete
<1>3. NeoCareful
  BY <1>1, NeoRemovesWork DEF Neo!Delete
<1>4. UNCHANGED <<neoCallbacks, neoRestored, neoIgnored>> /\ Neo!Other /\ neoNoted' \in Neo!Contents /\ neoWrong' \in BOOLEAN
  BY DEF Neo!Delete, NeoIInv, NeoData
<1> QED
  BY <1>1, <1>2, <1>3, <1>4, NeoPlainWork

LEMMA NeoPostWorks == ASSUME Neo!NeoxAssumption, NeoIInv, Neo!Post PROVE NeoWorks
<1>1. Neo!Doing({"post"}) /\ {"post"} \cap (NeoAdds \cup {"end"}) = {}
  BY DEF Neo!Post, NeoAdds
<1>2. Neo!Continue \/ Neo!Stop
  BY DEF Neo!Post
<1>3. NeoCareful
  <2>1. Head(neoOps).op = "post" /\ NeoWarranted(Head(neoOps), Neo!ToSet(neoCallbacks)) /\ Neo!X = Head(neoOps).x
    BY <1>1, NeoBodyIs
  <2>2. /\ Neo!X \in NeoProfiles \cup {"port"} => Neo!Op("add_delete", Neo!X) \in Neo!ToSet(neoCallbacks)
        /\ Neo!X = "ont" => NeoBacked(Neo!ToSet(neoCallbacks))
    BY <2>1 DEF NeoWarranted
  <2>3. PICK a \in Neo!Answers : Neo!Posts(Neo!X, "test", a)
    BY DEF Neo!Post
  <2>4. UNCHANGED neoCfg \/ neoCfg' = [neoCfg EXCEPT ![Neo!X] = "test"]
    BY <2>3, NeoPostsWrite
  <2> QED
    BY <2>2, <2>4 DEF NeoCareful, Neo!Contents
<1>4. UNCHANGED <<neoCallbacks, neoRestored, neoIgnored>> /\ Neo!Other /\ neoNoted' \in Neo!Contents /\ neoWrong' \in BOOLEAN
  BY DEF Neo!Post, NeoIInv, NeoData
<1> QED
  BY <1>1, <1>2, <1>3, <1>4, NeoPlainWork

LEMMA NeoRefuseWorks == ASSUME Neo!NeoxAssumption, NeoIInv, Neo!Refuse PROVE NeoWorks
<1>1. Neo!Doing({"post_invalid", "delete_invalid"}) /\ {"post_invalid", "delete_invalid"} \cap (NeoAdds \cup {"end"}) = {}
  BY DEF Neo!Refuse, NeoAdds
<1>2. PICK a \in Neo!Answers :
        /\ IF Head(neoOps).op = "post_invalid" THEN Neo!Posts(Neo!X, "test", a) ELSE Neo!Deletes(Neo!X, a)
        /\ \/ a = "refused" /\ Neo!Continue /\ UNCHANGED neoWrong
           \/ a = "refused" /\ Neo!Matrix /\ Neo!Continue /\ neoWrong' = TRUE
           \/ (a # "refused" \/ ~Neo!Matrix) /\ Neo!Stop /\ UNCHANGED neoWrong
  BY DEF Neo!Refuse
<1>3. Neo!Continue \/ Neo!Stop
  BY <1>2
<1>4. NeoCareful
  <2>1. CASE a = "refused"
    BY <1>2, <2>1, NeoPostsWrite, NeoDeletesWrite DEF NeoCareful
  <2>2. CASE a # "refused"
    <3>1. neoFailed'
      BY <1>2, <2>2 DEF Neo!Stop
    <3>2. UNCHANGED neoCfg \/ \E c \in {"none", "test"} : neoCfg' = [neoCfg EXCEPT ![Neo!X] = c]
      BY <1>2, NeoPostsWrite, NeoDeletesWrite
    <3> QED
      BY <3>1, <3>2 DEF NeoCareful, Neo!Contents
  <2> QED
    BY <2>1, <2>2
<1>5. UNCHANGED <<neoCallbacks, neoRestored, neoIgnored>> /\ Neo!Other /\ neoNoted' \in Neo!Contents
  BY DEF Neo!Refuse, NeoIInv, NeoData
<1>6. neoWrong' \in BOOLEAN
  BY <1>2 DEF NeoIInv, NeoData
<1> QED
  BY <1>1, <1>3, <1>4, <1>5, <1>6, NeoPlainWork

LEMMA NeoAbsentWorks == ASSUME NeoIInv, Neo!Absent PROVE NeoWorks
<1>1. Neo!Doing({"absent"}) /\ {"absent"} \cap (NeoAdds \cup {"end"}) = {}
  BY DEF Neo!Absent, NeoAdds
<1>2. (Neo!Continue \/ Neo!Stop) /\ NeoCareful
  BY DEF Neo!Absent, NeoCareful
<1>3. UNCHANGED <<neoCallbacks, neoRestored, neoIgnored>> /\ Neo!Other /\ neoNoted' \in Neo!Contents
  BY DEF Neo!Absent, NeoIInv, NeoData
<1>4. neoWrong' \in BOOLEAN
  BY DEF Neo!Absent, NeoIInv, NeoData
<1> QED
  BY <1>1, <1>2, <1>3, <1>4, NeoPlainWork

LEMMA NeoConcludeWorks == ASSUME NeoIInv, Neo!Conclude PROVE NeoWorks
<1>1. Neo!Doing({"assert"}) /\ {"assert"} \cap (NeoAdds \cup {"end"}) = {}
  BY DEF Neo!Conclude, NeoAdds
<1>2. (Neo!Continue \/ Neo!Stop) /\ NeoCareful
  BY DEF Neo!Conclude, NeoCareful
<1>3. UNCHANGED <<neoCallbacks, neoRestored, neoIgnored>> /\ Neo!Other /\ neoNoted' \in Neo!Contents /\ neoWrong' \in BOOLEAN
  BY DEF Neo!Conclude, NeoIInv, NeoData
<1> QED
  BY <1>1, <1>2, <1>3, NeoPlainWork

LEMMA NeoReadWorks == ASSUME NeoIInv, Neo!Read PROVE NeoWorks
<1>1. Neo!Doing({"look", "note", "same", "gone"}) /\ {"look", "note", "same", "gone"} \cap (NeoAdds \cup {"end"}) = {}
  BY DEF Neo!Read, NeoAdds
<1>2. (Neo!Continue \/ Neo!Stop) /\ NeoCareful
  BY DEF Neo!Read, NeoCareful
<1>3. UNCHANGED <<neoCallbacks, neoRestored, neoIgnored>> /\ Neo!Other /\ neoWrong' \in BOOLEAN
  BY DEF Neo!Read, NeoIInv, NeoData
<1>4. neoNoted' \in Neo!Contents
  <2>1. Neo!X \in Neo!Objects /\ neoCfg \in [Neo!Objects -> Neo!Contents] /\ neoNoted \in Neo!Contents
    BY <1>1, NeoBodyIs
  <2>2. neoCfg[Neo!X] \in Neo!Contents
    BY <2>1
  <2> QED
    BY <2>1, <2>2 DEF Neo!Read
<1> QED
  BY <1>1, <1>2, <1>3, <1>4, NeoPlainWork

LEMMA NeoEnsureWorks == ASSUME Neo!NeoxAssumption, NeoIInv, Neo!Ensure PROVE NeoWorks
<1>1. Neo!Doing({"ensure"}) /\ {"ensure"} \cap (NeoAdds \cup {"end"}) = {}
  BY DEF Neo!Ensure, NeoAdds
<1>2. Neo!Continue \/ Neo!Stop
  BY DEF Neo!Ensure
<1>3. NeoCareful
  <2>1. Head(neoOps).op = "ensure" /\ NeoWarranted(Head(neoOps), Neo!ToSet(neoCallbacks)) /\ Neo!X = Head(neoOps).x
    BY <1>1, NeoBodyIs
  <2>2. Neo!X \notin NeoProfiles \cup {"port"} /\ Neo!X # "ont"
    BY <2>1 DEF NeoWarranted, Neo!NeoxAssumption, Neo!Sfu
  <2>3. UNCHANGED neoCfg \/ neoCfg' = [neoCfg EXCEPT ![Neo!X] = "test"]
    BY NeoPostsWrite DEF Neo!Ensure
  <2> QED
    BY <2>2, <2>3 DEF NeoCareful, Neo!Contents
<1>4. UNCHANGED <<neoCallbacks, neoRestored, neoIgnored>> /\ Neo!Other /\ neoNoted' \in Neo!Contents /\ neoWrong' \in BOOLEAN
  BY DEF Neo!Ensure, NeoIInv, NeoData
<1> QED
  BY <1>1, <1>2, <1>3, <1>4, NeoPlainWork

LEMMA NeoConverging == ASSUME NEW ok, Neo!Converges(ok), neoCfg \in [Neo!Objects -> Neo!Contents]
  PROVE  /\ \E c \in Neo!Contents : neoCfg' = [neoCfg EXCEPT !["ont"] = c]
         /\ ok => neoCfg' = [neoCfg EXCEPT !["ont"] = "base"] /\ neoCfg'["ont"] = "base"
<1>1. "ont" \in Neo!Objects
  BY NeoObjective
<1> QED
  BY <1>1 DEF Neo!Converges, Neo!Write, Neo!Contents

LEMMA NeoScenarioWorks == ASSUME Neo!NeoxAssumption, NeoIInv, Neo!Scenario PROVE NeoWorks
<1>1. Neo!Doing({"scenario"}) /\ {"scenario"} \cap (NeoAdds \cup {"end"}) = {}
  BY DEF Neo!Scenario, NeoAdds
<1>2. PICK ok \in BOOLEAN : Neo!Converges(ok) /\ neoRestored' = ok /\ (IF ok THEN Neo!Continue ELSE Neo!Stop)
  BY DEF Neo!Scenario
<1>3. NeoMoves
  BY <1>1, <1>2, NeoBodyIs DEF NeoMoves, Neo!Other, Neo!Scenario
<1>4. neoCfg \in [Neo!Objects -> Neo!Contents] /\ neoFailed \in BOOLEAN
  BY DEF NeoIInv, NeoData
<1>x. Neo!X = "ont"
  <2>1. Head(neoOps).op = "scenario" /\ NeoWarranted(Head(neoOps), Neo!ToSet(neoCallbacks)) /\ Neo!X = Head(neoOps).x
    BY <1>1, NeoBodyIs
  <2> QED
    BY <2>1 DEF NeoWarranted
<1>5. NeoCareful
  <2>1. CASE ok
    BY <1>2, <1>4, <1>x, <2>1, NeoConverging DEF NeoCareful, Neo!Contents
  <2>2. CASE ~ok
    BY <1>2, <1>4, <1>x, <2>2, NeoConverging DEF NeoCareful, Neo!Stop
  <2> QED
    BY <2>1, <2>2
<1>6. neoRestored' => neoCfg'["ont"] = "base" /\ neoOps' = Tail(neoOps)
  BY <1>2, <1>4, NeoConverging DEF Neo!Continue
<1>7. neoFailed' \in BOOLEAN /\ (neoFailed => neoFailed')
  BY <1>1, <1>2, NeoBodyIs
<1>8. neoWrong' \in BOOLEAN /\ neoNoted' \in Neo!Contents
  BY DEF Neo!Scenario, NeoIInv, NeoData
<1>9. Head(neoOps).op = "scenario"
  BY <1>1 DEF Neo!Doing
<1> QED
  BY <1>2, <1>3, <1>5, <1>6, <1>7, <1>8, <1>9 DEF NeoWorks

\* The other actions.
LEMMA NeoEmptyQueue == ASSUME NEW c PROVE NeoOrdered(<<>>, c) /\ NeoDescends(<<>>) /\ NeoAllApart(c, <<>>) /\ Neo!ToSet(<<>>) = {}
<1>1. <<>> \in Seq(NeoOps) /\ DOMAIN <<>> = {}
  OBVIOUS
<1> QED
  BY <1>1 DEF NeoOrdered, NeoListed, NeoFit, NeoLastWord, NeoDescends, NeoAllApart, Neo!ToSet

LEMMA NeoStartKeeps == ASSUME Neo!NeoxAssumption, NeoIInv, Neo!StartTest PROVE NeoIInv'
<1>1. neoPhase = "body" /\ neoOps = <<>> /\ neoTodo # <<>> /\ neoCallbacks = <<>>
  BY DEF Neo!StartTest, NeoIInv, NeoQueues
<1> DEFINE t == Head(neoTodo)
<1>2. t \in Neo!Tests /\ Tail(neoTodo) \in Seq(Neo!Tests)
  BY <1>1, HeadTailProperties DEF NeoIInv, NeoData
<1> DEFINE s == Append(Neo!OpsOf(t), Neo!Op("end", t.of))
<1>3. /\ NeoOrdered(s, <<>>) /\ s # <<>> /\ NeoAllApart(<<>>, s)
      /\ t.name \notin Neo!OwnFirst => NeoDescends(s)
  BY <1>2, NeoTestStarts
<1>4. /\ neoTest' = t.name /\ neoTodo' = Tail(neoTodo) /\ neoOps' = s /\ neoWrong' = FALSE /\ neoRestored' = FALSE
      /\ UNCHANGED <<neoPhase, neoCallbacks, neoCfg, neoNoted, neoFailed, neoIgnored, neoCrossed>>
  BY DEF Neo!StartTest
<1> HIDE DEF s, t
<1>5. NeoData'
  BY <1>2, <1>4 DEF NeoIInv, NeoData
<1>6. NeoQueues'
  BY <1>1, <1>3, <1>4 DEF NeoIInv, NeoQueues
<1>7. NeoSettled' /\ NeoDownward'
  BY <1>1, <1>3, <1>4, NeoEmptyQueue DEF NeoSettled, NeoDownward
<1>8. NeoCovered'
  BY <1>4 DEF NeoIInv, NeoCovered
<1>9. NeoAwaited'
  <2>1. \A o : o \notin Neo!ToSet(neoCallbacks)
    BY <1>1, NeoEmptyQueue
  <2> QED
    BY <1>4, <2>1 DEF NeoIInv, NeoAwaited
<1>10. Neo!CleanUpTopDown'
  BY <1>4 DEF NeoIInv, Neo!CleanUpTopDown
<1> QED
  BY <1>5, <1>6, <1>7, <1>8, <1>9, <1>10 DEF NeoIInv

LEMMA NeoRegisterKeeps == ASSUME Neo!NeoxAssumption, NeoIInv, Neo!Register PROVE NeoIInv'
<1> DEFINE h == Head(neoOps)
<1>1. neoPhase = "body" /\ neoOps # <<>> /\ h.op \in NeoAdds /\ h.op # "end"
  BY DEF Neo!Register, Neo!Doing, NeoAdds
<1>2. h \in NeoOps /\ h \in NeoHooks /\ NeoWarranted(h, Neo!ToSet(neoCallbacks)) /\ ~neoRestored
  BY <1>1, NeoNextOp, NeoHookOps
<1>3. /\ neoCallbacks' = IF h.op = "add_strict" THEN <<h>> \o neoCallbacks ELSE Append(neoCallbacks, h)
      /\ neoOps' = Tail(neoOps)
      /\ UNCHANGED <<neoTodo, neoTest, neoPhase, neoCfg, neoNoted, neoWrong, neoRestored, neoFailed, neoIgnored, neoCrossed>>
  BY DEF Neo!Register, Neo!Continue, Neo!Other
<1>4. NeoKept(neoCallbacks) /\ NeoOrdered(neoOps, neoCallbacks)
  BY DEF NeoIInv, NeoQueues
<1>5. /\ NeoKept(neoCallbacks') /\ Neo!ToSet(neoCallbacks') = Neo!ToSet(neoCallbacks) \cup {h}
      /\ \A s : NeoDescends(neoCallbacks) /\ NeoDescends(s) /\ NeoAllApart(neoCallbacks, s) /\ s \in Seq(NeoOps) /\ s # <<>> /\ Head(s) = h
           => NeoDescends(neoCallbacks') /\ NeoDescends(Tail(s)) /\ NeoAllApart(neoCallbacks', Tail(s))
  <2>1. CASE h.op = "add_strict"
    <3>1. neoCallbacks' = <<h>> \o neoCallbacks
      BY <1>3, <2>1
    <3> HIDE DEF h
    <3> QED
      BY <1>2, <1>4, <2>1, <3>1, NeoPutInFront
  <2>2. CASE h.op # "add_strict"
    <3>1. neoCallbacks' = Append(neoCallbacks, h)
      BY <1>3, <2>2
    <3> HIDE DEF h
    <3> QED
      BY <1>2, <1>4, <2>2, <3>1, NeoPutBehind
  <2> QED
    BY <2>1, <2>2
<1>6. NeoOrdered(Tail(neoOps), neoCallbacks') /\ Tail(neoOps) # <<>>
  <2>1. Neo!ToSet(neoCallbacks) \subseteq Neo!ToSet(neoCallbacks') /\ h \in Neo!ToSet(neoCallbacks')
    BY <1>5
  <2>2. \A j \in DOMAIN neoCallbacks' : neoCallbacks'[j] \in Neo!ToSet(neoCallbacks) \/ (neoCallbacks'[j] = h /\ h.op \in NeoAdds)
    <3>1. \A j \in DOMAIN neoCallbacks' : neoCallbacks'[j] \in Neo!ToSet(neoCallbacks')
      BY DEF Neo!ToSet
    <3> QED
      BY <1>1, <1>5, <3>1
  <2> DEFINE d == neoCallbacks'
  <2>3. Neo!ToSet(neoCallbacks) \subseteq Neo!ToSet(d) /\ h \in Neo!ToSet(d)
        /\ \A j \in DOMAIN d : d[j] \in Neo!ToSet(neoCallbacks) \/ (d[j] = h /\ h.op \in NeoAdds)
    BY <2>1, <2>2
  <2> HIDE DEF d
  <2>4. NeoOrdered(Tail(neoOps), d) /\ Tail(neoOps) # <<>>
    BY <1>1, <1>4, <2>3, NeoContinues
  <2> QED
    BY <2>4 DEF d
<1> HIDE DEF h
<1>7. NeoData'
  BY <1>3 DEF NeoIInv, NeoData
<1>8. NeoQueues'
  BY <1>1, <1>3, <1>5, <1>6 DEF NeoQueues
<1>9. NeoSettled'
  BY <1>2, <1>3 DEF NeoSettled
<1>10. NeoDownward'
  <2>1. neoOps \in Seq(NeoOps)
    BY <1>4 DEF NeoOrdered, NeoListed
  <2>2. ASSUME neoTest \notin Neo!OwnFirst
        PROVE  NeoDescends(neoCallbacks') /\ NeoDescends(Tail(neoOps)) /\ NeoAllApart(neoCallbacks', Tail(neoOps))
    <3>1. NeoDescends(neoCallbacks) /\ NeoDescends(neoOps) /\ NeoAllApart(neoCallbacks, neoOps)
      BY <2>2 DEF NeoIInv, NeoDownward
    <3> QED
      BY <1>1, <1>5, <2>1, <3>1 DEF h
  <2> QED
    BY <1>3, <2>2 DEF NeoDownward
<1>11. NeoCovered'
  <2>1. \A o \in Neo!ToSet(neoCallbacks) : o \in Neo!ToSet(neoCallbacks')
    BY <1>5
  <2> QED
    BY <1>3, <2>1 DEF NeoIInv, NeoCovered
<1>12. NeoAwaited'
  <2>1. \A o \in Neo!ToSet(neoCallbacks) : o \in Neo!ToSet(neoCallbacks')
    BY <1>5
  <2> QED
    BY <1>3, <2>1 DEF NeoIInv, NeoAwaited
<1>13. Neo!CleanUpTopDown'
  BY <1>3 DEF NeoIInv, Neo!CleanUpTopDown
<1> QED
  BY <1>7, <1>8, <1>9, <1>10, <1>11, <1>12, <1>13 DEF NeoIInv

LEMMA NeoEndKeeps == ASSUME NeoIInv, Neo!EndBody \/ Neo!EndTest PROVE NeoIInv'
<1>1. /\ UNCHANGED <<neoTodo, neoTest, neoCallbacks, neoCfg, neoNoted, neoWrong, neoRestored, neoFailed, neoIgnored, neoCrossed>>
      /\ neoOps' = <<>>
  BY DEF Neo!EndBody, Neo!EndTest, NeoIInv, NeoQueues
<1>2. \/ neoPhase' = "clean"
      \/ neoCallbacks = <<>> /\ neoPhase' \in {"body", "done"}
  BY DEF Neo!EndBody, Neo!EndTest
<1>3. NeoData'
  BY <1>1, <1>2 DEF NeoIInv, NeoData
<1>4. NeoOrdered(neoOps', neoCallbacks') /\ NeoDescends(neoOps') /\ NeoAllApart(neoCallbacks', neoOps') /\ DOMAIN neoOps' = {}
  <2>1. DOMAIN <<>> = {}
    OBVIOUS
  <2> QED
    BY <1>1, <2>1, NeoEmptyQueue
<1>5. NeoQueues'
  BY <1>1, <1>2, <1>4 DEF NeoIInv, NeoQueues
<1>6. NeoSettled'
  BY <1>1, <1>4 DEF NeoIInv, NeoSettled
<1>7. NeoDownward'
  BY <1>1, <1>4 DEF NeoIInv, NeoDownward
<1>8. NeoCovered' /\ NeoAwaited' /\ Neo!CleanUpTopDown'
  BY <1>1 DEF NeoIInv, NeoCovered, NeoAwaited, Neo!CleanUpTopDown
<1> QED
  BY <1>3, <1>5, <1>6, <1>7, <1>8 DEF NeoIInv

LEMMA NeoCallbackKeeps == ASSUME Neo!NeoxAssumption, NeoIInv, Neo!RunCallback PROVE NeoIInv'
<1> DEFINE c == Neo!Last(neoCallbacks)
           d == Neo!Front(neoCallbacks)
<1>1. /\ neoPhase = "clean" /\ neoCallbacks # <<>> /\ neoCallbacks' = d /\ neoOps = <<>>
      /\ UNCHANGED <<neoTodo, neoTest, neoOps, neoPhase, neoNoted, neoWrong, neoRestored>>
  BY DEF Neo!RunCallback, NeoIInv, NeoQueues
<1>2. /\ c \in NeoHooks /\ NeoKept(d) /\ Neo!ToSet(neoCallbacks) = Neo!ToSet(d) \cup {c} /\ c \in Neo!ToSet(neoCallbacks)
      /\ (NeoReturns(c) => c.x = "ont") /\ (c.op = "add_finally" => c.x # "ont")
      /\ c = Neo!Op("add_delete", "ont") => \E o \in Neo!ToSet(d) : NeoReturns(o)
      /\ NeoDescends(neoCallbacks) => NeoDescends(d) /\ \A o \in Neo!ToSet(d) : NeoApart(o, c)
  BY <1>1, NeoFrontIs DEF NeoIInv, NeoQueues
<1>3. c.op \in NeoAdds /\ c.x \in Neo!Objects /\ (c.op = "add_delete" => c = Neo!Op("add_delete", c.x))
  BY <1>2 DEF NeoHooks, Neo!Op
<1>4. \/ /\ c.op = "add_strict" /\ UNCHANGED <<neoIgnored, neoCrossed>>
         /\ \/ neoRestored /\ UNCHANGED <<neoCfg, neoFailed>>
            \/ ~neoRestored /\ \E ok \in BOOLEAN : Neo!Converges(ok) /\ neoFailed' = (neoFailed \/ ~ok)
      \/ /\ c.op = "add_finally" /\ UNCHANGED <<neoIgnored, neoCrossed>>
         /\ \E a \in Neo!Answers : Neo!Deletes(c.x, a) /\ neoFailed' = (neoFailed \/ a = "raise")
      \/ /\ c.op \in {"add_delete", "add_post"} /\ UNCHANGED neoFailed
         /\ \E a \in Neo!Answers :
              /\ IF c.op = "add_delete" THEN Neo!Deletes(c.x, a) ELSE Neo!Posts(c.x, "base", a)
              /\ neoIgnored' = IF a = "ok" \/ (c.op = "add_delete" /\ ~Neo!Present(c.x)) THEN neoIgnored ELSE neoIgnored \union {c.x}
         /\ neoCrossed' = IF c.op = "add_delete" /\ \E q \in Neo!Users(c.x) : Neo!Op("add_delete", q) \in Neo!ToSet(d)
                          THEN neoCrossed \union {neoTest} ELSE neoCrossed
  BY DEF Neo!RunCallback
<1> HIDE DEF c, d
<1>5. /\ neoCfg \in [Neo!Objects -> Neo!Contents] /\ neoFailed \in BOOLEAN /\ neoIgnored \subseteq Neo!Objects /\ "ont" \in Neo!Objects
      /\ neoRestored \in BOOLEAN
  BY NeoObjective DEF NeoIInv, NeoData
\* What the step changes on the device and in the record of it.
<1>6. ASSUME c.op = "add_strict" PROVE NeoData' /\ NeoCovered' /\ NeoAwaited' /\ Neo!CleanUpTopDown'
  <2>1. UNCHANGED <<neoIgnored, neoCrossed>>
    BY <1>4, <1>6
  <2>2. neoFailed' \in BOOLEAN /\ (neoFailed => neoFailed')
    <3>1. CASE UNCHANGED neoFailed
      BY <1>5, <3>1
    <3>2. CASE \E ok \in BOOLEAN : neoFailed' = (neoFailed \/ ~ok)
      BY <1>5, <3>2
    <3> QED
      BY <1>4, <1>6, <3>1, <3>2
  <2>3. UNCHANGED neoCfg \/ \E v \in Neo!Contents : neoCfg' = [neoCfg EXCEPT !["ont"] = v]
    BY <1>4, <1>5, <1>6, NeoConverging
  <2>4. neoCfg' \in [Neo!Objects -> Neo!Contents] /\ \A x \in Neo!Objects : x # "ont" => neoCfg'[x] = neoCfg[x]
    BY <1>5, <2>3
  <2>5. NeoData'
    BY <1>1, <2>1, <2>2, <2>4 DEF NeoIInv, NeoData
  <2>6. NeoCovered'
    <3>1. ASSUME NEW x \in NeoProfiles \cup {"port"}, neoCfg'[x] = "test"
          PROVE  neoFailed' \/ x \in neoIgnored \/ Neo!Op("add_delete", x) \in Neo!ToSet(d)
      <4>1. x \in Neo!Objects /\ x # "ont"
        BY NeoObjective DEF Neo!NeoxAssumption
      <4>2. neoFailed \/ x \in neoIgnored \/ Neo!Op("add_delete", x) \in Neo!ToSet(neoCallbacks)
        BY <2>4, <3>1, <4>1 DEF NeoIInv, NeoCovered
      <4>3. Neo!Op("add_delete", x) # c
        BY <1>6, NeoOpIs
      <4> QED
        BY <1>2, <2>2, <4>2, <4>3
    <3> QED
      BY <1>1, <2>1, <3>1 DEF NeoCovered
  <2>7. NeoAwaited'
    <3>1. ASSUME ~neoFailed', neoCfg'["ont"] # "base" PROVE "ont" \in neoIgnored
      <4>1. CASE neoRestored
        <5>1. UNCHANGED <<neoCfg, neoFailed>>
          BY <1>4, <1>6, <4>1
        <5>2. \A o \in Neo!ToSet(neoCallbacks) : o.op = "add_strict"
          BY <4>1 DEF NeoIInv, NeoSettled, Neo!ToSet
        <5> QED
          BY <3>1, <4>1, <5>1, <5>2 DEF NeoIInv, NeoAwaited
      <4>2. CASE ~neoRestored
        <5>1. PICK ok \in BOOLEAN : Neo!Converges(ok) /\ neoFailed' = (neoFailed \/ ~ok)
          BY <1>4, <1>6, <4>2
        <5>2. ok
          BY <3>1, <5>1
        <5> QED
          BY <1>5, <3>1, <5>1, <5>2, NeoConverging
      <4> QED
        BY <4>1, <4>2
    <3> QED
      BY <2>1, <3>1 DEF NeoAwaited
  <2>8. Neo!CleanUpTopDown'
    BY <2>1 DEF NeoIInv, Neo!CleanUpTopDown
  <2> QED
    BY <2>5, <2>6, <2>7, <2>8
<1>13. ASSUME c.op = "add_finally" PROVE NeoData' /\ NeoCovered' /\ NeoAwaited' /\ Neo!CleanUpTopDown'
  <2>1. PICK a \in Neo!Answers : Neo!Deletes(c.x, a) /\ neoFailed' = (neoFailed \/ a = "raise") /\ UNCHANGED <<neoIgnored, neoCrossed>>
    BY <1>4, <1>13
  <2>2. neoFailed' \in BOOLEAN /\ (neoFailed => neoFailed')
    BY <1>5, <2>1
  <2>3. UNCHANGED neoCfg \/ neoCfg' = [neoCfg EXCEPT ![c.x] = "none"]
    BY <2>1, NeoDeletesWrite
  <2>4. /\ neoCfg' \in [Neo!Objects -> Neo!Contents] /\ neoCfg'["ont"] = neoCfg["ont"]
        /\ \A x \in Neo!Objects : neoCfg'[x] = neoCfg[x] \/ neoCfg'[x] = "none"
    <3>1. "none" \in Neo!Contents /\ c.x # "ont"
      BY <1>2, <1>13 DEF Neo!Contents
    <3> QED
      BY <1>3, <1>5, <2>3, <3>1
  <2>5. NeoData'
    BY <1>1, <2>1, <2>2, <2>4 DEF NeoIInv, NeoData
  <2>6. NeoCovered'
    <3>1. ASSUME NEW x \in NeoProfiles \cup {"port"}, neoCfg'[x] = "test"
          PROVE  neoFailed' \/ x \in neoIgnored \/ Neo!Op("add_delete", x) \in Neo!ToSet(d)
      <4>1. neoCfg[x] = "test"
        BY <2>4, <3>1, NeoObjective
      <4>2. neoFailed \/ x \in neoIgnored \/ Neo!Op("add_delete", x) \in Neo!ToSet(neoCallbacks)
        BY <4>1 DEF NeoIInv, NeoCovered
      <4>3. Neo!Op("add_delete", x) # c
        BY <1>13, NeoOpIs
      <4> QED
        BY <1>2, <2>2, <4>2, <4>3
    <3> QED
      BY <1>1, <2>1, <3>1 DEF NeoCovered
  <2>7. NeoAwaited'
    <3>1. ASSUME ~neoFailed', neoCfg'["ont"] # "base"
          PROVE  "ont" \in neoIgnored \/ \E o \in Neo!ToSet(d) : o.op = "add_post" \/ (o.op = "add_strict" /\ ~neoRestored)
      <4>1. \/ "ont" \in neoIgnored
            \/ \E o \in Neo!ToSet(neoCallbacks) : o.op = "add_post" \/ (o.op = "add_strict" /\ ~neoRestored)
        BY <2>2, <2>4, <3>1 DEF NeoIInv, NeoAwaited
      <4> QED
        BY <1>2, <1>13, <4>1
    <3> QED
      BY <1>1, <2>1, <3>1 DEF NeoAwaited
  <2>8. Neo!CleanUpTopDown'
    BY <2>1 DEF NeoIInv, Neo!CleanUpTopDown
  <2> QED
    BY <2>5, <2>6, <2>7, <2>8
<1>7. ASSUME c.op \in {"add_delete", "add_post"} PROVE NeoData' /\ NeoCovered' /\ NeoAwaited' /\ Neo!CleanUpTopDown'
  <2>1. PICK a \in Neo!Answers :
          /\ IF c.op = "add_delete" THEN Neo!Deletes(c.x, a) ELSE Neo!Posts(c.x, "base", a)
          /\ neoIgnored' = IF a = "ok" \/ (c.op = "add_delete" /\ ~Neo!Present(c.x)) THEN neoIgnored ELSE neoIgnored \union {c.x}
    BY <1>4, <1>7
  <2>2. neoFailed' = neoFailed
    BY <1>4, <1>7
  <2>3. ~neoRestored
    <3>1. neoRestored => \A o \in Neo!ToSet(neoCallbacks) : o.op = "add_strict"
      BY DEF NeoIInv, NeoSettled, Neo!ToSet
    <3> QED
      BY <1>2, <1>7, <3>1
  <2>4. UNCHANGED neoCfg \/ \E v \in {"none", "base"} : neoCfg' = [neoCfg EXCEPT ![c.x] = v]
    BY <2>1, NeoDeletesWrite, NeoPostsWrite
  <2>5. neoCfg' \in [Neo!Objects -> Neo!Contents] /\ \A x \in Neo!Objects : x # c.x => neoCfg'[x] = neoCfg[x]
    <3>1. {"none", "base"} \subseteq Neo!Contents
      BY DEF Neo!Contents
    <3> QED
      BY <1>5, <2>4, <3>1
  <2>6. neoIgnored' \subseteq Neo!Objects /\ neoIgnored \subseteq neoIgnored'
    BY <1>3, <1>5, <2>1
  <2>7. NeoData'
    BY <1>1, <2>2, <2>5, <2>6 DEF NeoIInv, NeoData
  <2>8. NeoCovered'
    <3>1. ASSUME NEW x \in NeoProfiles \cup {"port"}, neoCfg'[x] = "test"
          PROVE  neoFailed \/ x \in neoIgnored' \/ Neo!Op("add_delete", x) \in Neo!ToSet(d)
      <4>1. x \in Neo!Objects /\ x # "ont"
        BY NeoObjective DEF Neo!NeoxAssumption
      <4>2. neoCfg[x] = "test" => neoFailed \/ x \in neoIgnored \/ Neo!Op("add_delete", x) \in Neo!ToSet(neoCallbacks)
        BY DEF NeoIInv, NeoCovered
      <4>3. CASE x # c.x
        <5>1. Neo!Op("add_delete", x) # c
          BY <4>3, NeoOpIs
        <5> QED
          BY <1>2, <2>5, <2>6, <3>1, <4>1, <4>2, <4>3, <5>1
      <4>4. CASE x = c.x
        <5>1. c.op = "add_delete"
          BY <1>2, <1>3, <1>7, <4>1, <4>4 DEF NeoReturns, NeoAdds
        <5>2. Neo!Deletes(x, a)
          BY <2>1, <4>4, <5>1
        <5>3. a # "ok"
          <6>1. a = "ok" => neoCfg' = [neoCfg EXCEPT ![x] = "none"]
            BY <5>2 DEF Neo!Deletes, Neo!Write
          <6> QED
            BY <1>5, <3>1, <4>1, <6>1
        <5>4. UNCHANGED neoCfg
          BY <1>5, <3>1, <4>1, <5>2, NeoDeletesWrite
        <5>5. Neo!Present(x)
          BY <3>1, <5>4 DEF Neo!Present
        <5> QED
          BY <2>1, <4>4, <5>3, <5>5
      <4> QED
        BY <4>3, <4>4
    <3> QED
      BY <1>1, <2>2, <3>1 DEF NeoCovered
  <2>9. NeoAwaited'
    <3>1. ASSUME ~neoFailed, neoCfg'["ont"] # "base"
          PROVE  "ont" \in neoIgnored' \/ \E o \in Neo!ToSet(d) : o.op = "add_post" \/ (o.op = "add_strict" /\ ~neoRestored)
      <4>1. CASE c.x # "ont"
        <5>1. neoCfg'["ont"] = neoCfg["ont"]
          BY <1>5, <2>5, <4>1
        <5>2. \/ "ont" \in neoIgnored
              \/ \E o \in Neo!ToSet(neoCallbacks) : o.op = "add_post" \/ (o.op = "add_strict" /\ ~neoRestored)
          BY <3>1, <5>1 DEF NeoIInv, NeoAwaited
        <5>3. ~NeoReturns(c)
          BY <1>2, <4>1
        <5> QED
          BY <1>2, <2>6, <5>2, <5>3 DEF NeoReturns
      <4>2. CASE c.x = "ont" /\ c.op = "add_delete"
        <5>1. PICK o \in Neo!ToSet(d) : NeoReturns(o)
          BY <1>2, <1>3, <4>2
        <5> QED
          BY <2>3, <5>1 DEF NeoReturns
      <4>3. CASE c.x = "ont" /\ c.op # "add_delete"
        <5>1. Neo!Posts("ont", "base", a) /\ neoIgnored' = IF a = "ok" THEN neoIgnored ELSE neoIgnored \cup {"ont"}
          BY <2>1, <4>3
        <5>2. a # "ok"
          <6>1. a = "ok" => neoCfg' = [neoCfg EXCEPT !["ont"] = "base"]
            BY <5>1, NeoPostsWrite
          <6> QED
            BY <1>5, <3>1, <6>1
        <5> QED
          BY <5>1, <5>2
      <4> QED
        BY <4>1, <4>2, <4>3
    <3> QED
      BY <1>1, <2>2, <3>1 DEF NeoAwaited
  <2>10. Neo!CleanUpTopDown'
    <3>1. CASE neoCrossed' = neoCrossed
      BY <3>1 DEF NeoIInv, Neo!CleanUpTopDown
    <3>2. CASE neoCrossed' # neoCrossed
      <4>1. neoCrossed' = neoCrossed \cup {neoTest} /\ c.op = "add_delete"
        BY <1>4, <1>7, <3>2
      <4>2. PICK q \in Neo!Users(c.x) : Neo!Op("add_delete", q) \in Neo!ToSet(d)
        BY <1>4, <1>7, <3>2
      <4>3. q \in NeoProfiles /\ c.x \in Neo!ToSet(Direct[q])
        BY <4>2 DEF Neo!Users
      <4>4. ~ NeoApart(Neo!Op("add_delete", q), c)
        BY <4>1, <4>3, NeoOpIs DEF NeoApart
      <4>5. neoTest \in Neo!OwnFirst
        BY <1>2, <4>2, <4>4 DEF NeoIInv, NeoDownward
      <4> QED
        BY <4>1, <4>5 DEF NeoIInv, Neo!CleanUpTopDown
    <3> QED
      BY <3>1, <3>2
  <2> QED
    BY <2>7, <2>8, <2>9, <2>10
<1>8. NeoData' /\ NeoCovered' /\ NeoAwaited' /\ Neo!CleanUpTopDown'
  BY <1>4, <1>6, <1>7, <1>13
<1>9. neoOps' = <<>> /\ DOMAIN neoOps' = {} /\ NeoOrdered(neoOps', neoCallbacks') /\ NeoDescends(neoOps') /\ NeoAllApart(neoCallbacks', neoOps')
  <2>1. neoOps' = <<>>
    BY <1>1
  <2>2. DOMAIN <<>> = {}
    OBVIOUS
  <2> QED
    BY <2>1, <2>2, NeoEmptyQueue
<1>10. NeoQueues'
  BY <1>1, <1>2, <1>9 DEF NeoQueues
<1>11. NeoSettled'
  <2>1. ASSUME neoRestored PROVE \A i \in DOMAIN d : d[i].op = "add_strict"
    <3>1. \A o \in Neo!ToSet(neoCallbacks) : o.op = "add_strict"
      BY <2>1 DEF NeoIInv, NeoSettled, Neo!ToSet
    <3>2. \A i \in DOMAIN d : d[i] \in Neo!ToSet(d)
      BY DEF Neo!ToSet
    <3> QED
      BY <1>2, <3>1, <3>2
  <2> QED
    BY <1>1, <1>9, <2>1 DEF NeoSettled
<1>12. NeoDownward'
  BY <1>1, <1>2, <1>9 DEF NeoIInv, NeoDownward
<1> QED
  BY <1>8, <1>10, <1>11, <1>12 DEF NeoIInv

LEMMA NeoInductive == ASSUME Neo!NeoxAssumption, NeoIInv, [Neo!Next]_(Neo!vars) PROVE NeoIInv'
<1>1. CASE Neo!StartTest
  BY <1>1, NeoStartKeeps
<1>2. CASE Neo!Register
  BY <1>2, NeoRegisterKeeps
<1>3. CASE Neo!Drop
  BY <1>3, NeoDropWorks, NeoWorksKeep
<1>4. CASE Neo!Post
  BY <1>4, NeoPostWorks, NeoWorksKeep
<1>5. CASE Neo!Delete
  BY <1>5, NeoDeleteWorks, NeoWorksKeep
<1>6. CASE Neo!Refuse
  BY <1>6, NeoRefuseWorks, NeoWorksKeep
<1>7. CASE Neo!Absent
  BY <1>7, NeoAbsentWorks, NeoWorksKeep
<1>8. CASE Neo!Conclude
  BY <1>8, NeoConcludeWorks, NeoWorksKeep
<1>9. CASE Neo!Read
  BY <1>9, NeoReadWorks, NeoWorksKeep
<1>10. CASE Neo!Ensure
  BY <1>10, NeoEnsureWorks, NeoWorksKeep
<1>11. CASE Neo!Scenario
  BY <1>11, NeoScenarioWorks, NeoWorksKeep
<1>12. CASE Neo!EndBody \/ Neo!EndTest
  BY <1>12, NeoEndKeeps
<1>13. CASE Neo!RunCallback
  BY <1>13, NeoCallbackKeeps
<1>14. CASE UNCHANGED Neo!vars
  <2>1. UNCHANGED <<neoTodo, neoTest, neoOps, neoPhase, neoCallbacks, neoNoted, neoWrong, neoRestored, neoFailed, neoCfg, neoIgnored, neoCrossed>>
    BY <1>14 DEF Neo!vars, Neo!body
  <2>2. NeoData' /\ NeoQueues'
    BY <2>1 DEF NeoIInv, NeoData, NeoQueues
  <2>3. NeoSettled' /\ NeoDownward'
    BY <2>1 DEF NeoIInv, NeoSettled, NeoDownward
  <2>4. NeoCovered' /\ NeoAwaited' /\ Neo!CleanUpTopDown'
    BY <2>1 DEF NeoIInv, NeoCovered, NeoAwaited, Neo!CleanUpTopDown
  <2> QED
    BY <2>2, <2>3, <2>4 DEF NeoIInv
<1> QED
  BY <1>1, <1>2, <1>3, <1>4, <1>5, <1>6, <1>7, <1>8, <1>9, <1>10, <1>11, <1>12, <1>13, <1>14 DEF Neo!Next

LEMMA NeoLeft == NeoIInv => Neo!LeftConfigIsReported
<1>1. ASSUME NeoIInv, Neo!Done, NEW x \in NeoProfiles \union {"port"}, neoCfg[x] = "test" PROVE neoFailed \/ x \in neoIgnored
  <2>1. neoCallbacks = <<>>
    BY <1>1 DEF NeoIInv, NeoQueues, Neo!Done
  <2>2. Neo!Op("add_delete", x) \notin Neo!ToSet(neoCallbacks)
    BY <2>1, NeoEmptyQueue
  <2> QED
    BY <1>1, <2>2 DEF NeoIInv, NeoCovered
<1> QED
  BY <1>1 DEF Neo!LeftConfigIsReported

LEMMA NeoBaseline == NeoIInv => Neo!BaselineBack
<1>1. ASSUME NeoIInv, Neo!Done PROVE \A o : o \notin Neo!ToSet(neoCallbacks)
  <2>1. neoCallbacks = <<>>
    BY <1>1 DEF NeoIInv, NeoQueues, Neo!Done
  <2> QED
    BY <2>1, NeoEmptyQueue
<1> QED
  BY <1>1 DEF NeoIInv, NeoAwaited, Neo!BaselineBack

LEMMA NeoTopDown == NeoIInv => Neo!CleanUpTopDown
  BY DEF NeoIInv

LEMMA NeoTypes == NeoIInv => Neo!TypeOK
<1>1. ASSUME NeoIInv PROVE \A i \in DOMAIN neoOps : neoOps[i].x \in Neo!Objects
  <2>1. neoOps \in Seq(NeoOps)
    BY <1>1 DEF NeoIInv, NeoQueues, NeoOrdered, NeoListed
  <2>2. \A i \in DOMAIN neoOps : neoOps[i] \in NeoOps
    BY <2>1, ElementOfSeq, LenProperties
  <2> QED
    BY <2>2 DEF NeoOps
<1>2. ASSUME NeoIInv PROVE \A i \in DOMAIN neoCallbacks : neoCallbacks[i].op \in {"add_delete", "add_post", "add_strict", "add_finally"}
  <2>1. neoCallbacks \in Seq(NeoHooks)
    BY <1>2 DEF NeoIInv, NeoQueues, NeoKept
  <2>2. \A i \in DOMAIN neoCallbacks : neoCallbacks[i] \in NeoHooks
    BY <2>1, ElementOfSeq, LenProperties
  <2> QED
    BY <2>2 DEF NeoHooks, NeoAdds
<1>3. NeoIInv => /\ neoPhase \in {"body", "clean", "done"} /\ {neoWrong, neoRestored, neoFailed} \subseteq BOOLEAN
                 /\ neoCfg \in [Neo!Objects -> Neo!Contents] /\ neoNoted \in Neo!Contents /\ neoIgnored \subseteq Neo!Objects
  BY DEF NeoIInv, NeoData
<1> QED
  BY <1>1, <1>2, <1>3 DEF Neo!TypeOK

LEMMA NeoInvariance == ASSUME Neo!NeoxAssumption PROVE Neo!Spec => []NeoIInv
  BY NeoInitially, NeoInductive, PTL DEF Neo!Spec

\* Whatever the profiles, their references, the tests and their order, the refusals and exceptions, and what was there before
\* (tests/test_neox_config.py, tests/test_neox_profile.py, utils/cleanup.py): configuration that a test made and the session
\* leaves on the device failed a test, or a clean-up request for it did not succeed.
THEOREM NeoNothingLeftUnseen == ASSUME Neo!NeoxAssumption PROVE Neo!Spec => []Neo!LeftConfigIsReported
  BY NeoInvariance, NeoLeft, PTL

\* And the ONT ends on its baseline, or a test failed, or the one clean-up of it that goes unnoticed did not succeed.
THEOREM NeoBaselineIsBack == ASSUME Neo!NeoxAssumption PROVE Neo!Spec => []Neo!BaselineBack
  BY NeoInvariance, NeoBaseline, PTL

\* A clean-up deletes a profile before what it references, but for the two tests that register their own profile first.
THEOREM NeoTopDownFirst == ASSUME Neo!NeoxAssumption PROVE Neo!Spec => []Neo!CleanUpTopDown
  BY NeoInvariance, NeoTopDown, PTL
=============================================================================
