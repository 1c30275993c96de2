------------------------------- MODULE EmsFlows -------------------------------
(*****************************************************************************)
(* The flows that provision the EMS and the devices behind it: the service,  *)
(* profile and configuration tests. Each has constants and variables of its  *)
(* own, and an instance of the module that models it.                        *)
(*****************************************************************************)

CONSTANTS
  OntSelections, OntPosts, InvalidCases, Others,                                 \* OntWorkflow
  GeSelections, Attempts,                                                        \* GeWorkflow
  Order, Below, WspSelections, WspExisting,                                      \* Workspace
  NeoProfiles, Direct, NeoSelections, NeoExisting, NeoDepth                      \* NeoxConfig

VARIABLES
  ontTodo, ontTest, ontDoing, ontPc, ontSeen, ontCli, ontN, ontRedo, ontWf, ontTpl, ontPrep, ontKeep,
  ontTorn, ontSvc, ontState, ontReserved, ontLate, ontOthers, ontHarmed,
  geTodo, geTest, gePc, geId, geN, geWf, geTpl, gePrep, geEvidence, geTorn, geSvc, geGen, geState, geCfg,
  geLate, geOthers, geHarmed, geRedone, geGarbled,
  wspCases, wspCase, wspOps, wspAt, wspAttempt, wspCreated, wspPlanned, wspBorrowed, wspErrors, wspBase,
  wspFailed, wspTorn, wspProf, wspPinned, wspOurs, wspUnsure, wspSwept, wspOthers,
  neoTodo, neoTest, neoOps, neoPhase, neoCallbacks, neoCfg, neoNoted, neoWrong, neoRestored, neoFailed,
  neoIgnored, neoCrossed

ontVars == <<ontTodo, ontTest, ontDoing, ontPc, ontSeen, ontCli, ontN, ontRedo, ontWf, ontTpl, ontPrep,
  ontKeep, ontTorn, ontSvc, ontState, ontReserved, ontLate, ontOthers, ontHarmed>>
geVars == <<geTodo, geTest, gePc, geId, geN, geWf, geTpl, gePrep, geEvidence, geTorn, geSvc, geGen, geState,
  geCfg, geLate, geOthers, geHarmed, geRedone, geGarbled>>
wspVars == <<wspCases, wspCase, wspOps, wspAt, wspAttempt, wspCreated, wspPlanned, wspBorrowed, wspErrors,
  wspBase, wspFailed, wspTorn, wspProf, wspPinned, wspOurs, wspUnsure, wspSwept, wspOthers>>
neoVars == <<neoTodo, neoTest, neoOps, neoPhase, neoCallbacks, neoCfg, neoNoted, neoWrong, neoRestored,
  neoFailed, neoIgnored, neoCrossed>>

Ont == INSTANCE OntWorkflow WITH Posts <- OntPosts, Selections <- OntSelections, todo <- ontTodo,
  test <- ontTest, doing <- ontDoing, pc <- ontPc, seen <- ontSeen, cli <- ontCli, n <- ontN, redo <- ontRedo,
  wf <- ontWf, tpl <- ontTpl, prep <- ontPrep, keep <- ontKeep, torn <- ontTorn, svc <- ontSvc,
  state <- ontState, reserved <- ontReserved, late <- ontLate, others <- ontOthers, harmed <- ontHarmed
Ge == INSTANCE GeWorkflow WITH Selections <- GeSelections, todo <- geTodo, test <- geTest, pc <- gePc,
  id <- geId, n <- geN, wf <- geWf, tpl <- geTpl, prep <- gePrep, evidence <- geEvidence, torn <- geTorn,
  svc <- geSvc, gen <- geGen, state <- geState, cfg <- geCfg, late <- geLate, others <- geOthers, harmed <- geHarmed,
  redone <- geRedone, garbled <- geGarbled
Wsp == INSTANCE Workspace WITH Selections <- WspSelections, Existing <- WspExisting, cases <- wspCases,
  case <- wspCase, ops <- wspOps, at <- wspAt, attempt <- wspAttempt, created <- wspCreated,
  planned <- wspPlanned, borrowed <- wspBorrowed, errors <- wspErrors, base <- wspBase, failed <- wspFailed,
  torn <- wspTorn, prof <- wspProf, pinned <- wspPinned, ours <- wspOurs, unsure <- wspUnsure,
  swept <- wspSwept, others <- wspOthers
Neo == INSTANCE NeoxConfig WITH Profiles <- NeoProfiles, Selections <- NeoSelections,
  Existing <- NeoExisting, Depth <- NeoDepth, todo <- neoTodo, test <- neoTest, ops <- neoOps, phase <- neoPhase,
  callbacks <- neoCallbacks, cfg <- neoCfg, noted <- neoNoted, wrong <- neoWrong, restored <- neoRestored,
  failed <- neoFailed, ignored <- neoIgnored, crossed <- neoCrossed
===============================================================================
