------------------------------- MODULE RunFlows -------------------------------
(*****************************************************************************)
(* The flows that bring the EMS back, ask who may do what, watch or read it, *)
(* carry a run and its report, or work on the files that runs leave: the     *)
(* baseline restore, the report of a session, the authorisation, session,    *)
(* alarm and read tests, and the tools.                                      *)
(*****************************************************************************)

CONSTANTS
  Window, Chunk, Stable, Retries, CliTime, CallTime,                             \* Baseline
  Items, CaseOf, Role, MaxCallbacks,                                             \* Report
  Roles, HasGe, Remote,                                                          \* AuthMatrix
  Minute, LastGood, SesCount, Delay, Lives, SesCases,                            \* UserSession
  Alarms, AlmSelections, AlmRivals, Seeds, Polls,                                 \* Alarm
  InvReads, Pages, Slot, Cards, InvPolls,                                        \* Inventory
  Builds, NodeIds, IpOf, Sources, Verdicts, MaxReports, MaxMarks,                \* ReportIndex
  Entries, ActionOf, MaxSize, MaxRuns,                                           \* Archive
  Endpoints, Records, Catalog, Neox, Filter,                                     \* Backfill
  DocFirst, Operations, Schemas, OpNames, ComponentNames, Nesting, Height, MaxEdits \* OpenApi

VARIABLES
  basPc, basNow, basBegun, basChunk, basLogin, basHits, basRetries, basErrors, basCliEnd, basFailures,
  repPc, repItem, repCallbacks, repStrictErrors, repRaised, repResults, repErrors, repInterrupted,
  repReport, repPools, repStrictFailed, repTroubled, repOutOfOrder,
  autRole, autOps, autTried, autBefore, autFailed, autProf, autServices, autIgnored, autUnseen,
  sesPc, sesNow, sesStarted, sesMinute, sesMade, sesUsed, sesLife, sesSliding, sesOpen, sesKind,
  sesFailed,
  almTodo, almTest, almPc, almIds, almN, almWf, almFailed, almActive, almAcked, almMoving, almPast,
  almOthers, almCleared, almRemoved, almTrouble,
  invTodo, invPc, invN, invService, invCache, invWaits, invSeen, invVerdicts,
  idxRuns, idxFormal,
  arcTop, arcArchived, arcManifest, arcPc, arcPlan, arcMoved, arcProblems, arcRuns, arcUnlisted, arcExits,
  filMode, filTodo, filResults, filRecord, filExit, filLinked, filMute,
  docLive, docYaml, docEdits

basVars == <<basPc, basNow, basBegun, basChunk, basLogin, basHits, basRetries, basErrors, basCliEnd,
  basFailures>>
repVars == <<repPc, repItem, repCallbacks, repStrictErrors, repRaised, repResults, repErrors, repInterrupted,
  repReport, repPools, repStrictFailed, repTroubled, repOutOfOrder>>
autVars == <<autRole, autOps, autTried, autBefore, autFailed, autProf, autServices, autIgnored, autUnseen>>
sesVars == <<sesPc, sesNow, sesStarted, sesMinute, sesMade, sesUsed, sesLife, sesSliding, sesOpen, sesKind,
  sesFailed>>
almVars == <<almTodo, almTest, almPc, almIds, almN, almWf, almFailed, almActive, almAcked, almMoving, almPast,
  almOthers, almCleared, almRemoved, almTrouble>>
invVars == <<invTodo, invPc, invN, invService, invCache, invWaits, invSeen, invVerdicts>>
idxVars == <<idxRuns, idxFormal>>
arcVars == <<arcTop, arcArchived, arcManifest, arcPc, arcPlan, arcMoved, arcProblems, arcRuns, arcUnlisted,
  arcExits>>
filVars == <<filMode, filTodo, filResults, filRecord, filExit, filLinked, filMute>>
docVars == <<docLive, docYaml, docEdits>>

Bas == INSTANCE Baseline WITH pc <- basPc, now <- basNow, begun <- basBegun, chunk <- basChunk,
  login <- basLogin, hits <- basHits, retries <- basRetries, errors <- basErrors, cliEnd <- basCliEnd,
  failures <- basFailures
Rep == INSTANCE Report WITH pc <- repPc, item <- repItem, callbacks <- repCallbacks,
  strictErrors <- repStrictErrors, raised <- repRaised, results <- repResults, errors <- repErrors,
  interrupted <- repInterrupted, report <- repReport, pools <- repPools, strictFailed <- repStrictFailed,
  troubled <- repTroubled, outOfOrder <- repOutOfOrder
Aut == INSTANCE AuthMatrix WITH role <- autRole, ops <- autOps, tried <- autTried, before <- autBefore,
  failed <- autFailed, prof <- autProf, services <- autServices, ignored <- autIgnored, unseen <- autUnseen
Ses == INSTANCE UserSession WITH Cases <- SesCases, Count <- SesCount, pc <- sesPc, now <- sesNow,
  started <- sesStarted, minute <- sesMinute, made <- sesMade, used <- sesUsed, life <- sesLife,
  sliding <- sesSliding, open <- sesOpen, kind <- sesKind, failed <- sesFailed
Alm == INSTANCE Alarm WITH Selections <- AlmSelections, Others <- AlmRivals, todo <- almTodo, test <- almTest,
  pc <- almPc, ids <- almIds, n <- almN, wf <- almWf, failed <- almFailed, active <- almActive, acked <- almAcked,
  moving <- almMoving, past <- almPast, others <- almOthers, cleared <- almCleared, removed <- almRemoved,
  trouble <- almTrouble
Inv == INSTANCE Inventory WITH Reads <- InvReads, Polls <- InvPolls, todo <- invTodo, pc <- invPc,
  n <- invN, service <- invService, cache <- invCache, waits <- invWaits, seen <- invSeen,
  verdicts <- invVerdicts
Idx == INSTANCE ReportIndex WITH MaxRuns <- MaxReports, runs <- idxRuns, formal <- idxFormal
Arc == INSTANCE Archive WITH top <- arcTop, archived <- arcArchived, manifest <- arcManifest, pc <- arcPc,
  plan <- arcPlan, moved <- arcMoved, problems <- arcProblems, runs <- arcRuns, unlisted <- arcUnlisted,
  exits <- arcExits
Fil == INSTANCE Backfill WITH mode <- filMode, todo <- filTodo, results <- filResults,
  record <- filRecord, exit <- filExit, linked <- filLinked, mute <- filMute
Doc == INSTANCE OpenApi WITH First <- DocFirst, live <- docLive, yaml <- docYaml, edits <- docEdits
===============================================================================
