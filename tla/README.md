# Verification of RestApi Auto

TLA+ models of the parts of this repository that carry state across calls,
threads, processes or runs: what every request and command goes through (the
EMS session cache, the HTTP transport, the SSH session pool), what tests leave
behind (temporary profiles, the profile workspace, ONT and GE services, NeoX
configuration, alarms, sessions), what several nodes share (the multi-node
runner), and what is said about all of it (report, report index, archive,
TestLink backfill, OpenAPI comparison). TLC checks each model on a small
instance; TLAPS proves every invariant and action property of these runs for
every instance; liveness and the absence of deadlocks stay with TLC.

## 1. Inventory

RestApi Auto is a pytest framework that tests a NetAtlas EMS over REST and the
devices behind it (DUTs) over SSH. One pytest process drives one node;
`tools/run_multi_node.py` starts one process per node in parallel; pytest-xdist
may start several on one node.

| Component | State it keeps | Operations | Talks to | What is hard |
|---|---|---|---|---|
| EMS session cache, `clients/session.py` | `_cached[role]` with id and `issued_at`; one `RLock` | `cached_session_id`, `refresh_after_not_authorized`, `discard_cached_role`, `role_session`, `close` | EMS logins and logouts, while the lock is held | expiry against a clock the EMS does not share, logins that invalidate each other, recovery that must not repeat a mutation |
| HTTP transport, `clients/ems_api_client.py` | `_last_request_started`, `_PACING_LOCK`; `connection_events` | `request`, `_pace`, `_request_with_transport_retry` | EMS, report header | which errors are safe to resend, pacing under concurrency, the ledger of recovered errors |
| SSH session pool, `clients/ssh_cli.py` | `_idle` sessions; token files shared between processes | `acquire`, `run_commands`, `release`, `discard`, `close_all` | DUT; other processes through the file system | token files read and removed by several processes, crashes, dead channels, replayed commands |
| Temporary profile graph, `services/profile/*`, `tools/cleanup_stale_test_data.py` | manifests on disk; profiles on the EMS | create, register, delete, stale clean-up | EMS, file system, later runs | interruption between any two steps, lost answers, two runs with the same names |
| Profile workspace, `services/profile/service.py` | borrowed, planned and owned profiles | ensure, reconcile, restore | EMS | cleaning up what the run did not create |
| Multi-node runner, preflight, target sync | plans, statuses, the nodes' EMS sessions | validate, preflight, run | one subprocess per node | accounts shared by nodes that run at once |
| Provisioning workflows, `services/provision`, `tests/support/*_workflow.py` | services on the EMS, ids recorded by a workflow | post, put, patch, delete, wait | EMS | ownership checked before the mutation, failed reads taken for absence |
| ONT baseline and REST polling, `tests/support/ont_baseline.py`, `rest_polling.py` | stable-sample counters, session chunks, error budget | converge, poll | session cache, EMS | boundaries of budgets and chunks |
| Inventory preparation, `services/inventory`, `tests/support/fixtures.py` | devices on the EMS | upsert, wait with session rotation | session cache, EMS | sessions that expire during a wait |
| Alarm lifecycle, `services/alarm` | alarms on the EMS | clear, acknowledge, delete | EMS | order of the lifecycle |
| Clean-up registry, `utils/cleanup.py` | a stack of callbacks | add, run | every fixture | one callback of several failing |
| Report state, `utils/reporting.py`, `tests/support/reporting_hooks.py` | results, teardown errors, connection events | record, attribute, count | every test | teardown failures attributed to the wrong result, completeness |
| NeoX configuration, `services/neox_config`, `profile_api.py` | configuration on the device, the callbacks of a test | ensure dependencies, post, delete, restore | EMS, SSH pool, clean-up registry | the order of clean-ups against references, left-overs of killed runs |
| Authorisation matrix, invalid parameters, session and remote cases | ephemeral profiles, sessions | requests that must be refused, observed lifetimes | EMS | rejections that were carried out all the same, lifetimes at their boundary |
| Configuration loading, `config_loader` | none after start-up | parse | file system | parsing |
| Collection, catalogue, options | marker tables | select cases | pytest | pure functions |
| Report and TestLink tools, OpenAPI comparison, `tools/*`, `cases/openapi_contract.py` | reports, archive and manifest, TestLink texts | classify, compare, move, update | file system, TestLink | reports that change what earlier ones meant, kills half-way, recursive schemas |
| Legacy SSH client | none | one subprocess per command | DUT | nothing shared |

What makes each component correct:

- **Session cache**: every session that the EMS accepts has an owner who will log
  it out; a cache hit or a login hands out no id that the EMS has already expired,
  and a recovery none that is older than the refused one; a recovery replaces only
  dead sessions; a mutation is sent at most once; every call ends.
- **Transport**: a mutating request is resent only if the EMS cannot have seen it;
  every transport error is in the ledger and flagged according to how its call
  ended; starts are spaced.
- **SSH pool**: sessions on a node are backed by tokens; tokens are never lost
  while their process lives and never survive it for long; no session is used
  by two callers; a command that completed is never sent again.
- **Temporary data**: every profile the framework created is deleted or named by
  a manifest; the clean-up never deletes what is referenced or not its own.
- **Workspace, provisioning, NeoX, alarms**: what belongs to others is changed only
  by the tests that say so, or when it came after the look that showed one's own;
  what is left behind fails a test or its teardown; what was changed is put back,
  what refers to a profile before the profile.
- **Evidence**: a test that passes has seen what it claims; an EMS that does its
  part is not failed for being slow or for the order of its lists.
- **ONT baseline, polling**: the restore gives up only when its window or its
  retries are used up, polls only on young sessions, and ends.
- **Multi-node**: plans that run together do not invalidate each other's sessions;
  exit code 0 means that every node ran and passed; a stopped, blocked or failing
  node does not keep the runner from its summary.
- **Reporting**: each failure is attributed to the case it belongs to; a green or
  complete report is what it says; strict restores run last and show.
- **Tools**: what was compared, archived, written or judged equal is what the
  tool says; a field that came or went is reported.

`PROJECT.json` lists the hazards at their lines, with the properties that cover
them.

## 2. Plan

In the order of what a mistake would cost: first what every request and every
command goes through, then what is left behind on the EMS, then what several
nodes share, then the workflows, the report and the tools. All of it is done.

| # | Module | Models | State of it |
|---|---|---|---|
| 1 | `SessionCache` | session cache with its EMS | checked, proved (`SessionCacheProofs`) |
| 2 | `TransportRetry`, abstract `EmsCall` | transport retries, pacing, connection ledger | checked, proved (`TransportRetryProofs`), refinement included |
| 3 | `SshPool` | SSH pool and token files | checked, proved (`SshPoolProofs`) |
| 4 | `TempGraph` | temporary profiles, manifests, stale clean-up | checked, proved (`TempGraphProofs`) |
| 5 | `MultiNode` | plans, account validation, preflight, sessions of nodes that run at once, exit code | checked, proved (`MultiNodeProofs`) |
| 6 | `Baseline` | REST polling by session chunks, ONT baseline convergence, CLI waits | checked in `Suite`, proved (`RunFlowsProofs`) |
| 7 | `Report` | clean-up registry, results, teardown errors, completeness, aggregation, session finish | checked in `Suite`, proved (`RunFlowsProofs`) |
| 8 | `Workspace` | profile workspace and profile cases | checked in `Suite`, proved (`EmsFlowsProofs`) |
| 9 | `OntWorkflow`, `GeWorkflow` | provisioning workflows with the preparation fixtures | checked in `Suite`, proved (`EmsFlowsProofs`) |
| 10 | `NeoxConfig` | NeoX tests with their clean-up registry | checked in `Suite`, proved (`EmsFlowsProofs`) |
| 11 | `Alarm`, `UserSession`, `AuthMatrix`, `Inventory` | the tests of one service each | checked in `Suite`, proved (`RunFlowsProofs`) |
| 12 | `ReportIndex`, `Archive`, `Backfill`, `OpenApi` | the tools | checked in `Suite`, proved (`RunFlowsProofs`) |
| 13 | `EmsFlows`, `RunFlows`, `Suite` | composition of 6 to 12, with the properties across them | checked, proved (`SuiteProofs`) |

Composition. `EmsCall` is the contract between 1 and 2: `TransportRetry`
implements it, and `SessionCache` takes one call that keeps it as one step
(`Send` and `Resend` may be seen or not, and may raise after having been seen).
The flows 6 to 12 rely on the same contract: a request is one step that is
refused, succeeds, or raises with or without effect. `NeoxConfig` takes from
`Baseline` what `converge_ont_baseline` returns (TRUE only with the baseline
seen), and from `Report` how `CleanupRegistry` runs its callbacks.
`Suite` composes the flows of one thread; section 4 says why that is enough.
Components meet through the EMS, the device or the file system only, and each
module has the part of these it depends on as its own variables.

What the plan has left: nothing of what is modelled. A next step would be the
parts of section 7 that carry some state: the runner's lanes and a runner that is
killed, and the choice of the OpenAPI file by version.

No module declares a RECURSIVE operator: what the code does by a loop or by
recursion is a function on `0..n` or on a set (`CreateOrder`, `Join`,
`NeedsDownTo`, `LeafPaths`), or is stated with quantifiers and ages.

## 3. Conventions

Every mapped definition is listed with its lines in `PROJECT.json`. One action
stands for the code between two points at which another thread, process or the
EMS can act: a network call is a step of its own where somebody can interleave
with it, a lock is a variable that holds its owner. `Goto` sets a thread's
program counter; `Finish` clears the locals of a call that returns or raises.
An EMS call that fails is modelled with both outcomes, applied and not applied.

Definitions commented "mutant" are deliberate mistakes (a dropped guard, an
off-by-one, a lock not awaited). They are used by nothing; substituted for the
definition that follows them, they make TLC report a violation of the property
that `PROJECT.json` names, which shows that the property depends on that line.

## 4. The modules

### SessionCache

| Model | Code |
|---|---|
| `cachedId`, `issuedAt` | `SessionManager._cached[role]`, a `CachedSession` |
| `lock` | the `RLock`; a thread that is in `Locked` is inside it |
| `ResolveHit`, `ResolveMiss`, `ResolveStale`, `Evict` | `cached_session_id` |
| `LoginApplied`, `CachedLoginReturns`, `LoginRaises` | `_login_cached`, `login` and the answer of the EMS |
| `Send`, `Resend`, `AfterRefresh`, `ShouldRefresh` | `EmsApiClient.request`, `CachedSessionHandle` |
| `RefreshReuse`, `RefreshLogin` | `refresh_after_not_authorized` |
| `StartFresh`, `Discard*`, `FreshLoginReturns`, `FreshExit` | `discard_cached_role`, `role_session`, `credentials_session` |
| `Close`, `CloseLogout`, `CloseReturns` | `close` |
| `state`, `born`, `clock`, `EmsLogin`, `EmsLogout`, `EmsDrops`, `Permitted` | the EMS, as ADR 0001 and the code rely on it |

The EMS accepts a session for `Lifetime` after it has created it, and drops it
earlier whenever the same account logs in elsewhere. `arrivals`, `leaked` and
`abandoned` are history. The assumption `Refresh + MaxLatency <= Lifetime` is
the ADR's argument for 540 of 600 seconds; without it `HandedOutFreshOrNewer`
is false.

### TransportRetry and EmsCall

| Model | Code |
|---|---|
| `Pace`, `TakeSlot` | `_pace`: the wait is computed and slept under `_PACING_LOCK` |
| `Send`, `EmsSees`, `Answered`, `BodyBreaksOff` | `requests.request` |
| `ErrorRetried`, `ErrorRaised`, `SafeToResend`, `WillRetry`, `BackoffEnds` | the `except` branch and the loop of `_request_with_transport_retry` |
| `events`, `Record`, `MarkRecovered` | `ConnectionEvent`s and their `recovered` flag |

Time is kept in saturating ages (`sinceStart`, `slotAge`) and remaining sleeps
(`left`), so nothing bounds the clock. `EmsCall` knows only calls, arrivals and
results; `ImplementsCall` maps a program counter to pending or idle, and the
result "broken" (an answer whose body breaks off) to raised.

### SshPool

| Model | Code |
|---|---|
| `file`, `written` | the token files; a file exists before it holds its JSON |
| `ScanStart`, `ScanRead`, `ScanJudge`, `ScanEnd`, `Stale` | `_remove_stale_tokens`, `_is_stale` |
| `Create`, `Exists`, `Write`, `Wait`, `Deadline` | `FileTokenSemaphore.acquire` |
| `Unlink`, `ReleaseToken` | `release`: by path, whoever's file is there |
| `TakeIdle`, `NoIdle`, `Connect*`, `Abort` | `_acquire` and the opening of a session |
| `Send`, `Output`, `CommandFails` | `run_command` |
| `Release`, `Logout*`, `Discard`, `MayRetry` | `release`, `discard`, the retry in `run_commands` |
| `Leave`, `CloseIdle`, `Exit` | `close_all` at the end of a pytest session |
| `Crash`, `Drop` | a process is killed; the node drops a session |

`stolen`, `lost`, `sends` and `deadThen` are history. Each worker is a thread;
process ids are not reused, the files behave as on POSIX (on Windows
`os.kill(pid, 0)` and unlinking an open file differ), and sessions that are half
open on the network count as up until the channel reports otherwise.

### TempGraph

| Model | Code |
|---|---|
| `Choose` | `_choose_temporary_profile_names`: probe a token's names |
| `OpenManifest`, `WriteManifest` | `create_temporary_graph_record` |
| `Check`, `Post`, `Wait` | `create_temporary_profile` for each definition |
| `Undo`, `GiveUp` | the `except` branch of `create_temporary_profile_graph` |
| `Teardown`, `DeleteProfile`, `Complete`, `Keep` | the template fixtures and `complete_temporary_graph_cleanup` |
| `PostService` | the service cases that use the template |
| `Scan`, `Inspect`, `References`, `Clean`, `Cleaned` | `reconcile_stale_temporary_graphs(delete=True)` |
| `Interrupt`, `CleanerInterrupted` | KeyboardInterrupt, a killed process |

A name is a token and a number; profiles are numbered in the order of creation,
so references go to smaller numbers and the root is `Depth`. The EMS refuses to
delete a profile that another one refers to. `unlisted` is history: the profiles
a POST created that never got into `definitions`, because the POST lost its
answer or the wait after it raised.

### MultiNode

| Model | Code |
|---|---|
| `ProfileOf`, `Valid`, `Accept` | `auth_profile_for_node`, `validate_parallel_node_auth_profiles`, `main` |
| `Start`, `Workers`, `Report` | `run_node_plans`: the sequential loop and the `ThreadPoolExecutor` |
| `Load` | `sync_target_data_from_cli`: the node is in the file and has no slots there |
| `DeviceLogin`, `Device`, `tries` | `run_device_preflight`: its session and its attempts |
| `Block`, `Launch`, `PytestEnds` | `run_node_plan` |
| `RoleLogin` | the logins of the pytest process, for any role, again when the session is gone |
| `Login`, `Leave`, `sessions` | the EMS (external): a login may end the sessions that others have with the account |
| `Status`, `ExitCode` | `node_status`, the last line of `main` |

`configs/test_targets.yaml` is of version 2, and `node_target` drops the slots of
such a file (`config_loader/hardware.py:322-326`), so `sync_target_data_from_cli`
stops at "show lc st sync skipped" for every node of it. What follows in the code
(the CLI, the parser, the rewrite of the file) is not reached and not modelled.
`Triple` is
the usernames that a node's profile resolves to. `evicted` is history: whose login
ended whose session. No node is listed twice; the pytest exit codes are 0, 2
(interrupted) and 1 for all others.

### Baseline

| Model | Code |
|---|---|
| `Post`, `EnterCli` | `converge_ont_baseline`: the POST before the loop, the CLI part after it |
| `NextChunk`, `OpenChunk`, `Caught`, `UsedUp`, `begun`, `chunk`, `retries` | the loop over session chunks with its `except` branch |
| `Poll`, `hits` | `wait_for_rest_tokens` and its consecutive matching samples |
| `ReadCli`, `cliEnd` | `wait_for_ont_cli_is`, `wait_for_ont_cli_config_tokens` |

One unit of time is the polling interval; a login or request takes up to
`CallTime` units, and the EMS answers anything. `failures` is history.

### Report

| Model | Code |
|---|---|
| `Setup`, `CallEnds`, `LogTeardown`, `IsStrict` | `pytest_runtest_makereport`, `pytest_runtest_logreport`, `record_result`, `record_teardown_error` |
| `Add`, `AddFinal`, `AddStrictFinal`, `RunCallback`, `Finalise` | `CleanupRegistry` |
| `Missing`, `CompletenessText` | `missing_nodeids`, `completeness_text` |
| `Combine*`, `Members`, `CaseLines`, `RoleLines`, `Lines`, `OverallStatus` | the aggregation of results to case lines, role summaries and a status |
| `Interrupt`, `SessionFinish` | Ctrl-C, `pytest_sessionfinish` |

pytest is external: it runs the phases in order, turns the exceptions of one
teardown into one (a group if there are several), and tears down what is still
set up before the hook that writes the report. `strictFailed`, `troubled` and
`outOfOrder` are history.

### Workspace

| Model | Code |
|---|---|
| `created`, `planned`, `borrowed`, `Plan`, `Add`, `Borrow`, `Discard` | `ProfileWorkspace` |
| `OpsOf`, `StartCase` | the six kinds of `ProfileService.verify_*_case` |
| `Need*` | `ensure_prerequisite_profile`, `reconcile_test_prerequisite` |
| `Remove*`, `Absent*` | `ensure_profile_deleted` with its dependents, `verify_delete_case` |
| `ReadBase`, `PatchCall`, `Await`, `Restore` | `verify_patch_case`, `restore_profile_content` |
| `PostInvalid`, `PatchInvalid`, `Compare`, `Residual*` | the invalid-parameter cases |
| `Sweep*`, `Swept` | `ProfileWorkspace.cleanup` |

A case is a list of operations on single profiles, each one or two requests;
`at` is the step of the first. A profile's content is "yaml" (the catalogue's),
"changed" (a PATCH's), "other" or "none". The EMS does not delete a profile that
another profile or something outside the catalogue (`pinned`) references.
`ours`, `unsure` and `swept` are history.

### OntWorkflow and GeWorkflow

| Model | Code |
|---|---|
| `wf`, `NextTest`, `Abort`, `Fail`, `Finish` | `OntServiceWorkflowState`, `GeServiceWorkflowState` and the order of collection |
| `PrepFixture`, `Prep*`, `Upsert*`, `MayProvision` | `prepared_ont_inventory`: `prepare_ont_inventory_with_session_rotation`, `upsert_ont_service` |
| `MakeTemplate`, `StartTeardown`, `DeleteProfiles` | `temporary_ont_template`, `temporary_ge_template` |
| `PostLook`, `PostCall`, `PostState`, `AfterRemoval` | `verify_ont_service_post` and its retry |
| `MutationLook`, `Update`, `DeleteChecked`, `VerifyRemoved`, `SecondDelete` | PUT, PATCH and DELETE with their ownership check |
| `Look`, `Delete`, `Create`, `Put`, `Patch` | the same for GE, by service id |
| `VerifyRemoved`, `SecondDelete`, `StillRemoved` (GE) | the GET, the second DELETE and the GET after DELETE, one step each |
| `Removed`, `Created`, `late` (GE) | the effect of a request, also of one that raised: it may have been applied, a POST may be applied later |
| `WatchState`, `WatchCli`, `Cleared`, `Restored`, `Complete` | `monitor_ge_patch_transition` |
| `Invalid*` | the invalid payloads of `InvalidParamsService` |

Every REST call is a step, so another client (`OtherClient`) may take or free the port
between a look and the request it leads to. An ONT service is addressed by serial
number, so a request meets whoever's service is there by then; a GE service by an id
that a later one does not have (`gen`). A wait is one step that ends well if the EMS
shows what it waits for, and may always time out; `PrepCli` and `WatchCli` read the
device. `harmed`, `redone` and `garbled` are history: `harmed` is, for ONT, the
procedures that changed a foreign service together with what their last look had shown,
for GE the tests that did.

### NeoxConfig

| Model | Code |
|---|---|
| `OpsOf`, `SetAndClear`, `Added`, `Refusals`, `Accepted`, `Shown`, `Bandwidth` | the tests of `test_neox_config.py` and `test_neox_profile.py`; `add_finally` is a `finally` block, which runs before the callbacks |
| `Needs`, `NeedsDownTo`, `Visited`, `Join` | the recursion of `_ensure_neox_profile_dependencies` with its `seen`, by the depth of the references |
| `Replace`, `InTurn`, `EnsureDependencies` | the requests for each dependency |
| `Sfu`, `Ensure` | `ensure_provision_template_sfu`: the template and the profiles it names, of which one stands for all |
| `Drop`, `Post`, `Delete`, `Refuse`, `Absent`, `Conclude`, `Read` | single requests and looks of a test |
| `Scenario`, `Converges` | `restore_ont_config_exact_baseline`, through what `Baseline` guarantees |
| `Register`, `RunCallback`, `EndTest` | `CleanupRegistry` with the callbacks of the tests |

The GE interface of the max test and of its variants is one more member of
`Profiles`: it has a payload that references profiles, which the device then does
not delete, and its tests set these up as `_setup_profiles` does. The variants register
the DELETE of the port before that of the profiles, so their clean-up deletes the
profiles first. Lines that only the CLI sets and clears are left out (the GE global
setup, a variant's interface lines, the firmware lines of the ONT). The SFU template
and its profiles have no clean-up in the code: they are meant to stay.
`ignored` and `crossed` are history.

### AuthMatrix, UserSession, Alarm, Inventory

- *AuthMatrix*: `CallsOf` lists the calls of the three role summaries with what
  they expect; `Try` sends one as the tried account, `Observe` looks through the
  readwrite observer, `Drop` removes the ephemeral profiles. A rejected request
  may have been carried out nevertheless. A look for absence passes on any answer
  that says Fail, as in the code; `unseen` is history and says that one did while
  the profile was there.
- *UserSession*: `Login`, `Observe`, `Renew`, `Logout` are
  `verify_login_and_logout_by_role` with the absolute-lifetime observations,
  `Reuse` and `Refused` the cases with deleted sessions and bad credentials. The
  EMS ends sessions after `life`, counted from the login or (`sliding`) from the
  last use; requests take up to `Delay`.
- *Alarm*: one step per request of `verify_active_alarm_*`,
  `verify_history_alarm_*` and the lifecycle test; `wf` is `AlarmWorkflowState`,
  which hands the ids from test to test. `Ems` moves cleared alarms into the
  history, `OtherClient` clears and deletes.
- *Inventory*: one GET per read test; an answer is a page of rows, and
  `DeviceFields`, `SlotFields`, `CardFields`, `PortFields`, `OntFields` and
  `ServiceFields` are the comparisons with what was configured, `FindOnt`,
  `FindService`, `CardAt` the searches for the target's row. `Await` is the GE
  port's wait, `cache` its per-session outcome, `Read` the invalid reads.

### ReportIndex, Archive, Backfill, OpenApi

- *ReportIndex*: `NodeIn` is `_assign_nodes`, `Kind` `_classify_runs`, `Formal`
  and `Warned` `apply_formal_runs`, `ReferenceRun` `reference_run`, `Comparisons`
  and `Compare` `default_comparisons` and `compare_runs`. All of it is computed
  from the reports there are, so the only actions are a report that comes in and
  a maintainer who names a formal run.
- *Archive*: `BuildPlan`, `Move`, `Finish` are `build_plan`, one round of
  `apply_plan`, and `_write_manifest`; test runs write (`Writes`) and a kill
  comes (`Killed`) between any two.
- *Backfill*: `Merged` is `build_backfill_cases` over its four sources, `RunAgent`
  and `FinishAgent` are `apply_with_testlink_agent`, `SendXmlRpc` and
  `FinishXmlRpc` the other way of writing.
- *OpenApi*: `KeyDiff`, `SemanticDiff` and `Contract` are the three comparisons of
  `openapi_contract.py`. `LeafPaths` and `LeafContracts` are functions on the
  arguments of a call (`Calls`): `Onwards`, `IntoItems` and `IntoField` are the calls
  that a call makes, and `Followed` is when `_resolve_schema_ref` goes on. Their
  reference definition is `Chains`, which unfolds a schema level by level and knows
  nothing of the code's `seen` sets; a schema that is not recursive (`Ends`) has
  ended after `Deepest` levels. `Chains` goes where the code goes: references,
  properties and items. A schema may also be composed (`parts`: `allOf`, `anyOf`,
  `oneOf`, `additionalProperties`) and a body or response may refer to a shared one
  (`shared`): `_schema_leaf_paths` follows neither, so `Chains` does not, and
  `SemanticDiff` and `Contract` keep them as they are. `Nesting` names the schemas and how
  deep each nests in itself, references not followed; that what is inside nests less
  deep is all that is assumed of JSON.

### Suite

`EmsFlows` instantiates the flows that provision the EMS and the device (ONT, GE,
workspace, NeoX), `RunFlows` the other ten, each with constants and variables of
its own. `Suite` extends both and runs the flow
chosen by `flow`: `...Step` is a step of the flow's thread, `...Around` one of the
EMS or another client. That is the composition the code has: pytest runs one test
at a time in one thread, every flow starts from what the EMS shows and not from
what another flow left in memory (what they share in memory is `SessionCache`
and `SshPool`, modelled as such; where a fixture of one flow is an input of
another, as `service` is in `Inventory`, both outcomes are taken), and a tool is a process that works on files of
its own. Interleavings with others are in each flow: another client, the
EMS, a test run that writes, a kill. What `Suite` adds are the promises that
hold across flows, stated once:

| Property | What it says | Conjuncts |
|---|---|---|
| `ForeignSpared` | what belongs to others is changed only where the modules say so: by tests that remove what they find, or when it came after the look | `ForeignServiceSpared` (ONT, GE), `CleanUpSparesOthers`, `OnlyOwnRemoved` |
| `LeftIsReported` | what a run leaves behind fails a test or a teardown, or a request to remove or look for it failed where the code does not look | `LeftServiceIsReported` (ONT, GE), `LeftProfilesAreReported`, `LeftConfigIsReported`, `LeftProfileIsReported`, `LeftSessionIsReported` |
| `RestoredOrFailed` | what was changed is put back or a test failed; users go before what they use, but for three kinds of NeoX test | `PatchesAreUndone`, `CleanUpTopDown` (profiles, NeoX), `BaselineBack`, `RestoreAfterCleanups` |
| `EvidenceIsReal` | a test that passes has seen what it claims, but for truncated output and refused looks | `PatchEvidenceIsReal`, `RejectionsAreReal`, `LifetimeIsReal`, `DeletedWentAllTheWay`, `PassIsShown`, `OneWaitDecides` |
| `NoFalseAlarm` | an EMS that does its part is not failed | `PatientUnderHiccups`, `SessionsYoung`, `WindowKept`, `ConformingEmsPasses`, `HonestEmsPasses`, `ShownPasses` |
| `ReportTellsTruth` | complete, green and failed mean what they say | `LoneStrictFailureShown`, `CompleteMeansAll`, `GreenReportIsGreen`, `LostOnlyWhenTornDownLate` |
| `ToolsTellTruth` | comparisons, manifests, exit codes and views are right; the guard misses no key outside compositions and shared bodies | `ComparedInOrder`, `FailuresListed`, `ArchivedIsListed`, `FalseRowsAreReported`, `ZeroMeansUpdated`, `ChangesAreRecorded`, `ViewsNest`, `GuardMissesNoKey`, `ValuesAreIgnored` |
| `StepsAllowed` | what no step may do | `CreatorCreates`, `ReferenceStays`, `EntriesStay` |
| `FlowsEnd` | every flow comes to its end | `Done` of each flow |

## 5. What the runs show

| Run | Instance | Checked | Result |
|---|---|---|---|
| `session_cache` | 2 threads, roles readwrite and noaccess, 3 logins, lifetime 3, refresh 2, latency 1, 3 ticks, 2 operations | `TypeOK`, `NoUntrackedSession`, `MutationSeenOnce`, `LiveEntryKept`, `HandedOutFreshOrNewer`, `CallsEnd` | holds, 403,305 states |
| `session_close` | 1 thread, 2 roles | `CloseLogsOutEverySession` | violated |
| `transport_retry` | 2 threads, 3 attempts, interval 2, 3 calls | `TypeOK`, `LedgerTellsOutcome`, `ImplementsCall`, `SlotsApart`, `CallsEnd` | holds, 68,945 states |
| `ssh_pool` | 2 processes, 2 tokens, one process reuses, the other may crash, 3 batches of 2 commands | `TypeOK`, `OpenSessionsHaveTokens`, `NoTokenLeak`, `CompletedNotResent`, `TakenOnlyOnOutdatedView`, `TimeoutsHaveLivingHolders`, `BatchesEnd` | holds, 239,554 states |
| `ssh_threads` | 1 process that reuses, 2 threads, 2 tokens, 3 batches of 2 commands | `SessionsApart` | holds, 283,176 states |
| `ssh_tokens` | 2 processes, 1 token, no crash | `HoldersWithinTokens` | violated |
| `ssh_replay` | 1 process, 2 batches | `CommandsNeverReplayed` | violated |
| `temp_graph` | 2 runs, 2 tokens, graph of 2, 2 faults, 1 interruption | `TypeOK`, `ProfilesRegistered`, `RunningRunsSpared`, `ReferencedTemplateKept`, `ManifestsWorkedOff` | holds, 512,478 states |
| `temp_graph_orphan` | 1 run, 1 fault | `ManifestOutlivesProfiles` | violated |
| `multi_node` | 3 nodes, 4 profiles (2 with the same accounts, 1 that shares one), 4 lists, 1 or 2 jobs, 2 attempts | `TypeOK`, `LostToPartialOverlapOnly`, `GreenMeansAllPassed`, `RunEnds` | holds, 172,692 states |
| `suite` | 14 flows, one at a time; see below | `TypeOK`, `ForeignSpared`, `LeftIsReported`, `RestoredOrFailed`, `EvidenceIsReal`, `NoFalseAlarm`, `ReportTellsTruth`, `ToolsTellTruth`, `StepsAllowed`, `FlowsEnd` | holds, 163,411 states |
| `report_strict` | 2 tests, 2 callbacks | `StrictFailureBlocks` | violated |

Why these bounds.

- *session_cache*: two threads are what a refresh race takes, three logins are
  the one that dies and one replacement for each thread. One role refreshes on
  every method and the other never does; the read-only role, which refreshes on
  reads only, is in `session_close` and in the proofs. With lifetime 3, refresh 2
  and 3 ticks an entry can become stale for the cache and, dropped by the EMS or
  past its lifetime, dead.  Of the id a refused request reuses from the cache
  `HandedOutFreshOrNewer` says only that it is of a later login than the refused
  one: the code does not look at its age, and a thread that stalls before the
  refresh can be handed one past its lifetime.
- *transport_retry*: two delays make three attempts, so there is a first, a
  middle and a last one; the interval is longer than one delay and as long as
  the other, so a retry can find its slot taken or free. Two threads contend for
  the slot, the third call reuses an idle thread.
- *ssh_pool*: two processes and two tokens; the smaller pool looks at one token
  only, so it has to wait while the other process holds it. Both a left-over file
  of an earlier run and a crash are possible. A pytest process runs its batches
  from one thread, hence one worker per process here; the pool itself takes a lock
  and is meant for several, which is what `ssh_threads` checks: two threads of one
  process and as many tokens, so that each can find the other's session idle, dead
  or in use. Three batches: one leaves an
  idle session, one reuses it, one is the other process's.
- *temp_graph*: two runs and two tokens, so names can collide; a root and one
  profile it refers to is the smallest graph with an order. Two faults allow a
  failed delete after a failed create; one interruption hits a run or the
  clean-up.
- *multi_node*: two nodes can run at once and the third is queued behind them, so
  a stop or an exception can keep it from running. The lists of profiles are an
  accepted one that is shorter than the nodes, one with two names for the same
  accounts, one with a profile that shares the readonly account of another, and
  none; two attempts are the first and the last.
- *suite*: each flow has the smallest instance in which its hazards can happen.
  Baseline: a window of 7 with chunks of 4 leaves a shorter last chunk, in which
  3 stable samples fit only if the calls are quick; 1 retry; calls of 0 or 1
  unit. Report: 2 tests that share a case id, one with a role; 2 callbacks of any
  kind. Workflows: 4 or 5 selections, among them the full one and ones without
  the test that creates the service, 2 POSTs, 1 step of another client (it can
  take the port or free it; a fault can happen at every request). Workspace: a
  template and the profile it references, four pairs of cases, three starts
  (empty, the catalogue's, another one's). NeoX: two profiles and the GE interface,
  the second profile and the interface both referencing the first; every kind of
  test, with no left-overs, with those of the profiles and with those of the
  interface.
  Sessions: lifetimes around one, nine and ten minutes, of 3 ticks each, with
  delays of 0 or 1. Alarms: two, three selections. Reads: pages of up to two rows
  in both orders, with one field wrong in each way the comparisons tell apart.
  Index: 3 reports of 2 builds and 2 nodes that have had the same IP, 1 formal
  entry. Archive: 2 entries to move and 1 to keep, 2 runs. Backfill: 4 sources
  that overlap, a filter that leaves one case out. OpenAPI: 2
  edits to two documents of 1 operation, 2 components and 1 shared body whose schemas
  may share and contain each other or themselves, be composed of others, and nest
  up to `Height` deep.

The invariants behind the proofs (section 6) do not depend on these bounds.

**Fairness.** Each thread, run and clean-up is weakly fair in its steps: an
operation in progress is not stopped for ever, since every network call has a
timeout and after it answers or raises. The pacing lock and the session lock
need no strong fairness because calls are finitely many. In `TransportRetry`
time passes (`Tick`); in `SshPool` a deadline that stays armed expires; in
`TempGraph` a manifest of an ended run grows old and the operator runs the
clean-up again and again (the repository leaves that to its users, so
`ManifestsWorkedOff` is a statement about running it, not a promise that
somebody does); in `MultiNode` every thread goes on, which includes that every
pytest process ends, since the runner waits for it without a limit. In
`Suite` only the thread of the flow is weakly fair (`Program`): its waits have
deadlines and its loops counts, so nothing is assumed of the EMS or of others.
Starting an EMS or SSH operation, a crash, an interruption, a dropped
session and a fault are never fair. Deadlock is checked except in `Suite`, where
a flow that is done stops, and in `report_strict`, whose session ends.

**Disagreements found**, each with a run that reproduces it:

- `session_close`: `close()` stops at the first logout that raises; sessions
  after it stay logged in.
- `ssh_tokens`: a token file is created empty and written next; a scanner in
  between takes it for stale and removes it, so two processes hold one token.
- `ssh_replay`: a command that was sent on a reused session, which then died
  without output, is sent again, although a comment says commands are never
  replayed. `CompletedNotResent` is what holds: only a first command, and only
  once more.
- `temp_graph_orphan`: a profile the EMS created whose POST lost its answer, or
  whose wait raised, is not in `definitions`; the failed creation deletes the
  others and removes the manifest. `ProfilesRegistered` is what holds: such a
  profile is left only by a creation that has raised.
- `report_strict`: `utils/cleanup.py` and `utils/reporting.py` say that a passed
  case whose strict clean-up fails is recorded as Blocked. When another finaliser
  of the same teardown fails too, pytest raises a group, `errisinstance` is false
  for it, and the case stays Pass. `LoneStrictFailureShown` is what holds.

What the docs or comments promise and the properties therefore have to leave out:

- Profiles that share one or two of their three usernames pass the validation, and
  one node's login ends the other's session, although the message at
  `tools/run_multi_node.py:281` and `README.md:212-214` ask for distinct usernames
  (`LostToPartialOverlapOnly`).
- The preflight's sync skips every node of a version 2 targets file
  (`target_sync.py:42`), the one in the repository included, although
  `services/preflight.py:3` says that the preflight syncs slot data from the DUT CLI.
- The invalid-parameter tests delete whatever ONT service they find
  (`invalid_params/service.py:186`), although `README.md:198-201` says that an existing
  service with another template is not overwritten or deleted; and a service that
  another client puts on an ONT after the look is changed by the PUT, PATCH or DELETE
  that names the serial number, although `provision/service.py:209` says that these
  refuse (`ForeignServiceSpared`).
- An output without the port's identity, also a truncated one, counts as a cleared
  configuration, so the PATCH test, which is to verify that the reprovision completes
  (`provision/service.py:277`), can pass without one (`PatchEvidenceIsReal`).
- `assert_profile_absent` passes on any answer that says Fail
  (`auth_matrix/service.py:347`), so the step "Verify RAD readonly POST rejection does
  not create a profile" (`:133`) passes though the POST has created it when the look
  is itself refused (`RejectionsAreReal`, `LeftProfileIsReported`).
- `_schema_leaf_paths` does not follow `allOf`, `anyOf`, `oneOf` and
  `additionalProperties`, and a reference to a shared body or response is compared as
  such (`cases/openapi_contract.py:520, 532, 605`), so a field renamed there gives no
  difference, although `docs/openapi_version_guard.md:70` says that added and removed
  leaf keys are reported (`GuardMissesNoKey`).

Met while modelling besides:

- `tools/build_report_index.py:155` says "formal run marked final (or last
  listed)"; what is taken is the last in the order of the reports, not of
  `formal_runs.yaml`. `ReferenceStays` holds for what is taken. An entry that the
  index warns about counts again once a later report bears its label out, and
  then takes the reference over without a word: `ReferenceStays` leaves that out.
- `tools/archive_reports.py:136` says that an entry with a problem is left where
  it was; one whose size has changed is reported as a problem after it was moved.
- `docs/openapi_version_guard.md:72` says that types are not compared; the type of
  a body or response whose schema is inline is (`ValuesAreIgnored` is restricted to references).
- A reference that neither OpenAPI document resolves is reported as added though
  both have it (`Dangling`).

Some properties are weaker than one may expect, because the code is.
`LostToPartialOverlapOnly` says nothing of profiles that share one or two of their three
accounts, and `HandedOutFreshOrNewer` nothing of the age of an id that a refresh reuses.
`LifetimeIsReal` says nothing of requests that take more than half an observation
interval: they make the next observation late, and a lifetime that ended in between is
taken for the one expected. The properties of `Suite` name their exceptions as well,
some of them found only when they were to be proved: the PATCH monitor takes truncated
CLI output for a cleared configuration (`PatchEvidenceIsReal`); a profile whose POST
lost its answer, or whose look after a POST that should have been refused brought none,
may be borrowed by a later case and stay (`LeftProfilesAreReported`); a profile of
others is swept if a look or a POST of it failed before, or if they created it during
the run (`CleanUpSparesOthers`); invalid-parameter tests remove whatever service is
there, and an ONT service that replaces the one a look has shown is changed in its place
(`ForeignServiceSpared`); the min and error tests of NeoX profiles and the GE variants
register their clean-up before that of the dependencies (`CleanUpTopDown`); a plain
clean-up callback that fails goes unnoticed, and the SFU template is meant to stay
(`LeftConfigIsReported`, `BaselineBack`); a refused look for a profile counts as its
absence (`RejectionsAreReal`, `LeftProfileIsReported`); keys in compositions and behind
shared bodies are not compared (`GuardMissesNoKey`); rejected changes of a service are
judged by the answer only (`RejectionsAreReal`); the alarm lifecycle does not wait for
the history (`HonestEmsPasses`); a TestLink answer without a status counts as an update
(`ZeroMeansUpdated`); what a killed archive run moved is in no manifest
(`ArchivedIsListed`).

## 6. What is proved

The theorems hold for all values of the constants that satisfy the named
assumptions of the modules; `Assumptions` of `Suite` is the conjunction of those
of its flows. Each safety theorem follows from an inductive
invariant `IInv`: `Init => IInv`, `IInv /\ [Next]_vars => IInv'`, and `IInv`
implies the invariant, or for an action property each step from an `IInv` state
satisfies it.

**SessionCache** (`RolesAssumption`, `TimeAssumption`, `BoundAssumption`,
`SidAssumption`, `ThreadAssumption`). `NoUntrackedSession` is not inductive:
`RefreshLogin` drops an entry, and what makes that safe is that the id the
refresh starts from is dead. `CallInv` says so; it holds because a live session
is refused only where the role policy does not refresh. `LockInv` says that a
thread in a critical section owns the lock, so the entry it fills is still
empty and the entry it evicts is still there. `ArrivalInv` bounds arrivals by
the point a call has reached, and `AgeInv` says that the cache's clock for a
session is at most `MaxLatency` behind the EMS's. `OrderInv` says that a login under
way and an entry in the cache are of later logins than every id a call has resolved
before. From these: `TypeCorrect`,
`NoSessionLeak`, `MutationsAtMostOnce`, `HandedOut` and `RecoveryKeepsLive`.

**TransportRetry** (`DelaysAssumption`, `BoundAssumption`, `ThreadAssumption`).
`PacingInv` says that the lock's owner sleeps exactly what is missing to the
interval, so the slot it takes is at least `Interval` after the last one of any
thread: `SlotsKeptApart`. `DeliveryInv` bounds what the EMS has seen by the
attempt, and by zero for a mutating call that is not on its last way:
`Implementation` (every behaviour of `Spec` is one of `EmsCall`) rests on it.
`LedgerTellsOutcome` is inductive together with these: `LedgerIsRight`.

**TempGraph** (`GraphAssumption`, `BoundAssumption`, `NullAssumption`).
`OwnerInv` is the heart: a profile bears the token of the run that created it,
and as long as that run, or the clean-up of its record, can still remove the
manifest, the profile is among those which are going to be deleted before.
`RunInv` ties the loop counters, the token and the manifest to the program
counter, `CleanerInv` says that the clean-up works on ended runs. From these:
`TypeCorrect`, `NothingForgotten`, `CleanUpSparesRuns` and
`CleanUpSparesServices`. The graph may have any depth and any references to
earlier profiles.

**MultiNode** (`PlanAssumption`, `BoundAssumption`). That sessions are lost to
partly shared accounts only rests on three facts: only a running node has
sessions, of its own profile's accounts (`SessionInv`); with one worker no two
threads are busy (`SequenceInv`); every started thread belongs to a validated
plan (`PhaseInv`, which also ties a thread's end to its return code). A login
that ends a session then meets two busy nodes, hence more than one worker and
two different triples. Proved for any number of nodes, workers and profiles, and
all accounts: `TypeCorrect`, `SessionsKept` and `GreenIsGreen`.

**SshPool** (the named assumptions of the module). `HoldInv` is the heart: whoever
uses or keeps a session has its token file, unless it was stolen, and a worker
that aborts has given its file up already (`HandInv`). It survives a step of
another process because a file bears the session that created it and stands at
that session's path (`FileInv`), so an unlink by path that hits another session's
file marks it stolen. `LeakInv` is the other direction: a living process's file has a
session that is used or kept. `ApartInv` keeps the sessions of two workers and
the pool disjoint, `SendInv` bounds the sends of each command by the progress of
the batch and the one retry. From these: `TypeCorrect`, `SessionsHaveTokens`,
`TokensReturned`, `NoSharedSession`, `RetryRepeatsNothingDone` and, as action
properties, `TokensTakenByRace` and `GivesUpToTheLiving`, for any processes,
workers and tokens. The last one needs `ScanInv`: each file of a process that was
dead when a scan began is still to be read, or is about to be removed whatever
the read has returned; and `WorkInv`: nobody dead creates a new one.

The flows of `Suite` have their sections in `EmsFlowsProofs` and `RunFlowsProofs`,
each with its own inductive invariant (`BasIInv`, `RepIInv`, ...), one lemma for
every part of it that a step can disturb, and the theorems about the flow's own
specification. The prefix of a name is that of the flow's instance.

**Baseline**, `Bas` (`BaselineAssumption`). `BasChunkInv` relates the clock to the
begin of the chunk, its login and the window; `BasRetryInv` says that retries are
paid for by failures and that an exception that was none has used the chunk's
time up. From these: `BasPatience`, `BasNoStaleSession` and `BasWindowBounded`,
for all times and budgets.

**Report**, `Rep` (`ReportAssumption`). `RepOrderInv` says that no plain callback
stands before a strict one, which `add` and the two `add_*final` keep by putting
callbacks at opposite ends: `RepRestoreOrder`. `RepStrictInv` follows a strict
failure on its way: counted while the registry runs, then raised alone or in a
group, then listed with its test, whose result is no longer passed:
`RepLoneStrictShown`. `RepRaisedInv` says that errors not logged belong to the
test that runs or to an interrupted session: `RepLostReport`. `RepGreenIsGreen` and
`RepCompleteIsAll` need no invariant of the run, only the aggregation: every
reported test with a case id is a member of a line.

**OntWorkflow**, `Ont` (the types from `OntAssumption`, the others from nothing).
`OntLooked` says that a procedure stands before a change of the service only after
a look that showed this run's template or no service, which holds from the look
to the request because `seen` is written by looks alone; so a foreign service is
changed only if it came after that look, or by the invalid-parameter tests, which
`OntLooked` leaves out: `OntForeignSpared`. `OntAccounted` says
that a service of this run has its template up, and that an ended session whose
template is up was asked to keep it or failed: `OntLeftReported`. `OntCalled` says
which test can be in a step that leads to a POST: `OntCreatorsOnly`. For any
selections in any order, any number of attempts and payloads, and any
interference of others.

**GeWorkflow**, `Ge` (`GeAssumption`). A GE request names an id, so `GeLookedUp` is
weaker than its ONT counterpart and still enough: if the port's service is
somebody else's by now, it has a later id, and the request finds none
(`GeForeignSpared`). `GeWatched` ties what the PATCH monitor has seen to what has
happened: as long as the service has not been reprovisioned the device shows the
PUT, so a reading that looks cleared was truncated; a Reprovision that was
seen, and the configuration back, are of the PATCH. `GePatchOnce` is why a record
of one PATCH test is not overwritten by another: `GePatchReal`.

**Workspace**, `Wsp` (`WorkspaceAssumption`: the catalogue's order takes references
first, as `definitions_create_order` builds it). A case is a list of operations,
and what the proof needs of the lists of all six kinds is proved once
(`WspCaseFit`): a PATCH is followed by its restore, an absence is verified right
after the removal, what is restored has been read, and the sweep goes top-down
(`WspShaped`, `WspBased`). `CreateOrder` is shown to be well defined, to return
what is asked for and to put each profile behind those it references
(`WspCreateOrdered`), hence `WspSweepTopDown`. `WspSpared` says that what the
workspace is going to delete is its own or one a request has gone wrong with:
`WspOthersSpared`. `WspTracked` is the other direction: what the run has created is
listed for deletion, or a case has failed over it: `WspLeftReported`. `WspUndone`
says where a changed profile can be met in a case that has not failed:
`WspPatchesUndone`.

**NeoxConfig**, `Neo` (`NeoxAssumption`: references go down, to any depth). The GE
interface is one of `Profiles` here. `NeoNeedsServe` proves, level by level, that the
table `NeedsDownTo` lists for each profile all that it references directly or further
down, once, and each behind what it references itself. From it, `NeoTestFits` proves of
the operations of every test that each one finds registered the removal, or the return
of the ONT, that it makes necessary (`NeoChain`), and that removals are registered so
that they run from the top down (`NeoDescends`), but for the three kinds of test that
register their own object first, of which `NeoMinChain`, `NeoProfileErrorsChain` and
`NeoVariantChain` show that they, too, leave nothing without a removal. The invariant
ties this to the device: `NeoCovered` (a profile made by a test is covered by a
registered removal, a failed test or a refused clean-up), `NeoAwaited` (an ONT off its
baseline is awaited by a registered return), `NeoDownward` (what is registered and what
is still to come keep the order): `NeoNothingLeftUnseen`, `NeoBaselineIsBack`,
`NeoTopDownFirst`.

**Alarm**, `Alm` (`AlarmAssumption`: the selected tests run in the order of the file).
`AlmApart` says that an alarm is in one place at a time, `AlmOwned` that what goes on
to the history part was cleared by this session (`AlmOwnRemoved`), `AlmStory` what the
recorded phases say of one another (`AlmDeletedReal`). `AlmUndisturbed` says that as
long as nobody interferes the alarm is where the test that handed it on has left
it, hence no test fails: `AlmHonestPasses`.

**AuthMatrix**, `Aut` (`AuthAssumption`). `AutShape` says of the calls left that a
request that must be refused is followed by a look for what it may have done, and
a creation by its removal; `AutShapeOfCalls` proves it for the calls of every role.
`AutWatched` says that what a rejected request has changed all the same is still to
be looked at, has failed the summary, or was taken for absent by a look that was
refused itself: `AutRejectionsReal`. `AutRemoved`: `AutLeftReported`.

**UserSession**, `Ses` (`SessionAssumption`). `SesMade` puts the session's creation
within one request before the clock's zero, `SesInTime` says that requests of half
an interval at most make no observation late, and `SesShown` what the
observations so far say of the lifetime: `SesLifetimeReal`, `SesConformingPasses`,
`SesLeftReported`, for all lifetimes, delays and numbers of observations.

**Inventory**, `Inv` (`InventoryAssumption`). `InvShownRow` and `InvCleanPasses` are
about the comparisons alone: a page that passes shows a row of the target, and a
page without fault passes in whatever order its rows come. `InvDecided` says that
the cache holds what the one wait brought. From these: `InvPassShown`,
`InvShownRowPasses`, `InvOneWaitForAll`, for pages of any length.

**ReportIndex**, `Idx` (`IndexAssumption`). The index is a function of the reports, so
the invariant is little more than their types; the lemmas are about the
function. `IdxNodeShown` and `IdxMostCommonIs` say which node a report gets,
`IdxReferenceIs` and `IdxPairIs` which runs are compared: `IdxIndexIsTrue`.
`IdxFormalKept` says that an entry that counted before and is not warned about now
still names its run, if none counts that did not before: `IdxReferenceIsKept`.

**Archive**, `Arc` (`ArchiveAssumption`). `ArcAnswered` says that between the runs the
manifest, or a run that was killed, answers for what is in the archive, and
`ArcMovedIsArchived` that the rows of the run that is on are so or among its
problems: `ArcArchivedListed`, `ArcFalseRowsReported`, `ArcArchiveKept`.

**Backfill**, `Fil` (`BackfillAssumption`). `FilWritten` says that a batch without a
failure has written what it has sent, `FilRecorded` that the agent has a result for
what it has changed; that all selected cases are sent rests on `FilEnumerates`,
which says that `SetToSeq` lists a finite set: `FilZeroUpdated`,
`FilChangesRecorded`.

**OpenApi**, `Doc` (`OpenApiAssumption`). The invariant is that both sides are
documents (`DocDocumentsStayDocuments`); the rest is about the functions that
compare them, for every document, also one whose components contain themselves.
- Each recursive function exists and satisfies its equations (`DocPathsAre`,
  `DocFieldsAre`, `DocRefsAre`, `DocKeptAre`, `DocBareAre`, `DocChainsAre`). For a call
  of `_schema_leaf_paths` the measure is what it has left to follow (`DocLeft`): the
  components not yet seen, then the nesting of its schema; every call it makes has
  less (`DocOnwards`, `DocItems`, `DocField`). That is also why the recursion of the
  code ends on recursive schemas.
- `DocViewsNest`: by the same measure the paths of a call's contracts are its leaf
  paths, but for a path the contracts add where the paths are empty
  (`DocProjects`), so equal contracts give equal keys (`DocKeysOfFields`). Two calls
  on schemas with one `SchemaContract`, in documents with one contract, have
  the same fields (`DocKeptFields`).
- `DocValuesIgnored`: two calls on schemas that are equal but for types, formats,
  enumerations and required flags have the same leaf paths (`DocBareFields`).
- `DocNoKeyIsMissed`: at a schema that is not recursive the `seen` sets never cut
  anything off. A ranking of the components it leads to gives, for each level that
  is left, a call that has seen none of the ranks below its own (`DocReady`);
  by induction on the level the chains of such a call are what its leaf paths
  begin with (`DocMeetsAll`). So equal leaf paths mean equal chains, whatever the
  schemas are composed of besides; of the keys inside compositions it says nothing.

**Suite** (`Assumptions`). A step of the suite is a step of the flow that runs, or
leaves its variables alone (`FlowRuns`). The invariant `Kept` is that of the flow that
runs; it holds at the start (`Begins`) and is kept (`Stays`), so each promise of section 4
follows from the lemmas of the flows it concerns: `TypesKept`, `ForeignIsSpared`,
`WhatIsLeftIsReported`, `PutBackOrFailed`, `EvidenceHolds`, `ConformingPasses`,
`ReportIsTrue`, `ToolsAreTrue`, `OnlyAllowedSteps`.

**Induction.** What a loop has built after n rounds is a function on `0..n`. That
such a function exists, and that what holds of 0 and passes from n to n + 1
holds of all, is proved by the least number for which it fails (`WspLeast`,
`WspUpTo`, `NeoJoinExists`, `NeoTableExists`, `IdxLeast`), since the induction
theorems of the library take an operator, which the provers cannot instantiate.
A function on schemas or on calls is built in the same way, by the numbers below
which a measure lies (`DocAllNumbers`): the functions that satisfy the equation up
to n, then all of it, since the equation looks at smaller arguments only.

**What the proofs changed in the models.** `ReferenceStays` was false for more
reports than the run has; a residual that the workspace could not look up was not
counted as unsure; `ConformingEmsPasses` only spoke of requests as they were due,
not as they were late; several assumptions did not say what the code guarantees
(the order of the alarm tests, one PATCH test in a session, references without
cycles, a sequence for each source of the backfill). `GuardMissesNoKey` compared
chains to a fixed depth, which says less than it seems for schemas that end later;
now the depth is `Deepest`, which follows from the number of components and the
nesting, and the property says which schemas it is about (`Ends`). The type
invariant of `OpenApi` only said that a document has its two parts. All of them are
as they are now in the modules.

**Only model-checked**: every liveness property (`CallsEnd`, `BatchesEnd`,
`ManifestsWorkedOff`, `RunEnds`, `FlowsEnd`; the prover does not treat fairness
and ENABLED), and the absence of deadlocks.

## 7. Not modelled

- *Left out of the modelled parts*: what the target sync does after its check for
  slots (never reached with a version 2 file); lines of the GE interface and of the
  ONT's firmware that only the CLI sets and clears; metrics counters, the slow-request flag,
  timing records and log lines (they decide nothing); the registry of SSH pools
  by node and account (a lookup); prompts, paging and decoding of SSH output;
  the audit mode of the clean-up (it changes nothing) and the validation of
  manifest fields (a record is readable or not); the 256 tokens and the version
  and node parts of a temporary name; the runner's lanes, pytest options, dry
  run and HTML summary, the preflight inside pytest, and a runner that is killed;
  payload builders and names (a payload is right, changed or invalid); the text
  expectations on CLI output (an output matches, does not, or is truncated); the
  fields of inventory rows beyond right and wrong; the remote account apart from
  the console commands that seed alarms; the rendering of reports, case-id drift
  and slow-request notes; HTML, CSV and spreadsheet output of the tools, the step
  texts of TestLink, and the choice of the OpenAPI file by version; the
  `ensure_*_seed_data` methods, which nobody calls.
- *Not modelled as a component*: configuration and hardware topology loading
  (parsing at start-up),
  marker tables, options and selection (pure functions of the command line; the
  order of the workflow phases is in `OntWorkflow`), and the tools that only
  format what others produced, `check_environment`, `run_status`,
  `case_step_diff` and the evidence report.
- *Legacy SSH client*: one subprocess for each command, nothing shared or kept.
