------------------------------ MODULE MultiNode ------------------------------
(***************************************************************************)
(* The multi-node runner (tools/run_multi_node.py): plans for several      *)
(* nodes are validated and run by a pool of threads; each thread does the  *)
(* start-up preflight (services/preflight.py, services/target_sync.py) and *)
(* then runs pytest in a process.  Preflight and pytest log in to the EMS  *)
(* with the accounts of the node's auth profile, and a login of an account *)
(* may end the other sessions of that account (README.md:211).             *)
(*                                                                         *)
(* Nodes are numbered in the order of --nodes, no node is listed twice.    *)
(* The tracked configs/test_targets.yaml is of version 2, for which        *)
(* node_target drops the slots (config_loader/hardware.py:322), so the     *)
(* target sync ends with "show lc st sync skipped" for every node of the   *)
(* file; what follows in the code is not reached and not modelled.         *)
(***************************************************************************)
EXTENDS Integers, Sequences, FiniteSets

CONSTANTS
  N,            \* number of nodes
  Profiles,     \* auth profiles
  Default,      \* the profile of a plan that names none
  Account,      \* the username each profile resolves to for each role
  AuthLists,    \* values of --auth-profiles
  Jobs,         \* values of --jobs
  Tracked,      \* nodes that configs/test_targets.yaml defines
  MaxTries      \* DUT_PREFLIGHT_ATTEMPTS

Nodes == 1..N
Role == {"readwrite", "readonly", "noaccess"}
User == {Account[p][r] : p \in Profiles, r \in Role}

ASSUME PlanAssumption ==
  /\ N \in Nat \ {0} /\ Tracked \subseteq Nodes
  /\ Default \in Profiles /\ AuthLists \subseteq Seq(Profiles)
  /\ DOMAIN Account = Profiles /\ \A p \in Profiles : DOMAIN Account[p] = Role
ASSUME BoundAssumption == Jobs \subseteq Nat /\ MaxTries \in Nat \ {0}

VARIABLES
  \* the command line
  profile,      \* each plan's auth profile
  jobs, stop,   \* --jobs, --stop-on-failure
  \* the runner
  phase, exit,
  \* each node's thread
  pc,
  tries,        \* requests of the device preflight
  rc, whole,    \* returncode; does the summary say that pytest completed?
  \* the EMS
  sessions,     \* accounts with a session that the node logged in
  \* history
  evicted       \* <<m, n>>: a login of n ended a session of m, which was running

plan == <<profile, jobs, stop>>
ems  == <<sessions, evicted>>
vars == <<profile, jobs, stop, phase, exit, pc, tries, rc, whole, sessions, evicted>>

Goto(n, label) == pc' = [pc EXCEPT ![n] = label]
Ended(n) == pc[n] \in {"ended", "blocked", "raised"}
Busy(n) == pc[n] # "queued" /\ ~Ended(n)

-----------------------------------------------------------------------------
(* The EMS (external) *)

\* A login of an account may end the sessions others have with it.
Login(n, u) ==
  \E lost \in SUBSET {m \in Nodes \ {n} : u \in sessions[m]} :
    /\ sessions' = [m \in Nodes |-> IF m = n THEN sessions[m] \cup {u}
                                   ELSE IF m \in lost THEN sessions[m] \ {u} ELSE sessions[m]]
    /\ evicted' = evicted \cup (lost \X {n})

\* The node's sessions are logged out, or nobody uses them any more.
Leave(n) ==
  /\ sessions' = [sessions EXCEPT ![n] = {}]
  /\ UNCHANGED evicted

-----------------------------------------------------------------------------
(* main: the plans and their validation *)

Workers == IF stop \/ jobs < 1 THEN 1 ELSE jobs

\* auth_profile_for_node: the list is dealt out in turn.
ProfileOf(list, n) == IF list = <<>> THEN Default ELSE list[((n - 1) % Len(list)) + 1]

\* validate_parallel_node_auth_profiles
Triple(n) == [r \in Role |-> Account[profile[n]][r]]
ValidByName ==                             \* mutant: usernames not resolved
  Workers > 1 => \A m, n \in Nodes : m # n => profile[m] # profile[n]
Valid ==
  Workers > 1 => \A m, n \in Nodes : m # n =>
    profile[m] # profile[n] /\ Triple(m) # Triple(n)

Accept ==
  /\ phase = "start"
  /\ phase' = IF Valid THEN "running" ELSE "refused"
  /\ UNCHANGED <<plan, exit, pc, tries, rc, whole, ems>>

-----------------------------------------------------------------------------
(* run_node_plans and run_node_plan *)

Failed(n) == Ended(n) /\ rc[n] # 0

\* A thread takes the next plan; the sequential loop is a pool of one that an
\* exception ends.
Start(n) ==
  /\ phase = "running" /\ pc[n] = "queued"
  /\ \A m \in 1 .. n - 1 : pc[m] # "queued"
  /\ Cardinality({m \in Nodes : Busy(m)}) < Workers
  /\ stop => \A m \in Nodes : ~Failed(m)
  /\ Workers = 1 => \A m \in Nodes : pc[m] # "raised"
  /\ Goto(n, "load")
  /\ UNCHANGED <<plan, phase, exit, tries, rc, whole, ems>>

\* The preflight failed: NodeResult with returncode 2, skipped.
Block(n) ==
  /\ Goto(n, "blocked")
  /\ rc' = [rc EXCEPT ![n] = 2]

\* sync_target_data_from_cli: the node must be in the file, which may fail to
\* load; without slots in its target that is all.
Load(n) ==
  /\ pc[n] = "load"
  /\ \/ n \in Tracked /\ Goto(n, "login") /\ UNCHANGED rc
     \/ Block(n)
  /\ UNCHANGED <<plan, phase, exit, tries, whole, ems>>

\* run_device_preflight: a session of its own for the readwrite account ...
DeviceLogin(n) ==
  /\ pc[n] = "login"
  /\ \/ Login(n, Account[profile[n]]["readwrite"]) /\ Goto(n, "device") /\ UNCHANGED rc
     \/ Block(n) /\ UNCHANGED ems
  /\ UNCHANGED <<plan, phase, exit, tries, whole>>

\* ... that ends with it: ready, not ready MaxTries times, or an exception.
DeviceOneMore(n) ==                        \* mutant: one attempt too many
  /\ pc[n] = "device"
  /\ \/ Goto(n, "launch") /\ Leave(n) /\ UNCHANGED <<tries, rc>>
     \/ /\ tries' = [tries EXCEPT ![n] = @ + 1]
        /\ IF tries[n] < MaxTries THEN UNCHANGED <<pc, rc, ems>> ELSE Block(n) /\ Leave(n)
     \/ Block(n) /\ Leave(n) /\ UNCHANGED tries
  /\ UNCHANGED <<plan, phase, exit, whole>>

Device(n) ==
  /\ pc[n] = "device"
  /\ \/ Goto(n, "launch") /\ Leave(n) /\ UNCHANGED <<tries, rc>>
     \/ /\ tries' = [tries EXCEPT ![n] = @ + 1]
        /\ IF tries[n] + 1 < MaxTries THEN UNCHANGED <<pc, rc, ems>> ELSE Block(n) /\ Leave(n)
     \/ Block(n) /\ Leave(n) /\ UNCHANGED tries
  /\ UNCHANGED <<plan, phase, exit, whole>>

\* subprocess.Popen, or an exception: the log or the process cannot be opened.
Launch(n) ==
  /\ pc[n] = "launch"
  /\ \/ Goto(n, "tests") /\ UNCHANGED rc
     \/ Goto(n, "raised") /\ rc' = [rc EXCEPT ![n] = 1]
  /\ UNCHANGED <<plan, phase, exit, tries, whole, ems>>

\* pytest logs in for a role, or again when the session is gone.
RoleLogin(n) ==
  /\ pc[n] = "tests"
  /\ \E r \in Role : /\ Account[profile[n]][r] \notin sessions[n]
                    /\ Login(n, Account[profile[n]][r])
  /\ UNCHANGED <<plan, phase, exit, pc, tries, rc, whole>>

\* pytest ends with some exit code, with or without its summary.
PytestEnds(n) ==
  /\ pc[n] = "tests"
  /\ \E c \in 0..2, w \in BOOLEAN : /\ rc' = [rc EXCEPT ![n] = c]
                                  /\ whole' = [whole EXCEPT ![n] = w]
  /\ Goto(n, "ended") /\ Leave(n)
  /\ UNCHANGED <<plan, phase, exit, tries>>

\* node_status
Status(n) ==
  CASE pc[n] = "queued"  -> "Not run"
    [] pc[n] = "blocked" -> "Blocked"
    [] pc[n] = "raised"  -> "Fail"
    [] pc[n] = "ended" /\ (rc[n] = 2 \/ ~whole[n]) -> "Incomplete"
    [] pc[n] = "ended" /\ rc[n] = 0 /\ whole[n] -> "Pass"
    [] OTHER -> "Fail"

\* main's exit code
ExitCodeOfReturnCodes ==                   \* mutant: incomplete runs count as passed
  IF \E n \in Nodes : Failed(n) THEN 1 ELSE 0
ExitCode ==
  IF \E n \in Nodes : Failed(n) \/ Status(n) = "Incomplete" THEN 1 ELSE 0

\* An exception in the sequential loop ends the runner without a summary; in
\* the pool it becomes a "runner failed" result.
ReportWhenAllEnded ==                      \* mutant: the early stop is waited out
  /\ phase = "running" /\ \A n \in Nodes : Ended(n)
  /\ phase' = "reported" /\ exit' = ExitCode
  /\ UNCHANGED <<plan, pc, tries, rc, whole, ems>>

Report ==
  /\ phase = "running" /\ \A n \in Nodes : ~Busy(n)
  /\ \/ \A n \in Nodes : Ended(n)
     \/ stop /\ \E n \in Nodes : Failed(n)
     \/ Workers = 1 /\ \E n \in Nodes : pc[n] = "raised"
  /\ IF Workers = 1 /\ \E n \in Nodes : pc[n] = "raised"
     THEN phase' = "crashed" /\ exit' = 1
     ELSE phase' = "reported" /\ exit' = ExitCode
  /\ UNCHANGED <<plan, pc, tries, rc, whole, ems>>

Init ==
  /\ \E list \in AuthLists : profile = [n \in Nodes |-> ProfileOf(list, n)]
  /\ jobs \in Jobs /\ stop \in BOOLEAN
  /\ phase = "start" /\ exit = 0
  /\ pc = [n \in Nodes |-> "queued"]
  /\ tries = [n \in Nodes |-> 0]
  /\ rc = [n \in Nodes |-> 0] /\ whole = [n \in Nodes |-> FALSE]
  /\ sessions = [n \in Nodes |-> {}] /\ evicted = {}

Step(n) ==
  \/ Load(n) \/ DeviceLogin(n) \/ Device(n) \/ Launch(n) \/ PytestEnds(n)

Finished == phase \notin {"start", "running"} /\ UNCHANGED vars

Next ==
  \/ Accept \/ Report \/ Finished
  \/ \E n \in Nodes : Start(n) \/ Step(n) \/ RoleLogin(n)

Spec == Init /\ [][Next]_vars

\* Threads run, network calls have timeouts, and every pytest process ends:
\* the runner waits for it without a limit.
FairSpec ==
  /\ Spec /\ WF_vars(Accept) /\ WF_vars(Report)
  /\ \A n \in Nodes : WF_vars(Start(n)) /\ WF_vars(Step(n))

-----------------------------------------------------------------------------
(* Properties *)

\* Every variable has its type.
TypeOK ==
  /\ profile \in [Nodes -> Profiles] /\ jobs \in Jobs /\ stop \in BOOLEAN
  /\ phase \in {"start", "refused", "running", "reported", "crashed"} /\ exit \in 0..1
  /\ pc \in [Nodes -> {"queued", "load", "login", "device", "launch", "tests",
                       "ended", "blocked", "raised"}]
  /\ tries \in [Nodes -> 0..MaxTries]
  /\ rc \in [Nodes -> 0..2] /\ whole \in [Nodes -> BOOLEAN]
  /\ sessions \in [Nodes -> SUBSET User] /\ evicted \subseteq Nodes \X Nodes

\* A running node loses a session to another node's login only if both run at
\* once with profiles that resolve to different triples of usernames: one
\* after the other nobody loses any, and profiles with the same three
\* accounts, under one name or two, never run at the same time.  Profiles
\* that share an account but not all three are accepted (run_multi_node.py:
\* 276-283), although its message and README.md:212-214 ask for distinct
\* usernames, so of those nothing is said.
LostToPartialOverlapOnly ==
  \A e \in evicted : Workers > 1 /\ Triple(e[1]) # Triple(e[2])

\* Exit code 0 means that every node of the list ran to its end and passed,
\* whatever was skipped, stopped early, interrupted or cut off.
GreenMeansAllPassed ==
  (phase = "reported" /\ exit = 0) => \A n \in Nodes : Status(n) = "Pass"

\* Every accepted run ends, with a summary or an exception.
RunEnds == phase = "running" ~> phase \in {"reported", "crashed"}

-----------------------------------------------------------------------------
(* The inductive invariant of the proofs *)

\* Only a running node has sessions, of its own profile's accounts.
SessionInv ==
  \A n \in Nodes :
    /\ sessions[n] # {} => pc[n] \in {"device", "tests"}
    /\ sessions[n] \subseteq {Account[profile[n]][r] : r \in Role}

\* One at a time: no two nodes are busy.
SequenceInv ==
  Workers = 1 => \A m, n \in Nodes : Busy(m) /\ Busy(n) => m = n

\* Plans run only while the accepted run goes on; how a thread ended tells
\* its return code.
PhaseInv ==
  /\ phase \notin {"start", "refused"} => Valid
  /\ \A n \in Nodes :
       /\ pc[n] # "queued" => phase \notin {"start", "refused"}
       /\ Busy(n) => phase = "running"
       /\ ~Ended(n) => tries[n] < MaxTries
       /\ pc[n] = "blocked" => rc[n] = 2
       /\ pc[n] = "raised" => rc[n] = 1

IInv ==
  /\ TypeOK /\ SessionInv /\ SequenceInv /\ PhaseInv
  /\ LostToPartialOverlapOnly /\ GreenMeansAllPassed
=============================================================================
