--------------------------- MODULE MultiNodeProofs ---------------------------
(***************************************************************************)
(* The runner's inductive invariant, and its safety properties for every   *)
(* number of nodes and jobs, all profiles and every list of them.          *)
(***************************************************************************)
EXTENDS MultiNode, FiniteSetTheorems, TLAPS

\* Workers is a positive number.
LEMMA SomeWorkers == TypeOK => Workers \in Nat \ {0}
  BY BoundAssumption DEF TypeOK, Workers, BoundAssumption

\* The busy nodes are finitely many; no fewer than one means none.
LEMMA NobodyBusy ==
  ASSUME Cardinality({m \in Nodes : Busy(m)}) < 1
  PROVE  \A m \in Nodes : ~Busy(m)
<1> DEFINE B == {m \in Nodes : Busy(m)}
<1>1. IsFiniteSet(Nodes)
  BY FS_Interval, PlanAssumption DEF PlanAssumption, Nodes
<1>2. IsFiniteSet(B)
  BY <1>1, FS_Subset
<1>3. Cardinality(B) \in Nat
  BY <1>2, FS_CardinalityType
<1>4. B = {}
  BY <1>2, <1>3, FS_EmptySet
<1> QED
  BY <1>4

\* A step of a node's thread moves that thread only, and a thread that has
\* not been started or has ended makes none.
LEMMA StepMoves ==
  ASSUME TypeOK, NEW n \in Nodes, Step(n)
  PROVE  /\ UNCHANGED <<plan, phase, exit>>
         /\ Busy(n) /\ pc'[n] # "queued"
         /\ \A m \in Nodes \ {n} : UNCHANGED <<pc[m], tries[m], rc[m], whole[m]>>
<1> USE DEF TypeOK, Goto, Block, Busy, Ended
<1>1. CASE Load(n)
  BY <1>1 DEF Load
<1>2. CASE DeviceLogin(n)
  BY <1>2 DEF DeviceLogin
<1>3. CASE Device(n)
  BY <1>3 DEF Device
<1>4. CASE Launch(n)
  BY <1>4 DEF Launch
<1>5. CASE PytestEnds(n)
  BY <1>5 DEF PytestEnds
<1> QED
  BY <1>1, <1>2, <1>3, <1>4, <1>5 DEF Step

\* A later login of the tests moves nothing but the sessions.
LEMMA RoleLoginMoves ==
  ASSUME NEW n \in Nodes, RoleLogin(n)
  PROVE  UNCHANGED <<plan, phase, exit, pc, tries, rc, whole>>
  BY DEF RoleLogin

\* The command line stays as it was given.
LEMMA PlanKept == TypeOK /\ [Next]_vars => UNCHANGED plan
  BY StepMoves, RoleLoginMoves DEF Next, Accept, Report, Start, Finished, vars, plan

\* The sessions and the history of them change by logins of the device
\* preflight and of the tests, and when a node leaves.
LEMMA SessionsMove ==
  ASSUME TypeOK, [Next]_vars
  PROVE  \/ UNCHANGED ems
         \/ \E n \in Nodes : (Device(n) \/ PytestEnds(n)) /\ Leave(n)
         \/ \E n \in Nodes, r \in Role :
              /\ Login(n, Account[profile[n]][r])
              /\ \/ DeviceLogin(n) /\ pc' = [pc EXCEPT ![n] = "device"]
                 \/ RoleLogin(n)
<1> USE DEF ems
<1>1. CASE Accept \/ Report \/ Finished \/ UNCHANGED vars
  BY <1>1 DEF Accept, Report, Finished, vars
<1>2. ASSUME NEW n \in Nodes, Start(n) \/ Load(n) \/ Launch(n) PROVE UNCHANGED ems
  BY <1>2 DEF Start, Load, Launch
<1>3. ASSUME NEW n \in Nodes, Device(n) \/ PytestEnds(n) PROVE UNCHANGED ems \/ Leave(n)
  BY <1>3 DEF Device, PytestEnds
<1>4. ASSUME NEW n \in Nodes, DeviceLogin(n)
      PROVE  \/ UNCHANGED ems
             \/ /\ Login(n, Account[profile[n]]["readwrite"])
                /\ pc' = [pc EXCEPT ![n] = "device"]
  BY <1>4 DEF DeviceLogin, Goto
<1>5. ASSUME NEW n \in Nodes, RoleLogin(n)
      PROVE  \E r \in Role : Login(n, Account[profile[n]][r])
  BY <1>5 DEF RoleLogin
<1>6. "readwrite" \in Role
  BY DEF Role
<1> QED
  BY <1>1, <1>2, <1>3, <1>4, <1>5, <1>6 DEF Next, Step

\* Logins and leaving keep the type of the sessions and of their history.
LEMMA LoginType ==
  ASSUME TypeOK, NEW n \in Nodes, NEW r \in Role, Login(n, Account[profile[n]][r])
  PROVE  sessions' \in [Nodes -> SUBSET User] /\ evicted' \subseteq Nodes \X Nodes
<1>1. Account[profile[n]][r] \in User
  BY DEF TypeOK, User
<1> QED
  BY <1>1 DEF TypeOK, Login

\* Every action leaves every variable in its type.
LEMMA TypeStep == IInv /\ [Next]_vars => TypeOK'
<1> SUFFICES ASSUME IInv, [Next]_vars PROVE TypeOK'
  OBVIOUS
<1> USE DEF IInv, TypeOK, plan, Goto, Block
<1>0. sessions' \in [Nodes -> SUBSET User] /\ evicted' \subseteq Nodes \X Nodes
  <2>1. ASSUME NEW n \in Nodes, Leave(n)
        PROVE  sessions' \in [Nodes -> SUBSET User] /\ evicted' \subseteq Nodes \X Nodes
    BY <2>1 DEF Leave
  <2> QED
    BY <2>1, SessionsMove, LoginType DEF ems
<1>1. CASE Accept
  BY <1>0, <1>1 DEF Accept
<1>2. CASE Report
  BY <1>0, <1>2 DEF Report, ExitCode
<1>3. ASSUME NEW n \in Nodes, Start(n) PROVE TypeOK'
  BY <1>0, <1>3 DEF Start
<1>4. ASSUME NEW n \in Nodes, Step(n) PROVE TypeOK'
  <2>1. CASE Load(n)
    BY <1>0, <2>1 DEF Load
  <2>2. CASE DeviceLogin(n)
    BY <1>0, <2>2 DEF DeviceLogin
  <2>3. CASE Device(n)
    BY <1>0, <2>3, BoundAssumption DEF Device, BoundAssumption, PhaseInv, Ended
  <2>4. CASE Launch(n)
    BY <1>0, <2>4 DEF Launch
  <2>5. CASE PytestEnds(n)
    BY <1>0, <2>5 DEF PytestEnds
  <2> QED
    BY <1>4, <2>1, <2>2, <2>3, <2>4, <2>5 DEF Step
<1>5. ASSUME NEW n \in Nodes, RoleLogin(n) PROVE TypeOK'
  BY <1>0, <1>5 DEF RoleLogin
<1>6. CASE Finished \/ UNCHANGED vars
  BY <1>6 DEF Finished, vars
<1> QED
  BY <1>1, <1>2, <1>3, <1>4, <1>5, <1>6 DEF Next

\* A login leaves a node sessions of its own accounts only.
LEMMA SessionStep == IInv /\ [Next]_vars => SessionInv'
<1> SUFFICES ASSUME IInv, [Next]_vars PROVE SessionInv'
  OBVIOUS
<1> USE DEF IInv, TypeOK, SessionInv
<1>0. UNCHANGED profile
  BY PlanKept DEF plan
<1>1. CASE UNCHANGED ems
  <2>1. ASSUME NEW n \in Nodes, pc[n] \in {"device", "tests"}, sessions[n] # {}
        PROVE  pc'[n] \in {"device", "tests"}
    <3>1. ASSUME Device(n) \/ PytestEnds(n) PROVE pc'[n] \in {"device", "tests"}
      BY <1>1, <2>1, <3>1 DEF Device, PytestEnds, Leave, ems, Goto, Block
    <3>2. ~Load(n) /\ ~DeviceLogin(n) /\ ~Launch(n) /\ ~Start(n)
      BY <2>1 DEF Load, DeviceLogin, Launch, Start
    <3>3. ASSUME NEW m \in Nodes, m # n, Start(m) \/ Step(m) PROVE pc'[n] = pc[n]
      BY <3>3, StepMoves DEF Start, Goto
    <3> QED
      BY <2>1, <3>1, <3>2, <3>3, RoleLoginMoves
         DEF Next, Step, Accept, Report, Finished, vars
  <2> QED
    BY <1>0, <1>1, <2>1 DEF ems
<1>2. ASSUME NEW n \in Nodes, Device(n) \/ PytestEnds(n), Leave(n) PROVE SessionInv'
  <2>1. \A m \in Nodes \ {n} : UNCHANGED pc[m]
    BY <1>2, StepMoves DEF Step
  <2>2. sessions' = [sessions EXCEPT ![n] = {}]
    BY <1>2 DEF Leave
  <2> QED
    BY <1>0, <2>1, <2>2
<1>3. ASSUME NEW n \in Nodes, NEW r \in Role, Login(n, Account[profile[n]][r]),
             \/ DeviceLogin(n) /\ pc' = [pc EXCEPT ![n] = "device"]
             \/ RoleLogin(n)
      PROVE  SessionInv'
  <2>1. pc'[n] \in {"device", "tests"} /\ \A m \in Nodes \ {n} : UNCHANGED pc[m]
    BY <1>3 DEF RoleLogin
  <2>2. /\ sessions'[n] = sessions[n] \cup {Account[profile[n]][r]}
        /\ \A m \in Nodes \ {n} : sessions'[m] \subseteq sessions[m]
    BY <1>3 DEF Login
  <2> QED
    BY <1>0, <2>1, <2>2
<1> QED
  BY <1>1, <1>2, <1>3, SessionsMove

\* With one worker no two nodes are busy.
LEMMA SequenceStep == IInv /\ [Next]_vars => SequenceInv'
<1> SUFFICES ASSUME IInv, [Next]_vars, Workers' = 1 PROVE SequenceInv'
  BY DEF SequenceInv
<1> USE DEF IInv, TypeOK, Goto, Busy, Ended
<1>0. UNCHANGED plan /\ Workers = 1
  BY PlanKept DEF Workers, plan
<1>i. \A m, n \in Nodes : Busy(m) /\ Busy(n) => m = n
  BY <1>0 DEF SequenceInv
<1>1. CASE Accept \/ Report
  BY <1>1, <1>i DEF Accept, Report, SequenceInv
<1>2. ASSUME NEW n \in Nodes, Start(n) PROVE SequenceInv'
  <2>1. \A m \in Nodes : ~Busy(m)
    BY <1>0, <1>2, NobodyBusy DEF Start
  <2>2. \A m \in Nodes \ {n} : UNCHANGED pc[m]
    BY <1>2 DEF Start
  <2> QED
    BY <2>1, <2>2 DEF SequenceInv
<1>3. ASSUME NEW n \in Nodes, Step(n) PROVE SequenceInv'
  <2>1. Busy(n) /\ \A m \in Nodes \ {n} : ~Busy(m) /\ UNCHANGED pc[m]
    BY <1>3, <1>i, StepMoves
  <2> QED
    BY <2>1 DEF SequenceInv
<1>4. ASSUME NEW n \in Nodes, RoleLogin(n) PROVE SequenceInv'
  BY <1>4, <1>i, RoleLoginMoves DEF SequenceInv
<1>5. CASE Finished \/ UNCHANGED vars
  BY <1>5, <1>i DEF Finished, vars, SequenceInv
<1> QED
  BY <1>1, <1>2, <1>3, <1>4, <1>5 DEF Next

\* What a thread's program counter says of the run and of its return code.
LEMMA PhaseStep == IInv /\ [Next]_vars => PhaseInv'
<1> SUFFICES ASSUME IInv, [Next]_vars PROVE PhaseInv'
  OBVIOUS
<1> USE DEF IInv, TypeOK, PhaseInv, Goto, Block, Busy, Ended
<1>0. Valid' = Valid
  <2>1. UNCHANGED plan
    BY PlanKept
  <2> QED
    BY <2>1 DEF Valid, Triple, Workers, plan
<1>1. CASE Accept
  BY <1>0, <1>1 DEF Accept
<1>2. CASE Report
  BY <1>0, <1>2 DEF Report
<1>3. ASSUME NEW n \in Nodes, Start(n) PROVE PhaseInv'
  BY <1>0, <1>3 DEF Start
<1>4. ASSUME NEW n \in Nodes, Step(n) PROVE PhaseInv'
  <2>1. \A m \in Nodes \ {n} : UNCHANGED <<pc[m], tries[m], rc[m]>>
    BY <1>4, StepMoves
  <2>2. UNCHANGED phase /\ Busy(n) /\ pc'[n] # "queued"
    BY <1>4, StepMoves
  <2>3. /\ pc'[n] = "blocked" => rc'[n] = 2
        /\ pc'[n] = "raised" => rc'[n] = 1
    BY <1>4, <2>2 DEF Step, Load, DeviceLogin, Device, Launch, PytestEnds
  <2>4. ~Ended(n)' => tries'[n] < MaxTries
    BY <1>4, <2>2, BoundAssumption
       DEF Step, Load, DeviceLogin, Device, Launch, PytestEnds, BoundAssumption
  <2> QED
    BY <1>0, <2>1, <2>2, <2>3, <2>4
<1>5. ASSUME NEW n \in Nodes, RoleLogin(n) PROVE PhaseInv'
  BY <1>0, <1>5, RoleLoginMoves
<1>6. CASE Finished \/ UNCHANGED vars
  BY <1>0, <1>6 DEF Finished, vars
<1> QED
  BY <1>1, <1>2, <1>3, <1>4, <1>5, <1>6 DEF Next

\* Two running nodes, and so more than one worker: their plans were validated.
LEMMA EvictedStep == IInv /\ [Next]_vars => LostToPartialOverlapOnly'
<1> SUFFICES ASSUME IInv, [Next]_vars, NEW e \in evicted'
             PROVE  (Workers > 1 /\ Triple(e[1]) # Triple(e[2]))'
  BY DEF LostToPartialOverlapOnly
<1> USE DEF IInv, TypeOK
<1>0. UNCHANGED plan
  BY PlanKept
<1>1. CASE e \in evicted
  BY <1>0, <1>1 DEF LostToPartialOverlapOnly, Workers, Triple, plan
<1>2. CASE e \notin evicted
  <2>1. PICK n \in Nodes, r \in Role :
          /\ Login(n, Account[profile[n]][r])
          /\ DeviceLogin(n) \/ RoleLogin(n)
    BY <1>2, SessionsMove DEF ems, Leave
  <2>2. e[2] = n /\ e[1] \in Nodes \ {n} /\ sessions[e[1]] # {}
    BY <1>2, <2>1 DEF Login
  <2>3. Busy(n)
    BY <2>1 DEF DeviceLogin, RoleLogin, Busy, Ended
  <2>4. Busy(e[1])
    BY <2>2 DEF SessionInv, Busy, Ended
  <2>5. Workers > 1
    BY <2>2, <2>3, <2>4, SomeWorkers DEF SequenceInv
  <2>6. Valid
    BY <2>3 DEF PhaseInv
  <2>7. Triple(e[1]) # Triple(e[2])
    BY <2>2, <2>5, <2>6 DEF Valid
  <2> QED
    BY <1>0, <2>5, <2>7 DEF Workers, Triple, plan
<1> QED
  BY <1>1, <1>2

\* After the report no thread moves.
LEMMA GreenStep == IInv /\ [Next]_vars => GreenMeansAllPassed'
<1> SUFFICES ASSUME IInv, [Next]_vars, phase' = "reported", exit' = 0,
                    NEW n \in Nodes
             PROVE  Status(n)' = "Pass"
  BY DEF GreenMeansAllPassed
<1> USE DEF IInv, TypeOK
<1>1. CASE Report
  <2>1. /\ UNCHANGED <<pc, rc, whole>> /\ ExitCode = 0
        /\ ~(Workers = 1 /\ \E m \in Nodes : pc[m] = "raised")
    BY <1>1 DEF Report
  <2>2. \A m \in Nodes : ~Failed(m) /\ Status(m) # "Incomplete"
    BY <2>1 DEF ExitCode
  <2>3. Ended(n)
    BY <1>1, <2>1, <2>2 DEF Report
  <2>4. rc[n] = 0 /\ pc[n] = "ended"
    BY <2>2, <2>3 DEF Failed, Ended, PhaseInv
  <2>5. whole[n]
    BY <2>2, <2>4 DEF Status
  <2>6. Status(n) = "Pass"
    BY <2>4, <2>5 DEF Status
  <2> QED
    BY <2>1, <2>6 DEF Status
<1>2. CASE ~Report
  <2>1. UNCHANGED phase \/ phase' \in {"running", "refused"}
    BY <1>2, StepMoves, RoleLoginMoves DEF Next, Accept, Start, Finished, vars
  <2>2. phase = "reported"
    BY <2>1
  <2>3. \A m \in Nodes : ~Step(m) /\ ~Start(m)
    BY <2>2, StepMoves DEF Start, PhaseInv
  <2>4. UNCHANGED <<pc, rc, whole, exit>>
    BY <1>2, <2>2, <2>3, RoleLoginMoves DEF Next, Accept, Finished, vars
  <2> QED
    BY <2>2, <2>4 DEF GreenMeansAllPassed, Status
<1> QED
  BY <1>1, <1>2

-----------------------------------------------------------------------------
\* The inductive invariant holds in every reachable state: sessions belong to
\* running nodes, and plans run only once they have been validated.
THEOREM Invariance == Spec => []IInv
<1>1. Init => IInv
  <2> SUFFICES ASSUME Init PROVE IInv
    OBVIOUS
  <2>1. TypeOK
    <3>1. \A list \in AuthLists, n \in Nodes : ProfileOf(list, n) \in Profiles
      <4> SUFFICES ASSUME NEW list \in AuthLists, NEW n \in Nodes, list # <<>>
                   PROVE  list[((n - 1) % Len(list)) + 1] \in Profiles
        BY PlanAssumption DEF ProfileOf, PlanAssumption
      <4>1. list \in Seq(Profiles)
        BY PlanAssumption DEF PlanAssumption
      <4>2. Len(list) \in Nat \ {0}
        BY <4>1
      <4>3. n - 1 \in Int
        BY DEF Nodes
      <4>4. ((n - 1) % Len(list)) + 1 \in 1 .. Len(list)
        BY <4>2, <4>3
      <4> QED
        BY <4>1, <4>4
    <3>2. profile \in [Nodes -> Profiles]
      BY <3>1 DEF Init
    <3> QED
      BY <3>2, PlanAssumption, BoundAssumption DEF Init, TypeOK, PlanAssumption, BoundAssumption
  <2>2. SessionInv /\ SequenceInv /\ PhaseInv
    BY BoundAssumption
       DEF Init, SessionInv, SequenceInv, Busy, Ended, PhaseInv, BoundAssumption
  <2>3. LostToPartialOverlapOnly /\ GreenMeansAllPassed
    BY DEF Init, LostToPartialOverlapOnly, GreenMeansAllPassed
  <2> QED
    BY <2>1, <2>2, <2>3 DEF IInv
<1>2. IInv /\ [Next]_vars => IInv'
  BY TypeStep, SessionStep, SequenceStep, PhaseStep, EvictedStep, GreenStep DEF IInv
<1> QED
  BY <1>1, <1>2, PTL DEF Spec

\* Every variable of the runner keeps its type.
THEOREM TypeCorrect == Spec => []TypeOK
<1>1. IInv => TypeOK
  BY DEF IInv
<1> QED
  BY <1>1, Invariance, PTL

\* Nodes that run one after the other, and nodes whose profiles resolve to the
\* same three usernames, never end each other's sessions.
THEOREM SessionsKept == Spec => []LostToPartialOverlapOnly
<1>1. IInv => LostToPartialOverlapOnly
  BY DEF IInv
<1> QED
  BY <1>1, Invariance, PTL

\* Exit code 0 of the runner means that all nodes ran and passed.
THEOREM GreenIsGreen == Spec => []GreenMeansAllPassed
<1>1. IInv => GreenMeansAllPassed
  BY DEF IInv
<1> QED
  BY <1>1, Invariance, PTL
=============================================================================
