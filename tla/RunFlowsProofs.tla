--------------------------- MODULE RunFlowsProofs ---------------------------
(***************************************************************************)
(* The flows that bring the EMS back, ask who may do what, watch or read   *)
(* it, carry a run and its report, or work on the files that runs leave,   *)
(* for all values of their constants. Each section is about one flow: the  *)
(* inductive invariant of its module, the lemmas that it needs, and the    *)
(* theorems.                                                               *)
(***************************************************************************)
EXTENDS RunFlows, Integers, SequenceTheorems, FiniteSetTheorems, WellFoundedInduction, TLAPS

-----------------------------------------------------------------------------
(***************************************************************************)
(* The restore of the ONT baseline.                                        *)
(***************************************************************************)
BasPolling == {"chunk", "poll", "caught"}

\* What a chunk has of the window: its session is opened within one call of
\* its start, and its wait ends one call behind the window at the latest.
BasWindowEnd == IF Window > basBegun THEN Window ELSE basBegun
BasChunkInv ==
  /\ basPc \in {"poll", "caught"} =>
       /\ basBegun + basChunk <= BasWindowEnd
       /\ basNow <= BasWindowEnd + 2 * CallTime
  /\ basPc = "poll" => basLogin >= basBegun /\ basLogin <= basBegun + CallTime /\ basNow <= basLogin + basChunk

\* Retries are paid for by failures, and a chunk whose time is not used up
\* has failed; REST is given up when the window is over or the retries are.
BasRetryInv ==
  /\ basPc \in BasPolling \cup {"post"} => basRetries <= Retries /\ basRetries <= basFailures
  /\ basPc = "caught" => basFailures > basRetries \/ basNow >= basBegun + basChunk
  /\ "rest" \in basErrors => basPc \notin BasPolling \cup {"post"} /\ (basNow >= Window \/ basFailures > Retries)

BasIInv == Bas!TypeOK /\ BasChunkInv /\ BasRetryInv

\* The start of a restore satisfies the invariant.
LEMMA BasInitInv == ASSUME Bas!BaselineAssumption PROVE Bas!Init => BasIInv
  BY DEF Bas!BaselineAssumption, Bas!Init, BasIInv, Bas!TypeOK, BasChunkInv, BasRetryInv, BasPolling

\* Every step of a restore keeps it.
LEMMA BasNextInv == ASSUME Bas!BaselineAssumption PROVE BasIInv /\ [Bas!Next]_(Bas!vars) => BasIInv'
<1> SUFFICES ASSUME BasIInv, [Bas!Next]_(Bas!vars) PROVE BasIInv'
  OBVIOUS
<1>a. /\ Window \in Nat /\ Chunk \in Nat /\ Stable \in Nat /\ CliTime \in Nat
      /\ Retries \in Nat /\ CallTime \in Nat
  BY DEF Bas!BaselineAssumption
<1>t. /\ basPc \in {"post", "chunk", "poll", "caught", "cli", "is", "tokens", "done"}
      /\ basNow \in Nat /\ basBegun \in Nat /\ basLogin \in Nat /\ basHits \in Nat /\ basRetries \in Nat
      /\ basCliEnd \in Nat /\ basFailures \in Nat /\ basChunk \in 0..Chunk /\ basChunk \in Nat
      /\ basErrors \subseteq {"post", "rest", "cli"}
  BY <1>a DEF BasIInv, Bas!TypeOK
<1>d. \A d \in Bas!Duration : d \in Nat /\ d <= CallTime
  BY <1>a DEF Bas!Duration
<1> USE DEF BasPolling
<1>1. CASE Bas!Post
  <2>1. PICK d \in Bas!Duration, ok \in BOOLEAN :
          /\ basNow' = basNow + d
          /\ basPc' = IF ok THEN "chunk" ELSE "cli"
          /\ basErrors' = IF ok THEN {} ELSE {"post"}
    BY <1>1 DEF Bas!Post
  <2>2. UNCHANGED <<basBegun, basChunk, basLogin, basHits, basRetries, basCliEnd, basFailures>> /\ basPc = "post"
    BY <1>1 DEF Bas!Post
  <2> QED
    BY <1>a, <1>t, <1>d, <2>1, <2>2 DEF BasIInv, Bas!TypeOK, BasChunkInv, BasRetryInv
<1>2. CASE Bas!OpenChunk
  <2>1. PICK d \in Bas!Duration, ok \in BOOLEAN :
          /\ basNow' = basNow + d
          /\ basLogin' = IF ok THEN basNow + d ELSE basLogin
          /\ basPc' = IF ok THEN "poll" ELSE "caught"
          /\ basFailures' = IF ok THEN basFailures ELSE basFailures + 1
    BY <1>2 DEF Bas!OpenChunk
  <2>2. /\ basPc = "chunk" /\ basBegun' = basNow /\ basHits' = 0
        /\ basChunk' = Bas!NextChunk
        /\ UNCHANGED <<basRetries, basErrors, basCliEnd>>
    BY <1>2 DEF Bas!OpenChunk
  <2>3. /\ basChunk' \in 0..Chunk
        /\ basNow + basChunk' <= (IF Window > basNow THEN Window ELSE basNow)
    BY <1>a, <1>t, <2>2 DEF Bas!NextChunk, Bas!Left
  <2>4. basNow' \in Nat /\ basNow' >= basNow /\ basNow' <= basNow + CallTime
    BY <1>a, <1>t, <1>d, <2>1
  <2>5. Bas!TypeOK'
    BY <1>a, <1>t, <2>1, <2>2, <2>3, <2>4 DEF Bas!TypeOK
  <2>6. BasChunkInv'
    BY <1>a, <1>t, <2>1, <2>2, <2>3, <2>4 DEF BasChunkInv, BasWindowEnd
  <2>7. BasRetryInv'
    BY <1>a, <1>t, <2>1, <2>2 DEF BasIInv, BasRetryInv
  <2> QED
    BY <2>5, <2>6, <2>7 DEF BasIInv
<1>3. CASE Bas!Poll
  <2>1. PICK d \in Bas!Duration, answer \in {"match", "other", "raise"} :
       LET at == basNow + d
           h  == IF answer = "match" THEN basHits + 1 ELSE 0
       IN /\ basHits' = h
          /\ IF answer = "raise" THEN basPc' = "caught" /\ basNow' = at
             ELSE IF h >= Stable THEN basPc' = "cli" /\ basNow' = at
             ELSE IF at >= Bas!WaitEnd THEN basPc' = "caught" /\ basNow' = at
             ELSE basPc' = "poll" /\ basNow' = at + 1
          /\ basFailures' = IF answer = "raise" THEN basFailures + 1 ELSE basFailures
    BY <1>3 DEF Bas!Poll
  <2>2. basPc = "poll" /\ UNCHANGED <<basBegun, basChunk, basLogin, basRetries, basErrors, basCliEnd>>
    BY <1>3 DEF Bas!Poll
  <2>3. d \in Nat /\ d <= CallTime /\ Bas!WaitEnd = basLogin + basChunk
    BY <1>d DEF Bas!WaitEnd
  <2>4. /\ basBegun + basChunk <= BasWindowEnd /\ basLogin >= basBegun /\ basLogin <= basBegun + CallTime
        /\ basNow <= basLogin + basChunk /\ basRetries <= Retries /\ basRetries <= basFailures
        /\ "rest" \notin basErrors /\ BasWindowEnd \in Nat
    BY <1>a, <1>t, <2>2 DEF BasIInv, BasChunkInv, BasRetryInv, BasWindowEnd
  <2>5. /\ basHits' \in Nat /\ basNow' \in Nat /\ basFailures' \in Nat /\ basFailures' >= basFailures
        /\ \/ /\ basPc' = "caught" /\ basNow' = basNow + d
              /\ basFailures' = basFailures + 1 \/ basNow + d >= basLogin + basChunk
           \/ basPc' = "cli"
           \/ basPc' = "poll" /\ basNow' = basNow + d + 1 /\ basNow + d < basLogin + basChunk
    BY <1>t, <2>1, <2>3
  <2>6. Bas!TypeOK'
    BY <1>t, <2>2, <2>5 DEF Bas!TypeOK
  <2>7. BasChunkInv'
    <3>1. BasWindowEnd' = BasWindowEnd
      BY <2>2 DEF BasWindowEnd
    <3>2. basNow + d <= BasWindowEnd + 2 * CallTime
      BY <1>a, <1>t, <2>3, <2>4
    <3>3. basNow + d < basLogin + basChunk => basNow + d + 1 <= basLogin + basChunk
      BY <1>t, <2>3
    <3>4. basLogin + basChunk <= BasWindowEnd + 2 * CallTime
      BY <1>a, <1>t, <2>4
    <3>5. basPc' \in {"poll", "caught"} => basNow' <= BasWindowEnd + 2 * CallTime
      BY <1>a, <1>t, <2>3, <2>4, <2>5, <3>2, <3>3, <3>4
    <3> QED
      BY <2>2, <2>4, <2>5, <3>1, <3>3, <3>5 DEF BasChunkInv
  <2>8. BasRetryInv'
    BY <1>a, <1>t, <2>2, <2>3, <2>4, <2>5 DEF BasRetryInv
  <2> QED
    BY <2>6, <2>7, <2>8 DEF BasIInv
<1>4. CASE Bas!Caught
  <2> DEFINE over == basNow >= Window
             n    == IF over \/ Bas!UsedUp THEN basRetries ELSE basRetries + 1
             stop == over \/ n > Retries
  <2>1. /\ basPc = "caught" /\ basRetries' = n
        /\ basErrors' = IF stop THEN basErrors \union {"rest"} ELSE basErrors
        /\ basPc' = IF stop THEN "cli" ELSE "chunk"
        /\ UNCHANGED <<basNow, basBegun, basChunk, basLogin, basHits, basCliEnd, basFailures>>
    BY <1>4 DEF Bas!Caught
  <2>2. /\ basRetries <= Retries /\ basRetries <= basFailures /\ "rest" \notin basErrors
        /\ basFailures > basRetries \/ Bas!UsedUp
    BY <2>1 DEF BasIInv, BasRetryInv, Bas!UsedUp
  <2>3. n \in Nat /\ n <= basFailures /\ (stop => basNow >= Window \/ basFailures > Retries)
    BY <1>a, <1>t, <2>2
  <2>4. Bas!TypeOK' /\ BasChunkInv'
    BY <1>t, <2>1, <2>3 DEF Bas!TypeOK, BasChunkInv
  <2>5. BasRetryInv'
    BY <1>a, <1>t, <2>1, <2>2, <2>3 DEF BasRetryInv
  <2> QED
    BY <2>4, <2>5 DEF BasIInv
<1>5. CASE Bas!EnterCli
  BY <1>5, <1>a, <1>t DEF Bas!EnterCli, BasIInv, Bas!TypeOK, BasChunkInv, BasRetryInv
<1>6. CASE Bas!ReadCli
  <2>1. /\ basPc \in {"is", "tokens"} /\ basPc' \in {"is", "tokens", "done"}
        /\ UNCHANGED <<basBegun, basChunk, basLogin, basRetries, basFailures>>
        /\ basErrors' \in {basErrors, basErrors \union {"cli"}}
    BY <1>6 DEF Bas!ReadCli, Bas!CliFails
  <2>2. basNow' \in Nat /\ basNow' >= basNow /\ basHits' \in Nat /\ basCliEnd' \in Nat
    <3>1. PICK d \in Bas!Duration, answer \in {"match", "other", "raise"} :
       LET at   == basNow + d
           h    == IF answer = "match" THEN basHits + 1 ELSE 0
           need == IF basPc = "is" THEN 1 ELSE Stable
       IN IF answer = "raise" \/ (h < need /\ at >= basCliEnd)
          THEN Bas!CliFails /\ basNow' = at /\ basHits' = h /\ UNCHANGED basCliEnd
          ELSE /\ UNCHANGED basErrors
               /\ IF h < need
                  THEN basNow' = at + 1 /\ basHits' = h /\ UNCHANGED <<basPc, basCliEnd>>
                  ELSE /\ basNow' = at /\ basHits' = 0
                       /\ basPc' = IF basPc = "is" THEN "tokens" ELSE "done"
                       /\ basCliEnd' = IF basPc = "is" THEN at + CliTime ELSE basCliEnd
      BY <1>6 DEF Bas!ReadCli
    <3> QED
      BY <1>a, <1>t, <1>d, <3>1
  <2> QED
    BY <1>a, <1>t, <2>1, <2>2 DEF BasIInv, Bas!TypeOK, BasChunkInv, BasRetryInv
<1>7. CASE UNCHANGED Bas!vars
  BY <1>7 DEF Bas!vars, BasIInv, Bas!TypeOK, BasChunkInv, BasRetryInv, BasWindowEnd
<1> QED
  BY <1>1, <1>2, <1>3, <1>4, <1>5, <1>6, <1>7 DEF Bas!Next

\* Every reachable state of a restore satisfies it.
LEMMA BasInvariance == ASSUME Bas!BaselineAssumption PROVE Bas!Spec => []BasIInv
  BY BasInitInv, BasNextInv, PTL DEF Bas!Spec

\* The restore's clock, budgets and phases keep their types.
THEOREM BasTypeCorrect == ASSUME Bas!BaselineAssumption PROVE Bas!Spec => []Bas!TypeOK
  BY BasInvariance, PTL DEF BasIInv

\* What a restore promises.
LEMMA BasPromises == ASSUME Bas!BaselineAssumption PROVE BasIInv => Bas!PatientUnderHiccups /\ Bas!SessionsYoung /\ Bas!WindowKept
  BY DEF Bas!BaselineAssumption, BasIInv, Bas!TypeOK, BasRetryInv, BasChunkInv, BasWindowEnd,
     Bas!PatientUnderHiccups, Bas!SessionsYoung, Bas!WindowKept

\* Whatever a chunk's time and however often the EMS hiccups within the
\* retries allowed, REST is given up only when the whole window is over.
THEOREM BasPatience == ASSUME Bas!BaselineAssumption PROVE Bas!Spec => []Bas!PatientUnderHiccups
<1>1. BasIInv => Bas!PatientUnderHiccups
  BY DEF Bas!BaselineAssumption, BasIInv, Bas!TypeOK, BasRetryInv, Bas!PatientUnderHiccups
<1> QED
  BY <1>1, BasInvariance, PTL

\* Sessions are replaced before they are a chunk old, however long calls take.
THEOREM BasNoStaleSession == ASSUME Bas!BaselineAssumption PROVE Bas!Spec => []Bas!SessionsYoung
<1>1. BasIInv => Bas!SessionsYoung
  BY DEF Bas!BaselineAssumption, BasIInv, Bas!TypeOK, BasChunkInv, Bas!SessionsYoung
<1> QED
  BY <1>1, BasInvariance, PTL

\* The restore overruns its window by two calls at most.
THEOREM BasWindowBounded == ASSUME Bas!BaselineAssumption PROVE Bas!Spec => []Bas!WindowKept
<1>1. BasIInv => Bas!WindowKept
  BY DEF Bas!BaselineAssumption, BasIInv, Bas!TypeOK, BasChunkInv, BasWindowEnd, Bas!WindowKept
<1> QED
  BY <1>1, BasInvariance, PTL


-----------------------------------------------------------------------------
(***************************************************************************)
(* The report of a session.                                                *)
(***************************************************************************)
RepKinds == {"plain", "final", "strict"}

\* The registry runs from the end: no plain callback is before a strict one.
RepOrderInv ==
  /\ \A j, k \in DOMAIN repCallbacks : j < k /\ repCallbacks[k] = "strict" => repCallbacks[j] # "plain"
  /\ ~repOutOfOrder

\* An error that is not logged yet is one of the test that runs, or of the
\* session's last teardown after Ctrl-C.
RepRaisedInv ==
  /\ repPc = "late" => repInterrupted
  /\ repRaised # <<>> => repPc = "log" \/ (repInterrupted /\ repPc \in {"write", "done"})
  /\ repReport = "lost" => repInterrupted
  /\ repReport # "none" => repPc = "done"

RepListed(i) == (\E e \in repErrors : e.item = i) /\ repResults[i] # "passed"

\* A strict failure is on its way into the report: counted, then raised
\* alone or with others, then listed with its test.
RepStrictInv ==
  /\ \A i \in repStrictFailed : i <= repItem
  /\ repInterrupted => repPc \in {"late", "write", "done"}
  /\ repPc \in {"setup", "call"} => repItem \notin repStrictFailed
  /\ repPc \in {"setup", "call", "log"} => repStrictErrors = 0
  /\ repPc = "teardown" => (repItem \in repStrictFailed <=> repStrictErrors > 0)
  /\ repPc = "log" => (repItem \in repStrictFailed \ repTroubled => repRaised = <<"strict">>)
  /\ \A i \in repStrictFailed \ repTroubled :
       i < repItem \/ repPc \in {"write", "done"} => RepListed(i) \/ (repInterrupted /\ i = repItem)

RepIInv == Rep!TypeOK /\ RepOrderInv /\ RepRaisedInv /\ RepStrictInv

\* There is a first test, and every test but the last has a next one.
LEMMA RepFirstTest ==
  ASSUME Rep!ReportAssumption
  PROVE  1 \in Rep!Tests /\ \A i \in Rep!Tests : i \in Nat /\ (i < Items => i + 1 \in Rep!Tests)
<1>1. Items \in Nat \ {0}
  BY DEF Rep!ReportAssumption
<1> QED
  BY <1>1 DEF Rep!Tests

\* The start of a session satisfies the invariant.
LEMMA RepInitInv == ASSUME Rep!ReportAssumption PROVE Rep!Init => RepIInv
<1> SUFFICES ASSUME Rep!Init PROVE RepIInv
  OBVIOUS
<1>1. 1 \in Rep!Tests /\ <<>> \in Seq(RepKinds) /\ <<>> \in Seq({"strict", "other"}) /\ DOMAIN <<>> = {}
  <2>1. 1 \in Rep!Tests
    BY RepFirstTest
  <2>2. <<>> \in Seq(RepKinds) /\ <<>> \in Seq({"strict", "other"})
    BY EmptySeq
  <2>3. DOMAIN <<>> = {}
    OBVIOUS
  <2> QED
    BY <2>1, <2>2, <2>3
<1>2. Rep!TypeOK
  BY <1>1 DEF Rep!Init, Rep!TypeOK, RepKinds
<1> QED
  BY <1>1, <1>2 DEF Rep!Init, RepIInv, RepOrderInv, RepRaisedInv, RepStrictInv

\* Callbacks put at either end keep the order.
LEMMA RepRegistered ==
  ASSUME NEW q \in Seq(RepKinds),
         \A j, k \in DOMAIN q : j < k /\ q[k] = "strict" => q[j] # "plain",
         NEW r \in {Append(q, "plain"), <<"final">> \o q, <<"strict">> \o q}
  PROVE  /\ r \in Seq(RepKinds)
         /\ \A j, k \in DOMAIN r : j < k /\ r[k] = "strict" => r[j] # "plain"
<1> DEFINE n == Len(q)
<1>1. n \in Nat /\ DOMAIN q = 1 .. n
  BY LenProperties
<1>2. CASE r = Append(q, "plain")
  <2>1. /\ r \in Seq(RepKinds) /\ DOMAIN r = 1 .. n + 1 /\ r[n + 1] = "plain"
        /\ \A i \in 1 .. n : r[i] = q[i]
    BY <1>2, AppendProperties, LenProperties DEF RepKinds
  <2> HIDE DEF n
  <2> QED
    BY <1>1, <2>1
<1>3. ASSUME NEW x \in {"final", "strict"}, r = <<x>> \o q
      PROVE  /\ r \in Seq(RepKinds)
             /\ \A j, k \in DOMAIN r : j < k /\ r[k] = "strict" => r[j] # "plain"
  <2>1. <<x>> \in Seq(RepKinds) /\ Len(<<x>>) = 1 /\ <<x>>[1] = x
    BY DEF RepKinds
  <2>2. /\ r \in Seq(RepKinds) /\ DOMAIN r = 1 .. n + 1
        /\ \A i \in 1 .. n + 1 : r[i] = IF i <= 1 THEN <<x>>[i] ELSE q[i - 1]
    <3>1. r \in Seq(RepKinds) /\ Len(r) = 1 + n
      BY <1>3, <2>1, ConcatProperties
    <3>2. \A i \in 1 .. 1 + n : r[i] = IF i <= 1 THEN <<x>>[i] ELSE q[i - 1]
      BY <1>3, <2>1, ConcatProperties
    <3>3. DOMAIN r = 1 .. Len(r) /\ 1 + n = n + 1
      BY <1>1, <3>1, LenProperties
    <3> QED
      BY <3>1, <3>2, <3>3
  <2> HIDE DEF n
  <2>3. \A i \in 1 .. n + 1 : i = 1 \/ (i - 1 \in 1 .. n /\ ~(i <= 1))
    BY <1>1
  <2>4. r[1] = x /\ \A i \in 1 .. n + 1 : i # 1 => r[i] = q[i - 1]
    BY <1>1, <2>1, <2>2, <2>3
  <2>5. ASSUME NEW j \in 1 .. n + 1, NEW k \in 1 .. n + 1, j < k, r[k] = "strict"
        PROVE  r[j] # "plain"
    <3>1. CASE j = 1
      BY <2>4, <3>1
    <3>2. CASE j # 1
      <4>1. k # 1 /\ j - 1 < k - 1
        BY <1>1, <2>3, <2>5, <3>2
      <4> QED
        BY <1>1, <2>3, <2>4, <2>5, <3>2, <4>1
    <3> QED
      BY <3>1, <3>2
  <2> QED
    BY <2>2, <2>5
<1> QED
  BY <1>2, <1>3

\* The list without its last callback.
LEMMA RepPopped ==
  ASSUME NEW q \in Seq(RepKinds), q # <<>>
  PROVE  LET r == SubSeq(q, 1, Len(q) - 1) IN
         /\ r \in Seq(RepKinds) /\ DOMAIN r = 1 .. Len(q) - 1
         /\ \A i \in DOMAIN r : r[i] = q[i]
         /\ Len(q) \in Nat \ {0} /\ DOMAIN q = 1 .. Len(q)
<1> DEFINE n == Len(q) - 1
           r == SubSeq(q, 1, n)
<1>1. Len(q) \in Nat \ {0} /\ DOMAIN q = 1 .. Len(q)
  BY LenProperties, EmptySeq
<1>2. n \in Nat /\ n \in Int /\ 1 \in Int /\ \A i \in 1 .. n : q[i] \in RepKinds
  BY <1>1, ElementOfSeq
<1>3. /\ r \in Seq(RepKinds)
      /\ Len(r) = IF 1 <= n THEN n - 1 + 1 ELSE 0
      /\ \A i \in 1 .. n - 1 + 1 : r[i] = q[1 + i - 1]
  <2> HIDE DEF n
  <2> QED
    BY <1>2, SubSeqProperties
<1>4. DOMAIN r = 1 .. Len(r)
  BY <1>3, LenProperties
<1>5. Len(r) = n /\ \A i \in 1 .. n : r[i] = q[i]
  <2> HIDE DEF n
  <2>1. \A i \in 1 .. n : i \in 1 .. n - 1 + 1 /\ 1 + i - 1 = i
    BY <1>2
  <2>2. Len(r) = n
    BY <1>2, <1>3
  <2> QED
    BY <1>3, <2>1, <2>2
<1> QED
  BY <1>1, <1>3, <1>4, <1>5

\* What a teardown raises, of a strict failure and two finalisers.
LEMMA RepRaising ==
  ASSUME NEW s \in {<<>>, <<"strict">>}, NEW o \in {<<>>, <<"other">>}, NEW f \in {<<>>, <<"other">>},
         NEW r, r = s \o o \o f
  PROVE  /\ r \in Seq({"strict", "other"})
         /\ s # <<>> => r = <<"strict">> \/ Len(r) > 1
<1> DEFINE E == {"strict", "other"}
<1>1. s \in Seq(E) /\ o \in Seq(E) /\ f \in Seq(E)
  <2>1. <<>> \in Seq(E) /\ <<"strict">> \in Seq(E) /\ <<"other">> \in Seq(E)
    BY EmptySeq
  <2> HIDE DEF E
  <2>2. s \in Seq(E)
    BY <2>1
  <2>3. o \in Seq(E)
    BY <2>1
  <2>4. f \in Seq(E)
    BY <2>1
  <2> QED
    BY <2>2, <2>3, <2>4
<1>2. Len(s) \in {0, 1} /\ Len(o) \in {0, 1} /\ Len(f) \in {0, 1} /\ (s # <<>> => Len(s) = 1)
  BY EmptySeq
<1>3. s \o o \in Seq(E) /\ Len(s \o o) = Len(s) + Len(o)
  BY <1>1, ConcatProperties
<1>4. r \in Seq(E) /\ Len(r) = Len(s) + Len(o) + Len(f)
  BY <1>1, <1>3, ConcatProperties
<1>5. o = <<>> /\ f = <<>> => r = s
  BY <1>1, ConcatEmptySeq
<1>6. (o # <<>> => Len(o) = 1) /\ (f # <<>> => Len(f) = 1)
  OBVIOUS
<1>7. ASSUME s # <<>> PROVE r = <<"strict">> \/ Len(r) > 1
  <2>1. s = <<"strict">> /\ Len(s) = 1
    BY <1>2, <1>7
  <2>2. CASE o = <<>> /\ f = <<>>
    BY <1>5, <2>1, <2>2
  <2>3. CASE o # <<>> \/ f # <<>>
    <3>1. Len(r) = 1 + Len(o) + Len(f) /\ Len(o) \in Nat /\ Len(f) \in Nat
      BY <1>2, <1>4, <2>1
    <3> QED
      BY <1>6, <2>3, <3>1
  <2> QED
    BY <2>2, <2>3
<1> QED
  BY <1>4, <1>7

\* Every step of a session keeps the types.
LEMMA RepTypeStep == ASSUME Rep!ReportAssumption PROVE RepIInv /\ [Rep!Next]_(Rep!vars) => Rep!TypeOK'
<1> SUFFICES ASSUME RepIInv, [Rep!Next]_(Rep!vars) PROVE Rep!TypeOK'
  OBVIOUS
<1>t. Rep!TypeOK /\ repCallbacks \in Seq(RepKinds) /\ <<>> \in Seq(RepKinds) /\ <<>> \in Seq({"strict", "other"})
  BY EmptySeq DEF RepIInv, Rep!TypeOK, RepKinds
<1>n. repStrictErrors + 1 \in Nat
  <2>1. repStrictErrors \in Nat
    BY <1>t DEF Rep!TypeOK
  <2> QED
    BY <2>1
<1> USE <1>t DEF Rep!TypeOK, Rep!RecordResult, Rep!Outcomes, Rep!history, RepKinds
<1>1. CASE Rep!Setup \/ Rep!CallEnds
  BY <1>1 DEF Rep!Setup, Rep!CallEnds
<1>2. CASE Rep!Add \/ Rep!AddFinal \/ Rep!AddStrictFinal
  <2>1. repCallbacks' \in Seq(RepKinds)
    BY <1>2, RepRegistered DEF Rep!Add, Rep!AddFinal, Rep!AddStrictFinal, Rep!Register, RepIInv, RepOrderInv
  <2> QED
    BY <1>2, <2>1 DEF Rep!Add, Rep!AddFinal, Rep!AddStrictFinal, Rep!Register
<1>3. CASE Rep!RunCallback
  <2>1. repCallbacks' \in Seq(RepKinds)
    BY <1>3, RepPopped DEF Rep!RunCallback
  <2>2. repStrictErrors' \in Nat /\ repStrictFailed' \subseteq Rep!Tests
    <3>1. \/ repStrictErrors' = repStrictErrors /\ repStrictFailed' = repStrictFailed
          \/ repStrictErrors' = repStrictErrors + 1 /\ repStrictFailed' = repStrictFailed \union {repItem}
      BY <1>3 DEF Rep!RunCallback
    <3>2. repStrictErrors \in Nat /\ repStrictFailed \subseteq Rep!Tests /\ repItem \in Rep!Tests
      BY <1>t DEF Rep!TypeOK
    <3>3. repStrictErrors' \in Nat
      <4>1. repStrictErrors' = repStrictErrors \/ repStrictErrors' = repStrictErrors + 1
        BY <3>1, Zenon
      <4> QED
        BY <1>n, <3>2, <4>1, Zenon
    <3>4. repStrictFailed' \subseteq Rep!Tests
      BY <3>1, <3>2, Zenon
    <3> QED
      BY <3>3, <3>4
  <2>3. repOutOfOrder' \in BOOLEAN /\ UNCHANGED <<repPc, repItem, repRaised, repResults, repErrors, repInterrupted, repReport, repPools, repTroubled>>
    BY <1>3 DEF Rep!RunCallback
  <2> QED
    BY <2>1, <2>2, <2>3
<1>4. CASE Rep!Finalise
  <2>1. repRaised' \in Seq({"strict", "other"})
    BY <1>4, RepRaising DEF Rep!Finalise
  <2> QED
    BY <1>4, <2>1 DEF Rep!Finalise
<1>5. CASE Rep!LogTeardown
  <2>1. repItem' \in Rep!Tests /\ repPc' \in {"setup", "write"}
    BY <1>5, RepFirstTest DEF Rep!LogTeardown
  <2>2. repErrors' \subseteq [item : Rep!Tests, strict : BOOLEAN]
    <3>1. \E b \in BOOLEAN : repErrors' \subseteq repErrors \union {[item |-> repItem, strict |-> b]}
      BY <1>5, Rep!IsStrict \in BOOLEAN DEF Rep!LogTeardown, Rep!IsStrict
    <3>2. PICK b \in BOOLEAN : repErrors' \subseteq repErrors \union {[item |-> repItem, strict |-> b]}
      BY <3>1, Zenon
    <3>3. [item |-> repItem, strict |-> b] \in [item : Rep!Tests, strict : BOOLEAN]
      OBVIOUS
    <3>4. repErrors \subseteq [item : Rep!Tests, strict : BOOLEAN]
      OBVIOUS
    <3> QED
      BY <3>2, <3>3, <3>4, Zenon
  <2> QED
    BY <1>5, <2>1, <2>2 DEF Rep!LogTeardown
<1>6. CASE Rep!Interrupt
  BY <1>6 DEF Rep!Interrupt
<1>7. CASE Rep!SessionFinish
  BY <1>7 DEF Rep!SessionFinish
<1>8. CASE UNCHANGED Rep!vars
  BY <1>8 DEF Rep!vars
<1> QED
  BY <1>1, <1>2, <1>3, <1>4, <1>5, <1>6, <1>7, <1>8 DEF Rep!Next

\* Every step keeps the order of the callbacks and of the errors.
LEMMA RepOrderStep == RepIInv /\ [Rep!Next]_(Rep!vars) => RepOrderInv' /\ RepRaisedInv'
<1> SUFFICES ASSUME RepIInv, [Rep!Next]_(Rep!vars) PROVE RepOrderInv' /\ RepRaisedInv'
  OBVIOUS
<1>t. repCallbacks \in Seq(RepKinds) /\ RepOrderInv /\ RepRaisedInv /\ DOMAIN <<>> = {}
  <2>1. DOMAIN <<>> = {}
    OBVIOUS
  <2> QED
    BY <2>1 DEF RepIInv, Rep!TypeOK, RepKinds
<1> USE DEF Rep!history
<1>1. CASE Rep!Setup \/ Rep!CallEnds
  BY <1>1, <1>t DEF Rep!Setup, Rep!CallEnds, RepOrderInv, RepRaisedInv
<1>2. CASE Rep!Add \/ Rep!AddFinal \/ Rep!AddStrictFinal
  <2>1. \A j, k \in DOMAIN repCallbacks' : j < k /\ repCallbacks'[k] = "strict" => repCallbacks'[j] # "plain"
    BY <1>2, <1>t, RepRegistered DEF Rep!Add, Rep!AddFinal, Rep!AddStrictFinal, Rep!Register, RepOrderInv
  <2> QED
    BY <1>2, <1>t, <2>1 DEF Rep!Add, Rep!AddFinal, Rep!AddStrictFinal, Rep!Register, RepOrderInv, RepRaisedInv
<1>3. CASE Rep!RunCallback
  <2> DEFINE last == repCallbacks[Len(repCallbacks)]
             rest == SubSeq(repCallbacks, 1, Len(repCallbacks) - 1)
  <2>1. /\ repCallbacks # <<>> /\ repCallbacks' = rest
        /\ repOutOfOrder' = (repOutOfOrder \/ (last = "strict" /\ \E k \in DOMAIN rest : rest[k] = "plain"))
        /\ UNCHANGED <<repPc, repRaised, repInterrupted, repReport>>
    BY <1>3 DEF Rep!RunCallback
  <2>2. /\ DOMAIN rest = 1 .. Len(repCallbacks) - 1 /\ \A i \in DOMAIN rest : rest[i] = repCallbacks[i]
        /\ Len(repCallbacks) \in Nat \ {0} /\ DOMAIN repCallbacks = 1 .. Len(repCallbacks)
    BY <1>t, <2>1, RepPopped
  <2> HIDE DEF rest
  <2>3. ASSUME NEW i \in DOMAIN rest
        PROVE  i \in DOMAIN repCallbacks /\ Len(repCallbacks) \in DOMAIN repCallbacks /\ i < Len(repCallbacks)
    BY <2>2
  <2>4. ~repOutOfOrder'
    BY <1>t, <2>1, <2>2, <2>3 DEF RepOrderInv
  <2>5. \A j, k \in DOMAIN repCallbacks' : j < k /\ repCallbacks'[k] = "strict" => repCallbacks'[j] # "plain"
    BY <1>t, <2>1, <2>2, <2>3 DEF RepOrderInv
  <2> QED
    BY <1>t, <2>1, <2>4, <2>5 DEF RepOrderInv, RepRaisedInv
<1>4. CASE Rep!Finalise
  BY <1>4, <1>t DEF Rep!Finalise, RepOrderInv, RepRaisedInv
<1>5. CASE Rep!LogTeardown
  BY <1>5, <1>t DEF Rep!LogTeardown, RepOrderInv, RepRaisedInv
<1>6. CASE Rep!Interrupt
  BY <1>6, <1>t DEF Rep!Interrupt, RepOrderInv, RepRaisedInv
<1>7. CASE Rep!SessionFinish
  BY <1>7, <1>t DEF Rep!SessionFinish, RepOrderInv, RepRaisedInv
<1>8. CASE UNCHANGED Rep!vars
  BY <1>8, <1>t DEF Rep!vars, RepOrderInv, RepRaisedInv
<1> QED
  BY <1>1, <1>2, <1>3, <1>4, <1>5, <1>6, <1>7, <1>8 DEF Rep!Next

\* Every step brings a strict failure nearer to the report, or leaves it there.
LEMMA RepStrictStep == ASSUME Rep!ReportAssumption PROVE RepIInv /\ [Rep!Next]_(Rep!vars) => RepStrictInv'
<1> SUFFICES ASSUME RepIInv, [Rep!Next]_(Rep!vars) PROVE RepStrictInv'
  OBVIOUS
<1>t. /\ RepStrictInv /\ repItem \in Rep!Tests /\ repStrictErrors \in Nat /\ (repPc = "late" => repInterrupted)
      /\ repStrictFailed \subseteq Rep!Tests /\ repItem \in Nat /\ (repItem < Items => repItem + 1 \in Rep!Tests)
      /\ \A i \in repStrictFailed : i \in Nat
  BY RepFirstTest DEF RepIInv, Rep!TypeOK, RepRaisedInv
<1>r. repResults \in [Rep!Tests -> Rep!Outcomes \union {""}]
  BY DEF RepIInv, Rep!TypeOK
<1> USE DEF Rep!history
<1>1. CASE Rep!Setup \/ Rep!CallEnds
  <2>1. /\ repPc \in {"setup", "call"} /\ repPc' \in {"call", "teardown"}
        /\ UNCHANGED <<repItem, repStrictErrors, repErrors, repInterrupted, repStrictFailed, repTroubled>>
    BY <1>1 DEF Rep!Setup, Rep!CallEnds
  <2>2. \A i \in Rep!Tests : i # repItem => repResults'[i] = repResults[i]
    BY <1>1, <1>r DEF Rep!Setup, Rep!CallEnds, Rep!RecordResult
  <2>3. \A i \in Rep!Tests : i # repItem /\ RepListed(i) => RepListed(i)'
    BY <2>1, <2>2 DEF RepListed
  <2> QED
    BY <1>t, <2>1, <2>3 DEF RepStrictInv
<1>2. CASE Rep!Add \/ Rep!AddFinal \/ Rep!AddStrictFinal
  <2>1. UNCHANGED <<repPc, repItem, repStrictErrors, repRaised, repResults, repErrors, repInterrupted, repStrictFailed, repTroubled>>
    BY <1>2 DEF Rep!Add, Rep!AddFinal, Rep!AddStrictFinal, Rep!Register
  <2> QED
    BY <1>t, <2>1 DEF RepStrictInv, RepListed
<1>3. CASE Rep!RunCallback
  <2>1. /\ repPc \in {"teardown", "late"}
        /\ UNCHANGED <<repPc, repItem, repRaised, repResults, repErrors, repInterrupted, repTroubled>>
    BY <1>3 DEF Rep!RunCallback
  <2>2. \/ repStrictErrors' = repStrictErrors /\ repStrictFailed' = repStrictFailed
        \/ repStrictErrors' = repStrictErrors + 1 /\ repStrictFailed' = repStrictFailed \union {repItem}
    BY <1>3 DEF Rep!RunCallback
  <2>3. \A i : RepListed(i)' <=> RepListed(i)
    BY <2>1 DEF RepListed
  <2>4. CASE repStrictErrors' = repStrictErrors /\ repStrictFailed' = repStrictFailed
    BY <1>t, <2>1, <2>3, <2>4 DEF RepStrictInv
  <2>5. CASE repStrictErrors' = repStrictErrors + 1 /\ repStrictFailed' = repStrictFailed \union {repItem}
    <3>1. repStrictErrors' > 0 /\ repItem <= repItem /\ ~(repItem < repItem)
      BY <1>t, <2>5
    <3> QED
      BY <1>t, <2>1, <2>3, <2>5, <3>1 DEF RepStrictInv
  <2> QED
    BY <2>2, <2>4, <2>5
<1>4. CASE Rep!Finalise
  <2>1. /\ repPc \in {"teardown", "late"} /\ repStrictErrors' = 0
        /\ repPc' = IF repPc = "late" THEN "write" ELSE "log"
        /\ repTroubled' = IF Len(repRaised') > 1 THEN repTroubled \union {repItem} ELSE repTroubled
        /\ UNCHANGED <<repItem, repResults, repErrors, repInterrupted, repStrictFailed>>
    BY <1>4 DEF Rep!Finalise
  <2>2. repStrictErrors > 0 => repRaised' = <<"strict">> \/ Len(repRaised') > 1
    <3>1. PICK o, f \in {<<>>, <<"other">>} :
            repRaised' = (IF repStrictErrors > 0 THEN <<"strict">> ELSE <<>>) \o o \o f
      BY <1>4 DEF Rep!Finalise
    <3> QED
      BY <3>1, RepRaising
  <2>3. \A i : RepListed(i)' <=> RepListed(i)
    BY <2>1 DEF RepListed
  <2>4. repTroubled \subseteq repTroubled' /\ (Len(repRaised') > 1 => repItem \in repTroubled')
    BY <2>1
  <2>5. CASE repPc = "teardown"
    BY <1>t, <2>1, <2>2, <2>3, <2>4, <2>5 DEF RepStrictInv
  <2>6. CASE repPc = "late"
    <3>1. \A i \in repStrictFailed : i < repItem \/ i = repItem
      BY <1>t DEF RepStrictInv
    <3> QED
      BY <1>t, <2>1, <2>3, <2>4, <2>6, <3>1 DEF RepStrictInv
  <2> QED
    BY <2>1, <2>5, <2>6
<1>5. CASE Rep!LogTeardown
  <2>1. /\ repPc = "log" /\ repStrictErrors' = 0 /\ ~repInterrupted /\ repErrors \subseteq repErrors'
        /\ UNCHANGED <<repInterrupted, repStrictFailed, repTroubled>>
        /\ \/ repItem < Items /\ repItem' = repItem + 1 /\ repPc' = "setup"
           \/ ~(repItem < Items) /\ repItem' = repItem /\ repPc' = "write"
    BY <1>5, <1>t DEF Rep!LogTeardown, RepStrictInv
  <2>2. \A i \in Rep!Tests : repResults[i] # "passed" => repResults'[i] # "passed"
    BY <1>5, <1>r DEF Rep!LogTeardown
  <2>3. ASSUME NEW i \in repStrictFailed \ repTroubled, i = repItem PROVE RepListed(i)'
    <3>1. repRaised = <<"strict">> /\ repRaised # <<>>
      BY <1>t, <2>1, <2>3 DEF RepStrictInv
    <3>2. \E e \in repErrors' : e.item = i
      <4>1. repErrors' = repErrors \union {[item |-> repItem, strict |-> Rep!IsStrict]}
        BY <1>5, <3>1 DEF Rep!LogTeardown
      <4>2. [item |-> repItem, strict |-> Rep!IsStrict] \in repErrors'
        BY <4>1, Zenon
      <4>3. [item |-> repItem, strict |-> Rep!IsStrict].item = i
        BY <2>3
      <4> QED
        BY <4>2, <4>3, Zenon
    <3>3. repResults'[i] # "passed"
      BY <1>5, <1>r, <1>t, <2>3, <3>1 DEF Rep!LogTeardown, Rep!IsStrict
    <3> QED
      BY <3>2, <3>3 DEF RepListed
  <2>4. \A i \in repStrictFailed \ repTroubled : RepListed(i)'
    <3> SUFFICES ASSUME NEW i \in repStrictFailed \ repTroubled, i # repItem PROVE RepListed(i)'
      BY <2>3
    <3>1. RepListed(i) /\ i \in Rep!Tests
      BY <1>t, <2>1 DEF RepStrictInv
    <3> QED
      BY <2>1, <2>2, <3>1 DEF RepListed
  <2>5. \A i \in repStrictFailed : i <= repItem' /\ (repItem < Items => i # repItem')
    BY <1>t, <2>1 DEF RepStrictInv
  <2> QED
    BY <1>t, <2>1, <2>4, <2>5 DEF RepStrictInv
<1>6. CASE Rep!Interrupt
  <2>1. /\ repPc \in {"setup", "call", "teardown"} /\ repPc' = "late" /\ repStrictErrors' = 0
        /\ UNCHANGED <<repItem, repResults, repErrors, repStrictFailed, repTroubled>>
    BY <1>6 DEF Rep!Interrupt
  <2>2. ~repInterrupted
    BY <1>6 DEF Rep!Interrupt
  <2>3. \A i : RepListed(i)' <=> RepListed(i)
    BY <2>1 DEF RepListed
  <2> QED
    BY <1>t, <2>1, <2>2, <2>3 DEF RepStrictInv
<1>7. CASE Rep!SessionFinish
  <2>1. /\ repPc = "write" /\ repPc' = "done"
        /\ UNCHANGED <<repItem, repStrictErrors, repRaised, repResults, repErrors, repInterrupted, repStrictFailed, repTroubled>>
    BY <1>7 DEF Rep!SessionFinish
  <2> QED
    BY <1>t, <2>1 DEF RepStrictInv, RepListed
<1>8. CASE UNCHANGED Rep!vars
  BY <1>8, <1>t DEF Rep!vars, RepStrictInv, RepListed
<1> QED
  BY <1>1, <1>2, <1>3, <1>4, <1>5, <1>6, <1>7, <1>8 DEF Rep!Next

\* The invariant of a session's report.
THEOREM RepInvariance == ASSUME Rep!ReportAssumption PROVE Rep!Spec => []RepIInv
<1>1. RepIInv /\ [Rep!Next]_(Rep!vars) => RepIInv'
  BY RepTypeStep, RepOrderStep, RepStrictStep DEF RepIInv
<1> QED
  BY RepInitInv, <1>1, PTL DEF Rep!Spec

\* Type correctness of Report.
THEOREM RepTypeCorrect == ASSUME Rep!ReportAssumption PROVE Rep!Spec => []Rep!TypeOK
<1>1. RepIInv => Rep!TypeOK
  BY DEF RepIInv
<1> QED
  BY RepInvariance, <1>1, PTL

\* The baseline of the device is restored after every ordinary clean-up of the
\* test, however many callbacks it registers in whatever order.
THEOREM RepRestoreOrder == ASSUME Rep!ReportAssumption PROVE Rep!Spec => []Rep!RestoreAfterCleanups
<1>1. RepIInv => Rep!RestoreAfterCleanups
  BY DEF RepIInv, RepOrderInv, Rep!RestoreAfterCleanups
<1> QED
  BY RepInvariance, <1>1, PTL

\* Only a run that was stopped with Ctrl-C can end without its report hook.
THEOREM RepLostReport == ASSUME Rep!ReportAssumption PROVE Rep!Spec => []Rep!LostOnlyWhenTornDownLate
<1>1. RepIInv => Rep!LostOnlyWhenTornDownLate
  BY DEF RepIInv, RepRaisedInv, Rep!LostOnlyWhenTornDownLate
<1> QED
  BY RepInvariance, <1>1, PTL

\* A test whose strict restore failed alone is listed in what is reported.
LEMMA RepLoneShown == ASSUME RepIInv PROVE Rep!LoneStrictFailureShown
<1> SUFFICES ASSUME Rep!Written, NEW i \in repStrictFailed \ repTroubled, ~(repInterrupted /\ i = repItem)
             PROVE  /\ \E e \in repErrors : e.item = i
                    /\ repResults[i] # "passed"
                    /\ \A c \in CaseOf[i] : i \in Rep!Members(c) => Rep!CaseOutcome(c) # "passed"
  BY DEF Rep!LoneStrictFailureShown
<1>1. RepListed(i) /\ i \in Rep!Tests
  BY DEF RepIInv, Rep!TypeOK, RepRaisedInv, RepStrictInv, Rep!Written
<1>2. ASSUME NEW c \in CaseOf[i], i \in Rep!Members(c) PROVE Rep!CaseOutcome(c) # "passed"
  <2> DEFINE S == {repResults[j] : j \in Rep!Members(c)}
  <2>1. repResults[i] \in S /\ repResults[i] \in {"failed", "blocked", "skipped"}
    BY <1>1, <1>2 DEF RepIInv, Rep!TypeOK, Rep!Outcomes, RepListed, Rep!Members, Rep!Reported, Rep!Missing
  <2> HIDE DEF S
  <2>2. Rep!Combine(S) # "passed"
    BY <2>1 DEF Rep!Combine
  <2> QED
    BY <2>2 DEF Rep!CaseOutcome, S
<1> QED
  BY <1>1, <1>2 DEF RepListed

\* A test whose strict restore failed alone is listed in the written report,
\* and no line it belongs to is Pass.
THEOREM RepLoneStrictShown == ASSUME Rep!ReportAssumption PROVE Rep!Spec => []Rep!LoneStrictFailureShown
<1>1. RepIInv => Rep!LoneStrictFailureShown
  BY RepLoneShown
<1> QED
  BY RepInvariance, <1>1, PTL

\* A failed or blocked test with a case id makes a line of the report failed or blocked.
LEMMA RepGreenShown == Rep!GreenReportIsGreen
<1> SUFFICES ASSUME Rep!OverallStatus = "passed", NEW i \in Rep!Tests, NEW c \in CaseOf[i],
                    repResults[i] \in {"failed", "blocked"}
             PROVE  FALSE
  BY DEF Rep!GreenReportIsGreen
<1>1. i \in Rep!Reported
  BY DEF Rep!Reported, Rep!Missing
<1>2. "failed" \notin Rep!Lines /\ "blocked" \notin Rep!Lines
  BY DEF Rep!OverallStatus
<1>3. CASE Role[i] = "" \/ c \notin Rep!PlainCases
  <2> DEFINE S == {repResults[j] : j \in Rep!Members(c)}
  <2>1. i \in Rep!Members(c)
    BY <1>1, <1>3 DEF Rep!Members
  <2>2. c \in Rep!CaseLines
    BY <2>1 DEF Rep!CaseLines, Rep!Cases
  <2>3. repResults[i] \in S
    BY <2>1
  <2> HIDE DEF S
  <2>4. Rep!Combine(S) \in {"failed", "blocked"}
    BY <2>3 DEF Rep!Combine
  <2>5. Rep!Combine(S) \in Rep!Lines
    BY <2>2 DEF Rep!Lines, Rep!CaseOutcome, S
  <2> QED
    BY <1>2, <2>4, <2>5
<1>4. CASE Role[i] # ""
  <2> DEFINE S == {repResults[j] : j \in {k \in Rep!Reported : Role[k] = Role[i]}}
  <2>1. repResults[i] \in S /\ Role[i] \in Rep!RoleLines
    BY <1>1, <1>4 DEF Rep!RoleLines
  <2> HIDE DEF S
  <2>2. Rep!CombinePermission(S) \in {"failed", "blocked"}
    BY <2>1 DEF Rep!CombinePermission
  <2>3. Rep!CombinePermission(S) \in Rep!Lines
    BY <2>1 DEF Rep!Lines, Rep!RoleOutcome, S
  <2> QED
    BY <1>2, <2>2, <2>3
<1> QED
  BY <1>3, <1>4

\* No failed or blocked test with a case id hides behind a green status,
\* however the tests share case ids and roles.
THEOREM RepGreenIsGreen == ASSUME Rep!ReportAssumption PROVE Rep!Spec => []Rep!GreenReportIsGreen
  BY RepGreenShown, PTL

\* What "Complete" says.
LEMMA RepCompleteShown == Rep!CompleteMeansAll
  BY DEF Rep!CompleteMeansAll, Rep!CompletenessText, Rep!Missing

\* A complete report is one of a run that nobody stopped and that has a result of every test.
THEOREM RepCompleteIsAll == ASSUME Rep!ReportAssumption PROVE Rep!Spec => []Rep!CompleteMeansAll
  BY RepCompleteShown, PTL

\* What a session's report promises.
LEMMA RepPromises ==
  ASSUME Rep!ReportAssumption
  PROVE  RepIInv => Rep!LoneStrictFailureShown /\ Rep!CompleteMeansAll /\ Rep!GreenReportIsGreen /\ Rep!LostOnlyWhenTornDownLate
  BY RepLoneShown, RepCompleteShown, RepGreenShown DEF RepIInv, RepRaisedInv, Rep!LostOnlyWhenTornDownLate


-----------------------------------------------------------------------------
(***************************************************************************)
(* The authorisation tests.                                                *)
(***************************************************************************)
\* The profile of a summary: what the account may handle, or what is protected from it.
AutSubject(r) == IF r = "readwrite" THEN "new" ELSE "kept"

\* The calls there are.
AutCalls(r) ==
  {c \in [do : {"read", "create", "patch", "delete", "change", "try", "note", "absent", "unchanged", "drop"},
          x : {"inventory", "alarms", "ge", "ont", "remote", "new", "kept"},
          expect : {"allowed", "observed", "no_data", "rejected"}] :
     /\ c.do = "change" => c.x \in {"ont", "ge"}
     /\ c.do \in {"try", "patch", "delete", "drop"} => c.x = AutSubject(r)
     /\ c.do = "create" => c.x \in {"new", AutSubject(r)}
     /\ c.do \in {"note", "unchanged"} => r # "readwrite" /\ c.x = "kept"
     /\ c.do = "absent" => r # "readwrite" /\ c.x = "new"
     /\ c.expect = "no_data" => c.do = "read"
     /\ c.expect = "rejected" => c.do \in Aut!Requests}

\* What must come after a call: a look after a request that must be refused,
\* the removal after a creation.
AutNeeds(r, c) ==
  IF c.do = "create"
  THEN IF c.x # AutSubject(r) THEN {"absent"} ELSE IF r = "readwrite" THEN {"drop"} ELSE {"note", "drop"}
  ELSE IF c.do = "try" THEN {"drop"}
  ELSE IF c.do \in {"patch", "delete"} /\ r # "readwrite" THEN {"unchanged"} ELSE {}

AutHas(s, d) == \E i \in DOMAIN s : s[i].do = d

AutShape(r, s) ==
  /\ s \in Seq(AutCalls(r))
  /\ \A i \in DOMAIN s : \A d \in AutNeeds(r, s[i]) : \E j \in DOMAIN s : i < j /\ s[j].do = d
  /\ \A i, j \in DOMAIN s : i < j /\ s[i].do = "drop" => s[j].do = "read"
  /\ \A i, j \in DOMAIN s : i < j /\ s[j].do = "note" => s[i].do \notin {"patch", "delete"}

AutForm ==
  /\ autRole \in Roles /\ AutShape(autRole, autOps)
  /\ autTried => AutHas(autOps, "drop")
  /\ {autTried, autFailed, autIgnored, autUnseen} \subseteq BOOLEAN

AutContents == {"none", "post", "patched"}
AutWorld == autBefore \in AutContents /\ autProf \in [{"new", "kept"} -> AutContents] /\ autServices \subseteq {"ont", "ge"}

\* What a restricted account has changed the observer will still see, or has
\* taken for absent.
AutWatched ==
  autRole # "readwrite" /\ ~autFailed =>
    /\ autProf["new"] # "none" => AutHas(autOps, "absent") \/ autUnseen
    /\ AutHas(autOps, "note") => autProf["kept"] \in {"none", "post"}
    /\ ~AutHas(autOps, "note") => autBefore = "post"
    /\ AutHas(autOps, "drop") /\ ~AutHas(autOps, "note") /\ autProf["kept"] # "post" => AutHas(autOps, "unchanged")

\* The profile of a summary is still to be removed, unless its removal was refused.
AutRemoved ==
  ~autFailed =>
    /\ autRole = "readwrite" => autProf["kept"] = "none"
    /\ autProf[AutSubject(autRole)] # "none" => AutHas(autOps, "drop") \/ autIgnored

AutIInv == AutForm /\ AutWorld /\ AutWatched /\ AutRemoved

LEMMA AutPlaces ==
  ASSUME NEW S, NEW a \in Seq(S), NEW b \in Seq(S)
  PROVE  /\ a \o b \in Seq(S)
         /\ \A i \in DOMAIN a : i \in DOMAIN (a \o b) /\ (a \o b)[i] = a[i]
         /\ \A j \in DOMAIN b : Len(a) + j \in DOMAIN (a \o b) /\ (a \o b)[Len(a) + j] = b[j]
         /\ \A i \in DOMAIN (a \o b) : i \in DOMAIN a \/ \E j \in DOMAIN b : i = Len(a) + j
         /\ Len(a) \in Nat /\ DOMAIN a = 1..Len(a) /\ Len(b) \in Nat /\ DOMAIN b = 1..Len(b)
<1>1. Len(a) \in Nat /\ DOMAIN a = 1..Len(a)
  BY LenProperties
<1>2. Len(b) \in Nat /\ DOMAIN b = 1..Len(b)
  BY LenProperties
<1>3. a \o b \in Seq(S) /\ Len(a \o b) = Len(a) + Len(b)
  BY ConcatProperties
<1>4. DOMAIN (a \o b) = 1..(Len(a) + Len(b))
  BY <1>3, LenProperties
<1>5. \A i \in 1..(Len(a) + Len(b)) : (a \o b)[i] = IF i <= Len(a) THEN a[i] ELSE b[i - Len(a)]
  BY ConcatProperties
<1> DEFINE la == Len(a)
           lb == Len(b)
           s  == a \o b
<1>6. la \in Nat /\ lb \in Nat /\ DOMAIN a = 1..la /\ DOMAIN b = 1..lb /\ DOMAIN s = 1..(la + lb)
      /\ \A i \in 1..(la + lb) : s[i] = IF i <= la THEN a[i] ELSE b[i - la]
  BY <1>1, <1>2, <1>4, <1>5
<1> HIDE DEF la, lb, s
<1>7. \A i \in DOMAIN a : i \in DOMAIN s /\ s[i] = a[i]
  BY <1>6
<1>8. \A j \in DOMAIN b : la + j \in DOMAIN s /\ s[la + j] = b[j]
  BY <1>6
<1>9. \A i \in DOMAIN s : i \in DOMAIN a \/ \E j \in DOMAIN b : i = la + j
  <2> SUFFICES ASSUME NEW i \in 1..(la + lb), i \notin 1..la PROVE \E j \in 1..lb : i = la + j
    BY <1>6
  <2>1. i - la \in 1..lb /\ i = la + (i - la)
    BY <1>6
  <2> QED
    BY <2>1
<1> QED
  BY <1>1, <1>2, <1>3, <1>7, <1>8, <1>9 DEF la, s

\* Calls put in front of others, whose needs are met among them or behind.
LEMMA AutJoined ==
  ASSUME NEW r, NEW a \in Seq(AutCalls(r)), NEW b, AutShape(r, b),
         \A i \in DOMAIN a : \A d \in AutNeeds(r, a[i]) : AutHas(b, d) \/ \E j \in DOMAIN a : i < j /\ a[j].do = d,
         \A i \in DOMAIN a : a[i].do # "drop",
         \A i, j \in DOMAIN a : i < j /\ a[j].do = "note" => a[i].do \notin {"patch", "delete"},
         AutHas(b, "note") => \A i \in DOMAIN a : a[i].do \notin {"patch", "delete"}
  PROVE  AutShape(r, a \o b) /\ \A d : AutHas(a \o b, d) <=> AutHas(a, d) \/ AutHas(b, d)
<1> DEFINE s == a \o b
           n == Len(a)
<1>1. /\ s \in Seq(AutCalls(r))
      /\ \A i \in DOMAIN a : i \in DOMAIN s /\ s[i] = a[i]
      /\ \A j \in DOMAIN b : n + j \in DOMAIN s /\ s[n + j] = b[j]
      /\ \A i \in DOMAIN s : i \in DOMAIN a \/ \E j \in DOMAIN b : i = n + j
      /\ n \in Nat /\ (\A i \in DOMAIN a : i \in Nat /\ i <= n) /\ (\A j \in DOMAIN b : j \in Nat /\ j > 0)
  BY AutPlaces DEF AutShape
<1> HIDE DEF s, n
<1>2. \A i \in DOMAIN s : \A d \in AutNeeds(r, s[i]) : \E j \in DOMAIN s : i < j /\ s[j].do = d
  <2> SUFFICES ASSUME NEW i \in DOMAIN s, NEW d \in AutNeeds(r, s[i]) PROVE \E j \in DOMAIN s : i < j /\ s[j].do = d
    OBVIOUS
  <2>1. CASE i \in DOMAIN a
    <3>1. d \in AutNeeds(r, a[i])
      BY <2>1, <1>1
    <3>2. CASE \E j \in DOMAIN a : i < j /\ a[j].do = d
      BY <3>2, <1>1
    <3>3. CASE AutHas(b, d)
      <4>1. PICK j \in DOMAIN b : b[j].do = d
        BY <3>3 DEF AutHas
      <4>2. n + j \in DOMAIN s /\ s[n + j].do = d /\ i < n + j
        BY <4>1, <2>1, <1>1
      <4> QED
        BY <4>2
    <3> QED
      BY <3>1, <3>2, <3>3, <2>1
  <2>2. CASE \E j \in DOMAIN b : i = n + j
    <3>1. PICK j \in DOMAIN b : i = n + j
      BY <2>2
    <3>2. d \in AutNeeds(r, b[j])
      BY <3>1, <1>1
    <3>3. PICK k \in DOMAIN b : j < k /\ b[k].do = d
      BY <3>2 DEF AutShape
    <3>4. n + k \in DOMAIN s /\ s[n + k].do = d /\ i < n + k
      BY <3>1, <3>3, <1>1
    <3> QED
      BY <3>4
  <2> QED
    BY <2>1, <2>2, <1>1
<1>3. ASSUME NEW i \in DOMAIN s, NEW j \in DOMAIN s, i < j
      PROVE  /\ s[i].do = "drop" => s[j].do = "read"
             /\ s[j].do = "note" => s[i].do \notin {"patch", "delete"}
  <2>1. CASE j \in DOMAIN a
    <3>1. i \in DOMAIN a
      BY <2>1, <1>1, <1>3
    <3> QED
      BY <2>1, <3>1, <1>1, <1>3
  <2>2. CASE j \notin DOMAIN a /\ i \in DOMAIN a
    <3>1. PICK l \in DOMAIN b : j = n + l
      BY <2>2, <1>1
    <3>2. s[j].do = "note" => AutHas(b, "note")
      BY <3>1, <1>1 DEF AutHas
    <3> QED
      BY <2>2, <3>2, <1>1
  <2>3. CASE j \notin DOMAIN a /\ i \notin DOMAIN a
    <3>1. PICK k \in DOMAIN b, l \in DOMAIN b : i = n + k /\ j = n + l
      BY <2>3, <1>1
    <3>2. k < l /\ s[i] = b[k] /\ s[j] = b[l]
      BY <3>1, <1>1, <1>3
    <3> QED
      BY <3>2 DEF AutShape
  <2> QED
    BY <2>1, <2>2, <2>3
<1>4. AutShape(r, s)
  BY <1>1, <1>2, <1>3 DEF AutShape
<1>5. \A d : AutHas(s, d) <=> AutHas(a, d) \/ AutHas(b, d)
  BY <1>1 DEF AutHas
<1> QED
  BY <1>4, <1>5 DEF s

\* Reads put behind everything.
LEMMA AutReadLater ==
  ASSUME NEW r, NEW a, AutShape(r, a), NEW b \in Seq(AutCalls(r)), \A i \in DOMAIN b : b[i].do = "read"
  PROVE  AutShape(r, a \o b)
<1> DEFINE s == a \o b
           n == Len(a)
<1>1. /\ s \in Seq(AutCalls(r))
      /\ \A i \in DOMAIN a : i \in DOMAIN s /\ s[i] = a[i]
      /\ \A j \in DOMAIN b : n + j \in DOMAIN s /\ s[n + j] = b[j]
      /\ \A i \in DOMAIN s : i \in DOMAIN a \/ \E j \in DOMAIN b : i = n + j
      /\ n \in Nat /\ (\A i \in DOMAIN a : i \in Nat /\ i <= n) /\ (\A j \in DOMAIN b : j \in Nat /\ j > 0)
  BY AutPlaces DEF AutShape
<1> HIDE DEF s, n
<1>2. \A i \in DOMAIN s : i \notin DOMAIN a => s[i].do = "read"
  BY <1>1
<1>3. ASSUME NEW i \in DOMAIN s, NEW d \in AutNeeds(r, s[i]) PROVE \E j \in DOMAIN s : i < j /\ s[j].do = d
  <2>1. i \in DOMAIN a
    BY <1>2, <1>3 DEF AutNeeds
  <2>2. d \in AutNeeds(r, a[i])
    BY <2>1, <1>1
  <2> QED
    BY <2>1, <2>2, <1>1 DEF AutShape
<1>4. ASSUME NEW i \in DOMAIN s, NEW j \in DOMAIN s, i < j
      PROVE  /\ s[i].do = "drop" => s[j].do = "read"
             /\ s[j].do = "note" => s[i].do \notin {"patch", "delete"}
  <2>1. CASE j \in DOMAIN a
    <3>1. i \in DOMAIN a /\ s[i] = a[i] /\ s[j] = a[j]
      BY <2>1, <1>1, <1>4
    <3> QED
      BY <2>1, <3>1, <1>4 DEF AutShape
  <2>2. CASE j \notin DOMAIN a
    BY <2>2, <1>2
  <2> QED
    BY <2>1, <2>2
<1>5. AutShape(r, s)
  BY <1>1, <1>3, <1>4 DEF AutShape
<1> QED
  BY <1>5 DEF s

\* The rest of a well-formed sequence of calls is one.
LEMMA AutRest ==
  ASSUME NEW r, NEW s, AutShape(r, s), s # <<>>
  PROVE  /\ AutShape(r, Tail(s)) /\ Head(s) \in AutCalls(r)
         /\ \A d : AutHas(s, d) <=> Head(s).do = d \/ AutHas(Tail(s), d)
         /\ \A d \in AutNeeds(r, Head(s)) : AutHas(Tail(s), d)
         /\ Head(s).do = "drop" => \A d : AutHas(Tail(s), d) => d = "read"
         /\ AutHas(Tail(s), "note") => Head(s).do \notin {"patch", "delete"}
<1> DEFINE t == Tail(s)
           n == Len(s)
<1>1. /\ s \in Seq(AutCalls(r)) /\ n \in Nat /\ n > 0 /\ DOMAIN s = 1..n
      /\ t \in Seq(AutCalls(r)) /\ DOMAIN t = 1..(n - 1)
      /\ \A i \in 1..(n - 1) : t[i] = s[i + 1]
      /\ Head(s) = s[1]
  BY HeadTailProperties, LenProperties, EmptySeq DEF AutShape
<1> HIDE DEF t, n
<1>2. /\ 1 \in DOMAIN s
      /\ \A i \in DOMAIN t : i + 1 \in DOMAIN s /\ t[i] = s[i + 1] /\ i \in Nat /\ 1 < i + 1
      /\ \A i \in DOMAIN s : i # 1 => i - 1 \in DOMAIN t /\ t[i - 1] = s[i]
      /\ \A i \in DOMAIN s : i \in Nat
  BY <1>1
<1>3. \A d : AutHas(s, d) <=> s[1].do = d \/ AutHas(t, d)
  BY <1>2 DEF AutHas
<1>4. \A d \in AutNeeds(r, s[1]) : AutHas(t, d)
  <2> SUFFICES ASSUME NEW d \in AutNeeds(r, s[1]) PROVE \E j \in DOMAIN t : t[j].do = d
    BY DEF AutHas
  <2>1. PICK j \in DOMAIN s : 1 < j /\ s[j].do = d
    BY <1>2 DEF AutShape
  <2>2. j - 1 \in DOMAIN t /\ t[j - 1].do = d
    BY <2>1, <1>2
  <2> QED
    BY <2>2
<1>5. s[1].do = "drop" => \A d : AutHas(t, d) => d = "read"
  BY <1>2 DEF AutShape, AutHas
<1>6. AutHas(t, "note") => s[1].do \notin {"patch", "delete"}
  BY <1>2 DEF AutShape, AutHas
<1>7. \A i \in DOMAIN t : \A d \in AutNeeds(r, t[i]) : \E j \in DOMAIN t : i < j /\ t[j].do = d
  <2> SUFFICES ASSUME NEW i \in DOMAIN t, NEW d \in AutNeeds(r, t[i]) PROVE \E j \in DOMAIN t : i < j /\ t[j].do = d
    OBVIOUS
  <2>1. PICK j \in DOMAIN s : i + 1 < j /\ s[j].do = d
    BY <1>2 DEF AutShape
  <2>2. j - 1 \in DOMAIN t /\ t[j - 1].do = d /\ i < j - 1
    BY <2>1, <1>2
  <2> QED
    BY <2>2
<1>8. ASSUME NEW i \in DOMAIN t, NEW j \in DOMAIN t, i < j
      PROVE  /\ t[i].do = "drop" => t[j].do = "read"
             /\ t[j].do = "note" => t[i].do \notin {"patch", "delete"}
  <2>1. i + 1 < j + 1 /\ i + 1 \in DOMAIN s /\ j + 1 \in DOMAIN s /\ t[i] = s[i + 1] /\ t[j] = s[j + 1]
    BY <1>2, <1>8
  <2> QED
    BY <2>1 DEF AutShape
<1>9. AutShape(r, t) /\ s[1] \in AutCalls(r)
  BY <1>1, <1>2, <1>7, <1>8, ElementOfSeq DEF AutShape
<1> QED
  BY <1>1, <1>3, <1>4, <1>5, <1>6, <1>9 DEF t

\* Calls that neither touch nor look at a profile's content.
AutPlain(r) == {c \in AutCalls(r) : c.do \in {"read", "change"}}

\* Plain calls may stand before anything.
LEMMA AutPlainFirst ==
  ASSUME NEW r, NEW a \in Seq(AutPlain(r)), NEW b, AutShape(r, b)
  PROVE  /\ AutShape(r, a \o b)
         /\ AutHas(a \o b, "note") <=> AutHas(b, "note")
         /\ AutHas(a \o b, "drop") <=> AutHas(b, "drop")
<1>1. \A i \in DOMAIN a : a[i] \in AutPlain(r)
  BY ElementOfSeq, LenProperties
<1>2. a \in Seq(AutCalls(r))
  <2>1. AutPlain(r) \subseteq AutCalls(r)
    BY DEF AutPlain
  <2> QED
    BY <2>1, SeqMonotonic
<1>3. \A i \in DOMAIN a : a[i].do \in {"read", "change"} /\ AutNeeds(r, a[i]) = {}
  BY <1>1 DEF AutPlain, AutNeeds
<1>4. AutShape(r, a \o b) /\ \A d : AutHas(a \o b, d) <=> AutHas(a, d) \/ AutHas(b, d)
  BY <1>2, <1>3, AutJoined
<1>5. ~AutHas(a, "note") /\ ~AutHas(a, "drop")
  BY <1>3 DEF AutHas
<1> QED
  BY <1>4, <1>5

\* Concatenation associates.
AutCat(a, b) == a \o b
LEMMA AutCats ==
  ASSUME NEW T, NEW a \in Seq(T), NEW b \in Seq(T), NEW c \in Seq(T)
  PROVE  AutCat(AutCat(a, b), c) = AutCat(a, AutCat(b, c)) /\ AutCat(a, b) \in Seq(T)
<1>1. (a \o b) \o c = a \o (b \o c)
  BY ConcatAssociative
<1>2. a \o b \in Seq(T)
  BY ConcatProperties
<1> QED
  BY <1>1, <1>2 DEF AutCat

LEMMA AutNested ==
  ASSUME NEW T, NEW a \in Seq(T), NEW b \in Seq(T), NEW c \in Seq(T), NEW d \in Seq(T), NEW e \in Seq(T)
  PROVE  AutCat(AutCat(AutCat(AutCat(a, b), c), d), e) = AutCat(a, AutCat(b, AutCat(c, AutCat(d, e))))
<1>1. /\ AutCat(d, e) \in Seq(T) /\ AutCat(a, b) \in Seq(T)
      /\ AutCat(AutCat(a, b), c) \in Seq(T) /\ AutCat(c, AutCat(d, e)) \in Seq(T)
  BY AutCats, Zenon
<1>2. AutCat(AutCat(AutCat(AutCat(a, b), c), d), e) = AutCat(AutCat(AutCat(a, b), c), AutCat(d, e))
  BY <1>1, AutCats
<1>3. AutCat(AutCat(AutCat(a, b), c), AutCat(d, e)) = AutCat(AutCat(a, b), AutCat(c, AutCat(d, e)))
  BY <1>1, AutCats
<1>4. AutCat(AutCat(a, b), AutCat(c, AutCat(d, e))) = AutCat(a, AutCat(b, AutCat(c, AutCat(d, e))))
  BY <1>1, AutCats
<1> QED
  BY <1>2, <1>3, <1>4, Zenon

\* What is done under a condition is plain or nothing.
LEMMA AutConditional ==
  ASSUME NEW r, NEW condition \in BOOLEAN, NEW a \in Seq(AutPlain(r))
  PROVE  Aut!If(condition, a) \in Seq(AutPlain(r))
  BY EmptySeq DEF Aut!If

LEMMA AutPlainReads ==
  ASSUME Aut!AuthAssumption, NEW r, NEW expect \in {"allowed", "rejected"}
  PROVE  Aut!Reads(expect) \in Seq(AutPlain(r))
<1>1. Aut!Call("read", "inventory", expect) \in AutPlain(r) /\ Aut!Call("read", "ge", expect) \in AutPlain(r)
  BY DEF AutPlain, AutCalls, Aut!Call, Aut!Requests
<1>2. [i \in 1..3 |-> Aut!Call("read", "inventory", expect)] \in Seq(AutPlain(r))
  BY <1>1, IsASeq
<1>3. <<Aut!Call("read", "ge", expect)>> \in Seq(AutPlain(r))
  BY <1>1
<1>4. Aut!If(HasGe, <<Aut!Call("read", "ge", expect)>>) \in Seq(AutPlain(r))
  BY <1>3, AutConditional DEF Aut!AuthAssumption
<1> QED
  BY <1>2, <1>4, ConcatProperties DEF Aut!Reads

LEMMA AutPlainServices ==
  ASSUME Aut!AuthAssumption, NEW r
  PROVE  Aut!ServicesRejected \in Seq(AutPlain(r))
<1>1. /\ Aut!Rejected("change", "ont") \in AutPlain(r) /\ Aut!Rejected("change", "ge") \in AutPlain(r)
      /\ Aut!Call("read", "ge", "observed") \in AutPlain(r) /\ Aut!Rejected("read", "remote") \in AutPlain(r)
  BY DEF AutPlain, AutCalls, Aut!Call, Aut!Rejected, Aut!Requests
<1> DEFINE c == Aut!Rejected("change", "ont")
           g == Aut!Rejected("change", "ge")
           o == Aut!Call("read", "ge", "observed")
           m == Aut!Rejected("read", "remote")
<1> HIDE DEF c, g, o, m
<1>2. <<c, c, c>> \in Seq(AutPlain(r)) /\ <<o, g, g, g>> \in Seq(AutPlain(r)) /\ <<m>> \in Seq(AutPlain(r))
  BY <1>1 DEF c, g, o, m
<1>3. Aut!If(HasGe, <<o, g, g, g>>) \in Seq(AutPlain(r))
  BY <1>2, AutConditional DEF Aut!AuthAssumption
<1>4. (<<c, c, c>> \o Aut!If(HasGe, <<o, g, g, g>>)) \o <<m>> \in Seq(AutPlain(r))
  BY <1>2, <1>3, ConcatProperties
<1> QED
  BY <1>4 DEF Aut!ServicesRejected, c, g, o, m

\* The looks around the requests that must not touch the protected profile.
LEMMA AutShapeOfProtected ==
  ASSUME NEW r, r # "readwrite", NEW reads \in Seq(AutPlain(r))
  PROVE  AutShape(r, Aut!Protected(reads)) /\ AutHas(Aut!Protected(reads), "note") /\ AutHas(Aut!Protected(reads), "drop")
<1> DEFINE A1 == Aut!Call("try", "kept", "allowed")
           A2 == Aut!Call("create", "kept", "observed")
           A3 == Aut!Call("note", "kept", "observed")
           B1 == Aut!Rejected("patch", "kept")
           B2 == Aut!Call("unchanged", "kept", "observed")
           B3 == Aut!Rejected("delete", "kept")
           B4 == Aut!Call("drop", "kept", "observed")
           A == <<A1, A2, A3>>
           B == <<B1, B2, B3, B2, B4>>
<1>1. /\ A1 \in AutCalls(r) /\ A2 \in AutCalls(r) /\ A3 \in AutCalls(r)
      /\ B1 \in AutCalls(r) /\ B2 \in AutCalls(r) /\ B3 \in AutCalls(r) /\ B4 \in AutCalls(r)
  BY DEF AutCalls, Aut!Call, Aut!Rejected, Aut!Requests, AutSubject
<1>2. /\ A1.do = "try" /\ A2.do = "create" /\ A3.do = "note" /\ B1.do = "patch" /\ B2.do = "unchanged"
      /\ B3.do = "delete" /\ B4.do = "drop" /\ A2.x = "kept"
  BY DEF Aut!Call, Aut!Rejected
<1>3. /\ AutNeeds(r, A1) = {"drop"} /\ AutNeeds(r, A2) = {"note", "drop"} /\ AutNeeds(r, A3) = {}
      /\ AutNeeds(r, B1) = {"unchanged"} /\ AutNeeds(r, B2) = {} /\ AutNeeds(r, B3) = {"unchanged"} /\ AutNeeds(r, B4) = {}
  BY <1>2 DEF AutNeeds, AutSubject
<1> HIDE DEF A1, A2, A3, B1, B2, B3, B4
<1>4. /\ A \in Seq(AutCalls(r)) /\ DOMAIN A = 1..3 /\ A[1] = A1 /\ A[2] = A2 /\ A[3] = A3
      /\ B \in Seq(AutCalls(r)) /\ DOMAIN B = 1..5 /\ B[1] = B1 /\ B[2] = B2 /\ B[3] = B3 /\ B[4] = B2 /\ B[5] = B4
  BY <1>1
<1> HIDE DEF A, B
<1>5. AutShape(r, B) /\ AutHas(B, "drop") /\ ~AutHas(B, "note")
  <2>1. \A i \in DOMAIN B : i \in {1, 2, 3, 4, 5}
    BY <1>4
  <2>2. \A i \in DOMAIN B : \A d \in AutNeeds(r, B[i]) : \E j \in DOMAIN B : i < j /\ B[j].do = d
    BY <2>1, <1>2, <1>3, <1>4
  <2>3. \A i \in DOMAIN B : B[i].do # "note" /\ (B[i].do = "drop" => i = 5)
    BY <2>1, <1>2, <1>4
  <2>4. AutHas(B, "drop")
    BY <1>2, <1>4 DEF AutHas
  <2> QED
    BY <2>2, <2>3, <2>4, <1>4 DEF AutShape, AutHas
<1>6. AutShape(r, reads \o B) /\ AutHas(reads \o B, "drop") /\ ~AutHas(reads \o B, "note")
  BY <1>5, AutPlainFirst
<1>7. \A i \in DOMAIN A : i \in {1, 2, 3} /\ A[i].do \in {"try", "create", "note"}
  BY <1>2, <1>4
<1>8. \A i \in DOMAIN A : \A d \in AutNeeds(r, A[i]) : AutHas(reads \o B, d) \/ \E j \in DOMAIN A : i < j /\ A[j].do = d
  BY <1>2, <1>3, <1>4, <1>6, <1>7
<1>9. AutShape(r, A \o (reads \o B)) /\ \A d : AutHas(A \o (reads \o B), d) <=> AutHas(A, d) \/ AutHas(reads \o B, d)
  <2> DEFINE t == reads \o B
  <2>1. AutShape(r, t) /\ \A i \in DOMAIN A : \A d \in AutNeeds(r, A[i]) : AutHas(t, d) \/ \E j \in DOMAIN A : i < j /\ A[j].do = d
    BY <1>6, <1>8
  <2> HIDE DEF t
  <2>2. AutShape(r, A \o t) /\ \A d : AutHas(A \o t, d) <=> AutHas(A, d) \/ AutHas(t, d)
    <3>1. \A i \in DOMAIN A : A[i].do # "drop" /\ A[i].do \notin {"patch", "delete"}
      BY <1>7
    <3> QED
      BY <1>4, <2>1, <3>1, AutJoined
  <2> QED
    BY <2>2 DEF t
<1>10. AutHas(A, "note")
  BY <1>2, <1>4 DEF AutHas
<1>11. (A \o reads) \o B = A \o (reads \o B)
  <2>1. AutPlain(r) \subseteq AutCalls(r)
    BY DEF AutPlain
  <2>2. reads \in Seq(AutCalls(r))
    BY <2>1, SeqMonotonic
  <2> QED
    BY <1>4, <2>2, ConcatAssociative
<1>12. Aut!Protected(reads) = (A \o reads) \o B
  BY DEF Aut!Protected, A, B, A1, A2, A3, B1, B2, B3, B4
<1> QED
  BY <1>6, <1>9, <1>10, <1>11, <1>12

\* A creation that must be refused, and the look for what it may have left.
LEMMA AutShapeOfRefused ==
  ASSUME NEW r, r # "readwrite", NEW b, AutShape(r, b)
  PROVE  AutShape(r, Aut!CreateRejected \o b) /\ \A d : AutHas(b, d) => AutHas(Aut!CreateRejected \o b, d)
<1> DEFINE c1 == Aut!Rejected("create", "new")
           c2 == Aut!Call("absent", "new", "observed")
           a  == <<c1, c2>>
<1>1. c1 \in AutCalls(r) /\ c2 \in AutCalls(r)
  BY DEF AutCalls, Aut!Call, Aut!Rejected, Aut!Requests, AutSubject
<1>2. c1.do = "create" /\ c2.do = "absent" /\ AutNeeds(r, c1) = {"absent"} /\ AutNeeds(r, c2) = {}
  BY DEF Aut!Call, Aut!Rejected, AutNeeds, AutSubject
<1> HIDE DEF c1, c2
<1>3. a \in Seq(AutCalls(r)) /\ DOMAIN a = 1..2 /\ a[1] = c1 /\ a[2] = c2
  BY <1>1
<1> HIDE DEF a
<1>4. \A i \in DOMAIN a : i \in {1, 2} /\ a[i].do \in {"create", "absent"}
  BY <1>2, <1>3
<1>5. \A i \in DOMAIN a : \A d \in AutNeeds(r, a[i]) : AutHas(b, d) \/ \E j \in DOMAIN a : i < j /\ a[j].do = d
  BY <1>2, <1>3, <1>4
<1>6. AutShape(r, a \o b) /\ \A d : AutHas(a \o b, d) <=> AutHas(a, d) \/ AutHas(b, d)
  BY <1>3, <1>4, <1>5, AutJoined
<1>7. a = Aut!CreateRejected
  BY DEF a, c1, c2, Aut!CreateRejected
<1> QED
  BY <1>6, <1>7

\* The calls of a summary are well-formed.
LEMMA AutShapeOfCalls ==
  ASSUME Aut!AuthAssumption, NEW r \in Roles
  PROVE  AutShape(r, Aut!CallsOf(r)) /\ (r # "readwrite" => AutHas(Aut!CallsOf(r), "note"))
<1>1. r \in {"readwrite", "readonly", "noaccess"}
  BY DEF Aut!AuthAssumption
<1>p. AutPlain(r) \subseteq AutCalls(r)
  BY DEF AutPlain
<1>2. CASE r = "readwrite"
  <2> DEFINE c1 == Aut!Call("read", "alarms", "no_data")
             c2 == Aut!Call("try", "new", "allowed")
             c3 == Aut!Call("create", "new", "allowed")
             c4 == Aut!Call("read", "new", "allowed")
             c5 == Aut!Call("patch", "new", "allowed")
             c6 == Aut!Call("delete", "new", "allowed")
             c7 == Aut!Call("drop", "new", "allowed")
             m  == Aut!Call("read", "remote", "allowed")
             a  == <<c1, c2, c3, c4, c5, c4, c6, c7>>
  <2>1. /\ c1 \in AutCalls(r) /\ c2 \in AutCalls(r) /\ c3 \in AutCalls(r) /\ c4 \in AutCalls(r) /\ c5 \in AutCalls(r)
        /\ c6 \in AutCalls(r) /\ c7 \in AutCalls(r) /\ m \in AutCalls(r)
    BY <1>2 DEF AutCalls, Aut!Call, Aut!Requests, AutSubject
  <2>2. /\ c1.do = "read" /\ c2.do = "try" /\ c3.do = "create" /\ c3.x = "new" /\ c4.do = "read" /\ c5.do = "patch"
        /\ c6.do = "delete" /\ c7.do = "drop" /\ m.do = "read"
    BY DEF Aut!Call
  <2>3. /\ AutNeeds(r, c1) = {} /\ AutNeeds(r, c2) = {"drop"} /\ AutNeeds(r, c3) = {"drop"} /\ AutNeeds(r, c4) = {}
        /\ AutNeeds(r, c5) = {} /\ AutNeeds(r, c6) = {} /\ AutNeeds(r, c7) = {}
    BY <1>2, <2>2 DEF AutNeeds, AutSubject
  <2> HIDE DEF c1, c2, c3, c4, c5, c6, c7, m
  <2>4. /\ a \in Seq(AutCalls(r)) /\ DOMAIN a = 1..8 /\ a[1] = c1 /\ a[2] = c2 /\ a[3] = c3 /\ a[4] = c4 /\ a[5] = c5
        /\ a[6] = c4 /\ a[7] = c6 /\ a[8] = c7
    BY <2>1
  <2> HIDE DEF a
  <2>5. \A i \in DOMAIN a : i \in {1, 2, 3, 4, 5, 6, 7, 8}
    BY <2>4
  <2>6. \A i \in DOMAIN a : \A d \in AutNeeds(r, a[i]) : \E j \in DOMAIN a : i < j /\ a[j].do = d
    BY <2>2, <2>3, <2>4, <2>5
  <2>7. \A i \in DOMAIN a : a[i].do # "note" /\ (a[i].do = "drop" => i = 8)
    BY <2>2, <2>4, <2>5
  <2>8. AutShape(r, a)
    BY <2>4, <2>6, <2>7 DEF AutShape
  <2>9. AutShape(r, Aut!Reads("allowed") \o a)
    BY <2>8, AutPlainReads, AutPlainFirst
  <2>10. Aut!If(Remote, <<m>>) \in Seq(AutCalls(r)) /\ \A i \in DOMAIN Aut!If(Remote, <<m>>) : Aut!If(Remote, <<m>>)[i].do = "read"
    <3>1. CASE Remote
      <4>1. Aut!If(Remote, <<m>>) = <<m>> /\ <<m>> \in Seq(AutCalls(r)) /\ DOMAIN <<m>> = {1} /\ <<m>>[1] = m
        BY <3>1, <2>1 DEF Aut!If
      <4> QED
        BY <4>1, <2>2
    <3>2. CASE ~Remote
      <4>1. Aut!If(Remote, <<m>>) = <<>> /\ <<>> \in Seq(AutCalls(r)) /\ DOMAIN <<>> = {}
        BY <3>2, EmptySeq DEF Aut!If
      <4> QED
        BY <4>1
    <3> QED
      BY <3>1, <3>2
  <2>11. AutShape(r, (Aut!Reads("allowed") \o a) \o Aut!If(Remote, <<m>>))
    BY <2>9, <2>10, AutReadLater
  <2>12. Aut!CallsOf(r) = (Aut!Reads("allowed") \o a) \o Aut!If(Remote, <<m>>)
    BY <1>2 DEF Aut!CallsOf, a, c1, c2, c3, c4, c5, c6, c7, m
  <2> QED
    BY <1>2, <2>11, <2>12
<1>3. CASE r = "readonly"
  <2> DEFINE c == <<Aut!Call("read", "alarms", "no_data")>>
             R == Aut!Reads("allowed")
             S == Aut!ServicesRejected
             P == Aut!Protected(<<>>)
  <2>1. c \in Seq(AutPlain(r))
    <3>1. Aut!Call("read", "alarms", "no_data") \in AutPlain(r)
      BY DEF AutPlain, AutCalls, Aut!Call, Aut!Requests
    <3> QED
      BY <3>1
  <2>2. R \in Seq(AutPlain(r)) /\ S \in Seq(AutPlain(r)) /\ <<>> \in Seq(AutPlain(r))
    BY AutPlainReads, AutPlainServices, EmptySeq
  <2>3. AutShape(r, P) /\ AutHas(P, "note")
    BY <2>2, <1>3, AutShapeOfProtected
  <2> HIDE DEF c, R, S, P
  <2>4. AutShape(r, S \o P) /\ AutHas(S \o P, "note")
    BY <2>2, <2>3, AutPlainFirst
  <2>5. AutShape(r, Aut!CreateRejected \o (S \o P)) /\ AutHas(Aut!CreateRejected \o (S \o P), "note")
    BY <2>4, <1>3, AutShapeOfRefused
  <2>6. AutShape(r, c \o (Aut!CreateRejected \o (S \o P))) /\ AutHas(c \o (Aut!CreateRejected \o (S \o P)), "note")
    BY <2>1, <2>5, AutPlainFirst
  <2>7. AutShape(r, R \o (c \o (Aut!CreateRejected \o (S \o P)))) /\ AutHas(R \o (c \o (Aut!CreateRejected \o (S \o P))), "note")
    BY <2>2, <2>6, AutPlainFirst
  <2>8. Aut!CallsOf(r) = (((R \o c) \o Aut!CreateRejected) \o S) \o P
    BY <1>3 DEF Aut!CallsOf, R, c, S, P
  <2>9. (((R \o c) \o Aut!CreateRejected) \o S) \o P = R \o (c \o (Aut!CreateRejected \o (S \o P)))
    <3> DEFINE T == Seq(AutCalls(r))
    <3>1. R \in T /\ c \in T /\ S \in T
      BY <2>1, <2>2, <1>p, SeqMonotonic
    <3>2. P \in T
      BY <2>3 DEF AutShape
    <3>3. Aut!CreateRejected \in T
      BY <1>3 DEF Aut!CreateRejected, AutCalls, Aut!Call, Aut!Rejected, Aut!Requests, AutSubject
    <3>4. AutCat(AutCat(AutCat(AutCat(R, c), Aut!CreateRejected), S), P) = AutCat(R, AutCat(c, AutCat(Aut!CreateRejected, AutCat(S, P))))
      BY <3>1, <3>2, <3>3, AutNested
    <3> QED
      BY <3>4 DEF AutCat
  <2> QED
    BY <2>7, <2>8, <2>9
<1>4. CASE r = "noaccess"
  <2> DEFINE c == <<Aut!Rejected("read", "alarms"), Aut!Rejected("read", "alarms")>>
             R == Aut!Reads("rejected")
             S == Aut!ServicesRejected
             P == Aut!Protected(<<Aut!Rejected("read", "kept")>>)
  <2>1. c \in Seq(AutPlain(r)) /\ <<Aut!Rejected("read", "kept")>> \in Seq(AutPlain(r))
    <3>1. Aut!Rejected("read", "alarms") \in AutPlain(r) /\ Aut!Rejected("read", "kept") \in AutPlain(r)
      BY DEF AutPlain, AutCalls, Aut!Call, Aut!Rejected, Aut!Requests
    <3> QED
      BY <3>1
  <2>2. R \in Seq(AutPlain(r)) /\ S \in Seq(AutPlain(r))
    BY AutPlainReads, AutPlainServices
  <2>3. AutShape(r, P) /\ AutHas(P, "note")
    BY <2>1, <1>4, AutShapeOfProtected
  <2> HIDE DEF c, R, S, P
  <2>4. AutShape(r, S \o P) /\ AutHas(S \o P, "note")
    BY <2>2, <2>3, AutPlainFirst
  <2>5. AutShape(r, Aut!CreateRejected \o (S \o P)) /\ AutHas(Aut!CreateRejected \o (S \o P), "note")
    BY <2>4, <1>4, AutShapeOfRefused
  <2>6. AutShape(r, c \o (Aut!CreateRejected \o (S \o P))) /\ AutHas(c \o (Aut!CreateRejected \o (S \o P)), "note")
    BY <2>1, <2>5, AutPlainFirst
  <2>7. AutShape(r, R \o (c \o (Aut!CreateRejected \o (S \o P)))) /\ AutHas(R \o (c \o (Aut!CreateRejected \o (S \o P))), "note")
    BY <2>2, <2>6, AutPlainFirst
  <2>8. Aut!CallsOf(r) = (((R \o c) \o Aut!CreateRejected) \o S) \o P
    BY <1>4 DEF Aut!CallsOf, R, c, S, P
  <2>9. (((R \o c) \o Aut!CreateRejected) \o S) \o P = R \o (c \o (Aut!CreateRejected \o (S \o P)))
    <3> DEFINE T == Seq(AutCalls(r))
    <3>1. R \in T /\ c \in T /\ S \in T
      BY <2>1, <2>2, <1>p, SeqMonotonic
    <3>2. P \in T
      BY <2>3 DEF AutShape
    <3>3. Aut!CreateRejected \in T
      BY <1>4 DEF Aut!CreateRejected, AutCalls, Aut!Call, Aut!Rejected, Aut!Requests, AutSubject
    <3>4. AutCat(AutCat(AutCat(AutCat(R, c), Aut!CreateRejected), S), P) = AutCat(R, AutCat(c, AutCat(Aut!CreateRejected, AutCat(S, P))))
      BY <3>1, <3>2, <3>3, AutNested
    <3> QED
      BY <3>4 DEF AutCat
  <2> QED
    BY <2>7, <2>8, <2>9
<1> QED
  BY <1>1, <1>2, <1>3, <1>4

\* What a request may do to the profiles.
LEMMA AutEffect ==
  ASSUME AutWorld, NEW do \in Aut!Requests, NEW x, do = "change" => x \in {"ont", "ge"}, Aut!Nothing \/ Aut!Carried(do, x)
  PROVE  /\ autProf' \in [{"new", "kept"} -> AutContents] /\ autServices' \subseteq {"ont", "ge"}
         /\ \A y \in {"new", "kept"} :
              /\ autProf'[y] # autProf[y] => x = y /\ do \in {"create", "patch", "delete"}
              /\ do = "create" => autProf'[y] \in {autProf[y], "post"}
              /\ do # "create" /\ autProf'[y] # "none" => autProf[y] # "none"
<1>1. autServices' \subseteq {"ont", "ge"}
  BY DEF AutWorld, Aut!Nothing, Aut!Carried
<1>2. CASE Aut!Nothing
  BY <1>1, <1>2 DEF AutWorld, Aut!Nothing
<1>3. CASE Aut!Carried(do, x)
  <2>1. \/ autProf' = autProf
        \/ do = "create" /\ autProf' = [autProf EXCEPT ![x] = "post"]
        \/ do = "patch" /\ autProf[x] # "none" /\ autProf' = [autProf EXCEPT ![x] = "patched"]
        \/ do = "delete" /\ autProf' = [autProf EXCEPT ![x] = "none"]
    BY <1>3 DEF Aut!Carried, Aut!Requests
  <2>2. autProf \in [{"new", "kept"} -> AutContents] /\ {"none", "post", "patched"} \subseteq AutContents
    BY DEF AutWorld, AutContents
  <2>3. autProf' \in [{"new", "kept"} -> AutContents]
    BY <2>1, <2>2
  <2>4. \A y \in {"new", "kept"} :
              /\ autProf'[y] # autProf[y] => x = y /\ do \in {"create", "patch", "delete"}
              /\ do = "create" => autProf'[y] \in {autProf[y], "post"}
              /\ do # "create" /\ autProf'[y] # "none" => autProf[y] # "none"
    BY <2>1, <2>2
  <2> QED
    BY <1>1, <2>3, <2>4
<1> QED
  BY <1>2, <1>3

\* An exception leaves the removal of the finally, if a try has been entered.
LEMMA AutStopped ==
  ASSUME AutIInv, Aut!Stop, UNCHANGED autRole
  PROVE  AutForm' <=> {autIgnored', autUnseen'} \subseteq BOOLEAN
<1>1. autFailed' = TRUE /\ autTried' = FALSE /\ autRole' \in Roles
  BY DEF Aut!Stop, AutIInv, AutForm
<1>2. AutShape(autRole, <<>>)
  BY EmptySeq DEF AutShape
<1>3. ASSUME autTried PROVE AutShape(autRole, <<Aut!Finally>>)
  <2>1. PICK i \in DOMAIN autOps : autOps[i].do = "drop"
    BY <1>3 DEF AutIInv, AutForm, AutHas
  <2>2. autOps[i] \in Aut!Range(autOps)
    BY DEF Aut!Range
  <2>3. Aut!Finally \in Aut!Range(autOps) /\ Aut!Finally.do = "drop"
    BY <2>1, <2>2 DEF Aut!Finally
  <2>4. PICK j \in DOMAIN autOps : Aut!Finally = autOps[j]
    BY <2>3 DEF Aut!Range
  <2>5. Aut!Finally \in AutCalls(autRole) /\ AutNeeds(autRole, Aut!Finally) = {}
    <3>1. autOps \in Seq(AutCalls(autRole))
      BY DEF AutIInv, AutForm, AutShape
    <3> QED
      BY <3>1, <2>3, <2>4, ElementOfSeq, LenProperties DEF AutNeeds
  <2> DEFINE f == Aut!Finally
  <2> HIDE DEF f
  <2>6. <<f>> \in Seq(AutCalls(autRole)) /\ DOMAIN <<f>> = {1} /\ <<f>>[1] = f
    BY <2>5 DEF f
  <2>7. AutShape(autRole, <<f>>)
    BY <2>5, <2>6 DEF AutShape, f
  <2> QED
    BY <2>7 DEF f
<1>4. AutShape(autRole, autOps')
  BY <1>2, <1>3 DEF Aut!Stop
<1>5. AutShape(autRole', autOps')
  BY <1>4
<1> QED
  BY <1>1, <1>5 DEF AutForm

\* A step that fails the summary needs to keep the types only.
LEMMA AutFailing ==
  ASSUME AutIInv, Aut!Stop, UNCHANGED autRole, {autIgnored', autUnseen'} \subseteq BOOLEAN, AutWorld'
  PROVE  AutIInv'
<1>1. AutForm' /\ autFailed'
  BY AutStopped DEF Aut!Stop
<1> QED
  BY <1>1 DEF AutIInv, AutWatched, AutRemoved

\* What is left after a call.
LEMMA AutContinued ==
  ASSUME AutIInv, autOps # <<>>, autOps' = Tail(autOps), UNCHANGED autRole
  PROVE  /\ AutShape(autRole', autOps') /\ Aut!C \in AutCalls(autRole)
         /\ \A d : AutHas(autOps, d) <=> Aut!C.do = d \/ AutHas(autOps', d)
         /\ \A d \in AutNeeds(autRole, Aut!C) : AutHas(autOps', d)
         /\ Aut!C.do = "drop" => \A d : AutHas(autOps', d) => d = "read"
         /\ AutHas(autOps', "note") => Aut!C.do \notin {"patch", "delete"}
<1>1. AutShape(autRole, autOps)
  BY DEF AutIInv, AutForm
<1>2. autRole' = autRole /\ Aut!C = Head(autOps)
  BY DEF Aut!C
<1> QED
  BY <1>1, <1>2, AutRest

\* A request, allowed or rejected, with or without effect.
LEMMA AutRequested ==
  ASSUME AutIInv, autOps # <<>>, Aut!C.do \in Aut!Requests, Aut!Nothing \/ Aut!Carried(Aut!C.do, Aut!C.x), UNCHANGED <<autRole, autBefore, autIgnored, autUnseen>>,
         Aut!Continue \/ Aut!Stop
  PROVE  AutIInv'
<1>0. Aut!C \in AutCalls(autRole)
  BY AutRest DEF AutIInv, AutForm, Aut!C
<1>1. AutWorld' /\ \A y \in {"new", "kept"} :
                 /\ autProf'[y] # autProf[y] => Aut!C.x = y /\ Aut!C.do \in {"create", "patch", "delete"}
                 /\ Aut!C.do = "create" => autProf'[y] \in {autProf[y], "post"}
                 /\ Aut!C.do # "create" /\ autProf'[y] # "none" => autProf[y] # "none"
  <2>1. AutWorld /\ (Aut!C.do = "change" => Aut!C.x \in {"ont", "ge"})
    BY <1>0 DEF AutIInv, AutCalls
  <2>2. autBefore' \in AutContents
    BY <2>1 DEF AutWorld
  <2> HIDE DEF Aut!C
  <2> QED
    BY <2>1, <2>2, AutEffect DEF AutWorld
<1>2. CASE Aut!Stop
  BY <1>1, <1>2, AutFailing DEF AutIInv, AutForm
<1>3. CASE Aut!Continue
  <2>1. /\ AutShape(autRole', autOps')
        /\ \A d : AutHas(autOps, d) <=> Aut!C.do = d \/ AutHas(autOps', d)
        /\ \A d \in AutNeeds(autRole, Aut!C) : AutHas(autOps', d)
        /\ AutHas(autOps', "note") => Aut!C.do \notin {"patch", "delete"}
    BY <1>3, AutContinued DEF Aut!Continue
  <2>2. /\ AutHas(autOps, "absent") => AutHas(autOps', "absent")
        /\ AutHas(autOps, "note") <=> AutHas(autOps', "note")
        /\ AutHas(autOps, "drop") <=> AutHas(autOps', "drop")
        /\ AutHas(autOps, "unchanged") => AutHas(autOps', "unchanged")
    BY <2>1 DEF Aut!Requests
  <2>3. AutForm'
    BY <1>3, <2>1, <2>2 DEF Aut!Continue, AutIInv, AutForm
  <2>4. /\ Aut!C.do \in {"patch", "delete"} => Aut!C.x = AutSubject(autRole)
        /\ Aut!C.do = "create" => Aut!C.x \in {"new", AutSubject(autRole)}
        /\ Aut!C.do = "create" /\ Aut!C.x # AutSubject(autRole) => AutHas(autOps', "absent")
        /\ Aut!C.do = "create" /\ Aut!C.x = AutSubject(autRole) => AutHas(autOps', "drop") /\ (autRole # "readwrite" => AutHas(autOps', "note"))
        /\ Aut!C.do \in {"patch", "delete"} /\ autRole # "readwrite" => AutHas(autOps', "unchanged")
    BY <1>0, <2>1 DEF AutCalls, AutNeeds
  <2>5. autFailed' = autFailed /\ autRole' = autRole /\ autBefore' = autBefore /\ autIgnored' = autIgnored /\ autUnseen' = autUnseen
    BY <1>3 DEF Aut!Continue
  <2>6. AutWatched'
    <3> SUFFICES ASSUME autRole # "readwrite", ~autFailed PROVE
          /\ autProf'["new"] # "none" => AutHas(autOps', "absent") \/ autUnseen
          /\ AutHas(autOps', "note") => autProf'["kept"] \in {"none", "post"}
          /\ ~AutHas(autOps', "note") => autBefore = "post"
          /\ AutHas(autOps', "drop") /\ ~AutHas(autOps', "note") /\ autProf'["kept"] # "post" => AutHas(autOps', "unchanged")
      BY <2>5 DEF AutWatched
    <3>1. /\ autProf["new"] # "none" => AutHas(autOps, "absent") \/ autUnseen
          /\ AutHas(autOps, "note") => autProf["kept"] \in {"none", "post"}
          /\ ~AutHas(autOps, "note") => autBefore = "post"
          /\ AutHas(autOps, "drop") /\ ~AutHas(autOps, "note") /\ autProf["kept"] # "post" => AutHas(autOps, "unchanged")
      BY DEF AutIInv, AutWatched
    <3>2. AutSubject(autRole) = "kept"
      BY DEF AutSubject
    <3>3. autProf'["new"] # "none" => AutHas(autOps', "absent") \/ autUnseen
      BY <1>1, <2>2, <2>4, <3>1, <3>2
    <3>4. AutHas(autOps', "note") => autProf'["kept"] \in {"none", "post"}
      BY <1>1, <2>1, <2>2, <2>4, <3>1, <3>2
    <3>5. AutHas(autOps', "drop") /\ ~AutHas(autOps', "note") /\ autProf'["kept"] # "post" => AutHas(autOps', "unchanged")
      BY <1>1, <2>2, <2>4, <3>1, <3>2
    <3> QED
      BY <2>2, <3>1, <3>3, <3>4, <3>5
  <2>7. AutRemoved'
    <3> SUFFICES ASSUME ~autFailed PROVE
          /\ autRole = "readwrite" => autProf'["kept"] = "none"
          /\ autProf'[AutSubject(autRole)] # "none" => AutHas(autOps', "drop") \/ autIgnored
      BY <2>5 DEF AutRemoved
    <3>1. /\ autRole = "readwrite" => autProf["kept"] = "none"
          /\ autProf[AutSubject(autRole)] # "none" => AutHas(autOps, "drop") \/ autIgnored
      BY DEF AutIInv, AutRemoved
    <3>2. AutSubject(autRole) \in {"new", "kept"} /\ (autRole = "readwrite" => AutSubject(autRole) = "new")
      BY DEF AutSubject
    <3>3. autRole = "readwrite" => autProf'["kept"] = "none"
      BY <1>1, <2>4, <3>1, <3>2
    <3>4. autProf'[AutSubject(autRole)] # "none" => autProf[AutSubject(autRole)] # "none" \/ AutHas(autOps', "drop")
      BY <1>1, <2>4, <3>2
    <3> QED
      BY <2>2, <3>1, <3>3, <3>4
  <2> QED
    BY <1>1, <2>3, <2>6, <2>7 DEF AutIInv
<1> QED
  BY <1>2, <1>3

\* The start of a summary satisfies the invariant.
LEMMA AutInitially == ASSUME Aut!AuthAssumption PROVE Aut!Init => AutIInv
<1> SUFFICES ASSUME Aut!Init PROVE AutIInv
  OBVIOUS
<1>1. autRole \in Roles /\ autOps = Aut!CallsOf(autRole) /\ autTried = FALSE /\ autBefore = "none" /\ autFailed = FALSE
      /\ autProf = [x \in {"new", "kept"} |-> "none"] /\ autServices = {} /\ autIgnored = FALSE /\ autUnseen = FALSE
  BY DEF Aut!Init
<1>2. AutShape(autRole, autOps) /\ (autRole # "readwrite" => AutHas(autOps, "note"))
  BY <1>1, AutShapeOfCalls
<1>3. AutForm
  BY <1>1, <1>2 DEF AutForm
<1>4. AutWorld /\ autProf["new"] = "none" /\ autProf["kept"] = "none"
  BY <1>1 DEF AutWorld, AutContents
<1>5. AutSubject(autRole) \in {"new", "kept"}
  BY DEF AutSubject
<1>6. AutWatched
  BY <1>2, <1>4 DEF AutWatched
<1>7. AutRemoved
  BY <1>4, <1>5 DEF AutRemoved
<1> QED
  BY <1>3, <1>4, <1>6, <1>7 DEF AutIInv

\* Every step of a summary keeps it.
LEMMA AutInductive == ASSUME Aut!AuthAssumption PROVE AutIInv /\ [Aut!Next]_(Aut!vars) => AutIInv'
<1> SUFFICES ASSUME AutIInv, [Aut!Next]_(Aut!vars) PROVE AutIInv'
  OBVIOUS
<1>w. AutWorld /\ (autOps # <<>> => Aut!C \in AutCalls(autRole))
  BY AutRest DEF AutIInv, AutForm, Aut!C
<1>1. CASE Aut!Allowed
  <2>1. Aut!Continue \/ Aut!Stop
    BY <1>1 DEF Aut!Allowed
  <2>2. autOps # <<>> /\ Aut!C.do \in Aut!Requests /\ (Aut!Nothing \/ Aut!Carried(Aut!C.do, Aut!C.x)) /\ UNCHANGED <<autRole, autBefore, autIgnored, autUnseen>>
    BY <1>1 DEF Aut!Allowed
  <2> QED
    BY <2>1, <2>2, AutRequested
<1>2. CASE Aut!ReadOrNoData
  <2>1. Aut!C.do \in Aut!Requests
    BY <1>w, <1>2 DEF Aut!ReadOrNoData, AutCalls, Aut!Requests
  <2>2. autOps # <<>> /\ Aut!Nothing /\ UNCHANGED <<autRole, autBefore, autIgnored, autUnseen>> /\ (Aut!Continue \/ Aut!Stop)
    BY <1>2 DEF Aut!ReadOrNoData, Aut!Nothing
  <2> QED
    BY <2>1, <2>2, AutRequested
<1>3. CASE Aut!Reject
  <2>1. Aut!C.do \in Aut!Requests
    BY <1>w, <1>3 DEF Aut!Reject, AutCalls
  <2>2. autOps # <<>> /\ (Aut!Nothing \/ Aut!Carried(Aut!C.do, Aut!C.x)) /\ UNCHANGED <<autRole, autBefore, autIgnored, autUnseen>> /\ (Aut!Continue \/ Aut!Stop)
    BY <1>3 DEF Aut!Reject
  <2> QED
    BY <2>1, <2>2, AutRequested
<1>4. CASE Aut!Try
  <2>1. autOps # <<>> /\ Aut!C.do = "try" /\ autTried' = TRUE /\ autOps' = Tail(autOps) /\ UNCHANGED <<autRole, autBefore, autFailed, autProf, autServices, autIgnored, autUnseen>>
    BY <1>4 DEF Aut!Try
  <2>2. /\ AutShape(autRole', autOps')
        /\ \A d : AutHas(autOps, d) <=> Aut!C.do = d \/ AutHas(autOps', d)
        /\ \A d \in AutNeeds(autRole, Aut!C) : AutHas(autOps', d)
    BY <2>1, AutContinued
  <2>3. AutHas(autOps', "drop")
    BY <2>1, <2>2 DEF AutNeeds
  <2>4. AutForm'
    BY <2>1, <2>2, <2>3 DEF AutIInv, AutForm
  <2>5. \A d \in {"absent", "note", "drop", "unchanged"} : AutHas(autOps, d) <=> AutHas(autOps', d)
    BY <2>1, <2>2
  <2> DEFINE h(d) == AutHas(autOps, d)
  <2>6. AutWatched'
    BY <2>1, <2>5 DEF AutIInv, AutWatched
  <2>7. AutRemoved' /\ AutWorld'
    BY <2>1, <2>5, <1>w DEF AutIInv, AutRemoved, AutWorld
  <2> QED
    BY <2>4, <2>6, <2>7 DEF AutIInv
<1>5. CASE Aut!Observe
  <2>1. autOps # <<>> /\ Aut!C.do \in {"note", "absent", "unchanged"} /\ UNCHANGED <<autRole, autProf, autServices, autIgnored>>
        /\ autBefore' = (IF Aut!C.do = "note" THEN autProf[Aut!C.x] ELSE autBefore)
    BY <1>5 DEF Aut!Observe
  <2>2. Aut!C.do \in {"note", "unchanged"} => Aut!C.x = "kept"
    BY <1>w, <2>1 DEF AutCalls
  <2>3. Aut!C.do = "absent" => Aut!C.x = "new"
    BY <1>w, <2>1 DEF AutCalls
  <2>4. autRole # "readwrite"
    BY <1>w, <2>1 DEF AutCalls
  <2>5. AutWorld'
    BY <2>1, <2>2, <1>w DEF AutWorld
  <2>6. CASE Aut!Stop /\ UNCHANGED autUnseen
    BY <2>1, <2>5, <2>6, AutFailing DEF AutIInv, AutForm
  <2>7. CASE /\ Aut!C.do \in {"note", "unchanged"} => Aut!Exists(Aut!C.x)
             /\ Aut!C.do = "unchanged" => autProf[Aut!C.x] = autBefore
             /\ autUnseen' = (autUnseen \/ (Aut!C.do = "absent" /\ Aut!Exists(Aut!C.x)))
             /\ Aut!Continue
    <3>0. \A x \in {"new", "kept"} : Aut!Exists(x) <=> autProf[x] # "none"
      BY <1>w DEF AutWorld, Aut!Exists
    <3>1. /\ Aut!C.do = "note" => autProf["kept"] # "none" /\ autBefore' = autProf["kept"]
          /\ Aut!C.do = "absent" => (autProf["new"] # "none" => autUnseen') /\ autBefore' = autBefore
          /\ Aut!C.do = "unchanged" => autProf["kept"] = autBefore /\ autBefore' = autBefore
          /\ autUnseen => autUnseen'
          /\ autUnseen' \in BOOLEAN
          /\ autOps' = Tail(autOps) /\ UNCHANGED <<autFailed, autTried, autRole, autProf, autServices, autIgnored>>
      <4>1. Aut!C.do = "note" => autProf["kept"] # "none" /\ autBefore' = autProf["kept"]
        BY <2>1, <2>2, <2>7, <3>0
      <4>2. Aut!C.do = "absent" => (autProf["new"] # "none" => autUnseen') /\ autBefore' = autBefore
        BY <2>1, <2>3, <2>7, <3>0
      <4>3. Aut!C.do = "unchanged" => autProf["kept"] = autBefore /\ autBefore' = autBefore
        BY <2>1, <2>2, <2>7
      <4>4. (autUnseen => autUnseen') /\ autUnseen' \in BOOLEAN
        <5>1. autUnseen \in BOOLEAN
          BY DEF AutIInv, AutForm
        <5> QED
          BY <2>7, <5>1
      <4> QED
        BY <2>1, <2>7, <4>1, <4>2, <4>3, <4>4 DEF Aut!Continue
    <3>2. /\ AutShape(autRole', autOps')
          /\ \A d : AutHas(autOps, d) <=> Aut!C.do = d \/ AutHas(autOps', d)
      BY <2>1, <3>1, AutContinued
    <3>3. /\ AutHas(autOps, "drop") <=> AutHas(autOps', "drop")
          /\ AutHas(autOps, "absent") <=> Aut!C.do = "absent" \/ AutHas(autOps', "absent")
          /\ AutHas(autOps, "note") <=> Aut!C.do = "note" \/ AutHas(autOps', "note")
          /\ AutHas(autOps, "unchanged") <=> Aut!C.do = "unchanged" \/ AutHas(autOps', "unchanged")
      BY <2>1, <3>2
    <3>4. AutForm'
      BY <2>1, <3>1, <3>2, <3>3 DEF AutIInv, AutForm
    <3>5. AutWatched'
      <4> SUFFICES ASSUME ~autFailed PROVE
            /\ autProf["new"] # "none" => AutHas(autOps', "absent") \/ autUnseen'
            /\ AutHas(autOps', "note") => autProf["kept"] \in {"none", "post"}
            /\ ~AutHas(autOps', "note") => autBefore' = "post"
            /\ AutHas(autOps', "drop") /\ ~AutHas(autOps', "note") /\ autProf["kept"] # "post" => AutHas(autOps', "unchanged")
        BY <3>1 DEF AutWatched
      <4>1. /\ autProf["new"] # "none" => AutHas(autOps, "absent") \/ autUnseen
            /\ AutHas(autOps, "note") => autProf["kept"] \in {"none", "post"}
            /\ ~AutHas(autOps, "note") => autBefore = "post"
            /\ AutHas(autOps, "drop") /\ ~AutHas(autOps, "note") /\ autProf["kept"] # "post" => AutHas(autOps, "unchanged")
        BY <2>4 DEF AutIInv, AutWatched
      <4>2. CASE Aut!C.do = "note"
        BY <4>1, <4>2, <3>1, <3>3
      <4>3. CASE Aut!C.do = "absent"
        BY <4>1, <4>3, <3>1, <3>3
      <4>4. CASE Aut!C.do = "unchanged"
        BY <4>1, <4>4, <3>1, <3>3
      <4> QED
        BY <2>1, <4>2, <4>3, <4>4
    <3>6. AutRemoved'
      BY <3>1, <3>3 DEF AutIInv, AutRemoved
    <3> QED
      BY <2>5, <3>4, <3>5, <3>6 DEF AutIInv
  <2> QED
    BY <1>5, <2>6, <2>7 DEF Aut!Observe
<1>6. CASE Aut!Drop
  <2>1. autOps # <<>> /\ Aut!C.do = "drop" /\ autTried' = FALSE /\ UNCHANGED <<autRole, autBefore, autUnseen>>
    BY <1>6 DEF Aut!Drop
  <2>2. Aut!C.x = AutSubject(autRole) /\ AutSubject(autRole) \in {"new", "kept"}
    BY <1>w, <2>1 DEF AutCalls, AutSubject
  <2>3. Aut!Nothing \/ Aut!Carried("delete", Aut!C.x)
    BY <1>6 DEF Aut!Drop
  <2>4. AutWorld' /\ (\A y \in {"new", "kept"} : autProf'[y] # autProf[y] => Aut!C.x = y)
        /\ (\A y \in {"new", "kept"} : autProf'[y] # "none" => autProf[y] # "none")
    <3>1. AutWorld /\ "delete" \in Aut!Requests
      BY <1>w DEF Aut!Requests
    <3> DEFINE x == Aut!C.x
    <3> HIDE DEF x
    <3>2. /\ autProf' \in [{"new", "kept"} -> AutContents] /\ autServices' \subseteq {"ont", "ge"}
          /\ \A y \in {"new", "kept"} :
               /\ autProf'[y] # autProf[y] => x = y
               /\ autProf'[y] # "none" => autProf[y] # "none"
      BY <3>1, <2>3, AutEffect DEF x
    <3> QED
      BY <3>1, <3>2, <2>1 DEF x, AutWorld
  <2>5. CASE autOps' = <<>> /\ autFailed' = TRUE /\ UNCHANGED autIgnored
    <3>1. AutShape(autRole', <<>>)
      BY EmptySeq DEF AutShape
    <3>2. AutForm' /\ autFailed'
      BY <2>1, <2>5, <3>1 DEF AutIInv, AutForm
    <3> QED
      BY <3>2, <2>4 DEF AutIInv, AutWatched, AutRemoved
  <2>6. CASE /\ autOps' = Tail(autOps) /\ UNCHANGED autFailed
             /\ (Aut!Carried("delete", Aut!C.x) /\ UNCHANGED autIgnored) \/ (Aut!Nothing /\ autIgnored' = Aut!Exists(Aut!C.x))
    <3>1. /\ AutShape(autRole', autOps')
          /\ \A d : AutHas(autOps, d) <=> Aut!C.do = d \/ AutHas(autOps', d)
          /\ \A d : AutHas(autOps', d) => d = "read"
      BY <2>1, <2>6, AutContinued
    <3>2. /\ ~AutHas(autOps', "drop") /\ ~AutHas(autOps', "absent") /\ ~AutHas(autOps', "note") /\ ~AutHas(autOps', "unchanged")
          /\ ~AutHas(autOps, "absent") /\ ~AutHas(autOps, "note") /\ ~AutHas(autOps, "unchanged") /\ AutHas(autOps, "drop")
      BY <2>1, <3>1
    <3>3. /\ autIgnored' \in BOOLEAN
          /\ autProf'[AutSubject(autRole)] # "none" => autIgnored'
      <4>1. CASE Aut!Carried("delete", Aut!C.x) /\ UNCHANGED autIgnored
        <5>1. autProf' = [autProf EXCEPT ![Aut!C.x] = "none"]
          BY <4>1 DEF Aut!Carried
        <5>2. autProf'[AutSubject(autRole)] = "none"
          BY <5>1, <2>2, <1>w DEF AutWorld
        <5>3. autIgnored' \in BOOLEAN
          BY <4>1 DEF AutIInv, AutForm
        <5> QED
          BY <5>2, <5>3
      <4>2. CASE Aut!Nothing /\ autIgnored' = Aut!Exists(Aut!C.x)
        <5>1. autProf[AutSubject(autRole)] # "none" <=> Aut!Exists(Aut!C.x)
          BY <2>2, <1>w DEF Aut!Exists, AutWorld
        <5>2. Aut!Exists(Aut!C.x) \in BOOLEAN
          BY DEF Aut!Exists
        <5>3. autProf' = autProf
          BY <4>2 DEF Aut!Nothing
        <5> QED
          BY <4>2, <5>1, <5>2, <5>3
      <4> QED
        BY <2>6, <4>1, <4>2
    <3>4. AutForm'
      BY <2>1, <2>6, <3>1, <3>3 DEF AutIInv, AutForm
    <3>5. AutWatched'
      BY <2>1, <2>2, <2>4, <2>6, <3>2 DEF AutIInv, AutWatched
    <3>6. AutRemoved'
      <4>1. ~autFailed /\ autRole = "readwrite" => autProf'["kept"] = "none"
        BY <2>4 DEF AutIInv, AutRemoved
      <4> QED
        BY <4>1, <2>1, <2>6, <3>3 DEF AutRemoved
    <3> QED
      BY <2>4, <3>4, <3>5, <3>6 DEF AutIInv
  <2> QED
    BY <1>6, <2>5, <2>6 DEF Aut!Drop
<1>7. CASE UNCHANGED Aut!vars
  BY <1>7 DEF Aut!vars, AutIInv, AutForm, AutWorld, AutWatched, AutRemoved
<1> QED
  BY <1>1, <1>2, <1>3, <1>4, <1>5, <1>6, <1>7 DEF Aut!Next

\* The types, what rejections are worth, and what is left behind.
LEMMA AutTypes == AutIInv => Aut!TypeOK
<1> SUFFICES ASSUME AutIInv PROVE Aut!TypeOK
  OBVIOUS
<1>1. \A i \in DOMAIN autOps : autOps[i] \in AutCalls(autRole)
  BY ElementOfSeq, LenProperties DEF AutIInv, AutForm, AutShape
<1>2. \A i \in DOMAIN autOps : autOps[i].expect \in {"allowed", "observed", "no_data", "rejected"}
  BY <1>1 DEF AutCalls
<1> QED
  BY <1>2 DEF AutIInv, AutForm, AutWorld, AutContents, Aut!TypeOK

LEMMA AutReal == AutIInv => Aut!RejectionsAreReal
<1> SUFFICES ASSUME AutIInv, autRole # "readwrite", ~autFailed
    PROVE  /\ autTried /\ autOps # <<>> /\ Aut!C.do = "drop" => autProf["kept"] = "post"
           /\ Aut!Done => autProf["new"] = "none" \/ autUnseen
  BY DEF Aut!RejectionsAreReal
<1>1. ASSUME autOps # <<>>, Aut!C.do = "drop" PROVE autProf["kept"] = "post"
  <2>1. AutShape(autRole, autOps) /\ Aut!C = Head(autOps)
    BY DEF AutIInv, AutForm, Aut!C
  <2>2. \A d : AutHas(autOps, d) => d \in {"drop", "read"}
    BY <1>1, <2>1, AutRest
  <2>3. AutHas(autOps, "drop")
    BY <1>1, <2>1, AutRest
  <2> QED
    BY <2>2, <2>3 DEF AutIInv, AutWatched
<1>2. ASSUME Aut!Done PROVE autProf["new"] = "none" \/ autUnseen
  <2>1. ~AutHas(autOps, "absent")
    BY <1>2 DEF Aut!Done, AutHas
  <2> QED
    BY <2>1 DEF AutIInv, AutWatched
<1> QED
  BY <1>1, <1>2

LEMMA AutReported == AutIInv => Aut!LeftProfileIsReported
<1> SUFFICES ASSUME AutIInv, Aut!Done, ~autFailed PROVE Aut!LeftProfileIsReported
  BY DEF Aut!LeftProfileIsReported
<1>1. ~AutHas(autOps, "absent") /\ ~AutHas(autOps, "drop")
  BY DEF Aut!Done, AutHas
<1>2. autProf[AutSubject(autRole)] # "none" => autIgnored
  BY <1>1 DEF AutIInv, AutRemoved
<1>3. autRole = "readwrite" => autProf["kept"] = "none"
  BY DEF AutIInv, AutRemoved
<1>4. autRole # "readwrite" => (autProf["new"] # "none" => autUnseen)
  BY <1>1 DEF AutIInv, AutWatched
<1>5. DOMAIN autProf = {"new", "kept"}
  BY DEF AutIInv, AutWorld
<1> QED
  BY <1>2, <1>3, <1>4, <1>5 DEF AutSubject, Aut!Ephemeral, Aut!LeftProfileIsReported

\* The invariant holds throughout a summary.
LEMMA AutAlways == ASSUME Aut!AuthAssumption PROVE Aut!Spec => []AutIInv
<1>1. Aut!Init => AutIInv
  BY AutInitially
<1>2. AutIInv /\ [Aut!Next]_(Aut!vars) => AutIInv'
  BY AutInductive
<1> QED
  BY <1>1, <1>2, PTL DEF Aut!Spec

\* The flow keeps the types of its variables.
THEOREM AutTypeCorrect == ASSUME Aut!AuthAssumption PROVE Aut!Spec => []Aut!TypeOK
<1>1. AutIInv => Aut!TypeOK
  BY AutTypes
<1> QED
  BY <1>1, AutAlways, PTL

\* A summary that passes has seen every request that its role must not make
\* refused, and the refused ones have changed no profile, and created none
\* unless the observer's look for it was refused as well
\* (services/auth_matrix/service.py:346).
THEOREM AutRejectionsReal == ASSUME Aut!AuthAssumption PROVE Aut!Spec => []Aut!RejectionsAreReal
<1>1. AutIInv => Aut!RejectionsAreReal
  BY AutReal
<1> QED
  BY <1>1, AutAlways, PTL

\* A profile of the summary that is still there at the end is reported, unless
\* its own removal was refused, or, for that of the rejected POST, the look for it
\* (services/auth_matrix/service.py:312, 346).
THEOREM AutLeftReported == ASSUME Aut!AuthAssumption PROVE Aut!Spec => []Aut!LeftProfileIsReported
<1>1. AutIInv => Aut!LeftProfileIsReported
  BY AutReported
<1> QED
  BY <1>1, AutAlways, PTL


-----------------------------------------------------------------------------
(***************************************************************************)
(* The session tests.                                                      *)
(***************************************************************************)
\* The clock and what the EMS keeps are natural numbers.
SesForm ==
  /\ Ses!TypeOK
  /\ sesPc # "done" => ~sesFailed
  /\ sesPc = "login" => sesMinute = 1
  /\ sesPc \in {"login", "reuse"} => sesOpen = 0
  /\ sesPc = "observe" => sesMinute <= SesCount
  /\ sesPc = "renew" => sesMinute = SesCount + 1

\* A session that is observed was made within one request of started_at.
SesMade == sesPc \in {"observe", "renew"} => sesMade <= sesStarted /\ sesStarted <= sesMade + Delay

\* Requests that take half a minute at most make no observation late.
SesInTime == sesPc \in {"observe", "renew"} /\ 2 * Delay <= Minute => sesNow <= sesStarted + (sesMinute - 1) * Minute + 2 * Delay

\* What the observations so far have shown of the lifetime.
SesShown ==
  sesPc \in {"observe", "renew"} /\ sesMinute > LastGood =>
        /\ sesUsed >= sesStarted + LastGood * Minute
        /\ ~sesSliding => sesLife > LastGood * Minute
        /\ 2 * Delay <= Minute /\ sesMinute > LastGood + 1 =>
             IF sesSliding THEN sesLife <= Minute + 2 * Delay ELSE sesLife <= (sesMinute - 1) * Minute + 2 * Delay

\* The session of a case is closed by its logout, or the case has failed.
SesLeft == Ses!Done /\ sesOpen > 0 => sesFailed

SesIInv == SesForm /\ SesMade /\ SesInTime /\ SesShown /\ SesLeft

\* The constants are numbers, and so is every lifetime.
LEMMA SesNumbers ==
  ASSUME Ses!SessionAssumption
  PROVE  /\ Minute \in Nat \ {0} /\ LastGood \in Nat \ {0} /\ SesCount \in Nat \ {0} /\ Delay \in Nat
         /\ LastGood < SesCount /\ \A x \in Lives : x \in Nat
  BY DEF Ses!SessionAssumption

\* Minutes add up.
LEMMA SesMinutes ==
  ASSUME NEW m \in Nat, NEW k \in Nat
  PROVE  /\ m * k \in Nat /\ (m + 1) * k = m * k + k
         /\ \A j \in Nat : j <= m => j * k <= m * k
  BY SMT

\* The start of a case satisfies the invariant.
LEMMA SesInitially == ASSUME Ses!SessionAssumption PROVE Ses!Init => SesIInv
<1> SUFFICES ASSUME Ses!Init PROVE SesIInv
  OBVIOUS
<1>1. 1 \in 1 .. SesCount + 1
  BY SesNumbers
<1>2. SesForm
  <2>1. Ses!TypeOK
    <3>1. {sesNow, sesStarted, sesMade, sesUsed} \subseteq Nat /\ sesMinute \in 1 .. SesCount + 1 /\ sesOpen \in 0..1
      BY <1>1 DEF Ses!Init
    <3>2. /\ sesPc \in {"login", "observe", "renew", "logout", "reuse", "done"} /\ sesLife \in Lives
          /\ sesFailed \in BOOLEAN /\ sesSliding \in BOOLEAN /\ sesKind \in SesCases
      BY Zenon DEF Ses!Init
    <3> QED
      BY <3>1, <3>2 DEF Ses!TypeOK
  <2>2. ~sesFailed /\ sesPc = "login" /\ sesOpen = 0 /\ sesMinute = 1
    BY DEF Ses!Init
  <2> QED
    BY <2>1, <2>2 DEF SesForm
<1>3. SesMade /\ SesInTime /\ SesShown /\ SesLeft
  BY DEF Ses!Init, SesMade, SesInTime, SesShown, SesLeft, Ses!Done
<1> QED
  BY <1>2, <1>3 DEF SesIInv

\* Every step of a case keeps it.
LEMMA SesInductive == ASSUME Ses!SessionAssumption PROVE SesIInv /\ [Ses!Next]_(Ses!vars) => SesIInv'
<1> SUFFICES ASSUME SesIInv, [Ses!Next]_(Ses!vars) PROVE SesIInv'
  OBVIOUS
<1>a. /\ Minute \in Nat \ {0} /\ LastGood \in Nat \ {0} /\ SesCount \in Nat \ {0} /\ Delay \in Nat
      /\ LastGood < SesCount /\ \A x \in Lives : x \in Nat
  BY SesNumbers
<1>t. /\ sesNow \in Nat /\ sesStarted \in Nat /\ sesMade \in Nat /\ sesUsed \in Nat /\ sesMinute \in Nat /\ sesLife \in Nat
      /\ sesMinute \in 1 .. SesCount + 1
  BY <1>a DEF SesIInv, SesForm, Ses!TypeOK
<1>1. CASE Ses!Refused
  <2>1. /\ sesPc' \in {"logout", "reuse", "done"} /\ sesPc # "done"
        /\ UNCHANGED <<sesNow, sesStarted, sesMinute, sesMade, sesUsed, sesLife, sesSliding, sesKind>>
        /\ sesFailed' \in BOOLEAN /\ sesOpen' \in 0..1 /\ (sesPc' = "reuse" => sesOpen' = 0)
    <3>1. /\ sesPc' \in {"logout", "reuse", "done"} /\ sesPc # "done"
          /\ UNCHANGED <<sesNow, sesStarted, sesMinute, sesMade, sesUsed, sesLife, sesSliding, sesKind>>
      BY <1>1 DEF Ses!Refused, Ses!Go, Ses!Fail, Ses!ems
    <3>2. sesOpen \in 0..1 /\ (sesPc \in {"login", "reuse"} => sesOpen = 0)
      BY DEF SesIInv, SesForm, Ses!TypeOK
    <3>3. sesOpen' \in 0..1 /\ (sesPc' = "reuse" => sesOpen' = 0)
      BY <1>1, <3>2 DEF Ses!Refused, Ses!Go, Ses!Fail
    <3>4. sesFailed' \in BOOLEAN
      BY <1>1 DEF Ses!Refused, Ses!Go, Ses!Fail, SesIInv, SesForm, Ses!TypeOK
    <3> QED
      BY <3>1, <3>3, <3>4
  <2>2. Ses!TypeOK'
    BY <2>1 DEF SesIInv, SesForm, Ses!TypeOK
  <2>3. (sesPc' # "done" => ~sesFailed') /\ SesLeft'
    BY <1>1 DEF Ses!Refused, Ses!Go, Ses!Fail, SesIInv, SesForm, SesLeft, Ses!Done
  <2>4. SesForm'
    BY <2>1, <2>2, <2>3 DEF SesForm
  <2> QED
    BY <2>1, <2>3, <2>4 DEF SesIInv, SesMade, SesInTime, SesShown
<1>2. CASE Ses!Login
  <2>1. CASE sesOpen' = sesOpen + 1
             /\ (\E there, back \in 0..Delay :
                   sesMade' = sesNow + there /\ sesUsed' = sesMade' /\ sesNow' = sesMade' + back /\ sesStarted' = sesNow')
             /\ Ses!Go(IF sesKind = "readwrite" THEN "observe" ELSE "logout")
    <3>1. PICK there \in 0..Delay, back \in 0..Delay :
            sesMade' = sesNow + there /\ sesUsed' = sesMade' /\ sesNow' = sesMade' + back /\ sesStarted' = sesNow'
      BY <2>1
    <3>2. /\ sesMade' \in Nat /\ sesUsed' \in Nat /\ sesNow' \in Nat /\ sesStarted' \in Nat
          /\ sesMade' <= sesStarted' /\ sesStarted' <= sesMade' + Delay /\ sesNow' = sesStarted'
      BY <3>1, <1>a, <1>t
    <3>3. /\ sesOpen = 0 /\ sesMinute = 1 /\ sesMinute' = 1 /\ sesPc' \in {"observe", "logout"}
          /\ UNCHANGED <<sesFailed, sesLife, sesSliding, sesKind>> /\ ~sesFailed /\ sesOpen' = 1
      BY <1>2, <2>1 DEF Ses!Login, Ses!Go, SesIInv, SesForm
    <3>4. SesForm'
      BY <3>2, <3>3, <1>a DEF SesIInv, SesForm, Ses!TypeOK
    <3>5. SesMade' /\ SesInTime' /\ SesShown' /\ SesLeft'
      <4>1. (sesMinute' - 1) * Minute = 0 /\ ~(sesMinute' > LastGood)
        BY <3>3, <1>a
      <4>2. SesMade' /\ SesLeft'
        BY <3>2, <3>3 DEF SesMade, SesLeft, Ses!Done
      <4>3. SesInTime'
        <5>1. sesNow' <= sesStarted' + (sesMinute' - 1) * Minute + 2 * Delay
          BY <3>2, <4>1, <1>a
        <5> QED
          BY <5>1 DEF SesInTime
      <4> QED
        BY <4>1, <4>2, <4>3 DEF SesShown
    <3> QED
      BY <3>4, <3>5 DEF SesIInv
  <2>2. CASE Ses!Fail /\ UNCHANGED <<sesNow, sesStarted, sesOpen, sesMade, sesUsed>>
    BY <1>2, <2>2 DEF Ses!Login, Ses!Fail, SesIInv, SesForm, Ses!TypeOK, SesMade, SesInTime, SesShown,
       SesLeft, Ses!Done
  <2> QED
    BY <1>2, <2>1, <2>2 DEF Ses!Login
<1>3. CASE Ses!Observe
  <2>1. PICK there \in 0..Delay, back \in 0..Delay :
          LET at == Ses!Later(sesNow, Ses!Due) + there IN
          /\ sesNow' = at + back
          /\ sesUsed' = IF Ses!Alive(at) THEN at ELSE sesUsed
          /\ IF Ses!Alive(at) = (sesMinute <= LastGood) THEN Ses!Go(IF sesMinute = SesCount THEN "renew" ELSE "observe") ELSE Ses!Fail
    BY <1>3 DEF Ses!Observe
  <2> DEFINE at == Ses!Later(sesNow, Ses!Due) + there
             M  == sesMinute * Minute
             P  == (sesMinute - 1) * Minute
             G  == LastGood * Minute
  <2>2. /\ sesPc = "observe" /\ sesMinute <= SesCount /\ sesMinute' = sesMinute + 1 /\ UNCHANGED <<sesStarted, sesMade, sesLife, sesSliding, sesOpen, sesKind>>
        /\ ~sesFailed
    BY <1>3 DEF Ses!Observe, SesIInv, SesForm
  <2>3. M \in Nat /\ P \in Nat /\ M = P + Minute /\ G \in Nat
    <3>1. sesMinute - 1 \in Nat /\ sesMinute = (sesMinute - 1) + 1
      BY <1>t
    <3> QED
      BY <3>1, <1>a, SesMinutes
  <2>4. sesMinute >= LastGood => M >= G
    BY <1>a, <1>t, SesMinutes
  <2>5. Ses!Due = sesStarted + M
    BY DEF Ses!Due
  <2>6. at \in Nat /\ at >= Ses!Due /\ at >= sesNow /\ at <= sesNow' /\ sesNow' <= at + Delay /\ sesNow' \in Nat
    BY <2>1, <2>3, <2>5, <1>a, <1>t DEF Ses!Later
  <2>7. /\ sesUsed' = IF Ses!Alive(at) THEN at ELSE sesUsed
        /\ Ses!Alive(at) = (sesMinute <= LastGood) \/ (sesPc' = "done" /\ sesFailed' = TRUE)
        /\ Ses!Alive(at) = (sesMinute <= LastGood) =>
             sesPc' = (IF sesMinute = SesCount THEN "renew" ELSE "observe") /\ UNCHANGED sesFailed
    BY <2>1 DEF Ses!Go, Ses!Fail
  <2>8. Ses!Alive(at) <=> at - (IF sesSliding THEN sesUsed ELSE sesMade) < sesLife
    BY DEF Ses!Alive
  <2>9. SesForm'
    <3>1. sesUsed' \in Nat
      BY <2>6, <2>7, <1>t
    <3>2. sesMinute' \in 1 .. SesCount + 1 /\ (sesMinute # SesCount => sesMinute' <= SesCount) /\ (sesMinute = SesCount => sesMinute' = SesCount + 1)
      BY <2>2, <1>a, <1>t
    <3>3. /\ sesPc' \in {"observe", "renew", "done"} /\ sesFailed' \in BOOLEAN /\ (sesPc' # "done" => ~sesFailed')
          /\ sesPc' = "observe" => sesMinute # SesCount
          /\ sesPc' = "renew" => sesMinute = SesCount
      <4>1. CASE sesPc' = "done" /\ sesFailed' = TRUE
        BY <4>1
      <4>2. CASE sesPc' = (IF sesMinute = SesCount THEN "renew" ELSE "observe") /\ UNCHANGED sesFailed
        BY <4>2, <2>2 DEF SesIInv, SesForm, Ses!TypeOK
      <4> QED
        BY <2>7, <4>1, <4>2
    <3>4. Ses!TypeOK'
      BY <2>2, <2>6, <3>1, <3>2, <3>3, <1>t DEF SesIInv, SesForm, Ses!TypeOK
    <3> QED
      BY <3>2, <3>3, <3>4 DEF SesForm
  <2>10. sesMade <= sesStarted /\ sesStarted <= sesMade + Delay
    BY <2>2 DEF SesIInv, SesMade
  <2>11. 2 * Delay <= Minute => sesNow <= Ses!Due
    <3>1. 2 * Delay <= Minute => sesNow <= sesStarted + P + 2 * Delay
      BY <2>2 DEF SesIInv, SesInTime
    <3> HIDE DEF M, P
    <3> QED
      BY <3>1, <2>3, <2>5, <1>a, <1>t
  <2>12. 2 * Delay <= Minute => at <= sesStarted + M + Delay
    BY <2>11, <2>5, <2>3, <1>a, <1>t DEF Ses!Later
  <2>13. SesMade' /\ SesLeft'
    BY <2>2, <2>7, <2>10 DEF SesMade, SesLeft, Ses!Done
  <2> HIDE DEF at, M, P, G
  <2>14. (sesMinute' - 1) * Minute = M
    BY <2>2, <1>t DEF M
  <2>15. SesInTime'
    BY <2>2, <2>6, <2>12, <2>14, <2>3, <1>a, <1>t DEF SesInTime
  <2>16. SesShown'
    <3> SUFFICES ASSUME sesPc' \in {"observe", "renew"}, sesMinute' > LastGood PROVE
           /\ sesUsed' >= sesStarted + G
           /\ ~sesSliding => sesLife > G
           /\ 2 * Delay <= Minute /\ sesMinute' > LastGood + 1 =>
                IF sesSliding THEN sesLife <= Minute + 2 * Delay ELSE sesLife <= M + 2 * Delay
      BY <2>2, <2>14 DEF SesShown, G
    <3>1. Ses!Alive(at) <=> sesMinute <= LastGood
      BY <2>7
    <3>2. CASE sesMinute <= LastGood
      <4>1. sesMinute = LastGood
        BY <3>2, <2>2, <1>a, <1>t
      <4>2. M = G /\ sesUsed' = at /\ Ses!Alive(at) /\ ~(sesMinute' > LastGood + 1)
        BY <4>1, <3>1, <2>2, <2>7, <1>a DEF M, G
      <4> QED
        BY <4>1, <4>2, <2>3, <2>5, <2>6, <2>8, <2>10, <1>a, <1>t
    <3>3. CASE sesMinute > LastGood
      <4>1. /\ sesUsed >= sesStarted + G
            /\ ~sesSliding => sesLife > G
            /\ 2 * Delay <= Minute /\ sesMinute > LastGood + 1 =>
                 IF sesSliding THEN sesLife <= Minute + 2 * Delay ELSE sesLife <= P + 2 * Delay
        BY <3>3, <2>2 DEF SesIInv, SesShown, P, G
      <4>2. ~Ses!Alive(at) /\ sesUsed' = sesUsed
        BY <3>1, <3>3, <2>7, <1>a, <1>t
      <4>3. at - (IF sesSliding THEN sesUsed ELSE sesMade) >= sesLife
        BY <4>2, <2>8, <2>6, <1>t
      <4>4. CASE sesSliding
        <5>1. sesMinute = LastGood + 1 => M = G + Minute
          BY SesMinutes, <1>a DEF M, G
        <5>2. sesMinute = LastGood + 1 \/ sesMinute > LastGood + 1
          BY <3>3, <1>a, <1>t
        <5> QED
          BY <4>1, <4>2, <4>3, <4>4, <5>1, <5>2, <2>3, <2>6, <2>12, <1>a, <1>t
      <4>5. CASE ~sesSliding
        BY <4>1, <4>2, <4>3, <4>5, <2>3, <2>6, <2>10, <2>12, <1>a, <1>t
      <4> QED
        BY <4>4, <4>5
    <3> QED
      BY <3>2, <3>3, <1>a, <1>t
  <2> QED
    BY <2>9, <2>13, <2>15, <2>16 DEF SesIInv
<1>4. CASE Ses!Renew
  <2>1. /\ sesPc' \in {"logout", "reuse", "done"} /\ sesPc # "done"
        /\ UNCHANGED <<sesNow, sesStarted, sesMinute, sesMade, sesUsed, sesLife, sesSliding, sesKind>>
        /\ sesFailed' \in BOOLEAN /\ sesOpen' \in 0..1 /\ (sesPc' = "reuse" => sesOpen' = 0)
    <3>1. /\ sesPc' \in {"logout", "reuse", "done"} /\ sesPc # "done"
          /\ UNCHANGED <<sesNow, sesStarted, sesMinute, sesMade, sesUsed, sesLife, sesSliding, sesKind>>
      BY <1>4 DEF Ses!Renew, Ses!Go, Ses!Fail, Ses!ems
    <3>2. sesOpen \in 0..1 /\ (sesPc \in {"login", "reuse"} => sesOpen = 0)
      BY DEF SesIInv, SesForm, Ses!TypeOK
    <3>3. sesOpen' \in 0..1 /\ (sesPc' = "reuse" => sesOpen' = 0)
      BY <1>4, <3>2 DEF Ses!Renew, Ses!Go, Ses!Fail
    <3>4. sesFailed' \in BOOLEAN
      BY <1>4 DEF Ses!Renew, Ses!Go, Ses!Fail, SesIInv, SesForm, Ses!TypeOK
    <3> QED
      BY <3>1, <3>3, <3>4
  <2>2. Ses!TypeOK'
    BY <2>1 DEF SesIInv, SesForm, Ses!TypeOK
  <2>3. (sesPc' # "done" => ~sesFailed') /\ SesLeft'
    BY <1>4 DEF Ses!Renew, Ses!Go, Ses!Fail, SesIInv, SesForm, SesLeft, Ses!Done
  <2>4. SesForm'
    BY <2>1, <2>2, <2>3 DEF SesForm
  <2> QED
    BY <2>1, <2>3, <2>4 DEF SesIInv, SesMade, SesInTime, SesShown
<1>5. CASE Ses!Logout
  <2>1. /\ sesPc' \in {"logout", "reuse", "done"} /\ sesPc # "done"
        /\ UNCHANGED <<sesNow, sesStarted, sesMinute, sesMade, sesUsed, sesLife, sesSliding, sesKind>>
        /\ sesFailed' \in BOOLEAN /\ sesOpen' \in 0..1 /\ (sesPc' = "reuse" => sesOpen' = 0)
    <3>1. /\ sesPc' \in {"logout", "reuse", "done"} /\ sesPc # "done"
          /\ UNCHANGED <<sesNow, sesStarted, sesMinute, sesMade, sesUsed, sesLife, sesSliding, sesKind>>
      BY <1>5 DEF Ses!Logout, Ses!Go, Ses!Fail, Ses!ems
    <3>2. sesOpen \in 0..1 /\ (sesPc \in {"login", "reuse"} => sesOpen = 0)
      BY DEF SesIInv, SesForm, Ses!TypeOK
    <3>3. sesOpen' \in 0..1 /\ (sesPc' = "reuse" => sesOpen' = 0)
      BY <1>5, <3>2 DEF Ses!Logout, Ses!Go, Ses!Fail
    <3>4. sesFailed' \in BOOLEAN
      BY <1>5 DEF Ses!Logout, Ses!Go, Ses!Fail, SesIInv, SesForm, Ses!TypeOK
    <3> QED
      BY <3>1, <3>3, <3>4
  <2>2. Ses!TypeOK'
    BY <2>1 DEF SesIInv, SesForm, Ses!TypeOK
  <2>3. (sesPc' # "done" => ~sesFailed') /\ SesLeft'
    BY <1>5 DEF Ses!Logout, Ses!Go, Ses!Fail, SesIInv, SesForm, SesLeft, Ses!Done
  <2>4. SesForm'
    BY <2>1, <2>2, <2>3 DEF SesForm
  <2> QED
    BY <2>1, <2>3, <2>4 DEF SesIInv, SesMade, SesInTime, SesShown
<1>6. CASE Ses!Reuse
  <2>1. /\ sesPc' \in {"logout", "reuse", "done"} /\ sesPc # "done"
        /\ UNCHANGED <<sesNow, sesStarted, sesMinute, sesMade, sesUsed, sesLife, sesSliding, sesKind>>
        /\ sesFailed' \in BOOLEAN /\ sesOpen' \in 0..1 /\ (sesPc' = "reuse" => sesOpen' = 0)
    <3>1. /\ sesPc' \in {"logout", "reuse", "done"} /\ sesPc # "done"
          /\ UNCHANGED <<sesNow, sesStarted, sesMinute, sesMade, sesUsed, sesLife, sesSliding, sesKind>>
      BY <1>6 DEF Ses!Reuse, Ses!Go, Ses!Fail, Ses!ems
    <3>2. sesOpen \in 0..1 /\ (sesPc \in {"login", "reuse"} => sesOpen = 0)
      BY DEF SesIInv, SesForm, Ses!TypeOK
    <3>3. sesOpen' \in 0..1 /\ (sesPc' = "reuse" => sesOpen' = 0)
      BY <1>6, <3>2 DEF Ses!Reuse, Ses!Go, Ses!Fail
    <3>4. sesFailed' \in BOOLEAN
      BY <1>6 DEF Ses!Reuse, Ses!Go, Ses!Fail, SesIInv, SesForm, Ses!TypeOK
    <3> QED
      BY <3>1, <3>3, <3>4
  <2>2. Ses!TypeOK'
    BY <2>1 DEF SesIInv, SesForm, Ses!TypeOK
  <2>3. (sesPc' # "done" => ~sesFailed') /\ SesLeft'
    BY <1>6 DEF Ses!Reuse, Ses!Go, Ses!Fail, SesIInv, SesForm, SesLeft, Ses!Done
  <2>4. SesForm'
    BY <2>1, <2>2, <2>3 DEF SesForm
  <2> QED
    BY <2>1, <2>3, <2>4 DEF SesIInv, SesMade, SesInTime, SesShown
<1>7. CASE UNCHANGED Ses!vars
  BY <1>7, <1>a DEF Ses!vars, SesIInv, SesForm, Ses!TypeOK, SesMade, SesInTime, SesShown, SesLeft, Ses!Done
<1> QED
  BY <1>1, <1>2, <1>3, <1>4, <1>5, <1>6, <1>7 DEF Ses!Next

\* What a lifetime that passes must have been.
LEMMA SesReal == ASSUME Ses!SessionAssumption PROVE SesIInv => Ses!LifetimeIsReal
<1> SUFFICES ASSUME SesIInv, sesPc = "renew", 2 * Delay <= Minute
    PROVE IF sesSliding THEN sesLife <= Minute + 2 * Delay
          ELSE sesLife > LastGood * Minute /\ sesLife <= SesCount * Minute + 2 * Delay
  BY DEF Ses!LifetimeIsReal
<1>1. sesMinute = SesCount + 1 /\ sesMinute - 1 = SesCount /\ sesMinute > LastGood + 1
  BY SesNumbers DEF SesIInv, SesForm
<1> QED
  BY <1>1, SesNumbers DEF SesIInv, SesShown

\* What an EMS that conforms is asked is asked in time.
LEMMA SesConforming == ASSUME Ses!SessionAssumption PROVE SesIInv => Ses!ConformingEmsPasses
<1> SUFFICES ASSUME SesIInv, sesLife = SesCount * Minute, ~sesSliding, LastGood = SesCount - 1, 2 * Delay < Minute, sesPc = "observe"
    PROVE  /\ sesMinute <= LastGood => Ses!Alive(Ses!Later(sesNow, Ses!Due) + Delay)
           /\ sesMinute = SesCount => ~Ses!Alive(Ses!Later(sesNow, Ses!Due))
  BY DEF Ses!ConformingEmsPasses, SesIInv, SesForm
<1>a. /\ Minute \in Nat \ {0} /\ LastGood \in Nat \ {0} /\ SesCount \in Nat \ {0} /\ Delay \in Nat
  BY SesNumbers
<1>t. /\ sesNow \in Nat /\ sesStarted \in Nat /\ sesMade \in Nat /\ sesMinute \in Nat /\ sesMinute >= 1
      /\ sesMade <= sesStarted /\ sesStarted <= sesMade + Delay
  BY <1>a DEF SesIInv, SesForm, Ses!TypeOK, SesMade
<1> DEFINE M == sesMinute * Minute
           P == (sesMinute - 1) * Minute
           G == LastGood * Minute
           L == SesCount * Minute
<1>1. M \in Nat /\ P \in Nat /\ M = P + Minute
  <2>1. sesMinute - 1 \in Nat /\ sesMinute = (sesMinute - 1) + 1
    BY <1>t
  <2>2. (sesMinute - 1) * Minute \in Nat /\ ((sesMinute - 1) + 1) * Minute = (sesMinute - 1) * Minute + Minute
    BY <2>1, <1>a, SesMinutes
  <2> QED
    BY <2>1, <2>2, <1>a, <1>t
<1>2. G \in Nat /\ L = G + Minute /\ (sesMinute <= LastGood => M <= G) /\ (sesMinute = SesCount => M = L)
  <2>1. SesCount = LastGood + 1 /\ LastGood \in Nat /\ Minute \in Nat
    BY <1>a
  <2>2. G \in Nat /\ L = G + Minute
    BY <2>1, SesMinutes
  <2>3. sesMinute <= LastGood => M <= G
    BY <2>1, <1>t, SesMinutes
  <2> QED
    BY <2>2, <2>3
<1>3. sesNow <= sesStarted + P + 2 * Delay
  BY <1>a DEF SesIInv, SesInTime
<1>4. Ses!Due = sesStarted + M
  BY DEF Ses!Due
<1>5. sesLife = L
  OBVIOUS
<1> HIDE DEF M, P, G, L
<1>6. Ses!Later(sesNow, Ses!Due) = sesStarted + M
  BY <1>1, <1>3, <1>4, <1>a, <1>t DEF Ses!Later
<1> QED
  BY <1>1, <1>2, <1>5, <1>6, <1>a, <1>t DEF Ses!Alive

\* The invariant holds throughout a case.
LEMMA SesAlways == ASSUME Ses!SessionAssumption PROVE Ses!Spec => []SesIInv
<1>1. Ses!Init => SesIInv
  BY SesInitially
<1>2. SesIInv /\ [Ses!Next]_(Ses!vars) => SesIInv'
  BY SesInductive
<1> QED
  BY <1>1, <1>2, PTL DEF Ses!Spec

\* The flow keeps the types of its variables.
THEOREM SesTypeCorrect == ASSUME Ses!SessionAssumption PROVE Ses!Spec => []Ses!TypeOK
<1>1. SesIInv => Ses!TypeOK
  BY DEF SesIInv, SesForm, Ses!TypeOK
<1> QED
  BY <1>1, SesAlways, PTL

\* A lifetime that passes is the one expected, up to the time of the requests
\* (services/session/service.py:42-59).
THEOREM SesLifetimeReal == ASSUME Ses!SessionAssumption PROVE Ses!Spec => []Ses!LifetimeIsReal
<1>1. SesIInv => Ses!LifetimeIsReal
  BY SesReal
<1> QED
  BY <1>1, SesAlways, PTL

\* An EMS that gives a session its exact lifetime is not failed by slow requests
\* (services/session/service.py:42-59).
THEOREM SesConformingPasses == ASSUME Ses!SessionAssumption PROVE Ses!Spec => []Ses!ConformingEmsPasses
<1>1. SesIInv => Ses!ConformingEmsPasses
  BY SesConforming
<1> QED
  BY <1>1, SesAlways, PTL

\* A case that leaves a session of its own on the EMS has failed
\* (services/session/service.py:21-33, 84-105).
THEOREM SesLeftReported == ASSUME Ses!SessionAssumption PROVE Ses!Spec => []Ses!LeftSessionIsReported
<1>1. SesIInv => Ses!LeftSessionIsReported
  BY DEF SesIInv, SesLeft, Ses!LeftSessionIsReported
<1> QED
  BY <1>1, SesAlways, PTL


-----------------------------------------------------------------------------
(***************************************************************************)
(* The tests that only read.                                               *)
(***************************************************************************)
InvTests == [case : Inv!ReadCases, role : {"readwrite", "readonly", "noaccess"}]
InvResults == [case : Inv!ReadCases, role : {"readwrite", "readonly", "noaccess"}, verdict : {"pass", "fail", "skip", "error"}]

\* A test that waits or reads is the next one to do; the port is read when
\* the wait has shown it.
InvShape ==
  /\ invTodo \in Seq(InvTests) /\ invVerdicts \in Seq(InvResults)
  /\ invPc \in {"next", "wait", "read"} /\ invN \in 0..InvPolls /\ invCache \in {"", "ready", "failed"}
  /\ invSeen \in Pages \cup {Inv!Nothing} /\ invService \in BOOLEAN
  /\ invPc # "next" => invTodo # <<>>
  /\ invPc = "wait" => Inv!T.case = "port" /\ invCache = ""
  /\ invPc = "read" /\ Inv!T.case = "port" /\ Inv!T.role # "noaccess" => invCache = "ready"

\* One wait decides what the cache holds, and no port passes without it.
InvDecided ==
  /\ invWaits = (IF invCache = "" THEN 0 ELSE 1)
  /\ \A i \in DOMAIN invVerdicts :
       invVerdicts[i].case = "port" /\ invVerdicts[i].role # "noaccess" /\ invVerdicts[i].verdict = "pass" => invCache = "ready"

InvIInv == InvShape /\ InvDecided /\ Inv!PassIsShown /\ Inv!ShownPasses

\* A set of naturals has a least element, and a bounded one a greatest.
LEMMA InvLeast == ASSUME NEW S \in SUBSET Nat, S # {} PROVE \E x \in S : \A y \in S : ~(y < x)
<1>1. IsWellFoundedOn({pair \in Nat \X Nat : pair[1] < pair[2]}, Nat)
  BY NatLessThanWellFounded DEF OpToRel
<1>2. \E x \in S : \A y \in S : ~(<<y, x>> \in {pair \in Nat \X Nat : pair[1] < pair[2]})
  BY <1>1, WFMin
<1> QED
  BY <1>2

LEMMA InvGreatest == ASSUME NEW top \in Nat, NEW S \in SUBSET (1..top), S # {} PROVE \E x \in S : \A y \in S : y <= x
<1> DEFINE R == {k \in Nat : \E x \in S : k = top - x}
<1>1. R \in SUBSET Nat
  OBVIOUS
<1>2. R # {}
  <2>1. PICK x \in S : TRUE
    OBVIOUS
  <2>2. top - x \in R
    OBVIOUS
  <2> QED
    BY <2>2
<1>3. PICK k \in R : \A y \in R : ~(y < k)
  BY <1>1, <1>2, InvLeast
<1>4. PICK x \in S : k = top - x
  OBVIOUS
<1>5. ASSUME NEW y \in S PROVE y <= x
  <2>1. top - y \in R
    OBVIOUS
  <2>2. ~(top - y < top - x)
    BY <1>3, <1>4, <2>1
  <2> QED
    BY <2>2
<1> QED
  BY <1>5

\* What the assumption says of a page.
LEMMA InvPageRows ==
  ASSUME Inv!InventoryAssumption, NEW page \in Pages
  PROVE  /\ page.shape \in {"single", "list", "other"}
         /\ Len(page.rows) \in Nat /\ DOMAIN page.rows = 1..Len(page.rows)
         /\ page.shape = "single" => DOMAIN page.rows = {1}
  BY DEF Inv!InventoryAssumption

\* The first and the last of the rows that match.
LEMMA InvFirstExists ==
  ASSUME Inv!InventoryAssumption, NEW page \in Pages, NEW H \in SUBSET (DOMAIN page.rows), H # {}
  PROVE  /\ \E j \in H : \A k \in DOMAIN page.rows : k < j => k \notin H
         /\ \E j \in H : \A k \in H : k <= j
<1>1. H \in SUBSET Nat /\ H \in SUBSET (1..Len(page.rows)) /\ Len(page.rows) \in Nat
  BY InvPageRows
<1>2. PICK j \in H : \A k \in H : ~(k < j)
  BY <1>1, InvLeast
<1>3. \E l \in H : \A k \in H : k <= l
  BY <1>1, InvGreatest
<1> QED
  BY <1>2, <1>3

\* A test whose fields match has been shown a row of its target.
LEMMA InvShownRow ==
  ASSUME Inv!InventoryAssumption, NEW page \in Pages, NEW case \in Inv!ReadCases \ {"invalid"}, Inv!Matches(case, page)
  PROVE  /\ Inv!Own(case, page) # {}
         /\ case = "slot_list" => \A s \in Cards : \E i \in DOMAIN page.rows : page.rows[i].slot = s /\ Inv!CardFields(page.rows[i])
<1>1. ASSUME case = "slot_list"
      PROVE  \A s \in Cards : \E i \in DOMAIN page.rows : page.rows[i].slot = s /\ Inv!CardFields(page.rows[i])
  <2> SUFFICES ASSUME NEW s \in Cards PROVE \E i \in DOMAIN page.rows : page.rows[i].slot = s /\ Inv!CardFields(page.rows[i])
    OBVIOUS
  <2>1. Inv!Some(Inv!CardAt(page, s), Inv!CardFields)
    BY <1>1 DEF Inv!Matches, Inv!CardsMatch
  <2>2. PICK r \in Inv!CardAt(page, s) : Inv!CardFields(r)
    BY <2>1 DEF Inv!Some
  <2>3. PICK i \in DOMAIN page.rows : page.rows[i].slot = s /\ r = page.rows[i]
    BY <2>2 DEF Inv!CardAt
  <2> QED
    BY <2>2, <2>3
<1>2. CASE case = "device"
  <2>1. \E i \in DOMAIN page.rows : page.rows[i].dev
    BY <1>2 DEF Inv!Matches, Inv!Some, Inv!FindItem, Inv!FirstRow, Inv!IsDevice
  <2> QED
    BY <1>2, <2>1 DEF Inv!Own, Inv!ServiceCases
<1>3. CASE case \in {"slot", "slot_list"}
  <2>1. \E i \in DOMAIN page.rows : Inv!IsSlot(page.rows[i])
    BY <1>3 DEF Inv!Matches, Inv!Some, Inv!FindItem, Inv!FirstRow
  <2> QED
    BY <1>1, <1>3, <2>1 DEF Inv!Own, Inv!ServiceCases
<1>4. CASE case = "port"
  <2>1. \E i \in DOMAIN page.rows : Inv!IsPort(page.rows[i])
    BY <1>4 DEF Inv!Matches, Inv!Some, Inv!FindItem, Inv!FirstRow
  <2> QED
    BY <1>4, <2>1 DEF Inv!Own, Inv!ServiceCases
<1>5. CASE case = "ont"
  <2>1. PICK r \in Inv!FindOnt(page) : Inv!OntFields(r)
    BY <1>5 DEF Inv!Matches, Inv!Some
  <2>2. \E i \in DOMAIN page.rows : r = page.rows[i]
    <3>1. CASE page.shape = "single"
      BY <2>1, <3>1, InvPageRows DEF Inv!FindOnt
    <3>2. CASE page.shape # "single"
      BY <2>1, <3>2 DEF Inv!FindOnt, Inv!FirstRow
    <3> QED
      BY <3>1, <3>2
  <2>3. r.dev /\ r.at /\ r.sn
    BY <2>1 DEF Inv!OntFields
  <2> QED
    BY <1>5, <2>2, <2>3 DEF Inv!Own, Inv!ServiceCases
<1>6. CASE case \in {"ont_service", "ge_service"}
  <2>1. Inv!FindService(case, page) # {}
    BY <1>6 DEF Inv!Matches, Inv!Some
  <2>2. page.shape = "single" /\ 1 \in DOMAIN page.rows
    BY <1>6, <2>1, InvPageRows DEF Inv!FindService, Inv!Form
  <2> QED
    BY <1>6, <2>2 DEF Inv!Own, Inv!ServiceCases, Inv!Form
<1>7. CASE case = "ont_service_list"
  <2>1. Inv!FindService(case, page) # {}
    BY <1>7 DEF Inv!Matches, Inv!Some
  <2>2. page.shape = "list" /\ \E i \in DOMAIN page.rows : page.rows[i].sn
    BY <1>7, <2>1 DEF Inv!FindService, Inv!FirstRow, Inv!Form
  <2> QED
    BY <1>7, <2>2 DEF Inv!Own, Inv!ServiceCases, Inv!Form
<1>8. CASE case = "ge_service_list"
  <2>1. Inv!FindService(case, page) # {}
    BY <1>8 DEF Inv!Matches, Inv!Some
  <2>2. page.shape = "list" /\ \E i \in DOMAIN page.rows : Inv!IsPort(page.rows[i])
    BY <1>8, <2>1 DEF Inv!FindService, Inv!FirstRow, Inv!IsPort, Inv!Form
  <2> QED
    BY <1>8, <2>2 DEF Inv!Own, Inv!ServiceCases, Inv!Form
<1> QED
  BY <1>2, <1>3, <1>4, <1>5, <1>6, <1>7, <1>8 DEF Inv!ReadCases, Inv!ServiceCases

\* The rows of a page leave nothing to be desired.
InvClean(case, page) ==
  /\ page.shape # "other" /\ Inv!Own(case, page) # {}
  /\ \A i \in DOMAIN page.rows : Inv!Faultless(page.rows[i]) /\ Inv!ActiveImage(page.rows[i]) = "right"
  /\ case = "slot_list" => \A s \in Cards : Inv!CardAt(page, s) # {}
  /\ case = "ont" => \A i \in DOMAIN page.rows \ Inv!Own("ont", page) : ~page.rows[i].at /\ ~page.rows[i].sn

\* A row without fault has every field right.
LEMMA InvRightFields ==
  ASSUME NEW row, Inv!Faultless(row)
  PROVE  Inv!DeviceFields(row) /\ Inv!SlotFields(row) /\ Inv!CardFields(row) /\ Inv!PortFields(row) /\ Inv!ServiceFields(row)
  BY DEF Inv!Faultless, Inv!DeviceFields, Inv!SlotFields, Inv!CardFields, Inv!PortFields, Inv!ServiceFields,
     Inv!Unless, Inv!Right, Inv!Present

\* A page of such rows passes.
LEMMA InvCleanPasses ==
  ASSUME Inv!InventoryAssumption, NEW page \in Pages, NEW case \in Inv!ReadCases \ {"invalid"}, InvClean(case, page)
  PROVE  Inv!Matches(case, page)
<1>1. /\ page.shape \in {"single", "list"} /\ Inv!Own(case, page) # {}
      /\ \A i \in DOMAIN page.rows : Inv!Faultless(page.rows[i]) /\ Inv!ActiveImage(page.rows[i]) = "right"
  BY InvPageRows DEF InvClean
<1>2. \A i \in DOMAIN page.rows : /\ Inv!DeviceFields(page.rows[i]) /\ Inv!SlotFields(page.rows[i]) /\ Inv!CardFields(page.rows[i])
                                  /\ Inv!PortFields(page.rows[i]) /\ Inv!ServiceFields(page.rows[i])
  BY <1>1, InvRightFields
<1>3. CASE case = "device"
  <2> DEFINE H == {i \in DOMAIN page.rows : page.rows[i].dev}
  <2>1. H # {}
    BY <1>1, <1>3 DEF Inv!Own, Inv!ServiceCases
  <2>2. PICK j \in H : \A k \in DOMAIN page.rows : k < j => k \notin H
    BY <2>1, InvFirstExists
  <2>3. page.rows[j] \in Inv!FindItem(page, Inv!IsDevice)
    BY <1>1, <2>2 DEF Inv!FindItem, Inv!FirstRow, Inv!IsDevice
  <2> QED
    BY <1>2, <1>3, <2>3 DEF Inv!Matches, Inv!Some
<1>4. CASE case \in {"slot", "slot_list"}
  <2> DEFINE H == {i \in DOMAIN page.rows : Inv!IsSlot(page.rows[i])}
  <2>1. H # {}
    BY <1>1, <1>4 DEF Inv!Own, Inv!ServiceCases
  <2>2. PICK j \in H : \A k \in DOMAIN page.rows : k < j => k \notin H
    BY <2>1, InvFirstExists
  <2>3. page.rows[j] \in Inv!FindItem(page, Inv!IsSlot)
    BY <1>1, <2>2 DEF Inv!FindItem, Inv!FirstRow
  <2>4. Inv!Some(Inv!FindItem(page, Inv!IsSlot), Inv!SlotFields)
    BY <1>2, <2>3 DEF Inv!Some
  <2>5. \A s : \A r \in Inv!CardAt(page, s) : Inv!CardFields(r)
    BY <1>2 DEF Inv!CardAt
  <2>6. Inv!CardAt(page, Slot) # {}
    <3> DEFINE G == {i \in DOMAIN page.rows : page.rows[i].dev /\ page.rows[i].slot = Slot}
    <3>1. G # {}
      BY <2>1 DEF Inv!IsSlot
    <3>2. G \in SUBSET (DOMAIN page.rows)
      OBVIOUS
    <3>3. PICK g \in G : \A k \in G : k <= g
      <4> HIDE DEF G
      <4> QED
        BY <3>1, <3>2, InvFirstExists
    <3> QED
      BY <1>1, <3>3 DEF Inv!CardAt
  <2>7. \A s : Inv!CardAt(page, s) # {} => Inv!Some(Inv!CardAt(page, s), Inv!CardFields)
    BY <2>5 DEF Inv!Some
  <2>8. case = "slot_list" => Inv!CardsMatch(page, Cards)
    BY <2>7 DEF Inv!CardsMatch, InvClean
  <2>9. Inv!CardsMatch(page, {Slot})
    BY <2>6, <2>7 DEF Inv!CardsMatch
  <2> QED
    BY <1>4, <2>4, <2>8, <2>9 DEF Inv!Matches
<1>5. CASE case = "port"
  <2> DEFINE H == {i \in DOMAIN page.rows : Inv!IsPort(page.rows[i])}
  <2>1. H # {}
    BY <1>1, <1>5 DEF Inv!Own, Inv!ServiceCases
  <2>2. PICK j \in H : \A k \in DOMAIN page.rows : k < j => k \notin H
    BY <2>1, InvFirstExists
  <2>3. page.rows[j] \in Inv!FindItem(page, Inv!IsPort)
    BY <1>1, <2>2 DEF Inv!FindItem, Inv!FirstRow
  <2> QED
    BY <1>2, <1>5, <2>3 DEF Inv!Matches, Inv!Some
<1>6. CASE case = "ont"
  <2>1. PICK o \in DOMAIN page.rows : page.rows[o].dev /\ page.rows[o].at /\ page.rows[o].sn
    BY <1>1, <1>6 DEF Inv!Own, Inv!ServiceCases
  <2>2. \A i \in DOMAIN page.rows : page.rows[i].at \/ page.rows[i].sn => page.rows[i].dev /\ page.rows[i].at /\ page.rows[i].sn
    BY <1>6 DEF InvClean, Inv!Own, Inv!ServiceCases
  <2>3. \E i \in DOMAIN page.rows : page.rows[i] \in Inv!FindOnt(page) /\ (page.rows[i].at \/ page.rows[i].sn)
    <3>1. CASE page.shape = "single"
      BY <2>1, <3>1, InvPageRows DEF Inv!FindOnt
    <3>2. CASE page.shape = "list"
      <4> DEFINE H == {i \in DOMAIN page.rows : page.rows[i].sn \/ page.rows[i].at}
      <4>1. H # {}
        BY <2>1
      <4>2. PICK j \in H : \A k \in DOMAIN page.rows : k < j => k \notin H
        BY <4>1, InvFirstExists
      <4>3. page.rows[j] \in Inv!FindOnt(page)
        BY <3>2, <4>2 DEF Inv!FindOnt, Inv!FirstRow
      <4> QED
        BY <4>2, <4>3
    <3> QED
      BY <1>1, <3>1, <3>2
  <2>4. \A i \in DOMAIN page.rows : page.rows[i].at \/ page.rows[i].sn => Inv!OntFields(page.rows[i])
    <3>1. \A i \in DOMAIN page.rows : Inv!Right(page.rows[i], "id")
      BY <1>2 DEF Inv!DeviceFields
    <3> QED
      BY <1>1, <2>2, <3>1 DEF Inv!OntFields
  <2> QED
    BY <1>6, <2>3, <2>4 DEF Inv!Matches, Inv!Some
<1>7. CASE case \in Inv!ServiceCases
  <2>1. page.shape = Inv!Form(case)
    BY <1>1, <1>7 DEF Inv!Own
  <2>2. \E i \in DOMAIN page.rows : page.rows[i] \in Inv!FindService(case, page)
    <3>1. CASE case \in {"ont_service", "ge_service"}
      BY <2>1, <3>1, InvPageRows DEF Inv!FindService, Inv!Form
    <3>2. CASE case = "ont_service_list"
      <4> DEFINE H == {i \in DOMAIN page.rows : page.rows[i].sn}
      <4>1. H # {}
        BY <1>1, <2>1, <3>2 DEF Inv!Own, Inv!ServiceCases
      <4>2. PICK j \in H : \A k \in DOMAIN page.rows : k < j => k \notin H
        BY <4>1, InvFirstExists
      <4> QED
        BY <2>1, <3>2, <4>2 DEF Inv!FindService, Inv!FirstRow, Inv!Form
    <3>3. CASE case = "ge_service_list"
      <4> DEFINE H == {i \in DOMAIN page.rows : Inv!IsPort(page.rows[i])}
      <4>1. H # {}
        BY <1>1, <2>1, <3>3 DEF Inv!Own, Inv!ServiceCases
      <4>2. PICK j \in H : \A k \in DOMAIN page.rows : k < j => k \notin H
        BY <4>1, InvFirstExists
      <4> QED
        BY <2>1, <3>3, <4>2 DEF Inv!FindService, Inv!FirstRow, Inv!Form, Inv!IsPort
    <3> QED
      BY <1>7, <3>1, <3>2, <3>3 DEF Inv!ServiceCases
  <2>3. Inv!Some(Inv!FindService(case, page), Inv!ServiceFields)
    BY <1>2, <2>2 DEF Inv!Some
  <2> QED
    BY <1>7, <2>3 DEF Inv!Matches, Inv!ServiceCases
<1> QED
  BY <1>3, <1>4, <1>5, <1>6, <1>7 DEF Inv!ReadCases

\* The end of a test: the test is the last one in the list of verdicts.
LEMMA InvEnded ==
  ASSUME InvShape, invTodo # <<>>, NEW verdict \in {"pass", "fail", "skip", "error"}, Inv!End(verdict)
  PROVE  /\ Inv!T \in InvTests
         /\ invTodo' \in Seq(InvTests) /\ invVerdicts' \in Seq(InvResults) /\ invPc' = "next"
         /\ invVerdicts' # <<>> /\ Inv!LastTest' = [case |-> Inv!T.case, role |-> Inv!T.role, verdict |-> verdict]
         /\ Inv!LastTest'.case = Inv!T.case /\ Inv!LastTest'.role = Inv!T.role /\ Inv!LastTest'.verdict = verdict
         /\ \A i \in DOMAIN invVerdicts' : (i \in DOMAIN invVerdicts /\ invVerdicts'[i] = invVerdicts[i]) \/ invVerdicts'[i] = Inv!LastTest'
         /\ \A i \in DOMAIN invVerdicts' : (i \in DOMAIN invVerdicts /\ invVerdicts'[i] = invVerdicts[i]) \/ invVerdicts'[i].verdict = verdict
<1> DEFINE r == [case |-> Inv!T.case, role |-> Inv!T.role, verdict |-> verdict]
<1>1. Inv!T \in InvTests /\ invTodo' \in Seq(InvTests) /\ invPc' = "next" /\ invVerdicts' = Append(invVerdicts, r)
  BY HeadTailProperties DEF InvShape, Inv!T, Inv!End
<1>2. r \in InvResults
  BY <1>1 DEF InvTests, InvResults
<1> HIDE DEF r
<1>v. invVerdicts \in Seq(InvResults)
  BY DEF InvShape
<1>a. /\ Append(invVerdicts, r) \in Seq(InvResults) /\ Len(Append(invVerdicts, r)) = Len(invVerdicts) + 1
      /\ Append(invVerdicts, r)[Len(invVerdicts) + 1] = r
      /\ \A i \in 1..Len(invVerdicts) : Append(invVerdicts, r)[i] = invVerdicts[i]
  BY <1>v, <1>2, AppendProperties
<1>3. /\ invVerdicts' \in Seq(InvResults) /\ Len(invVerdicts') = Len(invVerdicts) + 1 /\ invVerdicts'[Len(invVerdicts) + 1] = r
      /\ \A i \in 1..Len(invVerdicts) : invVerdicts'[i] = invVerdicts[i]
  BY <1>1, <1>a
<1>4. Len(invVerdicts) \in Nat /\ DOMAIN invVerdicts = 1..Len(invVerdicts) /\ DOMAIN invVerdicts' = 1..(Len(invVerdicts) + 1)
  BY <1>3, LenProperties DEF InvShape
<1>5. Inv!LastTest' = r
  BY <1>3 DEF Inv!LastTest
<1>6. invVerdicts' # <<>>
  BY <1>3, <1>4, EmptySeq
<1>7. \A i \in DOMAIN invVerdicts' : (i \in DOMAIN invVerdicts /\ invVerdicts'[i] = invVerdicts[i]) \/ invVerdicts'[i] = Inv!LastTest'
  BY <1>3, <1>4, <1>5
<1>8. Inv!LastTest'.case = Inv!T.case /\ Inv!LastTest'.role = Inv!T.role /\ Inv!LastTest'.verdict = verdict
  BY <1>5 DEF r
<1>9. \A i \in DOMAIN invVerdicts' : (i \in DOMAIN invVerdicts /\ invVerdicts'[i] = invVerdicts[i]) \/ invVerdicts'[i].verdict = verdict
  BY <1>7, <1>8
<1> QED
  BY <1>1, <1>3, <1>5, <1>6, <1>7, <1>8, <1>9 DEF r

\* The start of a selection satisfies the invariant.
LEMMA InvInitially == ASSUME Inv!InventoryAssumption PROVE Inv!Init => InvIInv
<1> SUFFICES ASSUME Inv!Init PROVE InvIInv
  OBVIOUS
<1>1. invTodo \in Seq(InvTests) /\ invVerdicts \in Seq(InvResults) /\ invVerdicts = <<>> /\ DOMAIN invVerdicts = {}
  <2>1. invTodo \in Seq(InvTests)
    BY DEF Inv!Init, Inv!InventoryAssumption, InvTests
  <2>2. invVerdicts = <<>>
    BY DEF Inv!Init
  <2> QED
    BY <2>1, <2>2, EmptySeq
<1>2. InvShape
  <2>1. InvPolls \in Nat
    BY DEF Inv!InventoryAssumption
  <2>2. 0 \in 0..InvPolls
    BY <2>1
  <2>3. /\ invPc = "next" /\ invN = 0 /\ invService \in BOOLEAN /\ invCache = "" /\ invSeen = Inv!Nothing
    BY DEF Inv!Init
  <2> HIDE DEF Inv!Init
  <2> QED
    BY <1>1, <2>2, <2>3 DEF InvShape
<1>3. InvDecided
  BY <1>1 DEF Inv!Init, InvDecided
<1> QED
  BY <1>1, <1>2, <1>3 DEF InvIInv, Inv!PassIsShown, Inv!ShownPasses, Inv!Ran

\* A test that ends with another verdict says nothing of what it was shown.
LEMMA InvEndedElse ==
  ASSUME InvIInv, invTodo # <<>>, NEW verdict \in {"fail", "skip", "error"}, Inv!End(verdict), InvDecided',
         invN' \in 0..InvPolls, invCache' \in {"", "ready", "failed"}, invSeen' \in Pages \cup {Inv!Nothing}, invService' \in BOOLEAN,
         verdict = "fail" => Inv!T.case = "port" /\ invCache' = "failed"
  PROVE  InvIInv'
<1>1. /\ invTodo' \in Seq(InvTests) /\ invVerdicts' \in Seq(InvResults) /\ invPc' = "next"
      /\ Inv!LastTest' = [case |-> Inv!T.case, role |-> Inv!T.role, verdict |-> verdict]
  BY InvEnded DEF InvIInv
<1>2. InvShape'
  BY <1>1 DEF InvShape
<1>3. Inv!LastTest'.verdict = verdict /\ Inv!LastTest'.case = Inv!T.case
  BY <1>1
<1>4. Inv!PassIsShown'
  BY <1>3 DEF Inv!PassIsShown
<1>5. Inv!ShownPasses'
  BY <1>3 DEF Inv!ShownPasses
<1> QED
  BY <1>2, <1>4, <1>5 DEF InvIInv

\* A test that goes on has no verdict yet.
LEMMA InvGoesOn ==
  ASSUME InvIInv, invTodo # <<>>, NEW step \in {"wait", "read"}, Inv!Go(step), InvDecided',
         invN' \in 0..InvPolls, invCache' \in {"", "ready", "failed"}, invSeen' \in Pages \cup {Inv!Nothing}, invService' \in BOOLEAN,
         step = "wait" => Inv!T.case = "port" /\ invCache' = "",
         step = "read" /\ Inv!T.case = "port" /\ Inv!T.role # "noaccess" => invCache' = "ready"
  PROVE  InvIInv'
<1>1. invPc' = step /\ invTodo' = invTodo /\ invVerdicts' = invVerdicts /\ Inv!T' = Inv!T
  BY DEF Inv!Go, Inv!T
<1>2. InvShape'
  BY <1>1 DEF InvIInv, InvShape
<1>3. Inv!PassIsShown' /\ Inv!ShownPasses'
  BY <1>1 DEF Inv!PassIsShown, Inv!ShownPasses, Inv!Ran
<1> QED
  BY <1>2, <1>3 DEF InvIInv

\* Every step of a selection keeps the invariant.
LEMMA InvInductive == ASSUME Inv!InventoryAssumption PROVE InvIInv /\ [Inv!Next]_(Inv!vars) => InvIInv'
<1> SUFFICES ASSUME InvIInv, [Inv!Next]_(Inv!vars) PROVE InvIInv'
  OBVIOUS
<1>p. InvPolls \in Nat
  BY DEF Inv!InventoryAssumption
<1>s. InvShape
  BY DEF InvIInv
<1>1. CASE Inv!Start
  <2>1. /\ invPc = "next" /\ invTodo # <<>> /\ UNCHANGED <<invService, invCache, invWaits, invSeen>> /\ invN' \in 0..InvPolls
    <3>1. InvPolls \in 0..InvPolls
      BY <1>p
    <3> QED
      BY <1>1, <3>1 DEF Inv!Start
  <2>2. /\ invCache' \in {"", "ready", "failed"} /\ invSeen' \in Pages \cup {Inv!Nothing} /\ invService' \in BOOLEAN
    BY <2>1 DEF InvIInv, InvShape
  <2>3. \/ Inv!Go("read") /\ (Inv!T.case = "port" /\ Inv!T.role # "noaccess" => invCache = "ready")
        \/ Inv!Go("wait") /\ Inv!T.case = "port" /\ invCache = ""
        \/ Inv!End("skip")
        \/ Inv!End("fail") /\ Inv!T.case = "port" /\ invCache = "failed"
    BY <1>1 DEF Inv!Start, InvIInv, InvShape
  <2>4. CASE Inv!Go("read") /\ (Inv!T.case = "port" /\ Inv!T.role # "noaccess" => invCache = "ready")
    <3>1. InvDecided'
      BY <2>1, <2>4 DEF Inv!Go, InvIInv, InvDecided
    <3> QED
      BY <2>1, <2>2, <2>4, <3>1, InvGoesOn
  <2>5. CASE Inv!Go("wait") /\ Inv!T.case = "port" /\ invCache = ""
    <3>1. InvDecided'
      BY <2>1, <2>5 DEF Inv!Go, InvIInv, InvDecided
    <3> QED
      BY <2>1, <2>2, <2>5, <3>1, InvGoesOn
  <2>6. CASE Inv!End("skip")
    <3>1. InvDecided'
      <4>1. \A i \in DOMAIN invVerdicts' : (i \in DOMAIN invVerdicts /\ invVerdicts'[i] = invVerdicts[i]) \/ invVerdicts'[i].verdict = "skip"
        BY <2>1, <2>6, <1>s, InvEnded
      <4> QED
        BY <2>1, <4>1 DEF InvIInv, InvDecided
    <3> QED
      BY <2>1, <2>2, <2>6, <3>1, InvEndedElse
  <2>7. CASE Inv!End("fail") /\ Inv!T.case = "port" /\ invCache = "failed"
    <3>1. InvDecided'
      <4>1. \A i \in DOMAIN invVerdicts' : (i \in DOMAIN invVerdicts /\ invVerdicts'[i] = invVerdicts[i]) \/ invVerdicts'[i].verdict = "fail"
        BY <2>1, <2>7, <1>s, InvEnded
      <4> QED
        BY <2>1, <4>1 DEF InvIInv, InvDecided
    <3> QED
      BY <2>1, <2>2, <2>7, <3>1, InvEndedElse
  <2> QED
    BY <2>3, <2>4, <2>5, <2>6, <2>7
<1>2. CASE Inv!Await
  <2>1. invPc = "wait" /\ UNCHANGED invService /\ invTodo # <<>> /\ Inv!T.case = "port" /\ invCache = "" /\ invWaits = 0 /\ invService' \in BOOLEAN
        /\ invN \in 0..InvPolls /\ invSeen \in Pages \cup {Inv!Nothing}
    BY <1>2 DEF Inv!Await, InvIInv, InvShape, InvDecided
  <2>d. \A i \in DOMAIN invVerdicts :
          ~(invVerdicts[i].case = "port" /\ invVerdicts[i].role # "noaccess" /\ invVerdicts[i].verdict = "pass")
    BY <2>1 DEF InvIInv, InvDecided
  <2>2. CASE \E page \in Pages :
          /\ invSeen' = page
          /\ IF Inv!Shows("port", page) THEN invCache' = "ready" /\ invWaits' = invWaits + 1 /\ invN' = invN /\ Inv!Go("read")
             ELSE IF invN > 0 THEN invN' = invN - 1 /\ Inv!Go("wait") /\ UNCHANGED <<invCache, invWaits>>
             ELSE invCache' = "failed" /\ invWaits' = invWaits + 1 /\ invN' = invN /\ Inv!End("fail")
    <3>1. invSeen' \in Pages \cup {Inv!Nothing}
      BY <2>2
    <3>2. \/ invCache' = "ready" /\ invWaits' = invWaits + 1 /\ invN' = invN /\ Inv!Go("read")
          \/ invN > 0 /\ invN' = invN - 1 /\ Inv!Go("wait") /\ UNCHANGED <<invCache, invWaits>>
          \/ invCache' = "failed" /\ invWaits' = invWaits + 1 /\ invN' = invN /\ Inv!End("fail")
      BY <2>2
    <3>3. CASE invCache' = "ready" /\ invWaits' = invWaits + 1 /\ invN' = invN /\ Inv!Go("read")
      <4>1. InvDecided'
        <5>1. invCache' = "ready" /\ invWaits' = 1 /\ invVerdicts' = invVerdicts
          <6>1. invWaits = 0 /\ invWaits' = invWaits + 1
            BY <2>1, <3>3
          <6>2. invWaits' = 1
            BY <6>1
          <6> QED
            BY <3>3, <6>2, Zenon DEF Inv!Go
        <5> QED
          BY <5>1 DEF InvDecided
      <4> QED
        BY <2>1, <3>1, <3>3, <4>1, InvGoesOn
    <3>4. CASE invN > 0 /\ invN' = invN - 1 /\ Inv!Go("wait") /\ UNCHANGED <<invCache, invWaits>>
      <4>1. InvDecided'
        BY <2>1, <2>d, <3>4 DEF Inv!Go, InvDecided
      <4>2. invN' \in 0..InvPolls
        <5>1. invN \in 0..InvPolls /\ invN > 0 /\ invN' = invN - 1
          BY <2>1, <3>4
        <5> QED
          BY <5>1, <1>p
      <4> QED
        BY <2>1, <3>1, <3>4, <4>1, <4>2, InvGoesOn
    <3>5. CASE invCache' = "failed" /\ invWaits' = invWaits + 1 /\ invN' = invN /\ Inv!End("fail")
      <4>1. InvDecided'
        <5>1. \A i \in DOMAIN invVerdicts' : (i \in DOMAIN invVerdicts /\ invVerdicts'[i] = invVerdicts[i]) \/ invVerdicts'[i].verdict = "fail"
          BY <2>1, <3>5, <1>s, InvEnded
        <5> QED
          <6>1. invCache' = "failed" /\ invWaits' = 1
            <7>1. invWaits = 0 /\ invWaits' = invWaits + 1
              BY <2>1, <3>5
            <7>2. invWaits' = 1
              BY <7>1
            <7> QED
              BY <3>5, <7>2
          <6> QED
            BY <2>d, <5>1, <6>1 DEF InvDecided
      <4> QED
        BY <2>1, <3>1, <3>5, <4>1, InvEndedElse
    <3> QED
      BY <3>2, <3>3, <3>4, <3>5
  <2>3. CASE Inv!End("error") /\ UNCHANGED <<invCache, invWaits, invSeen, invN>>
    <3>1. InvDecided'
      <4>1. \A i \in DOMAIN invVerdicts' : (i \in DOMAIN invVerdicts /\ invVerdicts'[i] = invVerdicts[i]) \/ invVerdicts'[i].verdict = "error"
        BY <2>1, <2>3, <1>s, InvEnded
      <4> QED
        BY <2>1, <2>d, <2>3, <4>1 DEF InvDecided, InvIInv
    <3> QED
      BY <2>1, <2>3, <3>1, InvEndedElse
  <2> QED
    BY <1>2, <2>2, <2>3 DEF Inv!Await
<1>3. CASE Inv!Read
  <2>1. /\ invPc = "read" /\ UNCHANGED <<invService, invCache, invWaits>> /\ invTodo # <<>> /\ invService' \in BOOLEAN
        /\ invN \in 0..InvPolls /\ invSeen \in Pages \cup {Inv!Nothing} /\ invCache' \in {"", "ready", "failed"}
        /\ (Inv!T.case = "port" /\ Inv!T.role # "noaccess" => invCache = "ready")
    BY <1>3 DEF Inv!Read, InvIInv, InvShape
  <2>2. CASE Inv!End("error") /\ UNCHANGED <<invSeen, invN>>
    <3>1. InvDecided'
      <4>1. \A i \in DOMAIN invVerdicts' : (i \in DOMAIN invVerdicts /\ invVerdicts'[i] = invVerdicts[i]) \/ invVerdicts'[i].verdict = "error"
        BY <2>1, <2>2, <1>s, InvEnded
      <4> QED
        BY <2>1, <4>1 DEF InvIInv, InvDecided
    <3> QED
      BY <2>1, <2>2, <3>1, InvEndedElse
  <2>3. ASSUME NEW page \in Pages, invSeen' = page, ~Inv!Verdict(Inv!T, page), Inv!End("fail"), UNCHANGED invN
        PROVE  InvIInv'
    <3>1. /\ Inv!T \in InvTests /\ invTodo' \in Seq(InvTests) /\ invVerdicts' \in Seq(InvResults) /\ invPc' = "next"
          /\ Inv!LastTest'.case = Inv!T.case /\ Inv!LastTest'.role = Inv!T.role /\ Inv!LastTest'.verdict = "fail"
          /\ \A i \in DOMAIN invVerdicts' : (i \in DOMAIN invVerdicts /\ invVerdicts'[i] = invVerdicts[i]) \/ invVerdicts'[i].verdict = "fail"
      BY <2>1, <2>3, <1>s, InvEnded
    <3>2. InvDecided'
      BY <2>1, <3>1 DEF InvIInv, InvDecided
    <3>3. InvShape' /\ Inv!PassIsShown'
      BY <2>1, <2>3, <3>1 DEF InvShape, Inv!PassIsShown
    <3>4. Inv!ShownPasses'
      <4> SUFFICES ASSUME Inv!T.role # "noaccess", Inv!T.case # "invalid", page.status = "Success", page.shape # "other",
                          Inv!Own(Inv!T.case, page) # {},
                          \A i \in DOMAIN page.rows : Inv!Faultless(page.rows[i]) /\ Inv!ActiveImage(page.rows[i]) = "right",
                          Inv!T.case = "slot_list" => \A s \in Cards : Inv!CardAt(page, s) # {},
                          Inv!T.case = "ont" => \A i \in DOMAIN page.rows \ Inv!Own("ont", page) : ~page.rows[i].at /\ ~page.rows[i].sn
                   PROVE  FALSE
        <5>1. invSeen' = page /\ Inv!LastTest'.case = Inv!T.case /\ Inv!LastTest'.role = Inv!T.role
          BY <2>3, <3>1
        <5> QED
          BY <5>1 DEF Inv!ShownPasses, Inv!Ran
      <4>1. Inv!T.case \in Inv!ReadCases \ {"invalid"} /\ InvClean(Inv!T.case, page)
        BY <3>1 DEF InvTests, InvClean
      <4>2. Inv!Matches(Inv!T.case, page)
        BY <4>1, InvCleanPasses
      <4> QED
        BY <2>3, <4>2 DEF Inv!Verdict, Inv!Shows
    <3> QED
      BY <3>2, <3>3, <3>4 DEF InvIInv
  <2>4. ASSUME NEW page \in Pages, invSeen' = page, Inv!T.case = "invalid", invN > 0, Inv!Go("read"), invN' = invN - 1
        PROVE  InvIInv'
    <3>1. InvDecided'
      BY <2>1, <2>4 DEF Inv!Go, InvIInv, InvDecided
    <3>2. invN' \in 0..InvPolls
      <4>1. invN \in 0..InvPolls /\ invN > 0 /\ invN' = invN - 1
        BY <2>1, <2>4
      <4> QED
        BY <4>1, <1>p
    <3> QED
      BY <2>1, <2>4, <3>1, <3>2, InvGoesOn
  <2>5. ASSUME NEW page \in Pages, invSeen' = page, Inv!Verdict(Inv!T, page), Inv!End("pass"), UNCHANGED invN
        PROVE  InvIInv'
    <3>1. /\ Inv!T \in InvTests /\ invTodo' \in Seq(InvTests) /\ invVerdicts' \in Seq(InvResults) /\ invPc' = "next"
          /\ Inv!LastTest'.case = Inv!T.case /\ Inv!LastTest'.role = Inv!T.role /\ Inv!LastTest'.verdict = "pass"
          /\ \A i \in DOMAIN invVerdicts' : (i \in DOMAIN invVerdicts /\ invVerdicts'[i] = invVerdicts[i]) \/ invVerdicts'[i] = Inv!LastTest'
      BY <2>1, <2>5, <1>s, InvEnded
    <3>2. InvDecided'
      BY <2>1, <3>1 DEF InvIInv, InvDecided
    <3>3. InvShape' /\ Inv!ShownPasses'
      BY <2>1, <2>5, <3>1 DEF InvShape, Inv!ShownPasses
    <3>4. Inv!PassIsShown'
      <4> SUFFICES ASSUME Inv!T.role # "noaccess", Inv!T.case # "invalid"
                   PROVE  /\ page.status = "Success" /\ Inv!Own(Inv!T.case, page) # {}
                          /\ Inv!T.case = "slot_list" => \A s \in Cards : \E i \in DOMAIN page.rows :
                                                           page.rows[i].slot = s /\ Inv!CardFields(page.rows[i])
        <5>1. invSeen' = page /\ Inv!LastTest'.case = Inv!T.case /\ Inv!LastTest'.role = Inv!T.role
          BY <2>5, <3>1
        <5> QED
          BY <5>1 DEF Inv!PassIsShown, Inv!Ran
      <4>1. Inv!T.case \in Inv!ReadCases \ {"invalid"} /\ page.status = "Success" /\ Inv!Matches(Inv!T.case, page)
        BY <2>5, <3>1 DEF InvTests, Inv!Verdict, Inv!Shows
      <4> QED
        BY <4>1, InvShownRow
    <3> QED
      BY <3>2, <3>3, <3>4 DEF InvIInv
  <2> QED
    BY <1>3, <2>2, <2>3, <2>4, <2>5 DEF Inv!Read
<1>4. CASE UNCHANGED Inv!vars
  <2>1. InvShape' /\ InvDecided'
    BY <1>4 DEF Inv!vars, InvIInv, InvShape, InvDecided, Inv!T
  <2>2. Inv!PassIsShown'
    BY <1>4 DEF Inv!vars, InvIInv, Inv!PassIsShown, Inv!Ran, Inv!LastTest
  <2>3. Inv!ShownPasses'
    BY <1>4 DEF Inv!vars, InvIInv, Inv!ShownPasses, Inv!Ran, Inv!LastTest
  <2> QED
    BY <2>1, <2>2, <2>3 DEF InvIInv
<1> QED
  BY <1>1, <1>2, <1>3, <1>4 DEF Inv!Next

LEMMA InvTypes == ASSUME Inv!InventoryAssumption PROVE InvIInv => Inv!TypeOK
<1> SUFFICES ASSUME InvIInv PROVE Inv!TypeOK
  OBVIOUS
<1>1. \A i \in DOMAIN invVerdicts : invVerdicts[i] \in InvResults
  BY ElementOfSeq, LenProperties DEF InvIInv, InvShape
<1>2. \A i \in DOMAIN invVerdicts : invVerdicts[i].verdict \in {"pass", "fail", "skip", "error"}
  BY <1>1 DEF InvResults
<1> QED
  BY <1>2 DEF InvIInv, InvShape, Inv!TypeOK

LEMMA InvOneWait == InvIInv => Inv!OneWaitDecides
<1> SUFFICES ASSUME InvIInv PROVE Inv!OneWaitDecides
  OBVIOUS
<1>1. invWaits <= 1
  <2>1. invWaits = 0 \/ invWaits = 1
    BY DEF InvIInv, InvDecided
  <2> QED
    BY <2>1
<1>2. ASSUME invCache = "failed", NEW i \in DOMAIN invVerdicts, invVerdicts[i].case = "port", invVerdicts[i].role # "noaccess"
      PROVE  invVerdicts[i].verdict # "pass"
  BY <1>2 DEF InvIInv, InvDecided
<1> QED
  BY <1>1, <1>2 DEF Inv!OneWaitDecides

\* The invariant holds throughout a selection.
LEMMA InvAlways == ASSUME Inv!InventoryAssumption PROVE Inv!Spec => []InvIInv
<1>1. Inv!Init => InvIInv
  BY InvInitially
<1>2. InvIInv /\ [Inv!Next]_(Inv!vars) => InvIInv'
  BY InvInductive
<1> QED
  BY <1>1, <1>2, PTL DEF Inv!Spec

\* The flow keeps the types of its variables.
THEOREM InvTypeCorrect == ASSUME Inv!InventoryAssumption PROVE Inv!Spec => []Inv!TypeOK
<1>1. InvIInv => Inv!TypeOK
  BY InvTypes
<1> QED
  BY <1>1, InvAlways, PTL

\* A read test that passed was shown a row of its target
\* (services/inventory/service.py:499-521, 678-693).
THEOREM InvPassShown == ASSUME Inv!InventoryAssumption PROVE Inv!Spec => []Inv!PassIsShown
<1>1. InvIInv => Inv!PassIsShown
  BY DEF InvIInv
<1> QED
  BY <1>1, InvAlways, PTL

\* A page on which every row of the target is right passes, in whatever order its rows
\* come, but for an ONT in the place of another (services/inventory/service.py:510-520).
THEOREM InvShownRowPasses == ASSUME Inv!InventoryAssumption PROVE Inv!Spec => []Inv!ShownPasses
<1>1. InvIInv => Inv!ShownPasses
  BY DEF InvIInv
<1> QED
  BY <1>1, InvAlways, PTL

\* The port tests wait once in a session and agree on what came of it
\* (tests/test_inventory.py:51-68).
THEOREM InvOneWaitForAll == ASSUME Inv!InventoryAssumption PROVE Inv!Spec => []Inv!OneWaitDecides
<1>1. InvIInv => Inv!OneWaitDecides
  BY InvOneWait
<1> QED
  BY <1>1, InvAlways, PTL


-----------------------------------------------------------------------------
(***************************************************************************)
(* The index over the reports.                                             *)
(***************************************************************************)
\* Numbers up to a bound have a least and a greatest.
LEMMA IdxLeast == ASSUME NEW T \in SUBSET Nat, T # {} PROVE \E x \in T : \A y \in T : x <= y
<1>1. IsWellFoundedOn({pair \in Nat \X Nat : pair[1] < pair[2]}, Nat)
  BY NatLessThanWellFounded DEF OpToRel
<1>2. PICK x \in T : \A y \in T : ~(<<y, x>> \in {pair \in Nat \X Nat : pair[1] < pair[2]})
  BY <1>1, WFMin
<1>3. \A y \in T : ~(y < x)
  BY <1>2
<1>4. \A y \in T : x <= y
  BY <1>3
<1> QED
  BY <1>4

LEMMA IdxGreatest == ASSUME NEW n \in Nat, NEW T \in SUBSET (0..n), T # {} PROVE \E x \in T : \A y \in T : x >= y
<1> DEFINE Above == {m \in 0..n : \A y \in T : y <= m}
<1>1. n \in Above
  OBVIOUS
<1>2. Above \in SUBSET Nat /\ Above # {}
  BY <1>1
<1>3. PICK m \in Above : \A y \in Above : m <= y
  <2> HIDE DEF Above
  <2> QED
    BY <1>2, IdxLeast
<1>4. m \in 0..n /\ \A y \in T : y \in 0..n /\ y <= m
  OBVIOUS
<1>5. CASE m \in T
  BY <1>4, <1>5
<1>6. CASE m \notin T
  <2>1. \A y \in T : y <= m - 1
    BY <1>4, <1>6
  <2>2. m # 0
    <3>1. PICK y \in T : TRUE
      OBVIOUS
    <3>2. y \in 0..n /\ y <= m /\ y # m
      BY <1>4, <1>6, <3>1
    <3> QED
      BY <1>4, <3>2
  <2>3. m - 1 \in Above
    BY <1>4, <2>1, <2>2
  <2> QED
    BY <1>3, <1>4, <2>3
<1> QED
  BY <1>5, <1>6

LEMMA IdxLatestIs ==
  ASSUME NEW n \in Nat, NEW S \in SUBSET (1..n), S # {}
  PROVE  Idx!Latest(S) \in S /\ (\A j \in S : Idx!Latest(S) >= j) /\ Idx!Latest(S) # Idx!NoRun
<1>1. S \in SUBSET (0..n)
  OBVIOUS
<1>2. \E i \in S : \A j \in S : i >= j
  BY <1>1, IdxGreatest
<1>3. Idx!Latest(S) \in S /\ \A j \in S : Idx!Latest(S) >= j
  BY <1>2 DEF Idx!Latest
<1> QED
  BY <1>3 DEF Idx!NoRun

LEMMA IdxLatestOne ==
  ASSUME NEW n \in Nat, NEW S \in SUBSET (1..n), NEW x \in S, \A j \in S : x >= j
  PROVE  Idx!Latest(S) = x
<1> DEFINE l == Idx!Latest(S)
<1>1. l \in S /\ \A j \in S : l >= j
  BY IdxLatestIs
<1> HIDE DEF l
<1>2. l >= x /\ x >= l /\ l \in 1..n /\ x \in 1..n
  BY <1>1
<1>3. l = x
  BY <1>2
<1> QED
  BY <1>3 DEF l

(***************************************************************************)
(* Which node a report belongs to.                                         *)
(***************************************************************************)
LEMMA IdxRunIs == ASSUME NEW rs \in Seq(Idx!Run), NEW i \in Idx!Ids(rs)
  PROVE rs[i] \in Idx!Run /\ rs[i].b \in DOMAIN Builds /\ rs[i].node \in NodeIds /\ rs[i].cases \in Verdicts
<1>1. rs[i] \in Idx!Run
  BY ElementOfSeq, LenProperties DEF Idx!Ids
<1> QED
  BY <1>1 DEF Idx!Run

LEMMA IdxIdsIs == ASSUME NEW rs \in Seq(Idx!Run) PROVE Idx!Ids(rs) = 1..Len(rs) /\ Len(rs) \in Nat
  BY LenProperties DEF Idx!Ids

LEMMA IdxCountIs ==
  ASSUME NEW rs, NEW set, NEW x, IsFiniteSet(set)
  PROVE  Idx!Count(rs, set, x) \in 0..Cardinality(set) /\ Cardinality(set) \in Nat
<1> DEFINE some == {i \in set : rs[i].node = x}
<1>1. some \in SUBSET set
  OBVIOUS
<1> HIDE DEF some
<1>2. IsFiniteSet(some) /\ Cardinality(some) <= Cardinality(set)
  BY <1>1, FS_Subset
<1>3. Cardinality(some) \in Nat /\ Cardinality(set) \in Nat
  BY <1>2, FS_CardinalityType
<1>4. Idx!Count(rs, set, x) = Cardinality(some)
  BY DEF Idx!Count, some, Idx!Cardinality, Cardinality
<1> QED
  BY <1>2, <1>3, <1>4

LEMMA IdxMostCommonIs ==
  ASSUME NEW rs \in Seq(Idx!Run), NEW set \in SUBSET Idx!Ids(rs), set # {}
  PROVE  Idx!MostCommon(rs, set) \in NodeIds
<1> DEFINE f(i) == Idx!Count(rs, set, rs[i].node)
           best == {i \in set : \A j \in set : Idx!Count(rs, set, rs[i].node) >= Idx!Count(rs, set, rs[j].node)}
           c == Cardinality(set)
           heights == {f(i) : i \in set}
<1>1. Idx!Ids(rs) = 1..Len(rs) /\ Len(rs) \in Nat
  BY IdxIdsIs
<1>2. IsFiniteSet(set)
  <2>1. IsFiniteSet(1..Len(rs))
    BY <1>1, FS_Interval
  <2> QED
    BY <1>1, <2>1, FS_Subset
<1>3. c \in Nat /\ \A i \in set : f(i) \in 0..c
  BY <1>2, IdxCountIs
<1> HIDE DEF f, c
<1>4. heights \in SUBSET (0..c) /\ heights # {}
  BY <1>3
<1> HIDE DEF heights
<1>5. PICK h \in heights : \A y \in heights : h >= y
  BY <1>3, <1>4, IdxGreatest
<1>6. \E i \in set : \A j \in set : f(i) >= f(j)
  BY <1>5 DEF heights
<1>7. best # {} /\ best \subseteq set
  BY <1>6 DEF f
<1> HIDE DEF best
<1>8. best \in SUBSET Nat
  BY <1>1, <1>7
<1>9. \E i \in best : \A j \in best : i <= j
  BY <1>7, <1>8, IdxLeast
<1>10. (CHOOSE i \in best : \A j \in best : i <= j) \in best
  BY <1>9
<1>11. Idx!MostCommon(rs, set) = rs[CHOOSE i \in best : \A j \in best : i <= j].node
  BY DEF Idx!MostCommon, best
<1> QED
  BY <1>7, <1>10, <1>11, IdxRunIs

LEMMA IdxNodeShown == ASSUME NEW rs \in Seq(Idx!Run), NEW i \in Idx!Ids(rs) PROVE Idx!NodeIn(rs, i) \in Idx!Shown
<1> DEFINE same == Idx!SameIp(rs, Idx!Ip(rs[i]))
           labelled == Idx!Labelled(rs, Idx!Ip(rs[i]))
<1>1. same \in SUBSET Idx!Ids(rs) /\ labelled \in SUBSET Idx!Ids(rs) /\ same # {}
  BY DEF Idx!SameIp, Idx!Labelled
<1> HIDE DEF same, labelled
<1>2. Idx!MostCommon(rs, same) \in NodeIds /\ (labelled # {} => Idx!MostCommon(rs, labelled) \in NodeIds)
  BY <1>1, IdxMostCommonIs
<1>3. rs[i].node \in NodeIds
  BY IdxRunIs
<1>4. Idx!NodeIn(rs, i) \in {rs[i].node, Idx!NameOf[Idx!MostCommon(rs, same)]} \/ (labelled # {} /\ Idx!NodeIn(rs, i) = Idx!MostCommon(rs, labelled))
  BY DEF Idx!NodeIn, same, labelled
<1> QED
  BY <1>2, <1>3, <1>4 DEF Idx!Shown

(***************************************************************************)
(* What stands for a build, and what is compared.                          *)
(***************************************************************************)
LEMMA IdxRunsForIs == ASSUME NEW rs \in Seq(Idx!Run), NEW b, NEW node
  PROVE  /\ Idx!RunsFor(rs, b, node) \in SUBSET (1..Len(rs)) /\ Len(rs) \in Nat
         /\ \A i : i \in Idx!RunsFor(rs, b, node) <=> i \in Idx!Ids(rs) /\ rs[i].b = b /\ Idx!NodeIn(rs, i) = node
  BY IdxIdsIs DEF Idx!RunsFor

LEMMA IdxReferenceIs ==
  ASSUME NEW rs \in Seq(Idx!Run), NEW fs, NEW b, NEW node
  PROVE  Idx!ReferenceRun(rs, fs, b, node) # Idx!NoRun => Idx!ReferenceRun(rs, fs, b, node) \in Idx!RunsFor(rs, b, node)
<1> DEFINE here   == Idx!RunsFor(rs, b, node)
           listed == {i \in here : Idx!Formal(rs, fs, i) # "none"}
           final  == {i \in here : Idx!Formal(rs, fs, i) = "final"}
           full   == {i \in here : Idx!Kind(rs, i) = "full"}
<1>1. here \in SUBSET (1..Len(rs)) /\ Len(rs) \in Nat
  BY IdxRunsForIs
<1> HIDE DEF here
<1>2. \A S \in SUBSET here : S # {} => Idx!Latest(S) \in here
  BY <1>1, IdxLatestIs
<1>3. Idx!Latest({}) = Idx!NoRun
  BY DEF Idx!Latest
<1>4. listed \in SUBSET here /\ final \in SUBSET here /\ full \in SUBSET here
  OBVIOUS
<1> HIDE DEF listed, final, full
<1>5. Idx!ReferenceRun(rs, fs, b, node) = IF final # {} THEN Idx!Latest(final) ELSE IF listed # {} THEN Idx!Latest(listed) ELSE Idx!Latest(full)
  BY DEF Idx!ReferenceRun, here, listed, final, full
<1>6. full = {} \/ Idx!Latest(full) \in here
  BY <1>2, <1>4
<1> QED
  BY <1>2, <1>3, <1>4, <1>5, <1>6 DEF here

LEMMA IdxPairIs ==
  ASSUME Idx!IndexAssumption, NEW rs \in Seq(Idx!Run), NEW fs, NEW node, NEW pair \in Idx!Comparisons(rs, fs, node)
  PROVE  /\ pair = <<pair[1], pair[2]>> /\ pair[1] \in Idx!Ids(rs) /\ pair[2] \in Idx!Ids(rs)
         /\ Idx!NoRun \notin {pair[1], pair[2]} /\ rs[pair[1]].b < rs[pair[2]].b
         /\ Idx!NodeIn(rs, pair[1]) = node /\ Idx!NodeIn(rs, pair[2]) = node
<1> DEFINE ref(b)    == Idx!ReferenceRun(rs, fs, b, node)
           with      == {b \in DOMAIN Builds : ref(b) # Idx!NoRun}
           of(t)     == {b \in with : Builds[b].target = t}
           before(b) == {c \in with : c < b}
           same(b)   == before(b) \cap of(Builds[b].target)
           previous(b) == Idx!Latest(IF same(b) # {} THEN same(b) ELSE before(b))
           latest    == {Idx!Latest(of(Builds[b].target)) : b \in with}
<1>1. PICK n \in Nat : DOMAIN Builds = 1..n
  BY DEF Idx!IndexAssumption
<1>2. with \in SUBSET (1..n)
  BY <1>1
<1>3. Idx!Comparisons(rs, fs, node) = {<<ref(previous(b)), ref(b)>> : b \in {c \in latest : before(c) # {}}}
  BY DEF Idx!Comparisons
<1>4. PICK b \in latest : before(b) # {} /\ pair = <<ref(previous(b)), ref(b)>>
  <2> HIDE DEF ref, previous, latest, before
  <2> QED
    BY <1>3
<1>5. b \in with
  <2>1. PICK c \in with : b = Idx!Latest(of(Builds[c].target))
    BY <1>4
  <2>2. of(Builds[c].target) \in SUBSET (1..n) /\ of(Builds[c].target) # {} /\ of(Builds[c].target) \subseteq with
    BY <1>2, <2>1
  <2>3. Idx!Latest(of(Builds[c].target)) \in of(Builds[c].target)
    <3> HIDE DEF of
    <3> QED
      BY <2>2, IdxLatestIs
  <2> QED
    BY <2>1, <2>2, <2>3
<1>6. previous(b) \in with /\ previous(b) < b
  <2> DEFINE S == IF same(b) # {} THEN same(b) ELSE before(b)
  <2>1. S # {} /\ S \subseteq before(b)
    BY <1>4
  <2>2. before(b) \subseteq with /\ \A c \in before(b) : c < b
    OBVIOUS
  <2>3. S \in SUBSET (1..n)
    BY <1>2, <2>1, <2>2
  <2>4. previous(b) = Idx!Latest(S)
    OBVIOUS
  <2> HIDE DEF S, before, previous
  <2>5. Idx!Latest(S) \in S
    BY <2>1, <2>3, IdxLatestIs
  <2> QED
    BY <2>1, <2>2, <2>4, <2>5
<1>7. \A c \in with : ref(c) # Idx!NoRun /\ ref(c) \in Idx!RunsFor(rs, c, node)
  BY IdxReferenceIs
<1> HIDE DEF with, ref, previous, before, latest
<1>8. pair[1] = ref(previous(b)) /\ pair[2] = ref(b) /\ pair = <<pair[1], pair[2]>>
  BY <1>4
<1>9. pair[1] \in Idx!RunsFor(rs, previous(b), node) /\ pair[2] \in Idx!RunsFor(rs, b, node) /\ Idx!NoRun \notin {pair[1], pair[2]}
  BY <1>5, <1>6, <1>7, <1>8
<1>10. /\ pair[1] \in Idx!Ids(rs) /\ rs[pair[1]].b = previous(b) /\ Idx!NodeIn(rs, pair[1]) = node
       /\ pair[2] \in Idx!Ids(rs) /\ rs[pair[2]].b = b /\ Idx!NodeIn(rs, pair[2]) = node
  BY <1>9, IdxRunsForIs
<1> QED
  BY <1>6, <1>8, <1>9, <1>10

(***************************************************************************)
(* The invariant.                                                          *)
(***************************************************************************)
IdxIInv == idxRuns \in Seq(Idx!Run) /\ Len(idxRuns) <= MaxReports /\ Len(idxFormal) <= MaxMarks /\ \E S : idxFormal \in Seq(S)

LEMMA IdxInitially == ASSUME Idx!IndexAssumption, Idx!Init PROVE IdxIInv
<1>1. idxRuns = <<>> /\ idxFormal = <<>> /\ MaxReports \in Nat /\ MaxMarks \in Nat
  BY DEF Idx!Init, Idx!IndexAssumption
<1>2. <<>> \in Seq(Idx!Run) /\ Len(<<>>) = 0
  OBVIOUS
<1> QED
  BY <1>1, <1>2 DEF IdxIInv

LEMMA IdxInductive == ASSUME Idx!IndexAssumption, IdxIInv, [Idx!Next]_(Idx!vars) PROVE IdxIInv'
<1>0. MaxReports \in Nat /\ MaxMarks \in Nat
  BY DEF Idx!IndexAssumption
<1>1. CASE Idx!AddReport
  <2>1. PICK b \in DOMAIN Builds, s \in Sources, v \in Verdicts :
          idxRuns' = Append(idxRuns, [b |-> b, node |-> s[1], label |-> s[2], cases |-> v])
    BY <1>1 DEF Idx!AddReport
  <2> DEFINE r == [b |-> b, node |-> s[1], label |-> s[2], cases |-> v]
  <2>2. s[1] \in NodeIds /\ s[2] \in BOOLEAN
    BY DEF Idx!IndexAssumption
  <2>3. r \in Idx!Run
    BY <2>2 DEF Idx!Run
  <2> HIDE DEF r
  <2>4. idxRuns' = Append(idxRuns, r)
    BY <2>1 DEF r
  <2>5. idxRuns' \in Seq(Idx!Run) /\ Len(idxRuns') = Len(idxRuns) + 1 /\ Len(idxRuns) \in Nat
    BY <2>3, <2>4, AppendProperties, LenProperties DEF IdxIInv
  <2>6. Len(idxRuns) < MaxReports /\ idxFormal' = idxFormal
    BY <1>1 DEF Idx!AddReport
  <2>7. Len(idxRuns') <= MaxReports
    BY <1>0, <2>5, <2>6
  <2> QED
    BY <2>5, <2>6, <2>7 DEF IdxIInv
<1>2. CASE Idx!MarkFormal
  <2>1. PICK i \in Idx!Ids(idxRuns), last \in BOOLEAN :
          idxFormal' = Append(idxFormal, [b |-> idxRuns[i].b, node |-> Idx!NodeIn(idxRuns, i), run |-> i, final |-> last])
    BY <1>2 DEF Idx!MarkFormal
  <2>2. PICK e : idxFormal' = Append(idxFormal, e)
    BY <2>1
  <2>3. PICK S : idxFormal \in Seq(S)
    BY DEF IdxIInv
  <2> DEFINE T == S \cup {e}
  <2>4. S \subseteq T /\ e \in T
    OBVIOUS
  <2> HIDE DEF T
  <2>5. idxFormal \in Seq(T)
    BY <2>3, <2>4, SeqMonotonic
  <2>6. idxFormal' \in Seq(T) /\ Len(idxFormal') = Len(idxFormal) + 1 /\ Len(idxFormal) \in Nat
    BY <2>2, <2>4, <2>5, AppendProperties, LenProperties
  <2>7. Len(idxFormal) < MaxMarks /\ idxRuns' = idxRuns
    BY <1>2 DEF Idx!MarkFormal
  <2>8. Len(idxFormal') <= MaxMarks
    BY <1>0, <2>6, <2>7
  <2> QED
    BY <2>6, <2>7, <2>8 DEF IdxIInv
<1>3. CASE UNCHANGED Idx!vars
  BY <1>3 DEF IdxIInv, Idx!vars
<1> QED
  BY <1>1, <1>2, <1>3 DEF Idx!Next

LEMMA IdxTypes == IdxIInv => Idx!TypeOK
<1>1. ASSUME IdxIInv, NEW i \in Idx!Ids(idxRuns) PROVE Idx!NodeIn(idxRuns, i) \in Idx!Shown /\ Idx!Kind(idxRuns, i) \in {"empty", "partial", "full"}
  <2>1. Idx!NodeIn(idxRuns, i) \in Idx!Shown
    BY <1>1, IdxNodeShown DEF IdxIInv
  <2>2. Idx!Kind(idxRuns, i) \in {"empty", "partial", "full"}
    BY DEF Idx!Kind
  <2> QED
    BY <2>1, <2>2
<1> QED
  BY <1>1 DEF Idx!TypeOK, IdxIInv

LEMMA IdxInOrder == ASSUME Idx!IndexAssumption, IdxIInv PROVE Idx!ComparedInOrder
<1>1. idxRuns \in Seq(Idx!Run)
  BY DEF IdxIInv
<1> QED
  BY <1>1, IdxPairIs DEF Idx!ComparedInOrder

LEMMA IdxListed == ASSUME Idx!IndexAssumption, IdxIInv PROVE Idx!FailuresListed
<1>1. idxRuns \in Seq(Idx!Run)
  BY DEF IdxIInv
<1>2. SUFFICES ASSUME NEW node \in Idx!Nodes(idxRuns), NEW pair \in Idx!Comparisons(idxRuns, idxFormal, node)
      PROVE  LET changes == Idx!Compare(idxRuns, pair)
                 old == idxRuns[pair[1]].cases
                 new == idxRuns[pair[2]].cases
             IN /\ \A c \in DOMAIN new : new[c] = "Fail" =>
                     (\E x \in changes : x.case = c) \/ (c \in DOMAIN old /\ old[c] = "Skip")
                /\ \A x \in changes : x.category = "regression" /\ ~x.unstable =>
                     \A i \in Idx!RunsFor(idxRuns, idxRuns[pair[2]].b, node) :
                       x.case \in DOMAIN idxRuns[i].cases => idxRuns[i].cases[x.case] # "Pass"
  BY DEF Idx!FailuresListed
<1> DEFINE old == idxRuns[pair[1]].cases
           new == idxRuns[pair[2]].cases
           Entry(c) == [case |-> c, category |-> Idx!Category(old, new, c), unstable |-> c \in Idx!Unstable(idxRuns, pair[2])]
<1>3. /\ pair[1] \in Idx!Ids(idxRuns) /\ pair[2] \in Idx!Ids(idxRuns) /\ Idx!NodeIn(idxRuns, pair[2]) = node
  BY <1>1, IdxPairIs
<1>4. old \in Verdicts /\ new \in Verdicts
  BY <1>1, <1>3, IdxRunIs
<1>5. \A c \in DOMAIN old : old[c] \in Idx!Results
  BY <1>4 DEF Idx!IndexAssumption
<1>6. Idx!Compare(idxRuns, pair) = {Entry(c) : c \in {d \in DOMAIN old \cup DOMAIN new : Idx!Category(old, new, d) # "none"}}
  BY DEF Idx!Compare
<1> HIDE DEF old, new
<1>7. ASSUME NEW c \in DOMAIN new, new[c] = "Fail" PROVE (\E x \in Idx!Compare(idxRuns, pair) : x.case = c) \/ (c \in DOMAIN old /\ old[c] = "Skip")
  <2>1. CASE Idx!Category(old, new, c) # "none"
    <3>1. Entry(c) \in Idx!Compare(idxRuns, pair) /\ Entry(c).case = c
      BY <1>6, <1>7, <2>1
    <3> QED
      BY <3>1
  <2>2. CASE Idx!Category(old, new, c) = "none"
    <3>1. c \in DOMAIN old
      BY <2>2 DEF Idx!Category
    <3>2. old[c] \notin {"Pass", "Fail"}
      <4>1. c \in DOMAIN old \cap DOMAIN new
        BY <3>1, <1>7
      <4>2. old[c] = "Pass" => Idx!Category(old, new, c) = "regression"
        BY <4>1, <1>7 DEF Idx!Category
      <4>3. old[c] = "Fail" => Idx!Category(old, new, c) = "still_failing"
        BY <4>1, <1>7 DEF Idx!Category
      <4> QED
        BY <2>2, <4>2, <4>3
    <3> QED
      BY <1>5, <3>1, <3>2 DEF Idx!Results
  <2> QED
    BY <2>1, <2>2
<1>8. ASSUME NEW x \in Idx!Compare(idxRuns, pair), x.category = "regression", ~x.unstable,
             NEW i \in Idx!RunsFor(idxRuns, idxRuns[pair[2]].b, node), x.case \in DOMAIN idxRuns[i].cases, idxRuns[i].cases[x.case] = "Pass"
      PROVE  FALSE
  <2>1. PICK c \in DOMAIN old \cup DOMAIN new : x = Entry(c)
    BY <1>6
  <2>2. x.case = c /\ Idx!Category(old, new, c) = "regression" /\ c \notin Idx!Unstable(idxRuns, pair[2])
    BY <1>8, <2>1
  <2>3. c \in DOMAIN new /\ new[c] = "Fail"
    <3>1. c \in DOMAIN old \cap DOMAIN new
      <4>1. c \notin DOMAIN old => Idx!Category(old, new, c) = "added"
        BY DEF Idx!Category
      <4>2. c \in DOMAIN old \ DOMAIN new => Idx!Category(old, new, c) = "removed"
        BY DEF Idx!Category
      <4> QED
        BY <2>2, <4>1, <4>2
    <3>2. old[c] = "Pass" /\ new[c] = "Fail"
      <4>1. Idx!Category(old, new, c) = CASE old[c] = "Pass" /\ new[c] = "Fail" -> "regression"
                                          [] old[c] = "Fail" /\ new[c] = "Fail" -> "still_failing"
                                          [] old[c] = "Fail" /\ new[c] = "Pass" -> "fixed"
                                          [] OTHER                              -> "none"
        BY <3>1 DEF Idx!Category
      <4> QED
        BY <2>2, <4>1
    <3> QED
      BY <3>1, <3>2
  <2> DEFINE all == Idx!RunsFor(idxRuns, idxRuns[pair[2]].b, Idx!NodeIn(idxRuns, pair[2]))
             seen == {idxRuns[j].cases[c] : j \in {k \in all : c \in DOMAIN idxRuns[k].cases}}
  <2>4. pair[2] \in all /\ i \in all
    BY <1>1, <1>3, IdxRunsForIs
  <2> HIDE DEF all
  <2>5. "Fail" \in seen /\ "Pass" \in seen
    BY <1>8, <2>2, <2>3, <2>4 DEF new
  <2>6. c \in Idx!Cases
    BY <1>4, <2>3 DEF Idx!Cases
  <2>7. c \in Idx!Unstable(idxRuns, pair[2])
    BY <2>5, <2>6 DEF Idx!Unstable, all
  <2> QED
    BY <2>2, <2>7
<1> QED
  BY <1>7, <1>8 DEF old, new

(***************************************************************************)
(* A formal reference stays.                                               *)
(***************************************************************************)
IdxGrown(rs, rt) == rs \in Seq(Idx!Run) /\ rt \in Seq(Idx!Run) /\ \A i \in Idx!Ids(rs) : i \in Idx!Ids(rt) /\ rt[i] = rs[i]
IdxNoneNew(rs, rt, fs) == IdxGrown(rs, rt) /\ \A m \in DOMAIN fs : Idx!Applies(rt, fs[m]) => Idx!Applies(rs, fs[m])

LEMMA IdxFormalIs == ASSUME NEW rs, NEW fs, NEW i
  PROVE (Idx!Formal(rs, fs, i) # "none") <=> (\E m \in DOMAIN fs : fs[m].run = i /\ Idx!Applies(rs, fs[m]))
<1> DEFINE entries == {k \in DOMAIN fs : fs[k].run = i /\ Idx!Applies(rs, fs[k])}
<1>1. Idx!Formal(rs, fs, i) = IF entries = {} THEN "none" ELSE IF fs[Idx!Latest(entries)].final THEN "final" ELSE "round"
  BY DEF Idx!Formal
<1> QED
  BY <1>1

LEMMA IdxAppliesIs == ASSUME NEW rs, NEW e
  PROVE Idx!Applies(rs, e) <=> e.run \in Idx!Ids(rs) /\ rs[e.run].b = e.b /\ Idx!NodeIn(rs, e.run) = e.node
  BY DEF Idx!Applies, Idx!RunsFor

\* Of a run that is there in both, an entry counts in both or in neither if its node is the same.
LEMMA IdxAppliesSame ==
  ASSUME NEW rs, NEW rt, IdxGrown(rs, rt), NEW e, e.run \in Idx!Ids(rs), Idx!NodeIn(rt, e.run) = Idx!NodeIn(rs, e.run)
  PROVE  Idx!Applies(rt, e) <=> Idx!Applies(rs, e)
<1>1. e.run \in Idx!Ids(rt) /\ rt[e.run] = rs[e.run]
  BY DEF IdxGrown
<1>2. Idx!Applies(rs, e) <=> e.run \in Idx!Ids(rs) /\ rs[e.run].b = e.b /\ Idx!NodeIn(rs, e.run) = e.node
  BY IdxAppliesIs
<1>3. Idx!Applies(rt, e) <=> e.run \in Idx!Ids(rt) /\ rt[e.run].b = e.b /\ Idx!NodeIn(rt, e.run) = e.node
  BY IdxAppliesIs
<1> QED
  BY <1>1, <1>2, <1>3

\* If no entry counts that did not count before, what is formal now was so before, and for the same run.
LEMMA IdxFormalKept ==
  ASSUME NEW rs, NEW rt, NEW fs, IdxNoneNew(rs, rt, fs),
         NEW i, Idx!Formal(rt, fs, i) # "none"
  PROVE  i \in Idx!Ids(rs) /\ Idx!NodeIn(rt, i) = Idx!NodeIn(rs, i) /\ Idx!Formal(rt, fs, i) = Idx!Formal(rs, fs, i)
<1>0. IdxGrown(rs, rt)
  BY DEF IdxNoneNew
<1>1. PICK k \in DOMAIN fs : fs[k].run = i /\ Idx!Applies(rt, fs[k])
  BY IdxFormalIs
<1>2. i \in Idx!Ids(rs) /\ Idx!NodeIn(rt, i) = Idx!NodeIn(rs, i)
  <2>1. Idx!Applies(rs, fs[k])
    BY <1>1 DEF IdxNoneNew
  <2>2. fs[k].run \in Idx!Ids(rs) /\ Idx!NodeIn(rs, fs[k].run) = fs[k].node
    BY <2>1, IdxAppliesIs
  <2>3. Idx!NodeIn(rt, fs[k].run) = fs[k].node
    BY <1>1, IdxAppliesIs
  <2> QED
    BY <1>1, <2>2, <2>3
<1>3. \A m \in DOMAIN fs : fs[m].run = i => (Idx!Applies(rt, fs[m]) <=> Idx!Applies(rs, fs[m]))
  <2>1. ASSUME NEW m \in DOMAIN fs, fs[m].run = i PROVE Idx!Applies(rt, fs[m]) <=> Idx!Applies(rs, fs[m])
    BY <1>0, <1>2, <2>1, IdxAppliesSame
  <2> QED
    BY <2>1
<1>4. {m \in DOMAIN fs : fs[m].run = i /\ Idx!Applies(rt, fs[m])} = {m \in DOMAIN fs : fs[m].run = i /\ Idx!Applies(rs, fs[m])}
  BY <1>3
<1>5. Idx!Formal(rt, fs, i) = Idx!Formal(rs, fs, i)
  BY <1>4 DEF Idx!Formal
<1> QED
  BY <1>2, <1>5

LEMMA IdxReferenceKept ==
  ASSUME NEW rs, NEW rt, NEW fs, IdxNoneNew(rs, rt, fs)
  PROVE  \A k \in DOMAIN fs :
           Idx!Applies(rs, fs[k]) /\ Idx!Formal(rt, fs, Idx!ReferenceRun(rs, fs, fs[k].b, fs[k].node)) # "none" =>
             Idx!ReferenceRun(rt, fs, fs[k].b, fs[k].node) = Idx!ReferenceRun(rs, fs, fs[k].b, fs[k].node)
<1>g. IdxGrown(rs, rt)
  BY DEF IdxNoneNew
<1>a. ASSUME NEW x PROVE Idx!Formal(rs, fs, x) # "none" <=> \E m \in DOMAIN fs : fs[m].run = x /\ Idx!Applies(rs, fs[m])
  BY IdxFormalIs
<1>b. ASSUME NEW x, Idx!Formal(rt, fs, x) # "none"
      PROVE  x \in Idx!Ids(rs) /\ Idx!NodeIn(rt, x) = Idx!NodeIn(rs, x) /\ Idx!Formal(rt, fs, x) = Idx!Formal(rs, fs, x)
  BY <1>b, IdxFormalKept
<1> SUFFICES ASSUME NEW k \in DOMAIN fs, Idx!Applies(rs, fs[k]), Idx!Formal(rt, fs, Idx!ReferenceRun(rs, fs, fs[k].b, fs[k].node)) # "none"
    PROVE  Idx!ReferenceRun(rt, fs, fs[k].b, fs[k].node) = Idx!ReferenceRun(rs, fs, fs[k].b, fs[k].node)
  OBVIOUS
<1> DEFINE b == fs[k].b
           node == fs[k].node
           here(r)   == Idx!RunsFor(r, b, node)
           listed(r) == {i \in here(r) : Idx!Formal(r, fs, i) # "none"}
           final(r)  == {i \in here(r) : Idx!Formal(r, fs, i) = "final"}
           ref == Idx!ReferenceRun(rs, fs, b, node)
<1>0. rs \in Seq(Idx!Run) /\ rt \in Seq(Idx!Run)
  BY <1>g DEF IdxGrown
<1>1. fs[k].run \in listed(rs)
  <2>1. fs[k].run \in here(rs)
    BY DEF Idx!Applies
  <2>2. \E m \in DOMAIN fs : fs[m].run = fs[k].run /\ Idx!Applies(rs, fs[m])
    OBVIOUS
  <2>3. Idx!Formal(rs, fs, fs[k].run) # "none"
    <3> DEFINE x == fs[k].run
    <3>1. \E m \in DOMAIN fs : fs[m].run = x /\ Idx!Applies(rs, fs[m])
      BY <2>2
    <3> HIDE DEF x
    <3>2. Idx!Formal(rs, fs, x) # "none" <=> \E m \in DOMAIN fs : fs[m].run = x /\ Idx!Applies(rs, fs[m])
      BY <1>a
    <3>3. Idx!Formal(rs, fs, x) # "none"
      BY <3>1, <3>2
    <3> QED
      BY <3>3 DEF x
  <2> QED
    BY <2>1, <2>3
<1>2. \A i : Idx!Formal(rt, fs, i) # "none" => /\ i \in here(rt) <=> i \in here(rs)
                                           /\ Idx!Formal(rt, fs, i) = Idx!Formal(rs, fs, i)
  <2>1. ASSUME NEW i, Idx!Formal(rt, fs, i) # "none"
        PROVE  (i \in here(rt) <=> i \in here(rs)) /\ Idx!Formal(rt, fs, i) = Idx!Formal(rs, fs, i)
    <3>1. i \in Idx!Ids(rs) /\ Idx!NodeIn(rt, i) = Idx!NodeIn(rs, i) /\ Idx!Formal(rt, fs, i) = Idx!Formal(rs, fs, i)
      BY <2>1, <1>b
    <3>2. i \in Idx!Ids(rt) /\ rt[i] = rs[i]
      BY <1>g, <3>1 DEF IdxGrown
    <3>3. i \in here(rt) <=> i \in Idx!Ids(rt) /\ rt[i].b = b /\ Idx!NodeIn(rt, i) = node
      BY DEF Idx!RunsFor
    <3>4. i \in here(rs) <=> i \in Idx!Ids(rs) /\ rs[i].b = b /\ Idx!NodeIn(rs, i) = node
      BY DEF Idx!RunsFor
    <3> QED
      BY <3>1, <3>2, <3>3, <3>4
  <2> QED
    BY <2>1
<1>3. /\ here(rs) \in SUBSET (1..Len(rs)) /\ Len(rs) \in Nat
      /\ here(rt) \in SUBSET (1..Len(rt)) /\ Len(rt) \in Nat
  BY <1>0, IdxRunsForIs
<1> HIDE DEF here
<1>4. listed(rt) \subseteq listed(rs) /\ final(rt) \subseteq final(rs) /\ final(rs) \subseteq listed(rs)
  <2>1. "final" # "none"
    OBVIOUS
  <2> QED
    BY <1>2, <2>1
<1>5. /\ ref = IF final(rs) # {} THEN Idx!Latest(final(rs)) ELSE Idx!Latest(listed(rs))
      /\ listed(rt) # {} => Idx!ReferenceRun(rt, fs, b, node) = IF final(rt) # {} THEN Idx!Latest(final(rt)) ELSE Idx!Latest(listed(rt))
  BY <1>1 DEF Idx!ReferenceRun, here
<1>6. /\ listed(rs) \in SUBSET (1..Len(rs)) /\ final(rs) \in SUBSET (1..Len(rs))
      /\ listed(rt) \in SUBSET (1..Len(rt)) /\ final(rt) \in SUBSET (1..Len(rt))
  BY <1>3
<1>7. Idx!Formal(rt, fs, ref) # "none"
  OBVIOUS
<1> HIDE DEF ref
<1>9. CASE final(rs) # {}
  <2>1. ref \in final(rs) /\ \A j \in final(rs) : ref >= j
    <3> HIDE DEF final
    <3> QED
      BY <1>3, <1>5, <1>6, <1>9, IdxLatestIs
  <2>2. ref \in final(rt) /\ ref \in listed(rt)
    BY <1>2, <1>7, <2>1
  <2>3. \A j \in final(rt) : ref >= j
    BY <1>4, <2>1
  <2>4. Idx!Latest(final(rt)) = ref
    <3> HIDE DEF final
    <3> QED
      BY <1>3, <1>6, <2>2, <2>3, IdxLatestOne
  <2>5. Idx!ReferenceRun(rt, fs, b, node) = ref
    BY <1>5, <2>2, <2>4
  <2> QED
    BY <2>5 DEF ref
<1>10. CASE final(rs) = {}
  <2>1. ref \in listed(rs) /\ \A j \in listed(rs) : ref >= j
    <3> HIDE DEF final, listed
    <3> QED
      BY <1>1, <1>3, <1>5, <1>6, <1>10, IdxLatestIs
  <2>2. ref \in listed(rt) /\ final(rt) = {}
    BY <1>2, <1>4, <1>7, <1>10, <2>1
  <2>3. \A j \in listed(rt) : ref >= j
    BY <1>4, <2>1
  <2>4. Idx!Latest(listed(rt)) = ref
    <3> HIDE DEF listed
    <3> QED
      BY <1>3, <1>6, <2>2, <2>3, IdxLatestOne
  <2>5. Idx!ReferenceRun(rt, fs, b, node) = ref
    BY <1>5, <2>2, <2>4
  <2> QED
    BY <2>5 DEF ref
<1> QED
  BY <1>9, <1>10

LEMMA IdxStays == ASSUME Idx!IndexAssumption, IdxIInv, [Idx!Next]_(Idx!vars) PROVE Idx!ReferenceStays
<1>1. idxRuns \in Seq(Idx!Run) /\ idxRuns' \in Seq(Idx!Run)
  BY IdxInductive DEF IdxIInv
<1>2. IdxGrown(idxRuns, idxRuns')
  <2>1. CASE idxRuns' = idxRuns
    BY <1>1, <2>1 DEF IdxGrown
  <2>2. CASE idxRuns' # idxRuns
    <3>1. PICK r : idxRuns' = Append(idxRuns, r)
      BY <2>2 DEF Idx!Next, Idx!vars, Idx!AddReport, Idx!MarkFormal
    <3>2. DOMAIN idxRuns = 1..Len(idxRuns) /\ Len(idxRuns) \in Nat
      BY <1>1, LenProperties
    <3>3. Len(idxRuns') = Len(idxRuns) + 1 /\ \A i \in 1..Len(idxRuns) : idxRuns'[i] = idxRuns[i]
      BY <1>1, <3>1
    <3>4. DOMAIN idxRuns' = 1..Len(idxRuns')
      BY <1>1, LenProperties
    <3>5. \A i \in 1..Len(idxRuns) : i \in 1..Len(idxRuns')
      BY <3>2, <3>3
    <3> QED
      BY <1>1, <3>2, <3>3, <3>4, <3>5 DEF IdxGrown, Idx!Ids
  <2> QED
    BY <2>1, <2>2
<1> DEFINE rt == idxRuns'
<1>3. IdxGrown(idxRuns, rt)
  BY <1>2
<1> HIDE DEF rt
<1>4. ASSUME idxFormal' = idxFormal, Idx!Warned(idxRuns, idxFormal) \subseteq Idx!Warned(rt, idxFormal), NEW k \in DOMAIN idxFormal, Idx!Applies(idxRuns, idxFormal[k])
      PROVE  LET ref == Idx!ReferenceRun(idxRuns, idxFormal, idxFormal[k].b, idxFormal[k].node)
             IN  Idx!Formal(rt, idxFormal, ref) = "none" \/ Idx!ReferenceRun(rt, idxFormal, idxFormal[k].b, idxFormal[k].node) = ref
  <2>1. IdxNoneNew(idxRuns, rt, idxFormal)
    BY <1>3, <1>4 DEF Idx!Warned, IdxNoneNew
  <2> DEFINE ref == Idx!ReferenceRun(idxRuns, idxFormal, idxFormal[k].b, idxFormal[k].node)
  <2>2. ASSUME Idx!Formal(rt, idxFormal, ref) # "none"
        PROVE  Idx!ReferenceRun(rt, idxFormal, idxFormal[k].b, idxFormal[k].node) = ref
    BY <1>4, <2>1, <2>2, IdxReferenceKept
  <2> QED
    BY <2>2
<1> QED
  BY <1>4 DEF Idx!ReferenceStays, rt

LEMMA IdxPromises == ASSUME Idx!IndexAssumption, IdxIInv PROVE Idx!ComparedInOrder /\ Idx!FailuresListed
  BY IdxInOrder, IdxListed

LEMMA IdxInvariance == ASSUME Idx!IndexAssumption PROVE Idx!Spec => []IdxIInv
  BY IdxInitially, IdxInductive, PTL DEF Idx!Spec

\* Whatever the reports, their nodes, labels and IPs, and the formal runs (tools/build_report_index.py): every comparison is of
\* two builds of one node, the older one first, and no failure of the newer run goes unlisted but for a case the older skipped.
THEOREM IdxIndexIsTrue == ASSUME Idx!IndexAssumption PROVE Idx!Spec => [](Idx!ComparedInOrder /\ Idx!FailuresListed)
  BY IdxInvariance, IdxPromises, PTL

\* A new report moves no formal reference but with a warning that comes or goes.
THEOREM IdxReferenceIsKept == ASSUME Idx!IndexAssumption PROVE Idx!Spec => [][Idx!ReferenceStays]_(Idx!vars)
<1>1. IdxIInv /\ [Idx!Next]_(Idx!vars) => [Idx!ReferenceStays]_(Idx!vars)
  BY IdxStays
<1> QED
  BY <1>1, IdxInvariance, PTL DEF Idx!Spec


-----------------------------------------------------------------------------
(***************************************************************************)
(* The archive of the reports.                                             *)
(***************************************************************************)
\* Only what the plan may move is in it, and in the archive.
ArcPlanned == \A m \in arcPlan : ActionOf[m[1]] = "move"

\* What the run has moved is in the archive, and a size that differs from the
\* measured one is a problem.
ArcMovedIsArchived ==
  \A m \in arcMoved : arcArchived[m[1]] > 0 /\ (arcArchived[m[1]] # m[2] => m[1] \in arcProblems)

\* Between the runs the manifest, or a run that was killed, answers for
\* whatever is in the archive.
ArcAnswered ==
  arcPc = "idle" => \A e \in Entries : arcArchived[e] > 0 => (\E m \in arcManifest : m[1] = e) \/ e \in arcUnlisted

ArcIInv == Arc!TypeOK /\ ArcPlanned /\ ArcMovedIsArchived /\ ArcAnswered /\ Arc!ArchivedIsListed /\ Arc!FalseRowsAreReported

\* The empty archive satisfies the invariant.
LEMMA ArcInitially == ASSUME Arc!ArchiveAssumption PROVE Arc!Init => ArcIInv
<1> SUFFICES ASSUME Arc!Init PROVE ArcIInv
  OBVIOUS
<1>1. MaxSize \in Nat /\ MaxSize > 0 /\ MaxRuns \in Nat
  BY DEF Arc!ArchiveAssumption
<1>2. 0..1 \subseteq 0..MaxSize /\ 0 \in 0..MaxSize /\ 0 \in 0..MaxRuns
  BY <1>1
<1>3. Arc!TypeOK
  BY <1>2 DEF Arc!Init, Arc!TypeOK
<1>4. \A e \in Entries : ~(arcArchived[e] > 0)
  BY DEF Arc!Init
<1> QED
  BY <1>3, <1>4 DEF Arc!Init, ArcIInv, ArcPlanned, ArcMovedIsArchived, ArcAnswered, Arc!ArchivedIsListed,
     Arc!FalseRowsAreReported

\* What one round of apply_plan does.
ArcRenamed(item) ==
  LET e == item[1] IN
  /\ arcArchived[e] = 0 /\ arcTop[e] > 0
  /\ arcArchived' = [arcArchived EXCEPT ![e] = arcTop[e]] /\ arcTop' = [arcTop EXCEPT ![e] = 0]
  /\ arcProblems' = IF arcArchived'[e] # item[2] THEN arcProblems \union {e} ELSE arcProblems
  /\ arcMoved' = arcMoved \union {item} /\ UNCHANGED arcManifest

LEMMA ArcRounds ==
  ASSUME Arc!Move
  PROVE  /\ arcPc = "apply" /\ UNCHANGED <<arcPc, arcRuns, arcUnlisted, arcExits>>
         /\ \E item \in arcPlan :
              /\ arcPlan' = arcPlan \ {item}
              /\ (arcProblems' = arcProblems \union {item[1]} /\ UNCHANGED <<Arc!disk, arcMoved>>) \/ ArcRenamed(item)
  BY DEF Arc!Move, ArcRenamed

\* Every step keeps the invariant.
LEMMA ArcInductive == ASSUME Arc!ArchiveAssumption PROVE ArcIInv /\ [Arc!Next]_(Arc!vars) => ArcIInv'
<1> SUFFICES ASSUME ArcIInv, [Arc!Next]_(Arc!vars) PROVE ArcIInv'
  OBVIOUS
<1>1. MaxSize \in Nat /\ MaxRuns \in Nat
  BY DEF Arc!ArchiveAssumption
<1>t. /\ arcTop \in [Entries -> 0..MaxSize] /\ arcArchived \in [Entries -> 0..MaxSize] /\ arcRuns \in 0..MaxRuns
      /\ arcManifest \subseteq Entries \X (0..MaxSize) /\ arcPlan \subseteq Entries \X (0..MaxSize)
      /\ arcMoved \subseteq Entries \X (0..MaxSize) /\ arcProblems \subseteq Entries /\ arcUnlisted \subseteq Entries
  BY DEF ArcIInv, Arc!TypeOK
<1>2. CASE Arc!BuildPlan
  <2>1. /\ arcRuns \in 0..MaxRuns /\ arcRuns < MaxRuns /\ arcRuns' = arcRuns + 1
        /\ arcPlan' = {<<e, arcTop[e]>> : e \in {x \in Entries : arcTop[x] > 0 /\ ActionOf[x] = "move"}}
        /\ arcPc = "idle" /\ arcPc' \in {"idle", "apply"} /\ arcMoved' = {} /\ arcProblems' = {}
        /\ arcTop' = arcTop /\ arcArchived' = arcArchived /\ arcManifest' = arcManifest /\ arcUnlisted' = arcUnlisted /\ arcExits' = arcExits
    BY <1>2, <1>t DEF Arc!BuildPlan, Arc!disk
  <2>2. arcRuns' \in 0..MaxRuns
    <3>1. arcRuns \in 0..MaxRuns /\ arcRuns < MaxRuns /\ arcRuns' = arcRuns + 1
      BY <2>1
    <3> QED
      BY <1>1, <3>1
  <2>3. arcPlan' \subseteq Entries \X (0..MaxSize) /\ ArcPlanned'
    BY <1>t, <2>1 DEF ArcPlanned
  <2>4. Arc!TypeOK'
    BY <1>t, <2>1, <2>2, <2>3 DEF Arc!TypeOK
  <2>5. ArcMovedIsArchived' /\ ArcAnswered' /\ Arc!ArchivedIsListed' /\ Arc!FalseRowsAreReported'
    BY <2>1 DEF ArcIInv, ArcMovedIsArchived, ArcAnswered, Arc!ArchivedIsListed, Arc!FalseRowsAreReported
  <2> QED
    BY <2>3, <2>4, <2>5 DEF ArcIInv
<1>3. CASE Arc!Move
  <2>1. arcPc = "apply" /\ arcPc' = arcPc /\ arcRuns' = arcRuns /\ arcUnlisted' = arcUnlisted /\ arcExits' = arcExits
    BY <1>3, ArcRounds
  <2>2. PICK item \in arcPlan :
          /\ arcPlan' = arcPlan \ {item}
          /\ (arcProblems' = arcProblems \union {item[1]} /\ UNCHANGED <<Arc!disk, arcMoved>>) \/ ArcRenamed(item)
    BY <1>3, ArcRounds
  <2>3. ArcPlanned' /\ ArcAnswered' /\ Arc!FalseRowsAreReported'
    BY <2>1, <2>2 DEF ArcIInv, ArcPlanned, ArcAnswered, Arc!FalseRowsAreReported
  <2>4. item[1] \in Entries /\ item \in Entries \X (0..MaxSize) /\ arcPlan' \subseteq Entries \X (0..MaxSize)
    BY <1>t, <2>2
  <2>5. CASE arcProblems' = arcProblems \union {item[1]} /\ UNCHANGED <<Arc!disk, arcMoved>>
    <3>1. arcProblems' = arcProblems \union {item[1]} /\ arcTop' = arcTop /\ arcArchived' = arcArchived /\ arcManifest' = arcManifest /\ arcMoved' = arcMoved
      BY <2>5 DEF Arc!disk
    <3>2. Arc!TypeOK'
      BY <1>t, <2>1, <2>4, <3>1 DEF Arc!TypeOK
    <3> QED
      BY <2>1, <2>3, <3>1, <3>2 DEF ArcIInv, ArcMovedIsArchived, Arc!ArchivedIsListed
  <2>6. CASE ArcRenamed(item)
    <3>1. /\ arcArchived[item[1]] = 0 /\ arcTop[item[1]] > 0 /\ arcMoved' = arcMoved \union {item} /\ arcManifest' = arcManifest
          /\ arcArchived' = [arcArchived EXCEPT ![item[1]] = arcTop[item[1]]] /\ arcTop' = [arcTop EXCEPT ![item[1]] = 0]
          /\ arcProblems' = IF arcArchived'[item[1]] # item[2] THEN arcProblems \union {item[1]} ELSE arcProblems
      BY <2>6 DEF ArcRenamed
    <3>2. /\ arcArchived' \in [Entries -> 0..MaxSize] /\ arcTop' \in [Entries -> 0..MaxSize]
          /\ arcProblems \subseteq arcProblems' /\ arcProblems' \subseteq Entries
      <4>1. 0 \in 0..MaxSize
        BY <1>1
      <4> QED
        BY <1>t, <2>4, <3>1, <4>1
    <3>3. Arc!TypeOK'
      BY <1>t, <2>1, <2>4, <3>1, <3>2 DEF Arc!TypeOK
    <3>4. arcArchived'[item[1]] = arcTop[item[1]] /\ \A e \in Entries : e # item[1] => arcArchived'[e] = arcArchived[e]
      BY <1>t, <2>4, <3>1
    <3>5. ArcMovedIsArchived'
      <4>1. ASSUME NEW m \in arcMoved PROVE arcArchived'[m[1]] > 0 /\ (arcArchived'[m[1]] # m[2] => m[1] \in arcProblems')
        <5>1. arcArchived[m[1]] > 0 /\ (arcArchived[m[1]] # m[2] => m[1] \in arcProblems) /\ m[1] \in Entries
          BY <1>t, <4>1 DEF ArcIInv, ArcMovedIsArchived
        <5>2. m[1] # item[1]
          BY <3>1, <5>1
        <5> QED
          BY <3>2, <3>4, <5>1, <5>2
      <4>2. arcArchived'[item[1]] > 0 /\ (arcArchived'[item[1]] # item[2] => item[1] \in arcProblems')
        BY <3>1, <3>4
      <4> QED
        BY <3>1, <4>1, <4>2 DEF ArcMovedIsArchived
    <3>6. Arc!ArchivedIsListed'
      <4> SUFFICES ASSUME NEW e \in Entries, arcArchived'[e] > 0
                   PROVE  (\E m \in arcManifest \union arcMoved' : m[1] = e) \/ e \in arcUnlisted
        BY <2>1, <3>1 DEF Arc!ArchivedIsListed
      <4>1. CASE e = item[1]
        BY <3>1, <4>1
      <4>2. CASE e # item[1]
        BY <3>1, <3>4, <4>2 DEF ArcIInv, Arc!ArchivedIsListed
      <4> QED
        BY <4>1, <4>2
    <3> QED
      BY <2>3, <3>3, <3>5, <3>6 DEF ArcIInv
  <2> QED
    BY <2>2, <2>5, <2>6
<1>4. CASE Arc!Finish
  <2>1. /\ arcPc = "apply" /\ arcPc' = "idle" /\ arcManifest' = arcManifest \union arcMoved /\ arcTop' = arcTop /\ arcArchived' = arcArchived
        /\ arcPlan' = arcPlan /\ arcMoved' = arcMoved /\ arcProblems' = arcProblems /\ arcRuns' = arcRuns /\ arcUnlisted' = arcUnlisted
        /\ arcExits' = arcExits \union {<<IF arcProblems = {} THEN 0 ELSE 1, {m \in arcMoved : arcArchived[m[1]] # m[2]}>>}
    BY <1>4 DEF Arc!Finish
  <2>2. Arc!TypeOK'
    BY <1>t, <2>1 DEF Arc!TypeOK
  <2>3. ArcPlanned' /\ ArcMovedIsArchived' /\ ArcAnswered' /\ Arc!ArchivedIsListed'
    BY <2>1 DEF ArcIInv, ArcPlanned, ArcMovedIsArchived, ArcAnswered, Arc!ArchivedIsListed
  <2>4. {m \in arcMoved : arcArchived[m[1]] # m[2]} # {} => arcProblems # {}
    BY DEF ArcIInv, ArcMovedIsArchived
  <2>5. Arc!FalseRowsAreReported'
    BY <2>1, <2>4 DEF ArcIInv, Arc!FalseRowsAreReported
  <2> QED
    BY <2>2, <2>3, <2>5 DEF ArcIInv
<1>5. CASE Arc!Killed
  <2>1. /\ arcPc = "apply" /\ arcPc' = "idle" /\ arcUnlisted' = arcUnlisted \union {m[1] : m \in arcMoved}
        /\ arcTop' = arcTop /\ arcArchived' = arcArchived /\ arcManifest' = arcManifest
        /\ arcPlan' = arcPlan /\ arcMoved' = arcMoved /\ arcProblems' = arcProblems /\ arcRuns' = arcRuns /\ arcExits' = arcExits
    BY <1>5 DEF Arc!Killed, Arc!disk
  <2>2. Arc!TypeOK'
    BY <1>t, <2>1 DEF Arc!TypeOK
  <2>3. ArcPlanned' /\ ArcMovedIsArchived' /\ Arc!FalseRowsAreReported'
    BY <2>1 DEF ArcIInv, ArcPlanned, ArcMovedIsArchived, Arc!FalseRowsAreReported
  <2>4. ArcAnswered' /\ Arc!ArchivedIsListed'
    BY <2>1 DEF ArcIInv, ArcAnswered, Arc!ArchivedIsListed
  <2> QED
    BY <2>2, <2>3, <2>4 DEF ArcIInv
<1>6. CASE Arc!Writes
  <2>1. /\ UNCHANGED <<arcArchived, arcManifest, Arc!mind, arcRuns, arcUnlisted, arcExits>>
        /\ \E e \in Entries : arcTop[e] < MaxSize /\ arcTop' = [arcTop EXCEPT ![e] = @ + 1]
    BY <1>6 DEF Arc!Writes
  <2>2. arcTop' \in [Entries -> 0..MaxSize]
    <3>1. PICK e \in Entries : arcTop[e] < MaxSize /\ arcTop' = [arcTop EXCEPT ![e] = arcTop[e] + 1]
      BY <2>1
    <3>2. arcTop[e] \in 0..MaxSize
      BY <1>t
    <3>3. arcTop[e] + 1 \in 0..MaxSize
      BY <1>1, <3>1, <3>2
    <3> QED
      BY <1>t, <3>1, <3>3
  <2>3. Arc!TypeOK'
    BY <1>t, <2>1, <2>2 DEF Arc!mind, ArcIInv, Arc!TypeOK
  <2> QED
    BY <2>1, <2>3 DEF Arc!mind, ArcIInv, ArcPlanned, ArcMovedIsArchived, ArcAnswered, Arc!ArchivedIsListed,
       Arc!FalseRowsAreReported
<1>7. CASE UNCHANGED Arc!vars
  BY <1>7 DEF Arc!vars, Arc!disk, Arc!mind, ArcIInv, Arc!TypeOK, ArcPlanned, ArcMovedIsArchived, ArcAnswered,
     Arc!ArchivedIsListed, Arc!FalseRowsAreReported
<1> QED
  BY <1>2, <1>3, <1>4, <1>5, <1>6, <1>7 DEF Arc!Next

\* A step leaves what is archived as it is, and moves only what may be moved.
LEMMA ArcStay == ASSUME Arc!ArchiveAssumption PROVE ArcIInv /\ [Arc!Next]_(Arc!vars) => Arc!EntriesStay
<1> SUFFICES ASSUME ArcIInv, [Arc!Next]_(Arc!vars) PROVE Arc!EntriesStay
  OBVIOUS
<1>t. arcTop \in [Entries -> 0..MaxSize] /\ arcArchived \in [Entries -> 0..MaxSize] /\ arcPlan \subseteq Entries \X (0..MaxSize) /\ MaxSize \in Nat
  BY DEF ArcIInv, Arc!TypeOK, Arc!ArchiveAssumption
<1>n. \A e \in Entries : arcTop[e] \in Nat /\ arcArchived[e] \in Nat
  BY <1>t
<1>1. CASE Arc!Move
  <2>1. PICK item \in arcPlan :
          (arcProblems' = arcProblems \union {item[1]} /\ UNCHANGED <<Arc!disk, arcMoved>>) \/ ArcRenamed(item)
    BY <1>1, ArcRounds
  <2>2. CASE UNCHANGED Arc!disk
    BY <1>n, <2>2 DEF Arc!disk, Arc!EntriesStay
  <2>3. CASE ArcRenamed(item)
    <3>1. /\ arcArchived[item[1]] = 0 /\ item[1] \in Entries /\ ActionOf[item[1]] = "move"
          /\ arcArchived' = [arcArchived EXCEPT ![item[1]] = arcTop[item[1]]] /\ arcTop' = [arcTop EXCEPT ![item[1]] = 0]
      BY <1>t, <2>3 DEF ArcRenamed, ArcIInv, ArcPlanned
    <3>2. /\ arcArchived'[item[1]] = arcTop[item[1]]
          /\ \A e \in Entries : e # item[1] => arcArchived'[e] = arcArchived[e] /\ arcTop'[e] = arcTop[e]
      BY <1>t, <3>1
    <3>3. ASSUME NEW e \in Entries
          PROVE  /\ arcArchived[e] > 0 => arcArchived'[e] = arcArchived[e]
                 /\ arcTop'[e] < arcTop[e] => ActionOf[e] = "move" /\ arcArchived'[e] = arcTop[e]
      <4>1. CASE e = item[1]
        BY <3>1, <3>2, <4>1
      <4>2. CASE e # item[1]
        <5>1. arcTop'[e] = arcTop[e] /\ arcArchived'[e] = arcArchived[e] /\ arcTop[e] \in Nat
          BY <1>n, <3>2, <4>2
        <5> QED
          BY <5>1
      <4> QED
        BY <4>1, <4>2
    <3> QED
      BY <3>3 DEF Arc!EntriesStay
  <2> QED
    BY <2>1, <2>2, <2>3
<1>2. CASE Arc!Writes
  <2>1. PICK e \in Entries : arcTop' = [arcTop EXCEPT ![e] = arcTop[e] + 1]
    BY <1>2 DEF Arc!Writes
  <2>2. arcArchived' = arcArchived
    BY <1>2 DEF Arc!Writes
  <2>3. \A x \in Entries : ~(arcTop'[x] < arcTop[x])
    BY <1>t, <1>n, <2>1
  <2> QED
    BY <2>2, <2>3 DEF Arc!EntriesStay
<1>3. CASE UNCHANGED <<arcTop, arcArchived>>
  BY <1>n, <1>3 DEF Arc!EntriesStay
<1>4. Arc!Move \/ Arc!Writes \/ UNCHANGED <<arcTop, arcArchived>>
  BY DEF Arc!Next, Arc!vars, Arc!disk, Arc!BuildPlan, Arc!Finish, Arc!Killed
<1> QED
  BY <1>1, <1>2, <1>3, <1>4

LEMMA ArcAlways == ASSUME Arc!ArchiveAssumption PROVE Arc!Spec => []ArcIInv
<1>1. Arc!Init => ArcIInv
  BY ArcInitially
<1>2. ArcIInv /\ [Arc!Next]_(Arc!vars) => ArcIInv'
  BY ArcInductive
<1> QED
  BY <1>1, <1>2, PTL DEF Arc!Spec

\* The tool keeps the types of its variables.
THEOREM ArcTypeCorrect == ASSUME Arc!ArchiveAssumption PROVE Arc!Spec => []Arc!TypeOK
<1>1. ArcIInv => Arc!TypeOK
  BY DEF ArcIInv
<1> QED
  BY <1>1, ArcAlways, PTL

\* Whatever is in the archive is in its manifest, was moved by the run that is on or by
\* one that was killed (tools/archive_reports.py:151-155).
THEOREM ArcArchivedListed == ASSUME Arc!ArchiveAssumption PROVE Arc!Spec => []Arc!ArchivedIsListed
<1>1. ArcIInv => Arc!ArchivedIsListed
  BY DEF ArcIInv
<1> QED
  BY <1>1, ArcAlways, PTL

\* A row of the manifest that does not say what was archived makes the run that wrote it
\* exit with 1 (tools/archive_reports.py:149-151).
THEOREM ArcFalseRowsReported == ASSUME Arc!ArchiveAssumption PROVE Arc!Spec => []Arc!FalseRowsAreReported
<1>1. ArcIInv => Arc!FalseRowsAreReported
  BY DEF ArcIInv
<1> QED
  BY <1>1, ArcAlways, PTL

\* What is archived is never replaced or changed, and what has to stay at the top is
\* never moved (tools/archive_reports.py:141-143).
THEOREM ArcArchiveKept == ASSUME Arc!ArchiveAssumption PROVE Arc!Spec => Arc!ArchiveIsFinal
<1>1. ArcIInv /\ [Arc!Next]_(Arc!vars) => [Arc!EntriesStay]_(Arc!vars)
  BY ArcStay
<1> QED
  BY <1>1, ArcAlways, PTL DEF Arc!Spec, Arc!ArchiveIsFinal


-----------------------------------------------------------------------------
(***************************************************************************)
(* The backfill of TestLink.                                               *)
(***************************************************************************)
\* The cases that have been sent.
FilSent == Fil!Selected \ Fil!ToSet(filTodo)

\* Only selected cases are sent, and only with their own text.
FilShape ==
  /\ filMode \in Fil!Modes /\ filTodo \in Seq(Fil!Ids) /\ filResults \subseteq Fil!Ids \X BOOLEAN /\ filRecord \subseteq Fil!Ids \X BOOLEAN
  /\ filExit \in {"running", "0", "1", "2", "killed"} /\ filLinked \in [Fil!Ids -> Fil!Origins \cup {"old"}] /\ filMute \in BOOLEAN
  /\ Fil!ToSet(filTodo) \subseteq Fil!Selected
  /\ \A c \in Fil!Ids : filLinked[c] \in {"old", Fil!Merged[c]} /\ (filLinked[c] # "old" => c \in Fil!Selected /\ filMode # "preview")

\* A batch that has met no failure has written what it has sent.
FilWritten ==
  /\ filMode \in {"agent", "agent_stop"} /\ filExit \in {"running", "0"} /\ (\A r \in filResults : r[2]) =>
       \A c \in FilSent : filLinked[c] = Fil!Merged[c]
  /\ filMode = "xmlrpc" /\ filExit \in {"running", "0"} /\ ~filMute => \A c \in FilSent : filLinked[c] = Fil!Merged[c]
  /\ filExit = "0" => filTodo = <<>>
  /\ filExit = "0" /\ filMode # "xmlrpc" => \A r \in filResults : r[2]

\* The agent has a result for every case it has changed.
FilRecorded ==
  /\ filMode # "xmlrpc" => \A c \in Fil!Ids : filLinked[c] # "old" => \E r \in filResults : r[1] = c
  /\ filExit \in {"0", "2"} /\ filMode # "xmlrpc" => filRecord = filResults

FilIInv == FilShape /\ FilWritten /\ FilRecorded

\* The sources describe finitely many cases.
LEMMA FilFiniteRange == ASSUME NEW s, IsFiniteSet(DOMAIN s), s = [i \in DOMAIN s |-> s[i]] PROVE IsFiniteSet(Fil!ToSet(s))
<1>1. s \in Surjection(DOMAIN s, Fil!ToSet(s))
  BY DEF Surjection, Fil!ToSet
<1> QED
  BY <1>1, FS_Surjection

LEMMA FilFiniteIds == ASSUME Fil!BackfillAssumption PROVE IsFiniteSet(Fil!Ids)
<1>1. ASSUME NEW s \in {Endpoints, Records, Catalog, Neox} PROVE IsFiniteSet(Fil!ToSet(s))
  <2>1. s \in Seq(Fil!Ids)
    BY <1>1 DEF Fil!BackfillAssumption
  <2>2. Len(s) \in Nat /\ DOMAIN s = 1..Len(s) /\ s = [i \in DOMAIN s |-> s[i]]
    BY <2>1, LenProperties
  <2>3. IsFiniteSet(DOMAIN s)
    <3>1. 1 \in Int /\ Len(s) \in Int
      BY <2>2
    <3>2. IsFiniteSet(1..Len(s))
      BY <3>1, FS_Interval
    <3> QED
      BY <2>2, <3>2
  <2> QED
    BY <2>2, <2>3, FilFiniteRange
<1>2. IsFiniteSet(Fil!ToSet(Endpoints)) /\ IsFiniteSet(Fil!ToSet(Records)) /\ IsFiniteSet(Fil!ToSet(Catalog)) /\ IsFiniteSet(Fil!ToSet(Neox))
  BY <1>1
<1>3. IsFiniteSet(Fil!ToSet(Endpoints) \cup Fil!ToSet(Records)) /\ IsFiniteSet(Fil!ToSet(Catalog) \cup Fil!ToSet(Neox))
  BY <1>2, FS_Union
<1>4. IsFiniteSet((Fil!ToSet(Endpoints) \cup Fil!ToSet(Records)) \cup (Fil!ToSet(Catalog) \cup Fil!ToSet(Neox)))
  BY <1>3, FS_Union
<1>5. Fil!Ids = (Fil!ToSet(Endpoints) \cup Fil!ToSet(Records)) \cup (Fil!ToSet(Catalog) \cup Fil!ToSet(Neox))
  BY DEF Fil!Ids
<1> QED
  BY <1>4, <1>5

\* SetToSeq enumerates a finite set.
LEMMA FilEnumerates == ASSUME NEW S, IsFiniteSet(S) PROVE Fil!SetToSeq(S) \in Seq(S) /\ Fil!ToSet(Fil!SetToSeq(S)) = S
<1> DEFINE n == Cardinality(S)
           q == Fil!SetToSeq(S)
<1>1. n \in Nat /\ ExistsBijection(1..n, S)
  BY FS_CardinalityType
<1>2. PICK f : f \in [1..n -> S] /\ Fil!IsInjective(f)
  BY <1>1 DEF ExistsBijection, Bijection, Injection, IsInjective, Fil!IsInjective
<1>3. q \in [1..n -> S] /\ Fil!IsInjective(q)
  <2>1. Fil!Cardinality(S) = n
    BY DEF Fil!Cardinality, Cardinality
  <2> HIDE DEF n
  <2> QED
    BY <1>2, <2>1 DEF Fil!SetToSeq
<1> HIDE DEF q
<1>4. q \in Injection(1..n, S)
  BY <1>3 DEF Injection, IsInjective, Fil!IsInjective
<1>5. IsFiniteSet(1..n) /\ Cardinality(1..n) = n
  <2>1. 1 \in Int /\ n \in Int
    BY <1>1
  <2>2. IsFiniteSet(1..n) /\ Cardinality(1..n) = IF 1 > n THEN 0 ELSE n - 1 + 1
    BY <2>1, FS_Interval
  <2> HIDE DEF n
  <2> QED
    BY <1>1, <2>2
<1>6. q \in Surjection(1..n, S)
  BY <1>4, <1>5, FS_Injection
<1>7. q \in Seq(S)
  BY <1>1, <1>3, IsASeq
<1>8. Fil!ToSet(q) = S
  BY <1>3, <1>6 DEF Surjection, Fil!ToSet
<1> QED
  BY <1>7, <1>8 DEF q

\* The text of a case is that of the most specific source.
LEMMA FilMergedIsOrigin == ASSUME NEW c \in Fil!Ids PROVE Fil!Merged[c] = Fil!Origin(c) /\ Fil!Merged[c] \in Fil!Origins
  BY DEF Fil!Merged, Fil!Origin, Fil!Origins, Fil!Assign, Fil!SetDefault, Fil!Nobody, Fil!Ids

\* What a list of cases loses with its first one.
LEMMA FilRest ==
  ASSUME NEW s \in Seq(Fil!Ids), s # <<>>
  PROVE  /\ Head(s) \in Fil!Ids /\ Tail(s) \in Seq(Fil!Ids) /\ Head(s) \in Fil!ToSet(s)
         /\ Fil!ToSet(Tail(s)) \subseteq Fil!ToSet(s) /\ Fil!ToSet(s) \subseteq {Head(s)} \cup Fil!ToSet(Tail(s))
<1>1. /\ Len(s) \in Nat /\ Len(s) # 0 /\ DOMAIN s = 1..Len(s)
      /\ Head(s) \in Fil!Ids /\ Head(s) = s[1] /\ Tail(s) \in Seq(Fil!Ids) /\ Len(Tail(s)) = Len(s) - 1
  BY HeadTailProperties, LenProperties, EmptySeq
<1>2. \A i \in 1..Len(Tail(s)) : Tail(s)[i] = s[i + 1]
  BY HeadTailProperties
<1>3. DOMAIN Tail(s) = 1..(Len(s) - 1)
  BY <1>1, LenProperties
<1>4. ASSUME NEW i \in DOMAIN Tail(s) PROVE Tail(s)[i] \in Fil!ToSet(s)
  <2>1. i + 1 \in DOMAIN s /\ Tail(s)[i] = s[i + 1]
    BY <1>1, <1>2, <1>3
  <2> QED
    BY <2>1 DEF Fil!ToSet
<1>5. ASSUME NEW i \in DOMAIN s, i # 1 PROVE s[i] \in Fil!ToSet(Tail(s))
  <2>1. i - 1 \in DOMAIN Tail(s) /\ (i - 1) + 1 = i /\ i - 1 \in 1..Len(Tail(s))
    BY <1>1, <1>3, <1>5
  <2>2. Tail(s)[i - 1] = s[i]
    BY <1>2, <2>1
  <2> QED
    BY <2>1, <2>2 DEF Fil!ToSet
<1>6. 1 \in DOMAIN s
  BY <1>1
<1> QED
  BY <1>1, <1>4, <1>5, <1>6 DEF Fil!ToSet

\* The start of a batch satisfies the invariant.
LEMMA FilInitially == ASSUME Fil!BackfillAssumption PROVE Fil!Init => FilIInv
<1> SUFFICES ASSUME Fil!Init PROVE FilIInv
  OBVIOUS
<1>1. IsFiniteSet(Fil!Selected) /\ Fil!Selected \subseteq Fil!Ids
  BY FilFiniteIds, FS_Subset DEF Fil!Selected
<1>2. filTodo \in Seq(Fil!Selected) /\ Fil!ToSet(filTodo) = Fil!Selected
  BY <1>1, FilEnumerates DEF Fil!Init
<1>3. filTodo \in Seq(Fil!Ids)
  BY <1>1, <1>2, SeqMonotonic
<1>4. FilShape
  BY <1>2, <1>3 DEF Fil!Init, FilShape
<1>5. FilSent = {}
  BY <1>2 DEF FilSent
<1> QED
  BY <1>4, <1>5 DEF Fil!Init, FilIInv, FilWritten, FilRecorded

\* A case that is written has its text.
LEMMA FilWriting ==
  ASSUME FilShape, NEW c \in Fil!Selected, Fil!Writes(c), filMode # "preview"
  PROVE  /\ filLinked' \in [Fil!Ids -> Fil!Origins \cup {"old"}] /\ filLinked'[c] = Fil!Merged[c]
         /\ \A d \in Fil!Ids : d # c => filLinked'[d] = filLinked[d]
         /\ \A d \in Fil!Ids : filLinked'[d] \in {"old", Fil!Merged[d]} /\ (filLinked'[d] # "old" => d \in Fil!Selected /\ filMode # "preview")
<1>1. c \in Fil!Ids /\ Fil!Merged[c] \in Fil!Origins /\ filLinked \in [Fil!Ids -> Fil!Origins \cup {"old"}]
  BY FilMergedIsOrigin DEF Fil!Selected, FilShape
<1>2. /\ filLinked' \in [Fil!Ids -> Fil!Origins \cup {"old"}] /\ filLinked'[c] = Fil!Merged[c]
      /\ \A d \in Fil!Ids : d # c => filLinked'[d] = filLinked[d]
  BY <1>1 DEF Fil!Writes
<1>3. ASSUME NEW d \in Fil!Ids PROVE filLinked'[d] \in {"old", Fil!Merged[d]} /\ (filLinked'[d] # "old" => d \in Fil!Selected /\ filMode # "preview")
  <2>1. CASE d = c
    BY <1>2, <2>1
  <2>2. CASE d # c
    BY <1>2, <2>2 DEF FilShape
  <2> QED
    BY <2>1, <2>2
<1> QED
  BY <1>2, <1>3

\* Every step keeps the invariant.
LEMMA FilInductive == ASSUME Fil!BackfillAssumption PROVE FilIInv /\ [Fil!Next]_(Fil!vars) => FilIInv'
<1> SUFFICES ASSUME FilIInv, [Fil!Next]_(Fil!vars) PROVE FilIInv'
  OBVIOUS
<1>s. FilShape
  BY DEF FilIInv
<1>1. CASE Fil!RunAgent
  <2>1. /\ filExit = "running" /\ filMode' = filMode /\ filMode \in Fil!Modes /\ filMode # "xmlrpc" /\ filTodo # <<>> /\ filTodo \in Seq(Fil!Ids)
        /\ filRecord' = filRecord /\ filExit' = filExit /\ filMute' = filMute
    BY <1>1 DEF Fil!RunAgent, Fil!Running, FilShape, FilIInv
  <2>2. PICK ok \in BOOLEAN :
          /\ IF filMode = "preview" THEN Fil!Unwritten ELSE Fil!Writes(Fil!Next1) \/ (~ok /\ Fil!Unwritten)
          /\ filResults' = filResults \union {<<Fil!Next1, ok>>}
          /\ filTodo' = IF ~ok /\ filMode = "agent_stop" THEN <<>> ELSE Tail(filTodo)
    BY <1>1 DEF Fil!RunAgent
  <2>3. /\ Fil!Next1 \in Fil!Ids /\ Fil!Next1 \in Fil!Selected /\ Tail(filTodo) \in Seq(Fil!Ids) /\ <<>> \in Seq(Fil!Ids)
        /\ Fil!ToSet(Tail(filTodo)) \subseteq Fil!Selected /\ Fil!ToSet(filTodo) \subseteq {Fil!Next1} \cup Fil!ToSet(Tail(filTodo))
        /\ Fil!ToSet(<<>>) = {}
    <3>1. /\ Fil!Next1 \in Fil!Ids /\ Fil!Next1 \in Fil!ToSet(filTodo) /\ Tail(filTodo) \in Seq(Fil!Ids)
          /\ Fil!ToSet(Tail(filTodo)) \subseteq Fil!ToSet(filTodo) /\ Fil!ToSet(filTodo) \subseteq {Fil!Next1} \cup Fil!ToSet(Tail(filTodo))
      BY <2>1, FilRest DEF Fil!Next1
    <3>2. <<>> \in Seq(Fil!Ids) /\ Fil!ToSet(<<>>) = {}
      BY DEF Fil!ToSet
    <3> QED
      BY <1>s, <3>1, <3>2 DEF FilShape
  <2>4. filTodo' \in Seq(Fil!Ids) /\ Fil!ToSet(filTodo') \subseteq Fil!Selected
    BY <2>2, <2>3
  <2>5. filResults' \subseteq Fil!Ids \X BOOLEAN
    BY <1>s, <2>2, <2>3 DEF FilShape
  <2>6. CASE Fil!Unwritten
    <3>1. filLinked' = filLinked /\ (filMode # "preview" => ~ok \/ Fil!Writes(Fil!Next1))
      BY <2>2, <2>6 DEF Fil!Unwritten
    <3>2. FilShape'
      BY <1>s, <2>1, <2>4, <2>5, <3>1 DEF FilShape
    <3>3. FilRecorded'
      BY <2>1, <2>2, <3>1 DEF FilIInv, FilRecorded
    <3>4. ASSUME filMode \in {"agent", "agent_stop"}, \A r \in filResults' : r[2], NEW c \in FilSent' PROVE filLinked'[c] = Fil!Merged[c]
      <4>1. ok
        <5>1. <<Fil!Next1, ok>> \in filResults'
          BY <2>2
        <5>2. <<Fil!Next1, ok>>[2]
          BY <3>4, <5>1
        <5> QED
          BY <5>2
      <4>2. Fil!Writes(Fil!Next1) /\ filTodo' = Tail(filTodo) /\ filMode # "preview"
        BY <2>2, <3>1, <3>4, <4>1
      <4>3. filLinked'[Fil!Next1] = Fil!Merged[Fil!Next1]
        BY <1>s, <2>3, <4>2, FilWriting
      <4>4. c = Fil!Next1 \/ c \in FilSent
        BY <2>3, <3>4, <4>2 DEF FilSent
      <4>5. \A r \in filResults : r[2]
        BY <2>2, <3>4
      <4> QED
        BY <2>1, <3>1, <3>4, <4>3, <4>4, <4>5 DEF FilIInv, FilWritten
    <3>5. FilWritten'
      BY <2>1, <3>4 DEF FilWritten
    <3> QED
      BY <3>2, <3>3, <3>5 DEF FilIInv
  <2>7. CASE Fil!Writes(Fil!Next1) /\ filMode # "preview"
    <3>1. /\ filLinked' \in [Fil!Ids -> Fil!Origins \cup {"old"}] /\ filLinked'[Fil!Next1] = Fil!Merged[Fil!Next1]
          /\ \A d \in Fil!Ids : d # Fil!Next1 => filLinked'[d] = filLinked[d]
          /\ \A d \in Fil!Ids : filLinked'[d] \in {"old", Fil!Merged[d]} /\ (filLinked'[d] # "old" => d \in Fil!Selected /\ filMode # "preview")
      BY <1>s, <2>3, <2>7, FilWriting
    <3>2. FilShape'
      BY <1>s, <2>1, <2>4, <2>5, <3>1 DEF FilShape
    <3>3. FilRecorded'
      <4>1. ASSUME NEW c \in Fil!Ids, filLinked'[c] # "old" PROVE \E r \in filResults' : r[1] = c
        <5>1. CASE c = Fil!Next1
          <6>1. <<Fil!Next1, ok>> \in filResults' /\ <<Fil!Next1, ok>>[1] = Fil!Next1
            BY <2>2
          <6> QED
            BY <5>1, <6>1
        <5>2. CASE c # Fil!Next1
          BY <2>1, <2>2, <3>1, <4>1, <5>2 DEF FilIInv, FilRecorded
        <5> QED
          BY <5>1, <5>2
      <4> QED
        BY <2>1, <4>1 DEF FilRecorded
    <3>4. ASSUME filMode \in {"agent", "agent_stop"}, \A r \in filResults' : r[2], NEW c \in FilSent' PROVE filLinked'[c] = Fil!Merged[c]
      <4>1. ok
        <5>1. <<Fil!Next1, ok>> \in filResults'
          BY <2>2
        <5>2. <<Fil!Next1, ok>>[2]
          BY <3>4, <5>1
        <5> QED
          BY <5>2
      <4>2. filTodo' = Tail(filTodo)
        BY <2>2, <4>1
      <4>3. c \in Fil!Ids /\ (c = Fil!Next1 \/ c \in FilSent)
        BY <2>3, <3>4, <4>2 DEF FilSent, Fil!Selected
      <4>4. \A r \in filResults : r[2]
        BY <2>2, <3>4
      <4>5. c \in FilSent => filLinked[c] = Fil!Merged[c]
        BY <2>1, <3>4, <4>4 DEF FilIInv, FilWritten
      <4> QED
        BY <3>1, <4>3, <4>5
    <3>5. FilWritten'
      BY <2>1, <3>4 DEF FilWritten
    <3> QED
      BY <3>2, <3>3, <3>5 DEF FilIInv
  <2> QED
    BY <2>2, <2>6, <2>7
<1>2. CASE Fil!FinishAgent
  <2>1. /\ filExit = "running" /\ filMode' = filMode /\ filMode # "xmlrpc" /\ filTodo = <<>> /\ filRecord' = filResults
        /\ filExit' = IF \E r \in filResults : ~r[2] THEN "2" ELSE "0"
        /\ filTodo' = filTodo /\ filResults' = filResults /\ filLinked' = filLinked /\ filMute' = filMute
    BY <1>2 DEF Fil!FinishAgent, Fil!Running
  <2>2. FilShape'
    BY <1>s, <2>1 DEF FilShape
  <2>3. FilSent' = FilSent
    BY <2>1 DEF FilSent
  <2>4. FilWritten' /\ FilRecorded'
    BY <2>1, <2>3 DEF FilIInv, FilWritten, FilRecorded
  <2> QED
    BY <2>2, <2>4 DEF FilIInv
<1>3. CASE Fil!SendXmlRpc
  <2>1. /\ filExit = "running" /\ filMode' = filMode /\ filMode = "xmlrpc" /\ filTodo # <<>> /\ filTodo \in Seq(Fil!Ids)
        /\ filRecord' = filRecord /\ filResults' = filResults
    BY <1>3 DEF Fil!SendXmlRpc, Fil!Running, FilShape, FilIInv
  <2>2. PICK answer \in {"ok", "false", "no_status", "raise"} :
          /\ Fil!Writes(Fil!Next1) \/ (answer # "ok" /\ Fil!Unwritten)
          /\ filMute' = (filMute \/ (answer = "no_status" /\ Fil!Unwritten))
          /\ IF answer \in {"false", "raise"} THEN filExit' = "1" /\ UNCHANGED filTodo
             ELSE filTodo' = Tail(filTodo) /\ UNCHANGED filExit
    BY <1>3 DEF Fil!SendXmlRpc
  <2>3. /\ Fil!Next1 \in Fil!Ids /\ Fil!Next1 \in Fil!Selected /\ Tail(filTodo) \in Seq(Fil!Ids)
        /\ Fil!ToSet(Tail(filTodo)) \subseteq Fil!Selected /\ Fil!ToSet(filTodo) \subseteq {Fil!Next1} \cup Fil!ToSet(Tail(filTodo))
    BY <1>s, <2>1, FilRest DEF Fil!Next1, FilShape
  <2>4. filTodo' \in Seq(Fil!Ids) /\ Fil!ToSet(filTodo') \subseteq Fil!Selected /\ filExit' \in {"1", "running"} /\ filExit' # "0"
    BY <1>s, <2>1, <2>2, <2>3 DEF FilShape
  <2>5. filMute' \in BOOLEAN /\ (~filMute' => ~filMute)
    BY <1>s, <2>2 DEF FilShape
  <2>6. /\ filLinked' \in [Fil!Ids -> Fil!Origins \cup {"old"}]
        /\ \A d \in Fil!Ids : filLinked'[d] \in {"old", Fil!Merged[d]} /\ (filLinked'[d] # "old" => d \in Fil!Selected /\ filMode # "preview")
    <3>1. CASE Fil!Writes(Fil!Next1)
      BY <1>s, <2>1, <2>3, <3>1, FilWriting
    <3>2. CASE Fil!Unwritten
      BY <1>s, <3>2 DEF Fil!Unwritten, FilShape
    <3> QED
      BY <2>2, <3>1, <3>2
  <2>7. FilShape'
    BY <1>s, <2>1, <2>4, <2>5, <2>6 DEF FilShape
  <2>8. ASSUME filExit' = "running", ~filMute', NEW c \in FilSent' PROVE filLinked'[c] = Fil!Merged[c]
    <3>1. answer \notin {"false", "raise"} /\ filTodo' = Tail(filTodo)
      BY <2>1, <2>2, <2>8
    <3>2. Fil!Writes(Fil!Next1)
      BY <2>2, <2>8, <3>1
    <3>3. filLinked'[Fil!Next1] = Fil!Merged[Fil!Next1] /\ \A d \in Fil!Ids : d # Fil!Next1 => filLinked'[d] = filLinked[d]
      BY <1>s, <2>1, <2>3, <3>2, FilWriting
    <3>4. c \in Fil!Ids /\ (c = Fil!Next1 \/ c \in FilSent)
      BY <2>3, <2>8, <3>1 DEF FilSent, Fil!Selected
    <3>5. c \in FilSent => filLinked[c] = Fil!Merged[c]
      BY <2>1, <2>5, <2>8 DEF FilIInv, FilWritten
    <3> QED
      BY <3>3, <3>4, <3>5
  <2>9. FilWritten' /\ FilRecorded'
    BY <2>1, <2>4, <2>8 DEF FilWritten, FilRecorded
  <2> QED
    BY <2>7, <2>9 DEF FilIInv
<1>4. CASE Fil!FinishXmlRpc
  <2>1. /\ filExit = "running" /\ filExit' = "0" /\ filMode' = filMode /\ filMode = "xmlrpc" /\ filTodo = <<>>
        /\ UNCHANGED <<filTodo, filResults, filRecord, filLinked, filMute>>
    BY <1>4 DEF Fil!FinishXmlRpc, Fil!Running
  <2>2. FilShape'
    BY <1>s, <2>1 DEF FilShape
  <2>3. FilSent' = FilSent
    BY <2>1 DEF FilSent
  <2>4. FilWritten' /\ FilRecorded'
    BY <2>1, <2>3 DEF FilIInv, FilWritten, FilRecorded
  <2> QED
    BY <2>2, <2>4 DEF FilIInv
<1>5. CASE Fil!Killed
  <2>1. filExit = "running" /\ filExit' = "killed" /\ filMode' = filMode /\ UNCHANGED <<filTodo, filResults, filRecord, filLinked, filMute>>
    BY <1>5 DEF Fil!Killed, Fil!Running
  <2>2. FilShape'
    BY <1>s, <2>1 DEF FilShape
  <2>4. FilWritten' /\ FilRecorded'
    BY <2>1 DEF FilIInv, FilWritten, FilRecorded
  <2> QED
    BY <2>2, <2>4 DEF FilIInv
<1>6. CASE UNCHANGED Fil!vars
  <2>1. FilSent' = FilSent
    BY <1>6 DEF Fil!vars, FilSent
  <2> QED
    BY <1>6, <2>1 DEF Fil!vars, FilIInv, FilShape, FilWritten, FilRecorded
<1> QED
  BY <1>1, <1>2, <1>3, <1>4, <1>5, <1>6 DEF Fil!Next, Fil!Tool

LEMMA FilUpdated == ASSUME Fil!BackfillAssumption PROVE FilIInv => Fil!ZeroMeansUpdated
<1> SUFFICES ASSUME FilIInv PROVE Fil!ZeroMeansUpdated
  OBVIOUS
<1>1. ASSUME filExit = "0", filMode # "preview", ~filMute, NEW c \in Fil!Selected PROVE filLinked[c] = Fil!Origin(c)
  <2>1. filTodo = <<>> /\ c \in Fil!Ids
    BY <1>1 DEF FilIInv, FilWritten, Fil!Selected
  <2>2. c \in FilSent
    BY <2>1 DEF FilSent, Fil!ToSet
  <2>3. filMode \in {"agent", "agent_stop", "xmlrpc"}
    BY <1>1 DEF FilIInv, FilShape, Fil!Modes
  <2>4. filLinked[c] = Fil!Merged[c]
    BY <1>1, <2>2, <2>3 DEF FilIInv, FilWritten
  <2> QED
    BY <2>1, <2>4, FilMergedIsOrigin
<1>2. \A c \in Fil!Ids : filLinked[c] \in {"old", Fil!Origin(c)} /\ (filLinked[c] # "old" => c \in Fil!Selected /\ filMode # "preview")
  BY FilMergedIsOrigin DEF FilIInv, FilShape
<1> QED
  BY <1>1, <1>2 DEF Fil!ZeroMeansUpdated

LEMMA FilChanges == FilIInv => Fil!ChangesAreRecorded
  BY DEF FilIInv, FilRecorded, Fil!ChangesAreRecorded

LEMMA FilTypes == FilIInv => Fil!TypeOK
  BY DEF FilIInv, FilShape, Fil!TypeOK

\* The invariant holds throughout a batch.
LEMMA FilAlways == ASSUME Fil!BackfillAssumption PROVE Fil!Spec => []FilIInv
<1>1. Fil!Init => FilIInv
  BY FilInitially
<1>2. FilIInv /\ [Fil!Next]_(Fil!vars) => FilIInv'
  BY FilInductive
<1> QED
  BY <1>1, <1>2, PTL DEF Fil!Spec

\* The tool keeps the types of its variables.
THEOREM FilTypeCorrect == ASSUME Fil!BackfillAssumption PROVE Fil!Spec => []Fil!TypeOK
<1>1. FilIInv => Fil!TypeOK
  BY FilTypes
<1> QED
  BY <1>1, FilAlways, PTL

\* Exit code 0 of a writing run means that every selected case has its text in TestLink
\* and no other case was touched, unless an update was answered without a status
\* (tools/testlink_backfill.py:645-648).
THEOREM FilZeroUpdated == ASSUME Fil!BackfillAssumption PROVE Fil!Spec => []Fil!ZeroMeansUpdated
<1>1. FilIInv => Fil!ZeroMeansUpdated
  BY FilUpdated
<1> QED
  BY <1>1, FilAlways, PTL

\* The results file names every case that the agent has changed, failed ones included
\* (tools/testlink_backfill.py:733-753).
THEOREM FilChangesRecorded == ASSUME Fil!BackfillAssumption PROVE Fil!Spec => []Fil!ChangesAreRecorded
<1>1. FilIInv => Fil!ChangesAreRecorded
  BY FilChanges
<1> QED
  BY <1>1, FilAlways, PTL

-----------------------------------------------------------------------------
(***************************************************************************)
(* The comparison of the OpenAPI views.  The functions on schemas recurse: *)
(* each is shown to satisfy its equations by induction on a measure, which *)
(* is what is left to follow for a call and the nesting for a schema.      *)
(***************************************************************************)
\* What holds of 0 and passes on to the next number holds of all.
LEMMA DocAllNumbers == ASSUME NEW T \in SUBSET Nat, 0 \in T, \A n \in T : n + 1 \in T PROVE \A n \in Nat : n \in T
<1> SUFFICES ASSUME NEW n \in Nat, n \notin T PROVE FALSE
  OBVIOUS
<1> DEFINE Out == Nat \ T
<1>1. Out \in SUBSET Nat /\ Out # {}
  OBVIOUS
<1>2. PICK x \in Out : \A y \in Out : x <= y
  <2> HIDE DEF Out
  <2> QED
    BY <1>1, IdxLeast
<1>3. x \in Nat /\ x \notin T /\ x # 0
  BY <1>2
<1>4. x - 1 \in Nat /\ ~(x <= x - 1) /\ (x - 1) + 1 = x
  BY <1>3
<1>5. x - 1 \in T
  BY <1>2, <1>4
<1> QED
  BY <1>3, <1>4, <1>5

LEMMA DocProducts == ASSUME NEW a \in Nat, NEW b \in Nat, NEW h \in Nat, NEW r \in Nat, a < b, r <= h PROVE a * (h + 1) + r < b * (h + 1)
<1> DEFINE d == b - a - 1
<1>1. d \in Nat /\ b = a + (1 + d)
  OBVIOUS
<1> HIDE DEF d
<1>2. b * (h + 1) = a * (h + 1) + (1 + d) * (h + 1)
  BY <1>1
<1>3. (1 + d) * (h + 1) = (h + 1) + d * (h + 1) /\ d * (h + 1) \in Nat /\ a * (h + 1) \in Nat
  BY <1>1
<1> QED
  BY <1>2, <1>3

(***************************************************************************)
(* The schemas of a document, and the calls that the two functions on them *)
(* make.                                                                   *)
(***************************************************************************)
DocSchemas(schemas) ==
  /\ DOMAIN schemas \subseteq STRING /\ IsFiniteSet(DOMAIN schemas)
  /\ \A n \in DOMAIN schemas : schemas[n] \in Doc!AllSchemas

LEMMA DocSchemasOf == ASSUME Doc!OpenApiAssumption, NEW doc, Doc!IsDocument(doc) PROVE DocSchemas(doc.schemas)
<1>1. IsFiniteSet(ComponentNames) /\ ComponentNames \subseteq STRING
  BY DEF Doc!OpenApiAssumption, Doc!IsFiniteSet, IsFiniteSet
<1>2. DOMAIN doc.schemas \subseteq ComponentNames /\ \A n \in DOMAIN doc.schemas : doc.schemas[n] \in Doc!AllSchemas
  BY DEF Doc!IsDocument
<1>3. IsFiniteSet(DOMAIN doc.schemas)
  BY <1>1, <1>2, FS_Subset
<1> QED
  BY <1>1, <1>2, <1>3 DEF DocSchemas

\* What is inside a schema is one, and nests less deep.
LEMMA DocInside ==
  ASSUME Doc!OpenApiAssumption, NEW s \in Doc!AllSchemas
  PROVE  /\ Height \in Nat /\ Nesting[s] \in 0..Height /\ Doc!IsSchema(s)
         /\ s.kind = "array" => s.items \in Doc!AllSchemas /\ Nesting[s.items] < Nesting[s]
         /\ s.kind = "object" => /\ DOMAIN s.props \subseteq STRING
                                 /\ \A f \in DOMAIN s.props : s.props[f] \in Doc!AllSchemas /\ Nesting[s.props[f]] < Nesting[s]
         /\ s.kind \in {"object", "array", "leaf"} =>
              \A i \in DOMAIN s.parts : s.parts[i] \in Doc!AllSchemas /\ Nesting[s.parts[i]] < Nesting[s]
<1>1. Height \in Nat /\ Nesting[s] \in 0..Height /\ Doc!IsSchema(s) /\ \A x \in Doc!Inside(s) : x \in Doc!AllSchemas /\ Nesting[x] < Nesting[s]
  BY DEF Doc!OpenApiAssumption
<1>2. s.kind = "array" => s.items \in Doc!Inside(s)
  BY DEF Doc!Inside
<1>3. s.kind = "object" => \A f \in DOMAIN s.props : s.props[f] \in Doc!Inside(s)
  BY DEF Doc!Inside
<1>4. s.kind = "object" => DOMAIN s.props \subseteq STRING
  BY <1>1 DEF Doc!IsSchema
<1>5. s.kind \in {"object", "array", "leaf"} => \A i \in DOMAIN s.parts : s.parts[i] \in Doc!Inside(s)
  BY DEF Doc!Inside, Doc!Parts
<1> QED
  BY <1>1, <1>2, <1>3, <1>4, <1>5

\* A call that follows a reference has fewer names to follow, any other a schema that nests less deep.
DocLeft(schemas, call) == Cardinality(DOMAIN schemas \ call.seen) * (Height + 1) + Nesting[call.schema]

LEMMA DocLeftIs ==
  ASSUME Doc!OpenApiAssumption, NEW schemas, DocSchemas(schemas), NEW call \in Doc!Calls
  PROVE  /\ DocLeft(schemas, call) \in Nat /\ DocLeft(schemas, call) < (Cardinality(DOMAIN schemas) + 1) * (Height + 1)
         /\ (Cardinality(DOMAIN schemas) + 1) * (Height + 1) \in Nat
<1>1. call.schema \in Doc!AllSchemas /\ Height \in Nat
  BY DocInside DEF Doc!Calls
<1>2. Nesting[call.schema] \in 0..Height
  BY <1>1, DocInside
<1> DEFINE c == Cardinality(DOMAIN schemas \ call.seen)
           d == Cardinality(DOMAIN schemas)
<1>3. c \in Nat /\ d \in Nat /\ c <= d
  <2>1. IsFiniteSet(DOMAIN schemas) /\ DOMAIN schemas \ call.seen \subseteq DOMAIN schemas
    BY DEF DocSchemas
  <2> QED
    BY <2>1, FS_Subset, FS_CardinalityType
<1>4. c \in Nat /\ d + 1 \in Nat /\ c < d + 1 /\ Nesting[call.schema] \in Nat /\ Nesting[call.schema] <= Height
  BY <1>2, <1>3
<1> HIDE DEF c, d
<1>5. c * (Height + 1) + Nesting[call.schema] < (d + 1) * (Height + 1)
  BY <1>1, <1>4, DocProducts
<1>6. c * (Height + 1) + Nesting[call.schema] \in Nat /\ (d + 1) * (Height + 1) \in Nat
  BY <1>1, <1>4
<1> QED
  BY <1>5, <1>6 DEF DocLeft, c, d

\* Each call that a call makes is one, and has less left.
LEMMA DocOnwards ==
  ASSUME Doc!OpenApiAssumption, NEW schemas, DocSchemas(schemas), NEW call \in Doc!Calls,
         Doc!Followed(schemas, call.schema, call.seen)
  PROVE  /\ Doc!Onwards(schemas, call) \in Doc!Calls
         /\ Doc!Onwards(schemas, call).prefix = call.prefix /\ Doc!Onwards(schemas, call).required = call.required
         /\ Doc!Onwards(schemas, call).schema = schemas[call.schema.to]
         /\ Doc!Onwards(schemas, call).seen = call.seen \union {call.schema.to}
         /\ DocLeft(schemas, Doc!Onwards(schemas, call)) < DocLeft(schemas, call)
<1> DEFINE n == call.schema.to
           next == Doc!Onwards(schemas, call)
           before == DOMAIN schemas \ call.seen
           after == DOMAIN schemas \ next.seen
<1>1. n \notin call.seen /\ n \in DOMAIN schemas /\ n \in STRING /\ schemas[n] \in Doc!AllSchemas
  BY DEF Doc!Followed, DocSchemas
<1>2. next.schema = schemas[n] /\ next.seen = call.seen \union {n} /\ next.prefix = call.prefix /\ next.required = call.required
  BY DEF Doc!Onwards, Doc!Calls
<1>3. next \in Doc!Calls
  BY <1>1 DEF Doc!Onwards, Doc!Calls
<1>4. after = before \ {n} /\ n \in before
  BY <1>1, <1>2
<1>5. IsFiniteSet(before)
  <2>1. IsFiniteSet(DOMAIN schemas)
    BY DEF DocSchemas
  <2> QED
    BY <2>1, FS_Subset
<1>6. Cardinality(after) = Cardinality(before) - 1 /\ Cardinality(before) \in Nat
  <2> HIDE DEF after, before
  <2> QED
    BY <1>4, <1>5, FS_RemoveElement, FS_CardinalityType
<1>7. Cardinality(after) \in Nat
  <2> HIDE DEF after, before
  <2>1. IsFiniteSet(after)
    BY <1>4, <1>5, FS_RemoveElement
  <2> QED
    BY <2>1, FS_CardinalityType
<1>8. Height \in Nat /\ Nesting[schemas[n]] \in Nat /\ Nesting[schemas[n]] <= Height
  BY <1>1, DocInside
<1>9. Height \in Nat /\ Nesting[call.schema] \in Nat
  <2>1. call.schema \in Doc!AllSchemas
    BY DEF Doc!Calls
  <2> QED
    BY <2>1, DocInside
<1>10. Cardinality(after) * (Height + 1) + Nesting[schemas[n]] < Cardinality(before) * (Height + 1)
  <2> DEFINE a == Cardinality(after)
             b == Cardinality(before)
             r == Nesting[schemas[n]]
  <2>1. a \in Nat /\ b \in Nat /\ r \in Nat /\ r <= Height /\ a < b
    BY <1>6, <1>7, <1>8
  <2> HIDE DEF a, b, r
  <2>2. a * (Height + 1) + r < b * (Height + 1)
    BY <1>8, <2>1, DocProducts
  <2> QED
    BY <2>2 DEF a, b, r
<1>11. DocLeft(schemas, next) = Cardinality(after) * (Height + 1) + Nesting[schemas[n]]
  BY <1>2 DEF DocLeft
<1>12. DocLeft(schemas, call) = Cardinality(before) * (Height + 1) + Nesting[call.schema]
  BY DEF DocLeft
<1>13. DocLeft(schemas, next) < DocLeft(schemas, call)
  <2> HIDE DEF next, after, before, n
  <2> DEFINE a == Cardinality(after) * (Height + 1)
             b == Cardinality(before) * (Height + 1)
  <2>1. a \in Nat /\ b \in Nat
    BY <1>6, <1>7, <1>8
  <2>2. DocLeft(schemas, next) = a + Nesting[schemas[n]] /\ DocLeft(schemas, call) = b + Nesting[call.schema]
        /\ a + Nesting[schemas[n]] < b
    BY <1>10, <1>11, <1>12
  <2> HIDE DEF a, b
  <2> QED
    BY <1>8, <1>9, <2>1, <2>2
<1> QED
  BY <1>2, <1>3, <1>13

LEMMA DocInto ==
  ASSUME Doc!OpenApiAssumption, NEW schemas, DocSchemas(schemas), NEW call \in Doc!Calls, NEW next \in Doc!Calls,
         next.seen = call.seen, Nesting[next.schema] < Nesting[call.schema]
  PROVE  DocLeft(schemas, next) < DocLeft(schemas, call)
<1>1. Height \in Nat /\ Nesting[next.schema] \in Nat /\ Nesting[call.schema] \in Nat
  <2>1. call.schema \in Doc!AllSchemas /\ next.schema \in Doc!AllSchemas
    BY DEF Doc!Calls
  <2> QED
    BY <2>1, DocInside
<1> DEFINE a == Cardinality(DOMAIN schemas \ call.seen) * (Height + 1)
<1>2. DocLeft(schemas, next) = a + Nesting[next.schema] /\ DocLeft(schemas, call) = a + Nesting[call.schema]
  BY DEF DocLeft
<1>3. a \in Nat
  <2>1. IsFiniteSet(DOMAIN schemas)
    BY DEF DocSchemas
  <2>2. Cardinality(DOMAIN schemas \ call.seen) \in Nat
    BY <2>1, FS_Subset, FS_CardinalityType
  <2> QED
    BY <1>1, <2>2
<1> HIDE DEF a
<1> QED
  BY <1>1, <1>2, <1>3

LEMMA DocItems ==
  ASSUME Doc!OpenApiAssumption, NEW schemas, DocSchemas(schemas), NEW call \in Doc!Calls, call.schema.kind = "array"
  PROVE  LET next == Doc!IntoItems(call) IN
         /\ next \in Doc!Calls /\ DocLeft(schemas, next) < DocLeft(schemas, call)
         /\ next.schema = call.schema.items /\ next.prefix = call.prefix /\ next.seen = call.seen /\ next.required = call.required
<1> DEFINE next == Doc!IntoItems(call)
<1>1. call.schema \in Doc!AllSchemas
  BY DEF Doc!Calls
<1>2. call.schema.items \in Doc!AllSchemas /\ Nesting[call.schema.items] < Nesting[call.schema]
  BY <1>1, DocInside
<1>3. next \in Doc!Calls /\ next.schema = call.schema.items /\ next.prefix = call.prefix /\ next.seen = call.seen /\ next.required = call.required
  BY <1>2 DEF Doc!IntoItems, Doc!Calls
<1>4. DocLeft(schemas, next) < DocLeft(schemas, call)
  <2> HIDE DEF next
  <2> QED
    BY <1>2, <1>3, DocInto
<1> QED
  BY <1>3, <1>4

LEMMA DocField ==
  ASSUME Doc!OpenApiAssumption, NEW schemas, DocSchemas(schemas), NEW call \in Doc!Calls, call.schema.kind = "object",
         NEW f \in DOMAIN call.schema.props
  PROVE  LET next == Doc!IntoField(call, f) IN
         /\ next \in Doc!Calls /\ DocLeft(schemas, next) < DocLeft(schemas, call) /\ f \in STRING
         /\ next.schema = call.schema.props[f] /\ next.prefix = Append(call.prefix, f) /\ next.seen = call.seen
         /\ next.required = (f \in Doc!Range(call.schema.required))
<1> DEFINE next == Doc!IntoField(call, f)
<1>1. call.schema \in Doc!AllSchemas /\ call.prefix \in Seq(STRING)
  BY DEF Doc!Calls
<1>2. f \in STRING /\ call.schema.props[f] \in Doc!AllSchemas /\ Nesting[call.schema.props[f]] < Nesting[call.schema]
  BY <1>1, DocInside
<1>3. Append(call.prefix, f) \in Seq(STRING)
  BY <1>1, <1>2
<1> DEFINE r == f \in Doc!Range(call.schema.required)
<1>4. r \in BOOLEAN
  OBVIOUS
<1> HIDE DEF r
<1>5. next = [call EXCEPT !.schema = @.props[f], !.prefix = Append(@, f), !.required = r]
  BY DEF Doc!IntoField, r
<1>6. next \in Doc!Calls /\ next.schema = call.schema.props[f] /\ next.prefix = Append(call.prefix, f) /\ next.seen = call.seen
      /\ next.required = r
  <2> HIDE DEF next
  <2> QED
    BY <1>2, <1>3, <1>4, <1>5 DEF Doc!Calls
<1>7. DocLeft(schemas, next) < DocLeft(schemas, call)
  <2> HIDE DEF next
  <2> QED
    BY <1>2, <1>6, DocInto
<1> QED
  BY <1>2, <1>6, <1>7 DEF r

(***************************************************************************)
(* The functions on calls exist: what they say of a call rests on calls    *)
(* with less left, so they are defined for calls with any number left.     *)
(***************************************************************************)
DocBelow(paths, call, f) ==
  IF paths[Doc!IntoField(call, f)] = {} THEN {Append(call.prefix, f)} ELSE paths[Doc!IntoField(call, f)]
DocPathsOf(schemas, paths, call) ==
  CASE Doc!Followed(schemas, call.schema, call.seen) -> paths[Doc!Onwards(schemas, call)]
    [] call.schema.kind = "object" -> UNION {DocBelow(paths, call, f) : f \in DOMAIN call.schema.props}
    [] call.schema.kind = "array"  -> paths[Doc!IntoItems(call)]
    [] OTHER                       -> IF call.prefix = <<>> THEN {} ELSE {call.prefix}
DocArePaths(schemas, paths) == paths = [call \in Doc!Calls |-> DocPathsOf(schemas, paths, call)]
DocPaths(schemas) == CHOOSE paths : DocArePaths(schemas, paths)

LEMMA DocKinds ==
  ASSUME Doc!OpenApiAssumption, NEW call \in Doc!Calls
  PROVE  /\ call.schema \in Doc!AllSchemas /\ Doc!IsSchema(call.schema) /\ call.prefix \in Seq(STRING) /\ call.seen \subseteq STRING
         /\ call.required \in BOOLEAN
         /\ call.schema.kind \in {"ref", "shared", "object", "array", "leaf"}
<1>1. call.schema \in Doc!AllSchemas /\ call.prefix \in Seq(STRING) /\ call.seen \subseteq STRING /\ call.required \in BOOLEAN
  BY DEF Doc!Calls
<1>2. Doc!IsSchema(call.schema)
  BY <1>1, DocInside
<1> QED
  BY <1>1, <1>2 DEF Doc!IsSchema

LEMMA DocPathsAgree ==
  ASSUME Doc!OpenApiAssumption, NEW schemas, DocSchemas(schemas), NEW call \in Doc!Calls, NEW a, NEW b,
         \A c \in Doc!Calls : DocLeft(schemas, c) < DocLeft(schemas, call) => a[c] = b[c]
  PROVE  DocPathsOf(schemas, a, call) = DocPathsOf(schemas, b, call)
<1>1. CASE Doc!Followed(schemas, call.schema, call.seen)
  <2>1. a[Doc!Onwards(schemas, call)] = b[Doc!Onwards(schemas, call)]
    BY <1>1, DocOnwards
  <2> QED
    BY <1>1, <2>1 DEF DocPathsOf, Doc!Followed
<1>2. CASE ~Doc!Followed(schemas, call.schema, call.seen) /\ call.schema.kind = "object"
  <2>1. ASSUME NEW f \in DOMAIN call.schema.props PROVE DocBelow(a, call, f) = DocBelow(b, call, f)
    <3>1. a[Doc!IntoField(call, f)] = b[Doc!IntoField(call, f)]
      BY <1>2, DocField
    <3> QED
      BY <3>1 DEF DocBelow
  <2>2. {DocBelow(a, call, f) : f \in DOMAIN call.schema.props} = {DocBelow(b, call, f) : f \in DOMAIN call.schema.props}
    BY <2>1
  <2> QED
    BY <1>2, <2>2 DEF DocPathsOf
<1>3. CASE ~Doc!Followed(schemas, call.schema, call.seen) /\ call.schema.kind = "array"
  <2>1. a[Doc!IntoItems(call)] = b[Doc!IntoItems(call)]
    BY <1>3, DocItems
  <2> QED
    BY <1>3, <2>1 DEF DocPathsOf
<1>4. CASE ~Doc!Followed(schemas, call.schema, call.seen) /\ call.schema.kind \notin {"object", "array"}
  BY <1>4 DEF DocPathsOf
<1> QED
  BY <1>1, <1>2, <1>3, <1>4

LEMMA DocPathsExist ==
  ASSUME Doc!OpenApiAssumption, NEW schemas, DocSchemas(schemas)
  PROVE  DocArePaths(schemas, DocPaths(schemas))
<1> DEFINE Upto(n, f) == \A call \in Doc!Calls : DocLeft(schemas, call) < n => f[call] = DocPathsOf(schemas, f, call)
           T == {n \in Nat : \E f : Upto(n, f)}
           Step(f) == [call \in Doc!Calls |-> DocPathsOf(schemas, f, call)]
<1>1. \A call \in Doc!Calls : DocLeft(schemas, call) \in Nat
  BY DocLeftIs
<1>2. 0 \in T
  <2>1. Upto(0, [call \in Doc!Calls |-> {}])
    BY <1>1
  <2> QED
    BY <2>1
<1>3. ASSUME NEW n \in T PROVE n + 1 \in T
  <2>1. PICK f : Upto(n, f)
    BY <1>3
  <2>2. ASSUME NEW call \in Doc!Calls, DocLeft(schemas, call) < n + 1
        PROVE  Step(f)[call] = DocPathsOf(schemas, Step(f), call)
    <3>1. \A c \in Doc!Calls : DocLeft(schemas, c) < DocLeft(schemas, call) => Step(f)[c] = f[c]
      <4> TAKE c \in Doc!Calls
      <4> HAVE DocLeft(schemas, c) < DocLeft(schemas, call)
      <4>1. DocLeft(schemas, c) < n
        BY <1>1, <2>2
      <4> QED
        BY <2>1, <4>1
    <3>2. DocPathsOf(schemas, Step(f), call) = DocPathsOf(schemas, f, call)
      <4> HIDE DEF Step
      <4> QED
        BY <3>1, DocPathsAgree
    <3> QED
      BY <3>2
  <2>3. Upto(n + 1, Step(f))
    BY <2>2
  <2>4. \E g : Upto(n + 1, g)
    <3> HIDE DEF Upto, Step
    <3> QED
      BY <2>3
  <2> HIDE DEF Upto
  <2> QED
    BY <2>4
<1>4. T \in SUBSET Nat
  OBVIOUS
<1> DEFINE all == (Cardinality(DOMAIN schemas) + 1) * (Height + 1)
<1>5. (\E call \in Doc!Calls : TRUE) => all \in Nat
  BY DocLeftIs
<1>6. CASE \E call \in Doc!Calls : TRUE
  <2>1. all \in T
    <3> HIDE DEF T, all
    <3> QED
      BY <1>2, <1>3, <1>4, <1>5, <1>6, DocAllNumbers
  <2>2. PICK f : Upto(all, f)
    BY <2>1
  <2>3. \A call \in Doc!Calls : f[call] = DocPathsOf(schemas, f, call)
    BY <2>2, DocLeftIs
  <2>4. ASSUME NEW call \in Doc!Calls PROVE DocPathsOf(schemas, Step(f), call) = DocPathsOf(schemas, f, call)
    <3>1. \A c \in Doc!Calls : Step(f)[c] = f[c]
      BY <2>3
    <3> HIDE DEF Step
    <3> QED
      BY <3>1, DocPathsAgree
  <2>5. DocArePaths(schemas, Step(f))
    BY <2>4 DEF DocArePaths
  <2> HIDE DEF Step
  <2> QED
    BY <2>5 DEF DocPaths
<1>7. CASE ~(\E call \in Doc!Calls : TRUE)
  <2>1. DocArePaths(schemas, [call \in Doc!Calls |-> {}])
    BY <1>7 DEF DocArePaths
  <2> QED
    BY <2>1 DEF DocPaths
<1> QED
  BY <1>6, <1>7

\* The code's function, and what it says of a call.
LEMMA DocPathsAre ==
  ASSUME Doc!OpenApiAssumption, NEW schemas, DocSchemas(schemas)
  PROVE  /\ \A call \in Doc!Calls : DocPaths(schemas)[call] = DocPathsOf(schemas, DocPaths(schemas), call)
         /\ \A s : Doc!LeafPaths(schemas, s) = DocPaths(schemas)[Doc!CallOf(s)]
<1>1. \A call \in Doc!Calls : DocPaths(schemas)[call] = DocPathsOf(schemas, DocPaths(schemas), call)
  <2> DEFINE p == DocPaths(schemas)
  <2>1. p = [call \in Doc!Calls |-> DocPathsOf(schemas, p, call)]
    BY DocPathsExist DEF DocArePaths
  <2> HIDE DEF p
  <2>2. \A call \in Doc!Calls : p[call] = DocPathsOf(schemas, p, call)
    BY <2>1
  <2> QED
    BY <2>2 DEF p
<1>2. \A s : Doc!LeafPaths(schemas, s) = DocPaths(schemas)[Doc!CallOf(s)]
  BY DEF Doc!LeafPaths, DocPaths, DocArePaths, DocPathsOf, DocBelow
<1> QED
  BY <1>1, <1>2


DocOwn(call, s) == IF call.prefix = <<>> THEN {} ELSE {Doc!Leaf(call.prefix, s, call.required)}
DocContractsBelow(fields, call, f) ==
  IF fields[Doc!IntoField(call, f)] = {}
    THEN {Doc!Leaf(Append(call.prefix, f), Doc!Empty, f \in Doc!Range(call.schema.required))}
    ELSE fields[Doc!IntoField(call, f)]
DocItemsOf(fields, call) ==
  IF fields[Doc!IntoItems(call)] = {} THEN DocOwn(call, call.schema)
  ELSE {[x EXCEPT !.item = TRUE] : x \in fields[Doc!IntoItems(call)]}
DocFieldsOf(schemas, fields, call) ==
  CASE Doc!Followed(schemas, call.schema, call.seen) -> fields[Doc!Onwards(schemas, call)]
    [] call.schema.kind = "object" -> UNION {DocContractsBelow(fields, call, f) : f \in DOMAIN call.schema.props}
    [] call.schema.kind = "array"  -> DocItemsOf(fields, call)
    [] call.schema.kind = "leaf"   -> DocOwn(call, call.schema)
    [] OTHER                       -> DocOwn(call, Doc!Empty)
DocAreFields(schemas, fields) == fields = [call \in Doc!Calls |-> DocFieldsOf(schemas, fields, call)]
DocFields(schemas) == CHOOSE fields : DocAreFields(schemas, fields)

LEMMA DocFieldsAgree ==
  ASSUME Doc!OpenApiAssumption, NEW schemas, DocSchemas(schemas), NEW call \in Doc!Calls, NEW a, NEW b,
         \A c \in Doc!Calls : DocLeft(schemas, c) < DocLeft(schemas, call) => a[c] = b[c]
  PROVE  DocFieldsOf(schemas, a, call) = DocFieldsOf(schemas, b, call)
<1>1. CASE Doc!Followed(schemas, call.schema, call.seen)
  <2>1. a[Doc!Onwards(schemas, call)] = b[Doc!Onwards(schemas, call)]
    BY <1>1, DocOnwards
  <2> QED
    BY <1>1, <2>1 DEF DocFieldsOf, Doc!Followed
<1>2. CASE ~Doc!Followed(schemas, call.schema, call.seen) /\ call.schema.kind = "object"
  <2>1. ASSUME NEW f \in DOMAIN call.schema.props PROVE DocContractsBelow(a, call, f) = DocContractsBelow(b, call, f)
    <3>1. a[Doc!IntoField(call, f)] = b[Doc!IntoField(call, f)]
      BY <1>2, DocField
    <3> QED
      BY <3>1 DEF DocContractsBelow
  <2>2. {DocContractsBelow(a, call, f) : f \in DOMAIN call.schema.props} = {DocContractsBelow(b, call, f) : f \in DOMAIN call.schema.props}
    BY <2>1
  <2> QED
    BY <1>2, <2>2 DEF DocFieldsOf
<1>3. CASE ~Doc!Followed(schemas, call.schema, call.seen) /\ call.schema.kind = "array"
  <2>1. a[Doc!IntoItems(call)] = b[Doc!IntoItems(call)]
    BY <1>3, DocItems
  <2>2. DocItemsOf(a, call) = DocItemsOf(b, call)
    BY <2>1 DEF DocItemsOf
  <2> QED
    BY <1>3, <2>2 DEF DocFieldsOf
<1>4. CASE ~Doc!Followed(schemas, call.schema, call.seen) /\ call.schema.kind \notin {"object", "array"}
  BY <1>4 DEF DocFieldsOf
<1> QED
  BY <1>1, <1>2, <1>3, <1>4

LEMMA DocFieldsExist ==
  ASSUME Doc!OpenApiAssumption, NEW schemas, DocSchemas(schemas)
  PROVE  DocAreFields(schemas, DocFields(schemas))
<1> DEFINE Upto(n, f) == \A call \in Doc!Calls : DocLeft(schemas, call) < n => f[call] = DocFieldsOf(schemas, f, call)
           T == {n \in Nat : \E f : Upto(n, f)}
           Step(f) == [call \in Doc!Calls |-> DocFieldsOf(schemas, f, call)]
<1>1. \A call \in Doc!Calls : DocLeft(schemas, call) \in Nat
  BY DocLeftIs
<1>2. 0 \in T
  <2>1. Upto(0, [call \in Doc!Calls |-> {}])
    BY <1>1
  <2> QED
    BY <2>1
<1>3. ASSUME NEW n \in T PROVE n + 1 \in T
  <2>1. PICK f : Upto(n, f)
    BY <1>3
  <2>2. ASSUME NEW call \in Doc!Calls, DocLeft(schemas, call) < n + 1
        PROVE  Step(f)[call] = DocFieldsOf(schemas, Step(f), call)
    <3>1. \A c \in Doc!Calls : DocLeft(schemas, c) < DocLeft(schemas, call) => Step(f)[c] = f[c]
      <4> TAKE c \in Doc!Calls
      <4> HAVE DocLeft(schemas, c) < DocLeft(schemas, call)
      <4>1. DocLeft(schemas, c) < n
        BY <1>1, <2>2
      <4> QED
        BY <2>1, <4>1
    <3>2. DocFieldsOf(schemas, Step(f), call) = DocFieldsOf(schemas, f, call)
      <4> HIDE DEF Step
      <4> QED
        BY <3>1, DocFieldsAgree
    <3> QED
      BY <3>2
  <2>3. Upto(n + 1, Step(f))
    BY <2>2
  <2>4. \E g : Upto(n + 1, g)
    <3> HIDE DEF Upto, Step
    <3> QED
      BY <2>3
  <2> HIDE DEF Upto
  <2> QED
    BY <2>4
<1>4. T \in SUBSET Nat
  OBVIOUS
<1> DEFINE all == (Cardinality(DOMAIN schemas) + 1) * (Height + 1)
<1>5. (\E call \in Doc!Calls : TRUE) => all \in Nat
  BY DocLeftIs
<1>6. CASE \E call \in Doc!Calls : TRUE
  <2>1. all \in T
    <3> HIDE DEF T, all
    <3> QED
      BY <1>2, <1>3, <1>4, <1>5, <1>6, DocAllNumbers
  <2>2. PICK f : Upto(all, f)
    BY <2>1
  <2>3. \A call \in Doc!Calls : f[call] = DocFieldsOf(schemas, f, call)
    BY <2>2, DocLeftIs
  <2>4. ASSUME NEW call \in Doc!Calls PROVE DocFieldsOf(schemas, Step(f), call) = DocFieldsOf(schemas, f, call)
    <3>1. \A c \in Doc!Calls : Step(f)[c] = f[c]
      BY <2>3
    <3> HIDE DEF Step
    <3> QED
      BY <3>1, DocFieldsAgree
  <2>5. DocAreFields(schemas, Step(f))
    BY <2>4 DEF DocAreFields
  <2> HIDE DEF Step
  <2> QED
    BY <2>5 DEF DocFields
<1>7. CASE ~(\E call \in Doc!Calls : TRUE)
  <2>1. DocAreFields(schemas, [call \in Doc!Calls |-> {}])
    BY <1>7 DEF DocAreFields
  <2> QED
    BY <2>1 DEF DocFields
<1> QED
  BY <1>6, <1>7

LEMMA DocFieldsAre ==
  ASSUME Doc!OpenApiAssumption, NEW schemas, DocSchemas(schemas)
  PROVE  /\ \A call \in Doc!Calls : DocFields(schemas)[call] = DocFieldsOf(schemas, DocFields(schemas), call)
         /\ \A s : Doc!LeafContracts(schemas, s) = DocFields(schemas)[Doc!CallOf(s)]
<1>1. \A call \in Doc!Calls : DocFields(schemas)[call] = DocFieldsOf(schemas, DocFields(schemas), call)
  <2> DEFINE p == DocFields(schemas)
  <2>1. p = [call \in Doc!Calls |-> DocFieldsOf(schemas, p, call)]
    BY DocFieldsExist DEF DocAreFields
  <2> HIDE DEF p
  <2>2. \A call \in Doc!Calls : p[call] = DocFieldsOf(schemas, p, call)
    BY <2>1
  <2> QED
    BY <2>2 DEF p
<1>2. \A s : Doc!LeafContracts(schemas, s) = DocFields(schemas)[Doc!CallOf(s)]
  BY DEF Doc!LeafContracts, DocFields, DocAreFields, DocFieldsOf, DocContractsBelow, DocItemsOf, DocOwn
<1> QED
  BY <1>1, <1>2

(***************************************************************************)
(* The functions on schemas exist, by the depth to which these nest.       *)
(***************************************************************************)
LEMMA DocInsideIs ==
  ASSUME Doc!OpenApiAssumption, NEW s \in Doc!AllSchemas
  PROVE  \A x \in Doc!Inside(s) : x \in Doc!AllSchemas /\ Nesting[x] < Nesting[s]
BY DEF Doc!OpenApiAssumption

LEMMA DocNesting ==
  ASSUME Doc!OpenApiAssumption
  PROVE  Height \in Nat /\ \A s \in Doc!AllSchemas : Nesting[s] \in Nat /\ Nesting[s] < Height + 1
BY DEF Doc!OpenApiAssumption

DocRefsOf(f, s) == IF s.kind = "ref" THEN {s.to} ELSE UNION {f[x] : x \in Doc!Inside(s)}
DocIsRefs(f) == f = [s \in Doc!AllSchemas |-> DocRefsOf(f, s)]

LEMMA DocRefsAgree ==
  ASSUME Doc!OpenApiAssumption, NEW s \in Doc!AllSchemas, NEW a, NEW b,
         \A x \in Doc!AllSchemas : Nesting[x] < Nesting[s] => a[x] = b[x]
  PROVE  DocRefsOf(a, s) = DocRefsOf(b, s)
<1>1. \A x \in Doc!Inside(s) : a[x] = b[x]
  BY DocInsideIs
<1>2. {a[x] : x \in Doc!Inside(s)} = {b[x] : x \in Doc!Inside(s)}
  BY <1>1
<1> QED
  BY <1>2 DEF DocRefsOf

LEMMA DocRefsAre == ASSUME Doc!OpenApiAssumption PROVE \A s \in Doc!AllSchemas : Doc!Refs[s] = DocRefsOf(Doc!Refs, s)
<1> DEFINE Upto(n, f) == \A s \in Doc!AllSchemas : Nesting[s] < n => f[s] = DocRefsOf(f, s)
           T == {n \in Nat : \E f : Upto(n, f)}
           Step(f) == [s \in Doc!AllSchemas |-> DocRefsOf(f, s)]
<1>1. Height + 1 \in Nat /\ \A s \in Doc!AllSchemas : Nesting[s] \in Nat /\ Nesting[s] < Height + 1
  BY DocNesting
<1>2. 0 \in T
  <2>1. Upto(0, [s \in Doc!AllSchemas |-> {}])
    BY <1>1
  <2> QED
    BY <2>1
<1>3. ASSUME NEW n \in T PROVE n + 1 \in T
  <2>1. PICK f : Upto(n, f)
    BY <1>3
  <2>2. ASSUME NEW s \in Doc!AllSchemas, Nesting[s] < n + 1 PROVE Step(f)[s] = DocRefsOf(Step(f), s)
    <3>1. \A x \in Doc!AllSchemas : Nesting[x] < Nesting[s] => Step(f)[x] = f[x]
      <4> TAKE x \in Doc!AllSchemas
      <4> HAVE Nesting[x] < Nesting[s]
      <4>1. Nesting[x] < n
        BY <1>1, <2>2
      <4> QED
        BY <2>1, <4>1
    <3>2. DocRefsOf(Step(f), s) = DocRefsOf(f, s)
      <4> HIDE DEF Step
      <4> QED
        BY <3>1, DocRefsAgree
    <3> QED
      BY <3>2
  <2>3. Upto(n + 1, Step(f))
    BY <2>2
  <2>4. \E g : Upto(n + 1, g)
    <3> HIDE DEF Upto, Step
    <3> QED
      BY <2>3
  <2> HIDE DEF Upto
  <2> QED
    BY <2>4
<1>4. Height + 1 \in T
  <2>1. T \in SUBSET Nat
    OBVIOUS
  <2> HIDE DEF T
  <2> QED
    BY <1>1, <1>2, <1>3, <2>1, DocAllNumbers
<1>5. PICK f : Upto(Height + 1, f)
  BY <1>4
<1>6. \A s \in Doc!AllSchemas : f[s] = DocRefsOf(f, s)
  BY <1>1, <1>5
<1>7. ASSUME NEW s \in Doc!AllSchemas PROVE DocRefsOf(Step(f), s) = DocRefsOf(f, s)
  <2>1. \A x \in Doc!AllSchemas : Step(f)[x] = f[x]
    BY <1>6
  <2> HIDE DEF Step
  <2> QED
    BY <2>1, DocRefsAgree
<1>8. DocIsRefs(Step(f))
  BY <1>7 DEF DocIsRefs
<1>9. DocIsRefs(CHOOSE g : DocIsRefs(g))
  <2> HIDE DEF Step
  <2> QED
    BY <1>8
<1>10. Doc!Refs = CHOOSE g : DocIsRefs(g)
  BY DEF Doc!Refs, DocIsRefs, DocRefsOf
<1>11. Doc!Refs = [s \in Doc!AllSchemas |-> DocRefsOf(Doc!Refs, s)]
  BY <1>9, <1>10 DEF DocIsRefs
<1> QED
  BY <1>11

DocPartsOf(f, s) == [i \in DOMAIN s.parts |-> f[s.parts[i]]]
DocKeptOf(f, s) ==
  CASE s.kind = "object" ->
         [s EXCEPT !.props = [x \in DOMAIN @ |-> f[@[x]]], !.required = Doc!Range(@), !.parts = DocPartsOf(f, s)]
    [] s.kind = "array"  -> [s EXCEPT !.items = f[@], !.parts = DocPartsOf(f, s)]
    [] s.kind = "leaf"   -> [s EXCEPT !.enum = Doc!Range(@), !.parts = DocPartsOf(f, s)]
    [] OTHER             -> s
DocIsKept(f) == f = [s \in Doc!AllSchemas |-> DocKeptOf(f, s)]

LEMMA DocKeptAgree ==
  ASSUME Doc!OpenApiAssumption, NEW s \in Doc!AllSchemas, NEW a, NEW b,
         \A x \in Doc!AllSchemas : Nesting[x] < Nesting[s] => a[x] = b[x]
  PROVE  DocKeptOf(a, s) = DocKeptOf(b, s)
<1> DEFINE pa == DocPartsOf(a, s)
           pb == DocPartsOf(b, s)
<1>0. ASSUME s.kind \in {"object", "array", "leaf"} PROVE pa = pb
  <2>1. \A i \in DOMAIN s.parts : a[s.parts[i]] = b[s.parts[i]]
    BY <1>0, DocInside
  <2> QED
    BY <2>1 DEF DocPartsOf
<1> HIDE DEF pa, pb
<1>4. /\ s.kind = "object" =>
           /\ DocKeptOf(a, s) = [s EXCEPT !.props = [x \in DOMAIN @ |-> a[@[x]]], !.required = Doc!Range(@), !.parts = pa]
           /\ DocKeptOf(b, s) = [s EXCEPT !.props = [x \in DOMAIN @ |-> b[@[x]]], !.required = Doc!Range(@), !.parts = pb]
      /\ s.kind = "array" => /\ DocKeptOf(a, s) = [s EXCEPT !.items = a[@], !.parts = pa]
                             /\ DocKeptOf(b, s) = [s EXCEPT !.items = b[@], !.parts = pb]
      /\ s.kind = "leaf" => /\ DocKeptOf(a, s) = [s EXCEPT !.enum = Doc!Range(@), !.parts = pa]
                            /\ DocKeptOf(b, s) = [s EXCEPT !.enum = Doc!Range(@), !.parts = pb]
  BY DEF DocKeptOf, pa, pb
<1>1. CASE s.kind = "object"
  <2>1. \A x \in DOMAIN s.props : a[s.props[x]] = b[s.props[x]]
    BY <1>1, DocInside
  <2>2. [x \in DOMAIN s.props |-> a[s.props[x]]] = [x \in DOMAIN s.props |-> b[s.props[x]]]
    BY <2>1
  <2> QED
    BY <1>0, <1>1, <1>4, <2>2
<1>2. CASE s.kind = "array"
  <2>1. a[s.items] = b[s.items]
    BY <1>2, DocInside
  <2> QED
    BY <1>0, <1>2, <1>4, <2>1
<1>3. CASE s.kind = "leaf"
  BY <1>0, <1>3, <1>4
<1>5. CASE s.kind \notin {"object", "array", "leaf"}
  BY <1>5 DEF DocKeptOf
<1> QED
  BY <1>1, <1>2, <1>3, <1>5

LEMMA DocKeptAre == ASSUME Doc!OpenApiAssumption PROVE \A s \in Doc!AllSchemas : Doc!SchemaContract[s] = DocKeptOf(Doc!SchemaContract, s)
<1> DEFINE Upto(n, f) == \A s \in Doc!AllSchemas : Nesting[s] < n => f[s] = DocKeptOf(f, s)
           T == {n \in Nat : \E f : Upto(n, f)}
           Step(f) == [s \in Doc!AllSchemas |-> DocKeptOf(f, s)]
<1>1. Height + 1 \in Nat /\ \A s \in Doc!AllSchemas : Nesting[s] \in Nat /\ Nesting[s] < Height + 1
  BY DocNesting
<1>2. 0 \in T
  <2>1. Upto(0, [s \in Doc!AllSchemas |-> {}])
    BY <1>1
  <2> QED
    BY <2>1
<1>3. ASSUME NEW n \in T PROVE n + 1 \in T
  <2>1. PICK f : Upto(n, f)
    BY <1>3
  <2>2. ASSUME NEW s \in Doc!AllSchemas, Nesting[s] < n + 1 PROVE Step(f)[s] = DocKeptOf(Step(f), s)
    <3>1. \A x \in Doc!AllSchemas : Nesting[x] < Nesting[s] => Step(f)[x] = f[x]
      <4> TAKE x \in Doc!AllSchemas
      <4> HAVE Nesting[x] < Nesting[s]
      <4>1. Nesting[x] < n
        BY <1>1, <2>2
      <4> QED
        BY <2>1, <4>1
    <3>2. DocKeptOf(Step(f), s) = DocKeptOf(f, s)
      <4> HIDE DEF Step
      <4> QED
        BY <3>1, DocKeptAgree
    <3> QED
      BY <3>2
  <2>3. Upto(n + 1, Step(f))
    BY <2>2
  <2>4. \E g : Upto(n + 1, g)
    <3> HIDE DEF Upto, Step
    <3> QED
      BY <2>3
  <2> HIDE DEF Upto
  <2> QED
    BY <2>4
<1>4. Height + 1 \in T
  <2>1. T \in SUBSET Nat
    OBVIOUS
  <2> HIDE DEF T
  <2> QED
    BY <1>1, <1>2, <1>3, <2>1, DocAllNumbers
<1>5. PICK f : Upto(Height + 1, f)
  BY <1>4
<1>6. \A s \in Doc!AllSchemas : f[s] = DocKeptOf(f, s)
  BY <1>1, <1>5
<1>7. ASSUME NEW s \in Doc!AllSchemas PROVE DocKeptOf(Step(f), s) = DocKeptOf(f, s)
  <2>1. \A x \in Doc!AllSchemas : Step(f)[x] = f[x]
    BY <1>6
  <2> HIDE DEF Step
  <2> QED
    BY <2>1, DocKeptAgree
<1>8. DocIsKept(Step(f))
  BY <1>7 DEF DocIsKept
<1>9. DocIsKept(CHOOSE g : DocIsKept(g))
  <2> HIDE DEF Step
  <2> QED
    BY <1>8
<1>10. Doc!SchemaContract = CHOOSE g : DocIsKept(g)
  BY DEF Doc!SchemaContract, DocIsKept, DocKeptOf, DocPartsOf
<1>11. Doc!SchemaContract = [s \in Doc!AllSchemas |-> DocKeptOf(Doc!SchemaContract, s)]
  BY <1>9, <1>10 DEF DocIsKept
<1> QED
  BY <1>11

DocBareOf(f, s) ==
  CASE s.kind = "object" -> [kind |-> "object", props |-> [x \in DOMAIN s.props |-> f[s.props[x]]]]
    [] s.kind = "array"  -> [kind |-> "array", items |-> f[s.items]]
    [] s.kind = "leaf"   -> Doc!Empty
    [] OTHER             -> s
DocIsBare(f) == f = [s \in Doc!AllSchemas |-> DocBareOf(f, s)]

LEMMA DocBareAgree ==
  ASSUME Doc!OpenApiAssumption, NEW s \in Doc!AllSchemas, NEW a, NEW b,
         \A x \in Doc!AllSchemas : Nesting[x] < Nesting[s] => a[x] = b[x]
  PROVE  DocBareOf(a, s) = DocBareOf(b, s)
<1>1. CASE s.kind = "object"
  <2>1. \A x \in DOMAIN s.props : a[s.props[x]] = b[s.props[x]]
    BY <1>1, DocInside
  <2>2. [x \in DOMAIN s.props |-> a[s.props[x]]] = [x \in DOMAIN s.props |-> b[s.props[x]]]
    BY <2>1
  <2> QED
    BY <1>1, <2>2 DEF DocBareOf
<1>2. CASE s.kind = "array"
  <2>1. a[s.items] = b[s.items]
    BY <1>2, DocInside
  <2> QED
    BY <1>2, <2>1 DEF DocBareOf
<1>3. CASE s.kind \notin {"object", "array"}
  BY <1>3 DEF DocBareOf
<1> QED
  BY <1>1, <1>2, <1>3

LEMMA DocBareAre == ASSUME Doc!OpenApiAssumption PROVE \A s \in Doc!AllSchemas : Doc!Bare[s] = DocBareOf(Doc!Bare, s)
<1> DEFINE Upto(n, f) == \A s \in Doc!AllSchemas : Nesting[s] < n => f[s] = DocBareOf(f, s)
           T == {n \in Nat : \E f : Upto(n, f)}
           Step(f) == [s \in Doc!AllSchemas |-> DocBareOf(f, s)]
<1>1. Height + 1 \in Nat /\ \A s \in Doc!AllSchemas : Nesting[s] \in Nat /\ Nesting[s] < Height + 1
  BY DocNesting
<1>2. 0 \in T
  <2>1. Upto(0, [s \in Doc!AllSchemas |-> {}])
    BY <1>1
  <2> QED
    BY <2>1
<1>3. ASSUME NEW n \in T PROVE n + 1 \in T
  <2>1. PICK f : Upto(n, f)
    BY <1>3
  <2>2. ASSUME NEW s \in Doc!AllSchemas, Nesting[s] < n + 1 PROVE Step(f)[s] = DocBareOf(Step(f), s)
    <3>1. \A x \in Doc!AllSchemas : Nesting[x] < Nesting[s] => Step(f)[x] = f[x]
      <4> TAKE x \in Doc!AllSchemas
      <4> HAVE Nesting[x] < Nesting[s]
      <4>1. Nesting[x] < n
        BY <1>1, <2>2
      <4> QED
        BY <2>1, <4>1
    <3>2. DocBareOf(Step(f), s) = DocBareOf(f, s)
      <4> HIDE DEF Step
      <4> QED
        BY <3>1, DocBareAgree
    <3> QED
      BY <3>2
  <2>3. Upto(n + 1, Step(f))
    BY <2>2
  <2>4. \E g : Upto(n + 1, g)
    <3> HIDE DEF Upto, Step
    <3> QED
      BY <2>3
  <2> HIDE DEF Upto
  <2> QED
    BY <2>4
<1>4. Height + 1 \in T
  <2>1. T \in SUBSET Nat
    OBVIOUS
  <2> HIDE DEF T
  <2> QED
    BY <1>1, <1>2, <1>3, <2>1, DocAllNumbers
<1>5. PICK f : Upto(Height + 1, f)
  BY <1>4
<1>6. \A s \in Doc!AllSchemas : f[s] = DocBareOf(f, s)
  BY <1>1, <1>5
<1>7. ASSUME NEW s \in Doc!AllSchemas PROVE DocBareOf(Step(f), s) = DocBareOf(f, s)
  <2>1. \A x \in Doc!AllSchemas : Step(f)[x] = f[x]
    BY <1>6
  <2> HIDE DEF Step
  <2> QED
    BY <2>1, DocBareAgree
<1>8. DocIsBare(Step(f))
  BY <1>7 DEF DocIsBare
<1>9. DocIsBare(CHOOSE g : DocIsBare(g))
  <2> HIDE DEF Step
  <2> QED
    BY <1>8
<1>10. Doc!Bare = CHOOSE g : DocIsBare(g)
  BY DEF Doc!Bare, DocIsBare, DocBareOf
<1>11. Doc!Bare = [s \in Doc!AllSchemas |-> DocBareOf(Doc!Bare, s)]
  BY <1>9, <1>10 DEF DocIsBare
<1> QED
  BY <1>11

(***************************************************************************)
(* The fields and their paths.                                             *)
(***************************************************************************)
DocPathsIn(fields) == {x.path : x \in fields}

\* A call finds the same fields with their contracts as without, but for an
\* array without fields, which is one itself.
DocProjected(schemas, call) ==
  /\ \A x \in DocFields(schemas)[call] : "path" \in DOMAIN x
  /\ \/ DocPathsIn(DocFields(schemas)[call]) = DocPaths(schemas)[call]
     \/ /\ DocPaths(schemas)[call] = {} /\ call.prefix # <<>>
        /\ DocPathsIn(DocFields(schemas)[call]) = {call.prefix}

LEMMA DocLeafIs ==
  ASSUME NEW path, NEW s, NEW required
  PROVE  "path" \in DOMAIN Doc!Leaf(path, s, required) /\ Doc!Leaf(path, s, required).path = path
BY DEF Doc!Leaf

LEMMA DocOwnProjects ==
  ASSUME NEW call, NEW s
  PROVE  /\ \A x \in DocOwn(call, s) : "path" \in DOMAIN x
         /\ DocPathsIn(DocOwn(call, s)) = IF call.prefix = <<>> THEN {} ELSE {call.prefix}
BY DocLeafIs DEF DocOwn, DocPathsIn

LEMMA DocProjectsStep ==
  ASSUME Doc!OpenApiAssumption, NEW schemas, DocSchemas(schemas), NEW call \in Doc!Calls,
         \A c \in Doc!Calls : DocLeft(schemas, c) < DocLeft(schemas, call) => DocProjected(schemas, c)
  PROVE  DocProjected(schemas, call)
<1> DEFINE paths == DocPaths(schemas)
           fields == DocFields(schemas)
<1>1. paths[call] = DocPathsOf(schemas, paths, call) /\ fields[call] = DocFieldsOf(schemas, fields, call)
  BY DocPathsAre, DocFieldsAre
<1>2. CASE Doc!Followed(schemas, call.schema, call.seen)
  <2> DEFINE next == Doc!Onwards(schemas, call)
  <2>1. DocProjected(schemas, next) /\ next.prefix = call.prefix
    BY <1>2, DocOnwards
  <2>2. paths[call] = paths[next] /\ fields[call] = fields[next]
    <3> HIDE DEF paths, fields
    <3> QED
      BY <1>1, <1>2 DEF DocPathsOf, DocFieldsOf, Doc!Followed
  <2> QED
    BY <2>1, <2>2 DEF DocProjected
<1>3. CASE ~Doc!Followed(schemas, call.schema, call.seen) /\ call.schema.kind = "object"
  <2> DEFINE names == DOMAIN call.schema.props
  <2>1. ASSUME NEW f \in names
        PROVE  /\ \A x \in DocContractsBelow(fields, call, f) : "path" \in DOMAIN x
               /\ DocPathsIn(DocContractsBelow(fields, call, f)) = DocBelow(paths, call, f)
    <3> DEFINE next == Doc!IntoField(call, f)
    <3>1. next.prefix = Append(call.prefix, f) /\ DocProjected(schemas, next)
      BY <1>3, DocField
    <3>2. CASE fields[next] = {}
      <4>1. paths[next] = {}
        BY <3>1, <3>2 DEF DocProjected, DocPathsIn
      <4> HIDE DEF next, paths, fields
      <4> DEFINE x == Doc!Leaf(Append(call.prefix, f), Doc!Empty, f \in Doc!Range(call.schema.required))
      <4>2. DocBelow(paths, call, f) = {Append(call.prefix, f)}
        BY <4>1 DEF DocBelow, next
      <4>3. DocContractsBelow(fields, call, f) = {x}
        BY <3>2 DEF DocContractsBelow, next
      <4>4. "path" \in DOMAIN x /\ x.path = Append(call.prefix, f)
        BY DocLeafIs
      <4> HIDE DEF x
      <4> QED
        BY <4>2, <4>3, <4>4 DEF DocPathsIn
    <3>3. CASE fields[next] # {}
      <4>1. DocPathsIn(fields[next]) # {}
        BY <3>3 DEF DocPathsIn
      <4>2. DocPathsIn(fields[next]) = IF paths[next] = {} THEN {Append(call.prefix, f)} ELSE paths[next]
        BY <3>1, <4>1 DEF DocProjected
      <4>3. \A x \in fields[next] : "path" \in DOMAIN x
        BY <3>1 DEF DocProjected
      <4> HIDE DEF next, paths, fields
      <4> QED
        BY <3>3, <4>2, <4>3 DEF DocBelow, DocContractsBelow, next
    <3> QED
      BY <3>2, <3>3
  <2> HIDE DEF paths, fields
  <2>2. paths[call] = UNION {DocBelow(paths, call, f) : f \in names} /\ fields[call] = UNION {DocContractsBelow(fields, call, f) : f \in names}
    BY <1>1, <1>3 DEF DocPathsOf, DocFieldsOf
  <2>3. DocPathsIn(fields[call]) = UNION {DocPathsIn(DocContractsBelow(fields, call, f)) : f \in names}
    BY <2>2 DEF DocPathsIn
  <2>4. {DocPathsIn(DocContractsBelow(fields, call, f)) : f \in names} = {DocBelow(paths, call, f) : f \in names}
    BY <2>1
  <2>5. \A x \in fields[call] : "path" \in DOMAIN x
    BY <2>1, <2>2
  <2>6. DocPathsIn(fields[call]) = paths[call]
    BY <2>2, <2>3, <2>4
  <2> QED
    BY <2>5, <2>6 DEF DocProjected, paths, fields
<1>4. CASE ~Doc!Followed(schemas, call.schema, call.seen) /\ call.schema.kind = "array"
  <2> DEFINE next == Doc!IntoItems(call)
  <2>1. next.prefix = call.prefix /\ DocProjected(schemas, next)
    BY <1>4, DocItems
  <2>2. /\ \A x \in fields[next] : "path" \in DOMAIN x
        /\ \/ DocPathsIn(fields[next]) = paths[next]
           \/ paths[next] = {} /\ call.prefix # <<>> /\ DocPathsIn(fields[next]) = {call.prefix}
    BY <2>1 DEF DocProjected
  <2> HIDE DEF paths, fields
  <2>3. paths[call] = paths[next]
    BY <1>1, <1>4 DEF DocPathsOf
  <2>4. fields[call] = DocItemsOf(fields, call)
    BY <1>1, <1>4 DEF DocFieldsOf
  <2>5. CASE fields[next] = {}
    <3>1. fields[call] = DocOwn(call, call.schema)
      BY <2>4, <2>5 DEF DocItemsOf
    <3>2. paths[call] = {}
      BY <2>2, <2>3, <2>5 DEF DocPathsIn
    <3> QED
      BY <3>1, <3>2, DocOwnProjects DEF DocProjected, paths, fields
  <2>6. CASE fields[next] # {}
    <3> DEFINE Marked(x) == [x EXCEPT !.item = TRUE]
    <3>1. fields[call] = {Marked(x) : x \in fields[next]}
      BY <2>4, <2>6 DEF DocItemsOf
    <3>2. \A x \in fields[next] : "path" \in DOMAIN Marked(x) /\ Marked(x).path = x.path
      BY <2>2
    <3> HIDE DEF Marked
    <3>3. DocPathsIn(fields[call]) = DocPathsIn(fields[next]) /\ \A x \in fields[call] : "path" \in DOMAIN x
      BY <3>1, <3>2 DEF DocPathsIn
    <3> QED
      BY <2>2, <2>3, <3>3 DEF DocProjected, paths, fields
  <2> QED
    BY <2>5, <2>6
<1>5. CASE ~Doc!Followed(schemas, call.schema, call.seen) /\ call.schema.kind \notin {"object", "array"}
  <2> HIDE DEF paths, fields
  <2>1. PICK s : fields[call] = DocOwn(call, s)
    BY <1>1, <1>5 DEF DocFieldsOf
  <2>2. paths[call] = IF call.prefix = <<>> THEN {} ELSE {call.prefix}
    BY <1>1, <1>5 DEF DocPathsOf
  <2> QED
    BY <2>1, <2>2, DocOwnProjects DEF DocProjected, paths, fields
<1> QED
  BY <1>2, <1>3, <1>4, <1>5

LEMMA DocProjects ==
  ASSUME Doc!OpenApiAssumption, NEW schemas, DocSchemas(schemas)
  PROVE  \A call \in Doc!Calls : DocProjected(schemas, call)
<1> DEFINE T == {n \in Nat : \A call \in Doc!Calls : DocLeft(schemas, call) < n => DocProjected(schemas, call)}
<1>1. \A call \in Doc!Calls : DocLeft(schemas, call) \in Nat
  BY DocLeftIs
<1>2. T \in SUBSET Nat /\ 0 \in T
  BY <1>1
<1>3. ASSUME NEW n \in T PROVE n + 1 \in T
  <2>1. ASSUME NEW call \in Doc!Calls, DocLeft(schemas, call) < n + 1 PROVE DocProjected(schemas, call)
    <3>1. \A c \in Doc!Calls : DocLeft(schemas, c) < DocLeft(schemas, call) => DocProjected(schemas, c)
      BY <1>1, <2>1
    <3> QED
      BY <3>1, DocProjectsStep
  <2> QED
    BY <2>1
<1>4. \A n \in Nat : n \in T
  <2> HIDE DEF T
  <2> QED
    BY <1>2, <1>3, DocAllNumbers
<1> QED
  <2> TAKE call \in Doc!Calls
  <2>1. DocLeft(schemas, call) + 1 \in T /\ DocLeft(schemas, call) < DocLeft(schemas, call) + 1
    BY <1>1, <1>4
  <2> QED
    BY <2>1

LEMMA DocCallOf ==
  ASSUME NEW s \in Doc!AllSchemas
  PROVE  /\ Doc!CallOf(s) \in Doc!Calls /\ Doc!CallOf(s).prefix = <<>> /\ Doc!CallOf(s).schema = s
         /\ Doc!CallOf(s).seen = {} /\ Doc!CallOf(s).required = FALSE
BY DEF Doc!CallOf, Doc!Calls

\* Schemas with the same fields have the same keys.
LEMMA DocKeysOfFields ==
  ASSUME Doc!OpenApiAssumption, NEW a, DocSchemas(a), NEW b, DocSchemas(b), NEW s \in Doc!AllSchemas, NEW t \in Doc!AllSchemas,
         Doc!LeafContracts(a, s) = Doc!LeafContracts(b, t)
  PROVE  Doc!LeafPaths(a, s) = Doc!LeafPaths(b, t)
<1>1. DocProjected(a, Doc!CallOf(s)) /\ DocProjected(b, Doc!CallOf(t))
  BY DocProjects, DocCallOf
<1>2. /\ Doc!LeafContracts(a, s) = DocFields(a)[Doc!CallOf(s)] /\ Doc!LeafPaths(a, s) = DocPaths(a)[Doc!CallOf(s)]
      /\ Doc!LeafContracts(b, t) = DocFields(b)[Doc!CallOf(t)] /\ Doc!LeafPaths(b, t) = DocPaths(b)[Doc!CallOf(t)]
  BY DocPathsAre, DocFieldsAre
<1>3. Doc!CallOf(s).prefix = <<>> /\ Doc!CallOf(t).prefix = <<>>
  BY DocCallOf
<1>4. DocPathsIn(DocFields(a)[Doc!CallOf(s)]) = DocPaths(a)[Doc!CallOf(s)] /\ DocPathsIn(DocFields(b)[Doc!CallOf(t)]) = DocPaths(b)[Doc!CallOf(t)]
  BY <1>1, <1>3 DEF DocProjected
<1> QED
  BY <1>2, <1>4

(***************************************************************************)
(* Schemas with one contract, or that differ in values only.               *)
(***************************************************************************)
LEMMA DocKeptIs ==
  ASSUME Doc!OpenApiAssumption, NEW s \in Doc!AllSchemas
  PROVE  LET k == Doc!SchemaContract[s] IN
         /\ k.kind = s.kind
         /\ s.kind \in {"ref", "shared"} => k = s
         /\ s.kind = "object" => /\ k.props = [f \in DOMAIN s.props |-> Doc!SchemaContract[s.props[f]]]
                                 /\ k.required = Doc!Range(s.required)
         /\ s.kind = "array" => k.items = Doc!SchemaContract[s.items]
         /\ s.kind = "leaf" => k.type = s.type /\ k.format = s.format /\ k.enum = Doc!Range(s.enum)
<1> DEFINE C == Doc!SchemaContract
           P == DocPartsOf(C, s)
<1>1. C[s] = DocKeptOf(C, s) /\ Doc!IsSchema(s)
  BY DocKeptAre, DocInside
<1> HIDE DEF C, P
<1>2. CASE s.kind = "object"
  <2> DEFINE p == [x \in DOMAIN s.props |-> C[s.props[x]]]
             r == Doc!Range(s.required)
  <2>1. C[s] = [s EXCEPT !.props = p, !.required = r, !.parts = P]
    BY <1>1, <1>2 DEF DocKeptOf, P
  <2>2. DOMAIN s = {"kind", "props", "required", "parts"}
    BY <1>1, <1>2 DEF Doc!IsSchema
  <2> HIDE DEF p, r
  <2>3. C[s].kind = s.kind /\ C[s].props = p /\ C[s].required = r
    BY <2>1, <2>2
  <2> QED
    BY <1>2, <2>3 DEF p, r, C
<1>3. CASE s.kind = "array"
  <2> DEFINE i == C[s.items]
  <2>1. C[s] = [s EXCEPT !.items = i, !.parts = P]
    BY <1>1, <1>3 DEF DocKeptOf, P
  <2>2. DOMAIN s = {"kind", "items", "parts"}
    BY <1>1, <1>3 DEF Doc!IsSchema
  <2> HIDE DEF i
  <2>3. C[s].kind = s.kind /\ C[s].items = i
    BY <2>1, <2>2
  <2> QED
    BY <1>3, <2>3 DEF i, C
<1>4. CASE s.kind = "leaf"
  <2> DEFINE e == Doc!Range(s.enum)
  <2>1. C[s] = [s EXCEPT !.enum = e, !.parts = P]
    BY <1>1, <1>4 DEF DocKeptOf, P
  <2>2. DOMAIN s = {"kind", "type", "enum", "format", "parts"}
    BY <1>1, <1>4 DEF Doc!IsSchema
  <2> HIDE DEF e
  <2>3. C[s].kind = s.kind /\ C[s].type = s.type /\ C[s].format = s.format /\ C[s].enum = e
    BY <2>1, <2>2
  <2> QED
    BY <1>4, <2>3 DEF e, C
<1>5. CASE s.kind \in {"ref", "shared"}
  BY <1>1, <1>5 DEF DocKeptOf, C
<1> QED
  BY <1>1, <1>2, <1>3, <1>4, <1>5 DEF Doc!IsSchema

LEMMA DocBareIs ==
  ASSUME Doc!OpenApiAssumption, NEW s \in Doc!AllSchemas
  PROVE  LET k == Doc!Bare[s] IN
         /\ k.kind = s.kind
         /\ s.kind \in {"ref", "shared"} => k = s
         /\ s.kind = "object" => k.props = [f \in DOMAIN s.props |-> Doc!Bare[s.props[f]]]
         /\ s.kind = "array" => k.items = Doc!Bare[s.items]
<1> DEFINE C == Doc!Bare
<1>1. C[s] = DocBareOf(C, s) /\ Doc!IsSchema(s)
  BY DocBareAre, DocInside
<1> HIDE DEF C
<1>2. CASE s.kind = "object"
  BY <1>1, <1>2 DEF DocBareOf, C
<1>3. CASE s.kind = "array"
  BY <1>1, <1>3 DEF DocBareOf, C
<1>4. CASE s.kind = "leaf"
  <2>1. C[s] = Doc!Empty
    BY <1>1, <1>4 DEF DocBareOf
  <2>2. Doc!Empty.kind = "leaf"
    BY DEF Doc!Empty
  <2> QED
    BY <1>4, <2>1, <2>2 DEF C
<1>5. CASE s.kind \in {"ref", "shared"}
  BY <1>1, <1>5 DEF DocBareOf, C
<1> QED
  BY <1>1, <1>2, <1>3, <1>4, <1>5 DEF Doc!IsSchema

\* What two schemas with one contract have in common.
LEMMA DocSameContract ==
  ASSUME Doc!OpenApiAssumption, NEW s \in Doc!AllSchemas, NEW t \in Doc!AllSchemas,
         Doc!SchemaContract[s] = Doc!SchemaContract[t]
  PROVE  /\ s.kind = t.kind
         /\ s.kind \in {"ref", "shared"} => s = t
         /\ s.kind = "object" => /\ DOMAIN s.props = DOMAIN t.props /\ Doc!Range(s.required) = Doc!Range(t.required)
                                 /\ \A f \in DOMAIN s.props : Doc!SchemaContract[s.props[f]] = Doc!SchemaContract[t.props[f]]
         /\ s.kind = "array" => Doc!SchemaContract[s.items] = Doc!SchemaContract[t.items]
         /\ s.kind = "leaf" => s.type = t.type /\ s.format = t.format /\ Doc!Range(s.enum) = Doc!Range(t.enum)
<1> DEFINE C == Doc!SchemaContract
<1>1. C[s] = C[t] /\ s.kind = t.kind
  <2>1. C[s].kind = s.kind /\ C[t].kind = t.kind
    BY DocKeptIs
  <2> QED
    BY <2>1
<1>2. s.kind \in {"ref", "shared"} => s = t
  <2>1. s.kind \in {"ref", "shared"} => C[s] = s
    BY DocKeptIs
  <2>2. t.kind \in {"ref", "shared"} => C[t] = t
    BY DocKeptIs
  <2> HIDE DEF C
  <2> QED
    BY <1>1, <2>1, <2>2
<1>3. s.kind = "object" => C[s].props = [f \in DOMAIN s.props |-> C[s.props[f]]] /\ C[s].required = Doc!Range(s.required)
  BY DocKeptIs
<1>4. t.kind = "object" => C[t].props = [f \in DOMAIN t.props |-> C[t.props[f]]] /\ C[t].required = Doc!Range(t.required)
  BY DocKeptIs
<1>5. s.kind = "array" => C[s.items] = C[t.items]
  <2>1. s.kind = "array" => C[s].items = C[s.items]
    BY DocKeptIs
  <2>2. t.kind = "array" => C[t].items = C[t.items]
    BY DocKeptIs
  <2> HIDE DEF C
  <2> QED
    BY <1>1, <2>1, <2>2
<1>6. s.kind = "leaf" => s.type = t.type /\ s.format = t.format /\ Doc!Range(s.enum) = Doc!Range(t.enum)
  <2>1. s.kind = "leaf" => C[s].type = s.type /\ C[s].format = s.format /\ C[s].enum = Doc!Range(s.enum)
    BY DocKeptIs
  <2>2. t.kind = "leaf" => C[t].type = t.type /\ C[t].format = t.format /\ C[t].enum = Doc!Range(t.enum)
    BY DocKeptIs
  <2> HIDE DEF C
  <2> QED
    BY <1>1, <2>1, <2>2
<1> HIDE DEF C
<1>7. CASE s.kind = "object"
  <2> DEFINE p == [f \in DOMAIN s.props |-> C[s.props[f]]]
             q == [f \in DOMAIN t.props |-> C[t.props[f]]]
  <2>1. p = q
    BY <1>1, <1>3, <1>4, <1>7
  <2>2. DOMAIN p = DOMAIN s.props /\ DOMAIN q = DOMAIN t.props
        /\ (\A f \in DOMAIN s.props : p[f] = C[s.props[f]]) /\ (\A f \in DOMAIN t.props : q[f] = C[t.props[f]])
    OBVIOUS
  <2> HIDE DEF p, q
  <2>3. DOMAIN s.props = DOMAIN t.props /\ \A f \in DOMAIN s.props : C[s.props[f]] = C[t.props[f]]
    BY <2>1, <2>2
  <2> QED
    BY <1>1, <1>3, <1>4, <1>7, <2>3 DEF C
<1> QED
  BY <1>1, <1>2, <1>5, <1>6, <1>7 DEF C

LEMMA DocSameBare ==
  ASSUME Doc!OpenApiAssumption, NEW s \in Doc!AllSchemas, NEW t \in Doc!AllSchemas, Doc!Bare[s] = Doc!Bare[t]
  PROVE  /\ s.kind = t.kind
         /\ s.kind \in {"ref", "shared"} => s = t
         /\ s.kind = "object" => /\ DOMAIN s.props = DOMAIN t.props
                                 /\ \A f \in DOMAIN s.props : Doc!Bare[s.props[f]] = Doc!Bare[t.props[f]]
         /\ s.kind = "array" => Doc!Bare[s.items] = Doc!Bare[t.items]
<1> DEFINE C == Doc!Bare
<1>1. C[s] = C[t] /\ s.kind = t.kind
  <2>1. C[s].kind = s.kind /\ C[t].kind = t.kind
    BY DocBareIs
  <2> QED
    BY <2>1
<1>2. s.kind \in {"ref", "shared"} => s = t
  <2>1. s.kind \in {"ref", "shared"} => C[s] = s
    BY DocBareIs
  <2>2. t.kind \in {"ref", "shared"} => C[t] = t
    BY DocBareIs
  <2> HIDE DEF C
  <2> QED
    BY <1>1, <2>1, <2>2
<1>3. s.kind = "object" => C[s].props = [f \in DOMAIN s.props |-> C[s.props[f]]]
  BY DocBareIs
<1>4. t.kind = "object" => C[t].props = [f \in DOMAIN t.props |-> C[t.props[f]]]
  BY DocBareIs
<1>5. s.kind = "array" => C[s.items] = C[t.items]
  <2>1. s.kind = "array" => C[s].items = C[s.items]
    BY DocBareIs
  <2>2. t.kind = "array" => C[t].items = C[t.items]
    BY DocBareIs
  <2> HIDE DEF C
  <2> QED
    BY <1>1, <2>1, <2>2
<1> HIDE DEF C
<1>6. CASE s.kind = "object"
  <2> DEFINE p == [f \in DOMAIN s.props |-> C[s.props[f]]]
             q == [f \in DOMAIN t.props |-> C[t.props[f]]]
  <2>1. p = q
    BY <1>1, <1>3, <1>4, <1>6
  <2>2. DOMAIN p = DOMAIN s.props /\ DOMAIN q = DOMAIN t.props
        /\ (\A f \in DOMAIN s.props : p[f] = C[s.props[f]]) /\ (\A f \in DOMAIN t.props : q[f] = C[t.props[f]])
    OBVIOUS
  <2> HIDE DEF p, q
  <2>3. DOMAIN s.props = DOMAIN t.props /\ \A f \in DOMAIN s.props : C[s.props[f]] = C[t.props[f]]
    BY <2>1, <2>2
  <2> QED
    BY <1>1, <1>6, <2>3 DEF C
<1> QED
  BY <1>1, <1>2, <1>5, <1>6 DEF C

DocKeptDocs(a, b) == DocSchemas(a) /\ DocSchemas(b) /\ DOMAIN a = DOMAIN b /\ \A n \in DOMAIN a : Doc!SchemaContract[a[n]] = Doc!SchemaContract[b[n]]
DocKeptCalls(call, other) ==
  /\ Doc!SchemaContract[call.schema] = Doc!SchemaContract[other.schema] /\ call.prefix = other.prefix /\ call.seen = other.seen /\ call.required = other.required

LEMMA DocKeptNext ==
  ASSUME Doc!OpenApiAssumption, NEW a, NEW b, DocKeptDocs(a, b), NEW call \in Doc!Calls, NEW other \in Doc!Calls, DocKeptCalls(call, other)
  PROVE  /\ call.schema.kind = other.schema.kind
         /\ Doc!Followed(a, call.schema, call.seen) <=> Doc!Followed(b, other.schema, other.seen)
         /\ Doc!Followed(a, call.schema, call.seen) =>
              /\ Doc!Onwards(a, call) \in Doc!Calls /\ Doc!Onwards(b, other) \in Doc!Calls
              /\ DocLeft(a, Doc!Onwards(a, call)) < DocLeft(a, call)
              /\ DocKeptCalls(Doc!Onwards(a, call), Doc!Onwards(b, other))
         /\ call.schema.kind = "array" =>
              /\ Doc!IntoItems(call) \in Doc!Calls /\ Doc!IntoItems(other) \in Doc!Calls
              /\ DocLeft(a, Doc!IntoItems(call)) < DocLeft(a, call)
              /\ DocKeptCalls(Doc!IntoItems(call), Doc!IntoItems(other))
         /\ call.schema.kind = "object" =>
              /\ DOMAIN call.schema.props = DOMAIN other.schema.props
              /\ \A f \in DOMAIN call.schema.props :
                   /\ Doc!IntoField(call, f) \in Doc!Calls /\ Doc!IntoField(other, f) \in Doc!Calls
                   /\ DocLeft(a, Doc!IntoField(call, f)) < DocLeft(a, call)
                   /\ DocKeptCalls(Doc!IntoField(call, f), Doc!IntoField(other, f))
<1> DEFINE s == call.schema
           t == other.schema
<1>1. s \in Doc!AllSchemas /\ t \in Doc!AllSchemas /\ Doc!SchemaContract[s] = Doc!SchemaContract[t]
  BY DocKinds DEF DocKeptCalls
<1>2. DocSchemas(a) /\ DocSchemas(b)
  BY DEF DocKeptDocs
<1>3. s.kind = t.kind /\ (s.kind = "ref" => s = t)
  <2> HIDE DEF s, t
  <2> QED
    BY <1>1, DocSameContract
<1>4. Doc!Followed(a, s, call.seen) <=> Doc!Followed(b, t, other.seen)
  BY <1>3 DEF DocKeptDocs, DocKeptCalls, Doc!Followed
<1>5. ASSUME Doc!Followed(a, s, call.seen)
      PROVE  /\ Doc!Onwards(a, call) \in Doc!Calls /\ Doc!Onwards(b, other) \in Doc!Calls
             /\ DocLeft(a, Doc!Onwards(a, call)) < DocLeft(a, call)
             /\ DocKeptCalls(Doc!Onwards(a, call), Doc!Onwards(b, other))
  <2> DEFINE c == Doc!Onwards(a, call)
             d == Doc!Onwards(b, other)
  <2>1. s.kind = "ref" /\ s = t /\ s.to \in DOMAIN a
    BY <1>3, <1>5 DEF Doc!Followed
  <2>2. c \in Doc!Calls /\ c.schema = a[s.to] /\ c.prefix = call.prefix /\ c.seen = call.seen \union {s.to} /\ c.required = call.required
        /\ DocLeft(a, c) < DocLeft(a, call)
    BY <1>2, <1>5, DocOnwards
  <2>3. d \in Doc!Calls /\ d.schema = b[t.to] /\ d.prefix = other.prefix /\ d.seen = other.seen \union {t.to} /\ d.required = other.required
    BY <1>2, <1>4, <1>5, DocOnwards
  <2>4. Doc!SchemaContract[a[s.to]] = Doc!SchemaContract[b[s.to]]
    BY <2>1 DEF DocKeptDocs
  <2> HIDE DEF c, d, s, t
  <2>5. DocKeptCalls(c, d)
    BY <2>1, <2>2, <2>3, <2>4 DEF DocKeptCalls
  <2> QED
    BY <2>2, <2>3, <2>5 DEF c, d
<1>6. ASSUME s.kind = "array"
      PROVE  /\ Doc!IntoItems(call) \in Doc!Calls /\ Doc!IntoItems(other) \in Doc!Calls
             /\ DocLeft(a, Doc!IntoItems(call)) < DocLeft(a, call)
             /\ DocKeptCalls(Doc!IntoItems(call), Doc!IntoItems(other))
  <2> DEFINE c == Doc!IntoItems(call)
             d == Doc!IntoItems(other)
  <2>1. c \in Doc!Calls /\ c.schema = s.items /\ c.prefix = call.prefix /\ c.seen = call.seen /\ c.required = call.required
        /\ DocLeft(a, c) < DocLeft(a, call)
    BY <1>2, <1>6, DocItems
  <2>2. d \in Doc!Calls /\ d.schema = t.items /\ d.prefix = other.prefix /\ d.seen = other.seen /\ d.required = other.required
    BY <1>2, <1>3, <1>6, DocItems
  <2>3. Doc!SchemaContract[s.items] = Doc!SchemaContract[t.items]
    <3> HIDE DEF s, t
    <3> QED
      BY <1>1, <1>6, DocSameContract
  <2> HIDE DEF c, d, s, t
  <2>4. DocKeptCalls(c, d)
    BY <2>1, <2>2, <2>3 DEF DocKeptCalls
  <2> QED
    BY <2>1, <2>2, <2>4 DEF c, d
<1>7. s.kind = "object" => DOMAIN s.props = DOMAIN t.props
  <2> HIDE DEF s, t
  <2> QED
    BY <1>1, DocSameContract
<1>8. ASSUME s.kind = "object", NEW f \in DOMAIN s.props
      PROVE  /\ Doc!IntoField(call, f) \in Doc!Calls /\ Doc!IntoField(other, f) \in Doc!Calls
             /\ DocLeft(a, Doc!IntoField(call, f)) < DocLeft(a, call)
             /\ DocKeptCalls(Doc!IntoField(call, f), Doc!IntoField(other, f))
  <2> DEFINE c == Doc!IntoField(call, f)
             d == Doc!IntoField(other, f)
  <2>1. c \in Doc!Calls /\ c.schema = s.props[f] /\ c.prefix = Append(call.prefix, f) /\ c.seen = call.seen
        /\ c.required = (f \in Doc!Range(s.required)) /\ DocLeft(a, c) < DocLeft(a, call)
    BY <1>2, <1>8, DocField
  <2>2. d \in Doc!Calls /\ d.schema = t.props[f] /\ d.prefix = Append(other.prefix, f) /\ d.seen = other.seen
        /\ d.required = (f \in Doc!Range(t.required))
    BY <1>2, <1>3, <1>7, <1>8, DocField
  <2>3. Doc!SchemaContract[s.props[f]] = Doc!SchemaContract[t.props[f]] /\ Doc!Range(s.required) = Doc!Range(t.required)
    <3> HIDE DEF s, t
    <3> QED
      BY <1>1, <1>8, DocSameContract
  <2> HIDE DEF c, d, s, t
  <2>4. DocKeptCalls(c, d)
    BY <2>1, <2>2, <2>3 DEF DocKeptCalls
  <2> QED
    BY <2>1, <2>2, <2>4 DEF c, d
<1> QED
  BY <1>3, <1>4, <1>5, <1>6, <1>7, <1>8

LEMMA DocKeptStep ==
  ASSUME Doc!OpenApiAssumption, NEW a, NEW b, DocKeptDocs(a, b), NEW call \in Doc!Calls, NEW other \in Doc!Calls, DocKeptCalls(call, other),
         \A c \in Doc!Calls : \A d \in Doc!Calls :
           DocLeft(a, c) < DocLeft(a, call) /\ DocKeptCalls(c, d) => DocFields(a)[c] = DocFields(b)[d]
  PROVE  DocFields(a)[call] = DocFields(b)[other]
<1> DEFINE p == DocFields(a)
           q == DocFields(b)
<1>1. p[call] = DocFieldsOf(a, p, call) /\ q[other] = DocFieldsOf(b, q, other)
  <2>1. DocSchemas(a) /\ DocSchemas(b)
    BY DEF DocKeptDocs
  <2> QED
    BY <2>1, DocFieldsAre
<1>2. call.schema.kind = other.schema.kind /\ call.prefix = other.prefix
  BY DocKeptNext DEF DocKeptCalls
<1>3. Doc!Followed(a, call.schema, call.seen) <=> Doc!Followed(b, other.schema, other.seen)
  BY DocKeptNext
<1>4. CASE Doc!Followed(a, call.schema, call.seen)
  <2> DEFINE c == Doc!Onwards(a, call)
             d == Doc!Onwards(b, other)
  <2>1. p[c] = q[d]
    BY <1>4, DocKeptNext
  <2> HIDE DEF p, q, c, d
  <2>2. p[call] = p[c]
    BY <1>1, <1>4 DEF DocFieldsOf, c, Doc!Followed
  <2>3. q[other] = q[d]
    BY <1>1, <1>3, <1>4 DEF DocFieldsOf, d, Doc!Followed
  <2> QED
    BY <2>1, <2>2, <2>3 DEF p, q
<1>5. CASE ~Doc!Followed(a, call.schema, call.seen) /\ call.schema.kind = "object"
  <2> DEFINE names == DOMAIN call.schema.props
  <2>1. DOMAIN other.schema.props = names
    BY <1>5, DocKeptNext
  <2>2. ASSUME NEW f \in names PROVE DocContractsBelow(p, call, f) = DocContractsBelow(q, other, f)
    <3>1. p[Doc!IntoField(call, f)] = q[Doc!IntoField(other, f)]
      BY <1>5, DocKeptNext
    <3>2. Doc!Range(call.schema.required) = Doc!Range(other.schema.required)
      BY <1>5, DocSameContract, DocKinds DEF DocKeptCalls
    <3> HIDE DEF p, q
    <3> QED
      BY <1>2, <3>1, <3>2 DEF DocContractsBelow
  <2>3. {DocContractsBelow(p, call, f) : f \in names} = {DocContractsBelow(q, other, f) : f \in names}
    BY <2>2
  <2> HIDE DEF p, q
  <2> QED
    BY <1>1, <1>2, <1>3, <1>5, <2>1, <2>3 DEF DocFieldsOf, p, q
<1>6. CASE ~Doc!Followed(a, call.schema, call.seen) /\ call.schema.kind = "array"
  <2>1. p[Doc!IntoItems(call)] = q[Doc!IntoItems(other)]
    BY <1>6, DocKeptNext
  <2>2. call.required = other.required
    BY DEF DocKeptCalls
  <2>3. Doc!Leaf(call.prefix, call.schema, call.required) = Doc!Leaf(other.prefix, other.schema, other.required)
    BY <1>2, <1>6, <2>2 DEF Doc!Leaf
  <2> HIDE DEF p, q
  <2>4. DocItemsOf(p, call) = DocItemsOf(q, other)
    BY <1>2, <2>1, <2>3 DEF DocItemsOf, DocOwn
  <2> QED
    BY <1>1, <1>2, <1>3, <1>6, <2>4 DEF DocFieldsOf, p, q
<1>7. CASE ~Doc!Followed(a, call.schema, call.seen) /\ call.schema.kind \notin {"object", "array"}
  <2>1. call.required = other.required
    BY DEF DocKeptCalls
  <2>2. call.schema.kind = "leaf" => call.schema.type = other.schema.type /\ Doc!Range(call.schema.enum) = Doc!Range(other.schema.enum)
    BY DocSameContract, DocKinds DEF DocKeptCalls
  <2>3. call.schema.kind = "leaf" => Doc!Leaf(call.prefix, call.schema, call.required) = Doc!Leaf(other.prefix, other.schema, other.required)
    BY <1>2, <2>1, <2>2 DEF Doc!Leaf
  <2>4. call.schema.kind = "leaf" => DocOwn(call, call.schema) = DocOwn(other, other.schema)
    BY <1>2, <2>3 DEF DocOwn
  <2>5. DocOwn(call, Doc!Empty) = DocOwn(other, Doc!Empty)
    BY <1>2, <2>1 DEF DocOwn
  <2> HIDE DEF p, q
  <2> QED
    BY <1>1, <1>2, <1>3, <1>7, <2>4, <2>5 DEF DocFieldsOf, p, q
<1> QED
  BY <1>4, <1>5, <1>6, <1>7

LEMMA DocKeptFields ==
  ASSUME Doc!OpenApiAssumption, NEW a, NEW b, DocKeptDocs(a, b)
  PROVE  \A call \in Doc!Calls : \A other \in Doc!Calls : DocKeptCalls(call, other) => DocFields(a)[call] = DocFields(b)[other]
<1> DEFINE P(call) == \A other \in Doc!Calls : DocKeptCalls(call, other) => DocFields(a)[call] = DocFields(b)[other]
           T == {n \in Nat : \A call \in Doc!Calls : DocLeft(a, call) < n => P(call)}
<1>1. \A call \in Doc!Calls : DocLeft(a, call) \in Nat
  BY DocLeftIs DEF DocKeptDocs
<1>2. T \in SUBSET Nat /\ 0 \in T
  BY <1>1
<1>3. ASSUME NEW n \in T PROVE n + 1 \in T
  <2>1. ASSUME NEW call \in Doc!Calls, DocLeft(a, call) < n + 1, NEW other \in Doc!Calls, DocKeptCalls(call, other)
        PROVE  DocFields(a)[call] = DocFields(b)[other]
    <3>1. \A c \in Doc!Calls : DocLeft(a, c) < DocLeft(a, call) => P(c)
      BY <1>1, <2>1
    <3> QED
      BY <2>1, <3>1, DocKeptStep
  <2> QED
    BY <2>1
<1>4. \A n \in Nat : n \in T
  <2> HIDE DEF T
  <2> QED
    BY <1>2, <1>3, DocAllNumbers
<1>5. ASSUME NEW call \in Doc!Calls PROVE P(call)
  <2>1. DocLeft(a, call) + 1 \in T /\ DocLeft(a, call) < DocLeft(a, call) + 1
    BY <1>1, <1>4
  <2> QED
    BY <2>1
<1> QED
  BY <1>5

DocBareDocs(a, b) == DocSchemas(a) /\ DocSchemas(b) /\ DOMAIN a = DOMAIN b /\ \A n \in DOMAIN a : Doc!Bare[a[n]] = Doc!Bare[b[n]]
DocBareCalls(call, other) ==
  /\ Doc!Bare[call.schema] = Doc!Bare[other.schema] /\ call.prefix = other.prefix /\ call.seen = other.seen

LEMMA DocBareNext ==
  ASSUME Doc!OpenApiAssumption, NEW a, NEW b, DocBareDocs(a, b), NEW call \in Doc!Calls, NEW other \in Doc!Calls, DocBareCalls(call, other)
  PROVE  /\ call.schema.kind = other.schema.kind
         /\ Doc!Followed(a, call.schema, call.seen) <=> Doc!Followed(b, other.schema, other.seen)
         /\ Doc!Followed(a, call.schema, call.seen) =>
              /\ Doc!Onwards(a, call) \in Doc!Calls /\ Doc!Onwards(b, other) \in Doc!Calls
              /\ DocLeft(a, Doc!Onwards(a, call)) < DocLeft(a, call)
              /\ DocBareCalls(Doc!Onwards(a, call), Doc!Onwards(b, other))
         /\ call.schema.kind = "array" =>
              /\ Doc!IntoItems(call) \in Doc!Calls /\ Doc!IntoItems(other) \in Doc!Calls
              /\ DocLeft(a, Doc!IntoItems(call)) < DocLeft(a, call)
              /\ DocBareCalls(Doc!IntoItems(call), Doc!IntoItems(other))
         /\ call.schema.kind = "object" =>
              /\ DOMAIN call.schema.props = DOMAIN other.schema.props
              /\ \A f \in DOMAIN call.schema.props :
                   /\ Doc!IntoField(call, f) \in Doc!Calls /\ Doc!IntoField(other, f) \in Doc!Calls
                   /\ DocLeft(a, Doc!IntoField(call, f)) < DocLeft(a, call)
                   /\ DocBareCalls(Doc!IntoField(call, f), Doc!IntoField(other, f))
<1> DEFINE s == call.schema
           t == other.schema
<1>1. s \in Doc!AllSchemas /\ t \in Doc!AllSchemas /\ Doc!Bare[s] = Doc!Bare[t]
  BY DocKinds DEF DocBareCalls
<1>2. DocSchemas(a) /\ DocSchemas(b)
  BY DEF DocBareDocs
<1>3. s.kind = t.kind /\ (s.kind = "ref" => s = t)
  <2> HIDE DEF s, t
  <2> QED
    BY <1>1, DocSameBare
<1>4. Doc!Followed(a, s, call.seen) <=> Doc!Followed(b, t, other.seen)
  BY <1>3 DEF DocBareDocs, DocBareCalls, Doc!Followed
<1>5. ASSUME Doc!Followed(a, s, call.seen)
      PROVE  /\ Doc!Onwards(a, call) \in Doc!Calls /\ Doc!Onwards(b, other) \in Doc!Calls
             /\ DocLeft(a, Doc!Onwards(a, call)) < DocLeft(a, call)
             /\ DocBareCalls(Doc!Onwards(a, call), Doc!Onwards(b, other))
  <2> DEFINE c == Doc!Onwards(a, call)
             d == Doc!Onwards(b, other)
  <2>1. s.kind = "ref" /\ s = t /\ s.to \in DOMAIN a
    BY <1>3, <1>5 DEF Doc!Followed
  <2>2. c \in Doc!Calls /\ c.schema = a[s.to] /\ c.prefix = call.prefix /\ c.seen = call.seen \union {s.to} /\ c.required = call.required
        /\ DocLeft(a, c) < DocLeft(a, call)
    BY <1>2, <1>5, DocOnwards
  <2>3. d \in Doc!Calls /\ d.schema = b[t.to] /\ d.prefix = other.prefix /\ d.seen = other.seen \union {t.to} /\ d.required = other.required
    BY <1>2, <1>4, <1>5, DocOnwards
  <2>4. Doc!Bare[a[s.to]] = Doc!Bare[b[s.to]]
    BY <2>1 DEF DocBareDocs
  <2> HIDE DEF c, d, s, t
  <2>5. DocBareCalls(c, d)
    BY <2>1, <2>2, <2>3, <2>4 DEF DocBareCalls
  <2> QED
    BY <2>2, <2>3, <2>5 DEF c, d
<1>6. ASSUME s.kind = "array"
      PROVE  /\ Doc!IntoItems(call) \in Doc!Calls /\ Doc!IntoItems(other) \in Doc!Calls
             /\ DocLeft(a, Doc!IntoItems(call)) < DocLeft(a, call)
             /\ DocBareCalls(Doc!IntoItems(call), Doc!IntoItems(other))
  <2> DEFINE c == Doc!IntoItems(call)
             d == Doc!IntoItems(other)
  <2>1. c \in Doc!Calls /\ c.schema = s.items /\ c.prefix = call.prefix /\ c.seen = call.seen /\ c.required = call.required
        /\ DocLeft(a, c) < DocLeft(a, call)
    BY <1>2, <1>6, DocItems
  <2>2. d \in Doc!Calls /\ d.schema = t.items /\ d.prefix = other.prefix /\ d.seen = other.seen /\ d.required = other.required
    BY <1>2, <1>3, <1>6, DocItems
  <2>3. Doc!Bare[s.items] = Doc!Bare[t.items]
    <3> HIDE DEF s, t
    <3> QED
      BY <1>1, <1>6, DocSameBare
  <2> HIDE DEF c, d, s, t
  <2>4. DocBareCalls(c, d)
    BY <2>1, <2>2, <2>3 DEF DocBareCalls
  <2> QED
    BY <2>1, <2>2, <2>4 DEF c, d
<1>7. s.kind = "object" => DOMAIN s.props = DOMAIN t.props
  <2> HIDE DEF s, t
  <2> QED
    BY <1>1, DocSameBare
<1>8. ASSUME s.kind = "object", NEW f \in DOMAIN s.props
      PROVE  /\ Doc!IntoField(call, f) \in Doc!Calls /\ Doc!IntoField(other, f) \in Doc!Calls
             /\ DocLeft(a, Doc!IntoField(call, f)) < DocLeft(a, call)
             /\ DocBareCalls(Doc!IntoField(call, f), Doc!IntoField(other, f))
  <2> DEFINE c == Doc!IntoField(call, f)
             d == Doc!IntoField(other, f)
  <2>1. c \in Doc!Calls /\ c.schema = s.props[f] /\ c.prefix = Append(call.prefix, f) /\ c.seen = call.seen
        /\ c.required = (f \in Doc!Range(s.required)) /\ DocLeft(a, c) < DocLeft(a, call)
    BY <1>2, <1>8, DocField
  <2>2. d \in Doc!Calls /\ d.schema = t.props[f] /\ d.prefix = Append(other.prefix, f) /\ d.seen = other.seen
        /\ d.required = (f \in Doc!Range(t.required))
    BY <1>2, <1>3, <1>7, <1>8, DocField
  <2>3. Doc!Bare[s.props[f]] = Doc!Bare[t.props[f]]
    <3> HIDE DEF s, t
    <3> QED
      BY <1>1, <1>8, DocSameBare
  <2> HIDE DEF c, d, s, t
  <2>4. DocBareCalls(c, d)
    BY <2>1, <2>2, <2>3 DEF DocBareCalls
  <2> QED
    BY <2>1, <2>2, <2>4 DEF c, d
<1> QED
  BY <1>3, <1>4, <1>5, <1>6, <1>7, <1>8

LEMMA DocBareStep ==
  ASSUME Doc!OpenApiAssumption, NEW a, NEW b, DocBareDocs(a, b), NEW call \in Doc!Calls, NEW other \in Doc!Calls, DocBareCalls(call, other),
         \A c \in Doc!Calls : \A d \in Doc!Calls :
           DocLeft(a, c) < DocLeft(a, call) /\ DocBareCalls(c, d) => DocPaths(a)[c] = DocPaths(b)[d]
  PROVE  DocPaths(a)[call] = DocPaths(b)[other]
<1> DEFINE p == DocPaths(a)
           q == DocPaths(b)
<1>1. p[call] = DocPathsOf(a, p, call) /\ q[other] = DocPathsOf(b, q, other)
  <2>1. DocSchemas(a) /\ DocSchemas(b)
    BY DEF DocBareDocs
  <2> QED
    BY <2>1, DocPathsAre
<1>2. call.schema.kind = other.schema.kind /\ call.prefix = other.prefix
  BY DocBareNext DEF DocBareCalls
<1>3. Doc!Followed(a, call.schema, call.seen) <=> Doc!Followed(b, other.schema, other.seen)
  BY DocBareNext
<1>4. CASE Doc!Followed(a, call.schema, call.seen)
  <2> DEFINE c == Doc!Onwards(a, call)
             d == Doc!Onwards(b, other)
  <2>1. p[c] = q[d]
    BY <1>4, DocBareNext
  <2> HIDE DEF p, q, c, d
  <2>2. p[call] = p[c]
    BY <1>1, <1>4 DEF DocPathsOf, c, Doc!Followed
  <2>3. q[other] = q[d]
    BY <1>1, <1>3, <1>4 DEF DocPathsOf, d, Doc!Followed
  <2> QED
    BY <2>1, <2>2, <2>3 DEF p, q
<1>5. CASE ~Doc!Followed(a, call.schema, call.seen) /\ call.schema.kind = "object"
  <2> DEFINE names == DOMAIN call.schema.props
  <2>1. DOMAIN other.schema.props = names
    BY <1>5, DocBareNext
  <2>2. ASSUME NEW f \in names PROVE DocBelow(p, call, f) = DocBelow(q, other, f)
    <3>1. p[Doc!IntoField(call, f)] = q[Doc!IntoField(other, f)]
      BY <1>5, DocBareNext
    <3> HIDE DEF p, q
    <3> QED
      BY <1>2, <3>1 DEF DocBelow
  <2>3. {DocBelow(p, call, f) : f \in names} = {DocBelow(q, other, f) : f \in names}
    BY <2>2
  <2> HIDE DEF p, q
  <2> QED
    BY <1>1, <1>2, <1>3, <1>5, <2>1, <2>3 DEF DocPathsOf, p, q
<1>6. CASE ~Doc!Followed(a, call.schema, call.seen) /\ call.schema.kind = "array"
  <2>1. p[Doc!IntoItems(call)] = q[Doc!IntoItems(other)]
    BY <1>6, DocBareNext
  <2> HIDE DEF p, q
  <2> QED
    BY <1>1, <1>2, <1>3, <1>6, <2>1 DEF DocPathsOf, p, q
<1>7. CASE ~Doc!Followed(a, call.schema, call.seen) /\ call.schema.kind \notin {"object", "array"}
  <2> HIDE DEF p, q
  <2> QED
    BY <1>1, <1>2, <1>3, <1>7 DEF DocPathsOf, p, q
<1> QED
  BY <1>4, <1>5, <1>6, <1>7

LEMMA DocBareFields ==
  ASSUME Doc!OpenApiAssumption, NEW a, NEW b, DocBareDocs(a, b)
  PROVE  \A call \in Doc!Calls : \A other \in Doc!Calls : DocBareCalls(call, other) => DocPaths(a)[call] = DocPaths(b)[other]
<1> DEFINE P(call) == \A other \in Doc!Calls : DocBareCalls(call, other) => DocPaths(a)[call] = DocPaths(b)[other]
           T == {n \in Nat : \A call \in Doc!Calls : DocLeft(a, call) < n => P(call)}
<1>1. \A call \in Doc!Calls : DocLeft(a, call) \in Nat
  BY DocLeftIs DEF DocBareDocs
<1>2. T \in SUBSET Nat /\ 0 \in T
  BY <1>1
<1>3. ASSUME NEW n \in T PROVE n + 1 \in T
  <2>1. ASSUME NEW call \in Doc!Calls, DocLeft(a, call) < n + 1, NEW other \in Doc!Calls, DocBareCalls(call, other)
        PROVE  DocPaths(a)[call] = DocPaths(b)[other]
    <3>1. \A c \in Doc!Calls : DocLeft(a, c) < DocLeft(a, call) => P(c)
      BY <1>1, <2>1
    <3> QED
      BY <2>1, <3>1, DocBareStep
  <2> QED
    BY <2>1
<1>4. \A n \in Nat : n \in T
  <2> HIDE DEF T
  <2> QED
    BY <1>2, <1>3, DocAllNumbers
<1>5. ASSUME NEW call \in Doc!Calls PROVE P(call)
  <2>1. DocLeft(a, call) + 1 \in T /\ DocLeft(a, call) < DocLeft(a, call) + 1
    BY <1>1, <1>4
  <2> QED
    BY <2>1
<1> QED
  BY <1>5

\* Documents with one contract have the same fields, and those that differ in values only the same keys.
LEMMA DocSameFields ==
  ASSUME Doc!OpenApiAssumption, NEW a, NEW b, NEW s \in Doc!AllSchemas, NEW t \in Doc!AllSchemas
  PROVE  /\ DocKeptDocs(a, b) /\ Doc!SchemaContract[s] = Doc!SchemaContract[t] => Doc!LeafContracts(a, s) = Doc!LeafContracts(b, t)
         /\ DocBareDocs(a, b) /\ Doc!Bare[s] = Doc!Bare[t] => Doc!LeafPaths(a, s) = Doc!LeafPaths(b, t)
<1> DEFINE c == Doc!CallOf(s)
           d == Doc!CallOf(t)
<1>1. /\ c \in Doc!Calls /\ c.prefix = <<>> /\ c.schema = s /\ c.seen = {} /\ c.required = FALSE
      /\ d \in Doc!Calls /\ d.prefix = <<>> /\ d.schema = t /\ d.seen = {} /\ d.required = FALSE
  BY DocCallOf
<1> HIDE DEF c, d
<1>2. ASSUME DocKeptDocs(a, b), Doc!SchemaContract[s] = Doc!SchemaContract[t] PROVE Doc!LeafContracts(a, s) = Doc!LeafContracts(b, t)
  <2>1. DocKeptCalls(c, d)
    BY <1>1, <1>2 DEF DocKeptCalls
  <2>2. DocFields(a)[c] = DocFields(b)[d]
    BY <1>1, <1>2, <2>1, DocKeptFields
  <2>3. Doc!LeafContracts(a, s) = DocFields(a)[c] /\ Doc!LeafContracts(b, t) = DocFields(b)[d]
    BY <1>2, DocFieldsAre DEF DocKeptDocs, c, d
  <2> QED
    BY <2>2, <2>3
<1>3. ASSUME DocBareDocs(a, b), Doc!Bare[s] = Doc!Bare[t] PROVE Doc!LeafPaths(a, s) = Doc!LeafPaths(b, t)
  <2>1. DocBareCalls(c, d)
    BY <1>1, <1>3 DEF DocBareCalls
  <2>2. DocPaths(a)[c] = DocPaths(b)[d]
    BY <1>1, <1>3, <2>1, DocBareFields
  <2>3. Doc!LeafPaths(a, s) = DocPaths(a)[c] /\ Doc!LeafPaths(b, t) = DocPaths(b)[d]
    BY <1>3, DocPathsAre DEF DocBareDocs, c, d
  <2> QED
    BY <2>2, <2>3
<1> QED
  BY <1>2, <1>3

(***************************************************************************)
(* The views of two documents.                                             *)
(***************************************************************************)
LEMMA DocDiffs ==
  ASSUME NEW a, NEW b
  PROVE  /\ Doc!KeyDiff(a, b) = Doc!Changed(Doc!KeyPaths(a), Doc!KeyPaths(b)) \union
              {n \in Doc!DirectRefs(a) \union Doc!DirectRefs(b) :
                 \/ n \notin DOMAIN a.schemas \/ n \notin DOMAIN b.schemas
                 \/ Doc!LeafPaths(a.schemas, a.schemas[n]) # Doc!LeafPaths(b.schemas, b.schemas[n])}
         /\ Doc!SemanticDiff(a, b) = Doc!Changed(Doc!SemanticPaths(a), Doc!SemanticPaths(b)) \union
              {n \in Doc!DirectRefs(a) \union Doc!DirectRefs(b) :
                 \/ n \notin DOMAIN a.schemas \/ n \notin DOMAIN b.schemas
                 \/ Doc!LeafContracts(a.schemas, a.schemas[n]) # Doc!LeafContracts(b.schemas, b.schemas[n])}
BY DEF Doc!KeyDiff, Doc!SemanticDiff, Doc!ChangedSchemas

\* A parameter with another schema.
LEMMA DocParameter ==
  ASSUME NEW x, DOMAIN x = {"name", "schema"}, NEW v
  PROVE  [x EXCEPT !.schema = v] = [name |-> x.name, schema |-> v]
OBVIOUS

\* The operations of a document, and what the views keep of them.
LEMMA DocOperation ==
  ASSUME NEW doc, Doc!IsDocument(doc), NEW p \in DOMAIN doc.ops
  PROVE  /\ DOMAIN doc.ops[p] = {"parameters", "required", "content"}
         /\ \A x \in doc.ops[p].parameters : DOMAIN x = {"name", "schema"} /\ x.schema \in Doc!AllSchemas
         /\ \A c \in DOMAIN doc.ops[p].content : doc.ops[p].content[c] \in Doc!AllSchemas
BY DEF Doc!IsDocument, Doc!IsOperation

DocNames(op) == {x.name : x \in op.parameters}
DocRaw(op) == {[x EXCEPT !.schema = Doc!RefOrType(@)] : x \in op.parameters}

LEMMA DocKeyPathsOf ==
  ASSUME NEW doc
  PROVE  /\ DOMAIN Doc!KeyPaths(doc) = DOMAIN doc.ops /\ DOMAIN Doc!SemanticPaths(doc) = DOMAIN doc.ops
         /\ \A p \in DOMAIN doc.ops :
              /\ Doc!KeyPaths(doc)[p] = [parameters |-> DocNames(doc.ops[p]), content |-> Doc!ContentView(doc.ops[p])]
              /\ Doc!SemanticPaths(doc)[p] = [parameters |-> DocRaw(doc.ops[p]), required |-> doc.ops[p].required,
                                              content |-> Doc!ContentView(doc.ops[p])]
BY DEF Doc!KeyPaths, Doc!SemanticPaths, DocNames, DocRaw

LEMMA DocSemanticOf ==
  ASSUME NEW doc, NEW p \in DOMAIN doc.ops
  PROVE  /\ Doc!SemanticPaths(doc)[p].parameters = DocRaw(doc.ops[p]) /\ Doc!SemanticPaths(doc)[p].required = doc.ops[p].required
         /\ Doc!SemanticPaths(doc)[p].content = Doc!ContentView(doc.ops[p])
<1>1. Doc!SemanticPaths(doc)[p] = [parameters |-> DocRaw(doc.ops[p]), required |-> doc.ops[p].required, content |-> Doc!ContentView(doc.ops[p])]
  BY DocKeyPathsOf
<1> QED
  BY <1>1

DocTyped(op) == {[name |-> x.name, schema |-> Doc!RefOrType(x.schema)] : x \in op.parameters}

LEMMA DocTypedIs ==
  ASSUME NEW doc, Doc!IsDocument(doc), NEW p \in DOMAIN doc.ops
  PROVE  DocRaw(doc.ops[p]) = DocTyped(doc.ops[p])
<1> DEFINE op == doc.ops[p]
           F(x) == [x EXCEPT !.schema = Doc!RefOrType(@)]
           G(x) == [name |-> x.name, schema |-> Doc!RefOrType(x.schema)]
<1>1. ASSUME NEW x \in op.parameters PROVE F(x) = G(x)
  <2> DEFINE v == Doc!RefOrType(x.schema)
  <2>1. [x EXCEPT !.schema = v] = [name |-> x.name, schema |-> v]
    <3>1. DOMAIN x = {"name", "schema"}
      BY DocOperation
    <3> HIDE DEF v
    <3> QED
      BY <3>1, DocParameter
  <2> QED
    BY <2>1
<1>2. DocRaw(op) = {F(x) : x \in op.parameters} /\ DocTyped(op) = {G(x) : x \in op.parameters}
  BY DEF DocRaw, DocTyped
<1> HIDE DEF F, G
<1>3. {F(x) : x \in op.parameters} = {G(x) : x \in op.parameters}
  BY <1>1
<1> QED
  BY <1>2, <1>3

\* Operations that the semantic view shows alike have the same keys.
LEMMA DocKeysOfSemantic ==
  ASSUME NEW a, Doc!IsDocument(a), NEW b, Doc!IsDocument(b), NEW p \in DOMAIN a.ops, p \in DOMAIN b.ops,
         Doc!SemanticPaths(a)[p] = Doc!SemanticPaths(b)[p]
  PROVE  Doc!KeyPaths(a)[p] = Doc!KeyPaths(b)[p]
<1>1. Doc!ContentView(a.ops[p]) = Doc!ContentView(b.ops[p])
  <2>1. Doc!SemanticPaths(a)[p].content = Doc!ContentView(a.ops[p])
    BY DocSemanticOf
  <2>2. Doc!SemanticPaths(b)[p].content = Doc!ContentView(b.ops[p])
    BY DocSemanticOf
  <2> QED
    BY <2>1, <2>2
<1>2. DocTyped(a.ops[p]) = DocTyped(b.ops[p])
  <2>1. Doc!SemanticPaths(a)[p].parameters = DocTyped(a.ops[p])
    BY DocSemanticOf, DocTypedIs
  <2>2. Doc!SemanticPaths(b)[p].parameters = DocTyped(b.ops[p])
    BY DocSemanticOf, DocTypedIs
  <2> QED
    BY <2>1, <2>2
<1>3. ASSUME NEW op PROVE DocNames(op) = {y.name : y \in DocTyped(op)}
  <2> DEFINE F(x) == [name |-> x.name, schema |-> Doc!RefOrType(x.schema)]
  <2>1. DocTyped(op) = {F(x) : x \in op.parameters}
    BY DEF DocTyped
  <2>2. \A x : F(x).name = x.name
    OBVIOUS
  <2> HIDE DEF F
  <2>3. {y.name : y \in {F(x) : x \in op.parameters}} = {F(x).name : x \in op.parameters}
    OBVIOUS
  <2>4. {F(x).name : x \in op.parameters} = {x.name : x \in op.parameters}
    BY <2>2
  <2> QED
    BY <2>1, <2>3, <2>4 DEF DocNames
<1>4. DocNames(a.ops[p]) = DocNames(b.ops[p])
  BY <1>2, <1>3
<1> QED
  BY <1>1, <1>4, DocKeyPathsOf

\* The first half of ViewsNest: a difference in keys is a semantic difference.
LEMMA DocKeysNest ==
  ASSUME Doc!OpenApiAssumption, NEW a, Doc!IsDocument(a), NEW b, Doc!IsDocument(b)
  PROVE  Doc!KeyDiff(a, b) \subseteq Doc!SemanticDiff(a, b)
<1>1. ASSUME NEW p \in Doc!Changed(Doc!KeyPaths(a), Doc!KeyPaths(b)) PROVE p \in Doc!Changed(Doc!SemanticPaths(a), Doc!SemanticPaths(b))
  <2>1. p \in DOMAIN a.ops /\ p \in DOMAIN b.ops => Doc!KeyPaths(a)[p] # Doc!KeyPaths(b)[p]
    BY <1>1, DocKeyPathsOf DEF Doc!Changed
  <2>2. p \in DOMAIN a.ops \union DOMAIN b.ops
    BY <1>1, DocKeyPathsOf DEF Doc!Changed
  <2>3. p \in DOMAIN a.ops /\ p \in DOMAIN b.ops => Doc!SemanticPaths(a)[p] # Doc!SemanticPaths(b)[p]
    BY <2>1, DocKeysOfSemantic
  <2> QED
    BY <2>2, <2>3, DocKeyPathsOf DEF Doc!Changed
<1>2. ASSUME NEW n, n \in DOMAIN a.schemas, n \in DOMAIN b.schemas,
             Doc!LeafContracts(a.schemas, a.schemas[n]) = Doc!LeafContracts(b.schemas, b.schemas[n])
      PROVE  Doc!LeafPaths(a.schemas, a.schemas[n]) = Doc!LeafPaths(b.schemas, b.schemas[n])
  <2>1. DocSchemas(a.schemas) /\ DocSchemas(b.schemas)
    BY DocSchemasOf
  <2>2. a.schemas[n] \in Doc!AllSchemas /\ b.schemas[n] \in Doc!AllSchemas
    BY <1>2, <2>1 DEF DocSchemas
  <2> QED
    BY <1>2, <2>1, <2>2, DocKeysOfFields
<1>3. ASSUME NEW n \in Doc!KeyDiff(a, b) PROVE n \in Doc!SemanticDiff(a, b)
  <2>1. CASE n \in Doc!Changed(Doc!KeyPaths(a), Doc!KeyPaths(b))
    BY <1>1, <2>1, DocDiffs
  <2>2. CASE n \notin Doc!Changed(Doc!KeyPaths(a), Doc!KeyPaths(b))
    <3>1. /\ n \in Doc!DirectRefs(a) \union Doc!DirectRefs(b)
          /\ \/ n \notin DOMAIN a.schemas \/ n \notin DOMAIN b.schemas
             \/ Doc!LeafPaths(a.schemas, a.schemas[n]) # Doc!LeafPaths(b.schemas, b.schemas[n])
      BY <2>2, DocDiffs
    <3>2. \/ n \notin DOMAIN a.schemas \/ n \notin DOMAIN b.schemas
          \/ Doc!LeafContracts(a.schemas, a.schemas[n]) # Doc!LeafContracts(b.schemas, b.schemas[n])
      BY <1>2, <3>1
    <3> QED
      BY <3>1, <3>2, DocDiffs
  <2> QED
    BY <2>1, <2>2
<1> QED
  BY <1>3

\* What a contract keeps of a document.
DocOpContract(op) ==
  [op EXCEPT !.parameters = {[x EXCEPT !.schema = Doc!SchemaContract[@]] : x \in @},
             !.content = [c \in DOMAIN @ |-> Doc!SchemaContract[@[c]]]]
DocKeptParameters(op) == {[name |-> x.name, schema |-> Doc!SchemaContract[x.schema]] : x \in op.parameters}

LEMMA DocOpContractIs ==
  ASSUME NEW doc, Doc!IsDocument(doc), NEW p \in DOMAIN doc.ops
  PROVE  LET op == doc.ops[p] IN
         /\ DocOpContract(op).parameters = DocKeptParameters(op) /\ DocOpContract(op).required = op.required
         /\ DocOpContract(op).content = [c \in DOMAIN op.content |-> Doc!SchemaContract[op.content[c]]]
<1> DEFINE op == doc.ops[p]
           F(x) == [x EXCEPT !.schema = Doc!SchemaContract[@]]
           G(x) == [name |-> x.name, schema |-> Doc!SchemaContract[x.schema]]
           raw == {F(x) : x \in op.parameters}
           content == [c \in DOMAIN op.content |-> Doc!SchemaContract[op.content[c]]]
<1>1. DocOpContract(op) = [op EXCEPT !.parameters = raw, !.content = content]
  BY DEF DocOpContract
<1>2. ASSUME NEW x \in op.parameters PROVE F(x) = G(x)
  <2> DEFINE v == Doc!SchemaContract[x.schema]
  <2>1. [x EXCEPT !.schema = v] = [name |-> x.name, schema |-> v]
    <3>1. DOMAIN x = {"name", "schema"}
      BY DocOperation
    <3> HIDE DEF v
    <3> QED
      BY <3>1, DocParameter
  <2> QED
    BY <2>1
<1>3. raw = DocKeptParameters(op)
  <2>1. DocKeptParameters(op) = {G(x) : x \in op.parameters}
    BY DEF DocKeptParameters
  <2> HIDE DEF F, G
  <2> QED
    BY <1>2, <2>1
<1>4. DOMAIN op = {"parameters", "required", "content"}
  BY DocOperation
<1> HIDE DEF op, raw, content
<1>5. DocOpContract(op).parameters = raw /\ DocOpContract(op).required = op.required /\ DocOpContract(op).content = content
  BY <1>1, <1>4
<1> QED
  BY <1>3, <1>5 DEF op, content

LEMMA DocContractIs ==
  ASSUME NEW a, NEW b, Doc!Contract(a) = Doc!Contract(b)
  PROVE  /\ DOMAIN a.ops = DOMAIN b.ops /\ \A p \in DOMAIN a.ops : DocOpContract(a.ops[p]) = DocOpContract(b.ops[p])
         /\ DOMAIN a.schemas = DOMAIN b.schemas
         /\ \A n \in DOMAIN a.schemas : Doc!SchemaContract[a.schemas[n]] = Doc!SchemaContract[b.schemas[n]]
<1> DEFINE O(doc) == [p \in DOMAIN doc.ops |-> DocOpContract(doc.ops[p])]
           S(doc) == [n \in DOMAIN doc.schemas |-> Doc!SchemaContract[doc.schemas[n]]]
<1>1. ASSUME NEW doc PROVE Doc!Contract(doc).paths = O(doc) /\ Doc!Contract(doc).schemas = S(doc)
  BY DEF Doc!Contract, DocOpContract
<1>2. O(a) = O(b) /\ S(a) = S(b)
  <2> HIDE DEF O, S
  <2> QED
    BY <1>1
<1>3. ASSUME NEW doc PROVE DOMAIN O(doc) = DOMAIN doc.ops /\ \A p \in DOMAIN doc.ops : O(doc)[p] = DocOpContract(doc.ops[p])
  OBVIOUS
<1>4. ASSUME NEW doc
      PROVE  DOMAIN S(doc) = DOMAIN doc.schemas /\ \A n \in DOMAIN doc.schemas : S(doc)[n] = Doc!SchemaContract[doc.schemas[n]]
  OBVIOUS
<1> HIDE DEF O, S
<1>5. DOMAIN a.ops = DOMAIN b.ops /\ \A p \in DOMAIN a.ops : DocOpContract(a.ops[p]) = DocOpContract(b.ops[p])
  BY <1>2, <1>3
<1>6. DOMAIN a.schemas = DOMAIN b.schemas /\ \A n \in DOMAIN a.schemas : Doc!SchemaContract[a.schemas[n]] = Doc!SchemaContract[b.schemas[n]]
  BY <1>2, <1>4
<1> QED
  BY <1>5, <1>6

LEMMA DocTypeOfContract ==
  ASSUME Doc!OpenApiAssumption, NEW s \in Doc!AllSchemas, NEW t \in Doc!AllSchemas,
         Doc!SchemaContract[s] = Doc!SchemaContract[t]
  PROVE  Doc!RefOrType(s) = Doc!RefOrType(t)
<1>1. s.kind = t.kind /\ (s.kind \in {"ref", "shared"} => s = t) /\ (s.kind = "leaf" => s.type = t.type /\ s.format = t.format)
  BY DocSameContract
<1> QED
  BY <1>1 DEF Doc!RefOrType

LEMMA DocTypedOfContract ==
  ASSUME Doc!OpenApiAssumption, NEW a, Doc!IsDocument(a), NEW b, Doc!IsDocument(b),
         NEW p \in DOMAIN a.ops, p \in DOMAIN b.ops, DocKeptParameters(a.ops[p]) = DocKeptParameters(b.ops[p])
  PROVE  DocTyped(a.ops[p]) \subseteq DocTyped(b.ops[p])
<1> SUFFICES ASSUME NEW x \in a.ops[p].parameters PROVE [name |-> x.name, schema |-> Doc!RefOrType(x.schema)] \in DocTyped(b.ops[p])
  BY DEF DocTyped
<1>1. [name |-> x.name, schema |-> Doc!SchemaContract[x.schema]] \in DocKeptParameters(a.ops[p])
  BY DEF DocKeptParameters
<1>2. [name |-> x.name, schema |-> Doc!SchemaContract[x.schema]] \in DocKeptParameters(b.ops[p])
  BY <1>1
<1>3. PICK y \in b.ops[p].parameters :
        [name |-> x.name, schema |-> Doc!SchemaContract[x.schema]] = [name |-> y.name, schema |-> Doc!SchemaContract[y.schema]]
  BY <1>2 DEF DocKeptParameters
<1>4. x.name = y.name /\ Doc!SchemaContract[x.schema] = Doc!SchemaContract[y.schema]
  BY <1>3
<1>5. x.schema \in Doc!AllSchemas /\ y.schema \in Doc!AllSchemas
  BY DocOperation
<1>6. Doc!RefOrType(x.schema) = Doc!RefOrType(y.schema)
  BY <1>4, <1>5, DocTypeOfContract
<1> QED
  BY <1>4, <1>6 DEF DocTyped

\* The second half of ViewsNest: one contract, no semantic difference.
LEMMA DocContractNests ==
  ASSUME Doc!OpenApiAssumption, NEW a, Doc!IsDocument(a), NEW b, Doc!IsDocument(b), Doc!Contract(a) = Doc!Contract(b),
         NEW n \in Doc!SemanticDiff(a, b)
  PROVE  n \in Doc!DirectRefs(a) \union Doc!DirectRefs(b) /\ n \notin DOMAIN a.schemas /\ n \notin DOMAIN b.schemas
<1>1. /\ DOMAIN a.ops = DOMAIN b.ops /\ \A p \in DOMAIN a.ops : DocOpContract(a.ops[p]) = DocOpContract(b.ops[p])
      /\ DOMAIN a.schemas = DOMAIN b.schemas
      /\ \A m \in DOMAIN a.schemas : Doc!SchemaContract[a.schemas[m]] = Doc!SchemaContract[b.schemas[m]]
  BY DocContractIs
<1>2. ASSUME NEW p \in DOMAIN a.ops PROVE Doc!SemanticPaths(a)[p] = Doc!SemanticPaths(b)[p]
  <2>0. p \in DOMAIN b.ops /\ DocOpContract(a.ops[p]) = DocOpContract(b.ops[p])
    BY <1>1
  <2> DEFINE Content(doc) == [c \in DOMAIN doc.ops[p].content |-> Doc!SchemaContract[doc.ops[p].content[c]]]
  <2>1. /\ DocKeptParameters(a.ops[p]) = DocKeptParameters(b.ops[p]) /\ a.ops[p].required = b.ops[p].required
        /\ Content(a) = Content(b)
    <3>1. /\ DocOpContract(a.ops[p]).parameters = DocKeptParameters(a.ops[p]) /\ DocOpContract(a.ops[p]).required = a.ops[p].required
          /\ DocOpContract(a.ops[p]).content = Content(a)
      BY DocOpContractIs
    <3>2. /\ DocOpContract(b.ops[p]).parameters = DocKeptParameters(b.ops[p]) /\ DocOpContract(b.ops[p]).required = b.ops[p].required
          /\ DocOpContract(b.ops[p]).content = Content(b)
      BY <2>0, DocOpContractIs
    <3> HIDE DEF Content
    <3>3. DocKeptParameters(a.ops[p]) = DocKeptParameters(b.ops[p])
      BY <2>0, <3>1, <3>2
    <3>4. a.ops[p].required = b.ops[p].required
      BY <2>0, <3>1, <3>2
    <3>5. Content(a) = Content(b)
      BY <2>0, <3>1, <3>2
    <3> QED
      BY <3>3, <3>4, <3>5
  <2>2. DocTyped(a.ops[p]) = DocTyped(b.ops[p])
    <3>1. DocTyped(a.ops[p]) \subseteq DocTyped(b.ops[p])
      BY <2>0, <2>1, DocTypedOfContract
    <3>2. DocTyped(b.ops[p]) \subseteq DocTyped(a.ops[p])
      BY <2>0, <2>1, DocTypedOfContract
    <3> QED
      BY <3>1, <3>2
  <2>3. ASSUME NEW doc PROVE DOMAIN Content(doc) = DOMAIN doc.ops[p].content
                             /\ \A c \in DOMAIN doc.ops[p].content : Content(doc)[c] = Doc!SchemaContract[doc.ops[p].content[c]]
    OBVIOUS
  <2>4. DOMAIN a.ops[p].content = DOMAIN b.ops[p].content
    <3> HIDE DEF Content
    <3> QED
      BY <2>1, <2>3
  <2>5. ASSUME NEW c \in DOMAIN a.ops[p].content
        PROVE  Doc!RefOrType(a.ops[p].content[c]) = Doc!RefOrType(b.ops[p].content[c])
    <3>1. Doc!SchemaContract[a.ops[p].content[c]] = Doc!SchemaContract[b.ops[p].content[c]]
      <4> HIDE DEF Content
      <4> QED
        BY <2>1, <2>3, <2>4
    <3>2. a.ops[p].content[c] \in Doc!AllSchemas /\ b.ops[p].content[c] \in Doc!AllSchemas
      BY <2>0, <2>4, DocOperation
    <3> QED
      BY <3>1, <3>2, DocTypeOfContract
  <2>6. Doc!ContentView(a.ops[p]) = Doc!ContentView(b.ops[p])
    BY <2>4, <2>5 DEF Doc!ContentView
  <2>7. ASSUME NEW doc, Doc!IsDocument(doc), p \in DOMAIN doc.ops
        PROVE  Doc!SemanticPaths(doc)[p] = [parameters |-> DocTyped(doc.ops[p]), required |-> doc.ops[p].required,
                                            content |-> Doc!ContentView(doc.ops[p])]
    <3>1. DocRaw(doc.ops[p]) = DocTyped(doc.ops[p])
      BY <2>7, DocTypedIs
    <3> QED
      BY <2>7, <3>1, DocKeyPathsOf
  <2> QED
    BY <2>0, <2>1, <2>2, <2>6, <2>7
<1>3. Doc!Changed(Doc!SemanticPaths(a), Doc!SemanticPaths(b)) = {}
  BY <1>1, <1>2, DocKeyPathsOf DEF Doc!Changed
<1>4. ASSUME NEW m \in DOMAIN a.schemas
      PROVE  Doc!LeafContracts(a.schemas, a.schemas[m]) = Doc!LeafContracts(b.schemas, b.schemas[m])
  <2>1. DocSchemas(a.schemas) /\ DocSchemas(b.schemas)
    BY DocSchemasOf
  <2>2. a.schemas[m] \in Doc!AllSchemas /\ b.schemas[m] \in Doc!AllSchemas
    BY <1>1, <2>1 DEF DocSchemas
  <2>3. DocKeptDocs(a.schemas, b.schemas)
    BY <1>1, <2>1 DEF DocKeptDocs
  <2> QED
    BY <1>1, <2>2, <2>3, DocSameFields
<1> QED
  BY <1>1, <1>3, <1>4, DocDiffs

\* Documents that differ in values only have the same keys.
LEMMA DocBareDocIs ==
  ASSUME NEW a, NEW b, Doc!BareDoc(a) = Doc!BareDoc(b)
  PROVE  /\ DOMAIN a.ops = DOMAIN b.ops
         /\ \A p \in DOMAIN a.ops :
              /\ {x.name : x \in a.ops[p].parameters} = {x.name : x \in b.ops[p].parameters}
              /\ DOMAIN a.ops[p].content = DOMAIN b.ops[p].content
              /\ \A c \in DOMAIN a.ops[p].content : Doc!Bare[a.ops[p].content[c]] = Doc!Bare[b.ops[p].content[c]]
         /\ DOMAIN a.schemas = DOMAIN b.schemas /\ \A n \in DOMAIN a.schemas : Doc!Bare[a.schemas[n]] = Doc!Bare[b.schemas[n]]
<1> DEFINE N(doc, p) == {x.name : x \in doc.ops[p].parameters}
           C(doc, p) == [c \in DOMAIN doc.ops[p].content |-> Doc!Bare[doc.ops[p].content[c]]]
           O(doc) == [p \in DOMAIN doc.ops |-> [parameters |-> N(doc, p), content |-> C(doc, p)]]
           S(doc) == [n \in DOMAIN doc.schemas |-> Doc!Bare[doc.schemas[n]]]
<1>1. ASSUME NEW doc PROVE Doc!BareDoc(doc).ops = O(doc) /\ Doc!BareDoc(doc).schemas = S(doc)
  BY DEF Doc!BareDoc
<1>2. O(a) = O(b) /\ S(a) = S(b)
  <2> HIDE DEF O, S
  <2> QED
    BY <1>1
<1>3. ASSUME NEW doc PROVE DOMAIN S(doc) = DOMAIN doc.schemas /\ \A n \in DOMAIN doc.schemas : S(doc)[n] = Doc!Bare[doc.schemas[n]]
  OBVIOUS
<1>4. ASSUME NEW doc, NEW p
      PROVE  DOMAIN C(doc, p) = DOMAIN doc.ops[p].content
             /\ \A c \in DOMAIN doc.ops[p].content : C(doc, p)[c] = Doc!Bare[doc.ops[p].content[c]]
  OBVIOUS
<1> HIDE DEF S, C, N
<1>5. ASSUME NEW doc
      PROVE  /\ DOMAIN O(doc) = DOMAIN doc.ops
             /\ \A p \in DOMAIN doc.ops : O(doc)[p].parameters = N(doc, p) /\ O(doc)[p].content = C(doc, p)
  OBVIOUS
<1> HIDE DEF O
<1>6. DOMAIN a.ops = DOMAIN b.ops
  BY <1>2, <1>5
<1>7. ASSUME NEW p \in DOMAIN a.ops PROVE N(a, p) = N(b, p) /\ C(a, p) = C(b, p)
  BY <1>2, <1>5, <1>6
<1>8. ASSUME NEW p \in DOMAIN a.ops
      PROVE  /\ DOMAIN a.ops[p].content = DOMAIN b.ops[p].content
             /\ \A c \in DOMAIN a.ops[p].content : Doc!Bare[a.ops[p].content[c]] = Doc!Bare[b.ops[p].content[c]]
  BY <1>4, <1>7
<1>9. DOMAIN a.schemas = DOMAIN b.schemas /\ \A n \in DOMAIN a.schemas : Doc!Bare[a.schemas[n]] = Doc!Bare[b.schemas[n]]
  BY <1>2, <1>3
<1> QED
  BY <1>6, <1>7, <1>8, <1>9 DEF N

LEMMA DocValuesStep ==
  ASSUME Doc!OpenApiAssumption, NEW a, Doc!IsDocument(a), NEW b, Doc!IsDocument(b), Doc!BareDoc(a) = Doc!BareDoc(b),
         Doc!AllRefs(a), Doc!AllRefs(b), NEW n \in Doc!KeyDiff(a, b)
  PROVE  n \in Doc!DirectRefs(a) \union Doc!DirectRefs(b) /\ n \notin DOMAIN a.schemas /\ n \notin DOMAIN b.schemas
<1>1. /\ DOMAIN a.ops = DOMAIN b.ops
      /\ \A p \in DOMAIN a.ops :
           /\ {x.name : x \in a.ops[p].parameters} = {x.name : x \in b.ops[p].parameters}
           /\ DOMAIN a.ops[p].content = DOMAIN b.ops[p].content
           /\ \A c \in DOMAIN a.ops[p].content : Doc!Bare[a.ops[p].content[c]] = Doc!Bare[b.ops[p].content[c]]
      /\ DOMAIN a.schemas = DOMAIN b.schemas /\ \A m \in DOMAIN a.schemas : Doc!Bare[a.schemas[m]] = Doc!Bare[b.schemas[m]]
  BY DocBareDocIs
<1>2. ASSUME NEW p \in DOMAIN a.ops PROVE Doc!KeyPaths(a)[p] = Doc!KeyPaths(b)[p]
  <2>1. ASSUME NEW c \in DOMAIN a.ops[p].content PROVE a.ops[p].content[c] = b.ops[p].content[c]
    <3>1. p \in DOMAIN b.ops /\ c \in DOMAIN b.ops[p].content
      BY <1>1
    <3>2. a.ops[p].content[c] \in Doc!AllSchemas /\ b.ops[p].content[c] \in Doc!AllSchemas
      BY <3>1, DocOperation
    <3>3. Doc!Bare[a.ops[p].content[c]] = Doc!Bare[b.ops[p].content[c]]
      BY <1>1
    <3>4. a.ops[p].content[c].kind \in {"ref", "shared"}
      BY DEF Doc!AllRefs
    <3> QED
      BY <3>2, <3>3, <3>4, DocSameBare
  <2>2. Doc!ContentView(a.ops[p]) = Doc!ContentView(b.ops[p])
    BY <1>1, <2>1 DEF Doc!ContentView
  <2>3. p \in DOMAIN b.ops /\ DocNames(a.ops[p]) = DocNames(b.ops[p])
    BY <1>1 DEF DocNames
  <2> QED
    BY <2>2, <2>3, DocKeyPathsOf
<1>3. Doc!Changed(Doc!KeyPaths(a), Doc!KeyPaths(b)) = {}
  BY <1>1, <1>2, DocKeyPathsOf DEF Doc!Changed
<1>4. ASSUME NEW m \in DOMAIN a.schemas PROVE Doc!LeafPaths(a.schemas, a.schemas[m]) = Doc!LeafPaths(b.schemas, b.schemas[m])
  <2>1. DocSchemas(a.schemas) /\ DocSchemas(b.schemas)
    BY DocSchemasOf
  <2>2. a.schemas[m] \in Doc!AllSchemas /\ b.schemas[m] \in Doc!AllSchemas
    BY <1>1, <2>1 DEF DocSchemas
  <2>3. DocBareDocs(a.schemas, b.schemas)
    BY <1>1, <2>1 DEF DocBareDocs
  <2> QED
    BY <1>1, <2>2, <2>3, DocSameFields
<1> QED
  BY <1>1, <1>3, <1>4, DocDiffs

LEMMA DocViews ==
  ASSUME Doc!OpenApiAssumption, Doc!TypeOK
  PROVE  Doc!ViewsNest /\ Doc!ValuesAreIgnored
<1>1. Doc!IsDocument(docLive) /\ Doc!IsDocument(docYaml)
  BY DEF Doc!TypeOK
<1>2. Doc!KeyDiff(docLive, docYaml) \subseteq Doc!SemanticDiff(docLive, docYaml)
  BY <1>1, DocKeysNest
<1>3. ASSUME Doc!Contract(docLive) = Doc!Contract(docYaml), NEW n \in Doc!SemanticDiff(docLive, docYaml) PROVE n \in Doc!Dangling
  BY <1>1, <1>3, DocContractNests DEF Doc!Dangling
<1>4. ASSUME Doc!BareDoc(docLive) = Doc!BareDoc(docYaml), Doc!AllRefs(docLive), Doc!AllRefs(docYaml), NEW n \in Doc!KeyDiff(docLive, docYaml)
      PROVE  n \in Doc!Dangling
  BY <1>1, <1>4, DocValuesStep DEF Doc!Dangling
<1>5. Doc!ViewsNest
  BY <1>2, <1>3 DEF Doc!ViewsNest
<1>6. Doc!ValuesAreIgnored
  BY <1>4 DEF Doc!ValuesAreIgnored
<1> QED
  BY <1>5, <1>6

(***************************************************************************)
(* The chains of field names that a client meets.                          *)
(***************************************************************************)
Words(S) == Seq(S)
Word(f) == <<f>>

\* The words that others begin with, and the empty one.
Openings(S, E) == {<<>>} \union {c \in Words(S) : \E e \in E : \E d \in Words(S) : e = c \o d}
After(p, E) == {p \o e : e \in E}
\* An empty set of words stands for the empty one alone.
OrEmpty(E) == IF E = {} THEN {<<>>} ELSE E

LEMMA WordIs == ASSUME NEW S, NEW f \in S PROVE Word(f) \in Seq(S) /\ Len(Word(f)) = 1 /\ Word(f)[1] = f /\ Word(f) # <<>>
<1>1. Word(f) \in Seq(S) /\ Len(Word(f)) = 1 /\ Word(f)[1] = f
  BY DEF Word
<1>2. Word(f) # <<>>
  BY DEF Word
<1> QED
  BY <1>1, <1>2

LEMMA WordsAre ==
  ASSUME NEW S
  PROVE  /\ <<>> \in Words(S) /\ \A f \in S : Word(f) \in Words(S) /\ Word(f) # <<>>
         /\ \A c \in Words(S) : \A f \in S : Append(c, f) = c \o Word(f) /\ Append(c, f) \in Words(S) /\ Append(c, f) # <<>>
<1>1. <<>> \in Words(S) /\ \A f \in S : Word(f) \in Words(S) /\ Word(f) # <<>>
  BY WordIs, EmptySeq DEF Words
<1>2. \A c \in Words(S) : \A f \in S : Append(c, f) = c \o Word(f) /\ Append(c, f) \in Words(S) /\ Append(c, f) # <<>>
  BY AppendIsConcat, AppendProperties DEF Words, Word
<1> QED
  BY <1>1, <1>2

LEMMA WordsJoin ==
  ASSUME NEW S, NEW c \in Words(S), NEW d \in Words(S)
  PROVE  c \o d \in Words(S) /\ c \o <<>> = c /\ <<>> \o c = c
BY ConcatProperties, ConcatEmptySeq DEF Words

LEMMA WordsRegroup ==
  ASSUME NEW S, NEW c \in Words(S), NEW d \in Words(S), NEW e \in Words(S)
  PROVE  (c \o d) \o e = c \o (d \o e)
BY ConcatAssociative DEF Words

WordGoesOn(f, e, c, d) == c = Word(f) \o Tail(c) /\ e = Tail(c) \o d

\* A word that a longer one begins with and that is not empty begins as this does.
LEMMA WordBegins ==
  ASSUME NEW S, NEW f \in S, NEW e \in Words(S), NEW c \in Words(S), NEW d \in Words(S), Word(f) \o e = c \o d, c # <<>>
  PROVE  Tail(c) \in Words(S) /\ WordGoesOn(f, e, c, d)
<1> DEFINE t == Tail(c)
<1>1. t \in Words(S) /\ Len(t) = Len(c) - 1 /\ Len(c) \in Nat \ {0} /\ \A i \in 1..Len(t) : t[i] = c[i + 1]
  BY HeadTailProperties, EmptySeq DEF Words
<1>2. /\ Word(f) \o e \in Words(S) /\ Len(Word(f) \o e) = 1 + Len(e)
      /\ \A i \in 1..1 + Len(e) : (Word(f) \o e)[i] = IF i <= 1 THEN f ELSE e[i - 1]
  <2>1. /\ Word(f) \o e \in Words(S) /\ Len(Word(f) \o e) = Len(Word(f)) + Len(e)
        /\ \A i \in 1..Len(Word(f)) + Len(e) : (Word(f) \o e)[i] = IF i <= Len(Word(f)) THEN Word(f)[i] ELSE e[i - Len(Word(f))]
    BY WordIs, ConcatProperties DEF Words
  <2>2. \A i \in 1..1 + Len(e) : i <= 1 => i = 1
    OBVIOUS
  <2> QED
    BY <2>1, <2>2, WordIs
<1>3. /\ c \o d \in Words(S) /\ Len(c \o d) = Len(c) + Len(d)
      /\ \A i \in 1..Len(c) + Len(d) : (c \o d)[i] = IF i <= Len(c) THEN c[i] ELSE d[i - Len(c)]
  BY ConcatProperties DEF Words
<1>4. Len(e) \in Nat /\ Len(d) \in Nat /\ 1 + Len(e) = Len(c) + Len(d)
  BY <1>2, <1>3, LenProperties DEF Words
<1>5. /\ Word(f) \o t \in Words(S) /\ Len(Word(f) \o t) = 1 + Len(t)
      /\ \A i \in 1..1 + Len(t) : (Word(f) \o t)[i] = IF i <= 1 THEN f ELSE t[i - 1]
  <2> HIDE DEF t
  <2>1. /\ Word(f) \o t \in Words(S) /\ Len(Word(f) \o t) = Len(Word(f)) + Len(t)
        /\ \A i \in 1..Len(Word(f)) + Len(t) : (Word(f) \o t)[i] = IF i <= Len(Word(f)) THEN Word(f)[i] ELSE t[i - Len(Word(f))]
    <3>1. Word(f) \in Seq(S) /\ t \in Seq(S)
      BY <1>1, WordIs DEF Words
    <3> QED
      BY <3>1, ConcatProperties DEF Words
  <2>2. \A i \in 1..1 + Len(t) : i <= 1 => i = 1
    OBVIOUS
  <2> QED
    BY <2>1, <2>2, WordIs
<1>6. /\ t \o d \in Words(S) /\ Len(t \o d) = Len(t) + Len(d)
      /\ \A i \in 1..Len(t) + Len(d) : (t \o d)[i] = IF i <= Len(t) THEN t[i] ELSE d[i - Len(t)]
  BY <1>1, ConcatProperties DEF Words
<1> DEFINE l == Len(c)
<1>7. c = Word(f) \o t
  <2>1. Len(c) = Len(Word(f) \o t)
    BY <1>1, <1>5
  <2>2. ASSUME NEW i \in 1..Len(c) PROVE c[i] = (Word(f) \o t)[i]
    <3> HIDE DEF t
    <3>0. i \in 1..1 + Len(t) /\ i \in 1..1 + Len(e) /\ i \in 1..Len(c) + Len(d)
      BY <1>1, <1>4, <2>2
    <3>1. i = 1 => c[i] = f
      <4>1. (c \o d)[i] = c[i]
        BY <1>3, <2>2, <3>0
      <4>2. i = 1 => (Word(f) \o e)[i] = f
        BY <1>2, <3>0
      <4> QED
        BY <4>1, <4>2
    <3>2. CASE i = 1
      BY <1>5, <3>0, <3>1, <3>2
    <3>3. CASE i # 1
      <4>1. i - 1 \in 1..Len(t) /\ i \in 1..1 + Len(t) /\ ~(i <= 1)
        BY <1>1, <3>3
      <4>2. t[i - 1] = c[(i - 1) + 1] /\ (i - 1) + 1 = i
        BY <1>1, <4>1
      <4> QED
        BY <1>5, <4>1, <4>2
    <3> QED
      BY <3>2, <3>3
  <2> QED
    BY <1>5, <2>1, <2>2, SeqEqual DEF Words
<1>8. e = t \o d
  <2>1. Len(e) = Len(t \o d)
    BY <1>1, <1>4, <1>6
  <2>2. ASSUME NEW i \in 1..Len(e) PROVE e[i] = (t \o d)[i]
    <3>1. i + 1 \in 1..1 + Len(e) /\ i + 1 \in 1..Len(c) + Len(d) /\ ~(i + 1 <= 1) /\ (i + 1) - 1 = i /\ i \in 1..Len(t) + Len(d)
      BY <1>1, <1>4, <2>2
    <3>2. e[i] = IF i + 1 <= Len(c) THEN c[i + 1] ELSE d[(i + 1) - Len(c)]
      <4>1. (Word(f) \o e)[i + 1] = e[i]
        BY <1>2, <3>1
      <4>2. (c \o d)[i + 1] = IF i + 1 <= Len(c) THEN c[i + 1] ELSE d[(i + 1) - Len(c)]
        BY <1>3, <3>1
      <4> QED
        BY <4>1, <4>2
    <3>3. CASE i <= Len(t)
      <4>1. i \in 1..Len(t) /\ i + 1 <= Len(c)
        BY <1>1, <3>3
      <4>2. t[i] = c[i + 1]
        BY <1>1, <4>1
      <4>3. (t \o d)[i] = t[i]
        BY <1>6, <3>1, <3>3
      <4> QED
        BY <3>2, <4>1, <4>2, <4>3
    <3>4. CASE ~(i <= Len(t))
      <4>1. ~(i + 1 <= Len(c)) /\ (i + 1) - Len(c) = i - Len(t)
        BY <1>1, <3>4
      <4>2. (t \o d)[i] = d[i - Len(t)]
        BY <1>6, <3>1, <3>4
      <4> QED
        BY <3>2, <4>1, <4>2
    <3> QED
      BY <3>3, <3>4
  <2> QED
    BY <1>6, <2>1, <2>2, SeqEqual DEF Words
<1> QED
  BY <1>1, <1>7, <1>8 DEF WordGoesOn

\* The words of an object: each of its names, and what may follow it.
Joined(names, E) == UNION {After(Word(f), OrEmpty(E[f])) : f \in names}

LEMMA JoinedHas ==
  ASSUME NEW names, NEW E, NEW w
  PROVE  w \in Joined(names, E) <=> \E f \in names : \E e \in OrEmpty(E[f]) : w = Word(f) \o e
BY DEF Joined, After

LEMMA JoinedIs ==
  ASSUME NEW S, NEW names, names \subseteq S, NEW E, \A f \in names : E[f] \subseteq Words(S), NEW prefix \in Words(S)
  PROVE  /\ Joined(names, E) \subseteq Words(S)
         /\ After(prefix, Joined(names, E)) = UNION {After(Append(prefix, f), OrEmpty(E[f])) : f \in names}
         /\ Openings(S, Joined(names, E)) = {<<>>} \union UNION {After(Word(f), Openings(S, E[f])) : f \in names}
<1>1. ASSUME NEW f \in names PROVE f \in S /\ OrEmpty(E[f]) \subseteq Words(S) /\ Openings(S, E[f]) \subseteq Words(S) /\ <<>> \in Openings(S, E[f])
  <2>1. <<>> \in Words(S)
    BY WordsAre
  <2> QED
    BY <2>1 DEF OrEmpty, Openings
<1>2. Joined(names, E) \subseteq Words(S)
  <2> SUFFICES ASSUME NEW w \in Joined(names, E) PROVE w \in Words(S)
    OBVIOUS
  <2>1. PICK f \in names : \E e \in OrEmpty(E[f]) : w = Word(f) \o e
    BY JoinedHas
  <2>2. PICK e \in OrEmpty(E[f]) : w = Word(f) \o e
    BY <2>1
  <2>3. e \in Words(S) /\ Word(f) \in Words(S)
    BY <1>1, WordsAre
  <2> QED
    BY <2>2, <2>3, WordsJoin
<1>3. ASSUME NEW f \in names, NEW e \in OrEmpty(E[f]) PROVE prefix \o (Word(f) \o e) = Append(prefix, f) \o e
  <2>1. f \in S /\ e \in Words(S)
    BY <1>1
  <2>2. Word(f) \in Words(S) /\ Append(prefix, f) = prefix \o Word(f)
    BY <2>1, WordsAre
  <2> QED
    BY <2>1, <2>2, WordsRegroup
<1>4. {prefix \o e : e \in Joined(names, E)} \subseteq UNION {{Append(prefix, f) \o e : e \in OrEmpty(E[f])} : f \in names}
  <2> SUFFICES ASSUME NEW w \in Joined(names, E)
               PROVE  prefix \o w \in UNION {{Append(prefix, f) \o e : e \in OrEmpty(E[f])} : f \in names}
    OBVIOUS
  <2>1. PICK f \in names : \E e \in OrEmpty(E[f]) : w = Word(f) \o e
    BY JoinedHas
  <2>2. PICK e \in OrEmpty(E[f]) : w = Word(f) \o e
    BY <2>1
  <2>3. prefix \o w \in {Append(prefix, f) \o x : x \in OrEmpty(E[f])}
    BY <1>3, <2>2
  <2> QED
    BY <2>3
<1>5. UNION {{Append(prefix, f) \o e : e \in OrEmpty(E[f])} : f \in names} \subseteq {prefix \o e : e \in Joined(names, E)}
  <2> SUFFICES ASSUME NEW x \in UNION {{Append(prefix, f) \o e : e \in OrEmpty(E[f])} : f \in names}
               PROVE  x \in {prefix \o w : w \in Joined(names, E)}
    OBVIOUS
  <2>1. PICK f \in names : \E e \in OrEmpty(E[f]) : x = Append(prefix, f) \o e
    OBVIOUS
  <2>2. PICK e \in OrEmpty(E[f]) : x = Append(prefix, f) \o e
    BY <2>1
  <2>3. Word(f) \o e \in Joined(names, E)
    BY JoinedHas
  <2>4. prefix \o (Word(f) \o e) = Append(prefix, f) \o e
    BY <1>3
  <2> QED
    BY <2>2, <2>3, <2>4
<1>6. ASSUME NEW c \in Openings(S, Joined(names, E)), c # <<>> PROVE c \in UNION {{Word(f) \o x : x \in Openings(S, E[f])} : f \in names}
  <2>1. PICK w \in Joined(names, E) : c \in Words(S) /\ \E d \in Words(S) : w = c \o d
    BY <1>6 DEF Openings
  <2>2. PICK d \in Words(S) : w = c \o d
    BY <2>1
  <2>3. PICK f \in names : \E e \in OrEmpty(E[f]) : w = Word(f) \o e
    BY JoinedHas
  <2>4. PICK e \in OrEmpty(E[f]) : w = Word(f) \o e
    BY <2>3
  <2>5. e \in Words(S) /\ f \in S
    BY <1>1
  <2>6. PICK t \in Words(S) : c = Word(f) \o t /\ e = t \o d
    <3>1. c \in Words(S) /\ Word(f) \o e = c \o d /\ c # <<>>
      BY <1>6, <2>1, <2>2, <2>4
    <3>2. f \in S /\ e \in Words(S) /\ d \in Words(S)
      BY <2>2, <2>5
    <3>3. Tail(c) \in Words(S) /\ WordGoesOn(f, e, c, d)
      BY <3>1, <3>2, WordBegins
    <3> QED
      BY <3>3 DEF WordGoesOn
  <2>7. t \in Openings(S, E[f])
    <3>1. CASE E[f] = {}
      <4>1. t \o d = <<>>
        BY <2>6, <3>1 DEF OrEmpty
      <4>2. t = <<>>
        BY <4>1, ConcatEqualIffEmpty DEF Words
      <4> QED
        BY <4>2 DEF Openings
    <3>2. CASE E[f] # {}
      <4>1. e \in E[f]
        BY <3>2 DEF OrEmpty
      <4> QED
        BY <2>6, <4>1 DEF Openings
    <3> QED
      BY <3>1, <3>2
  <2>8. c \in {Word(f) \o x : x \in Openings(S, E[f])}
    BY <2>6, <2>7
  <2> QED
    BY <2>8
<1>7. ASSUME NEW f \in names, NEW t \in Openings(S, E[f]) PROVE Word(f) \o t \in Openings(S, Joined(names, E))
  <2>0. t \in Words(S) /\ f \in S
    BY <1>1
  <2>1. t \in Words(S) /\ f \in S /\ Word(f) \in Words(S) /\ Word(f) \o t \in Words(S)
    BY <2>0, WordsAre, WordsJoin
  <2>2. \E e \in OrEmpty(E[f]) : \E d \in Words(S) : e = t \o d
    <3>1. CASE t = <<>>
      <4>1. PICK e : e \in OrEmpty(E[f])
        BY DEF OrEmpty
      <4>2. e \in Words(S) /\ e = <<>> \o e
        BY <1>1, <4>1, WordsJoin
      <4> QED
        BY <3>1, <4>1, <4>2
    <3>2. CASE t # <<>>
      BY <3>2 DEF Openings, OrEmpty
    <3> QED
      BY <3>1, <3>2
  <2>3. PICK e \in OrEmpty(E[f]) : \E d \in Words(S) : e = t \o d
    BY <2>2
  <2>4. PICK d \in Words(S) : e = t \o d
    BY <2>3
  <2>5. Word(f) \o e \in Joined(names, E)
    BY <2>3, JoinedHas
  <2>6. Word(f) \o e = (Word(f) \o t) \o d
    <3>1. (Word(f) \o t) \o d = Word(f) \o (t \o d)
      BY <2>1, WordsRegroup
    <3> QED
      BY <2>4, <3>1
  <2> QED
    BY <2>1, <2>5, <2>6 DEF Openings
<1>8. Openings(S, Joined(names, E)) = {<<>>} \union UNION {{Word(f) \o c : c \in Openings(S, E[f])} : f \in names}
  <2>1. <<>> \in Openings(S, Joined(names, E))
    BY DEF Openings
  <2>2. ASSUME NEW c \in UNION {{Word(f) \o x : x \in Openings(S, E[f])} : f \in names} PROVE c \in Openings(S, Joined(names, E))
    <3>1. PICK f \in names : \E x \in Openings(S, E[f]) : c = Word(f) \o x
      BY <2>2
    <3> QED
      BY <1>7, <3>1
  <2> QED
    BY <1>6, <2>1, <2>2
<1> QED
  BY <1>2, <1>4, <1>5, <1>8 DEF After

DocStrings == STRING
DocChainsOf(schemas, chains, k, s) ==
  IF k = 0 THEN {<<>>}
  ELSE CASE s.kind = "ref" /\ s.to \in DOMAIN schemas -> chains[k - 1][schemas[s.to]]
         [] s.kind = "array"  -> chains[k - 1][s.items]
         [] s.kind = "object" -> {<<>>} \union UNION {After(Word(f), chains[k - 1][s.props[f]]) : f \in DOMAIN s.props}
         [] OTHER -> {<<>>}
DocAreChains(schemas, depth, chains) == chains = [k \in 0..depth |-> [s \in Doc!AllSchemas |-> DocChainsOf(schemas, chains, k, s)]]
DocChains(schemas, depth) == CHOOSE chains : DocAreChains(schemas, depth, chains)

LEMMA DocChainsAgree ==
  ASSUME Doc!OpenApiAssumption, NEW schemas, DocSchemas(schemas), NEW depth \in Nat, NEW k \in 0..depth, NEW s \in Doc!AllSchemas,
         NEW a, NEW b, \A j \in 0..depth : j < k => \A x \in Doc!AllSchemas : a[j][x] = b[j][x]
  PROVE  DocChainsOf(schemas, a, k, s) = DocChainsOf(schemas, b, k, s)
<1>1. CASE k = 0
  BY <1>1 DEF DocChainsOf
<1>2. CASE k > 0
  <2>1. k - 1 \in 0..depth /\ k - 1 < k
    BY <1>2
  <2>2. \A x \in Doc!AllSchemas : a[k - 1][x] = b[k - 1][x]
    BY <2>1
  <2>3. CASE s.kind = "ref"
    <3>1. s.to \in DOMAIN schemas => schemas[s.to] \in Doc!AllSchemas
      BY DEF DocSchemas
    <3>2. s.to \in DOMAIN schemas => a[k - 1][schemas[s.to]] = b[k - 1][schemas[s.to]]
      BY <2>2, <3>1
    <3> QED
      BY <1>2, <2>3, <3>2 DEF DocChainsOf
  <2>4. CASE s.kind = "array"
    <3>1. a[k - 1][s.items] = b[k - 1][s.items]
      BY <2>2, <2>4, DocInside
    <3> QED
      BY <1>2, <2>4, <3>1 DEF DocChainsOf
  <2>5. CASE s.kind = "object"
    <3> DEFINE A(f) == After(Word(f), a[k - 1][s.props[f]])
               B(f) == After(Word(f), b[k - 1][s.props[f]])
    <3>1. ASSUME NEW f \in DOMAIN s.props PROVE A(f) = B(f)
      <4>1. a[k - 1][s.props[f]] = b[k - 1][s.props[f]]
        BY <2>2, <2>5, DocInside
      <4> QED
        BY <4>1
    <3>2. /\ DocChainsOf(schemas, a, k, s) = {<<>>} \union UNION {A(f) : f \in DOMAIN s.props}
          /\ DocChainsOf(schemas, b, k, s) = {<<>>} \union UNION {B(f) : f \in DOMAIN s.props}
      BY <1>2, <2>5 DEF DocChainsOf
    <3> HIDE DEF A, B
    <3>3. {A(f) : f \in DOMAIN s.props} = {B(f) : f \in DOMAIN s.props}
      BY <3>1
    <3> QED
      BY <3>2, <3>3
  <2>6. CASE s.kind \notin {"ref", "array", "object"}
    BY <1>2, <2>6 DEF DocChainsOf
  <2> QED
    BY <2>3, <2>4, <2>5, <2>6
<1> QED
  BY <1>1, <1>2

LEMMA DocChainsExist ==
  ASSUME Doc!OpenApiAssumption, NEW schemas, DocSchemas(schemas), NEW depth \in Nat
  PROVE  DocAreChains(schemas, depth, DocChains(schemas, depth))
<1> DEFINE Upto(n, f) == \A k \in 0..depth : k < n => \A s \in Doc!AllSchemas : f[k][s] = DocChainsOf(schemas, f, k, s)
           T == {n \in Nat : \E f : Upto(n, f)}
           Step(f) == [k \in 0..depth |-> [s \in Doc!AllSchemas |-> DocChainsOf(schemas, f, k, s)]]
<1>1. 0 \in T
  <2>1. Upto(0, [k \in 0..depth |-> {}])
    OBVIOUS
  <2> QED
    BY <2>1
<1>2. ASSUME NEW n \in T PROVE n + 1 \in T
  <2>1. PICK f : Upto(n, f)
    BY <1>2
  <2>2. ASSUME NEW k \in 0..depth, k < n + 1, NEW s \in Doc!AllSchemas PROVE Step(f)[k][s] = DocChainsOf(schemas, Step(f), k, s)
    <3>1. ASSUME NEW j \in 0..depth, j < k, NEW x \in Doc!AllSchemas PROVE Step(f)[j][x] = f[j][x]
      <4>1. j < n
        BY <2>2, <3>1
      <4> QED
        BY <2>1, <4>1
    <3>2. DocChainsOf(schemas, Step(f), k, s) = DocChainsOf(schemas, f, k, s)
      <4> DEFINE g == Step(f)
      <4>1. \A j \in 0..depth : j < k => \A x \in Doc!AllSchemas : g[j][x] = f[j][x]
        BY <3>1
      <4> HIDE DEF g, T, Upto, Step
      <4>2. DocChainsOf(schemas, g, k, s) = DocChainsOf(schemas, f, k, s)
        BY <4>1, DocChainsAgree
      <4> QED
        BY <4>2 DEF g
    <3> QED
      BY <3>2
  <2>3. Upto(n + 1, Step(f))
    BY <2>2
  <2>4. \E g : Upto(n + 1, g)
    <3> HIDE DEF Upto, Step
    <3> QED
      BY <2>3
  <2> HIDE DEF Upto
  <2> QED
    BY <2>4
<1>3. depth + 1 \in T
  <2>1. T \in SUBSET Nat /\ depth + 1 \in Nat
    OBVIOUS
  <2> HIDE DEF T
  <2> QED
    BY <1>1, <1>2, <2>1, DocAllNumbers
<1>4. PICK f : Upto(depth + 1, f)
  BY <1>3
<1>5. \A k \in 0..depth : \A s \in Doc!AllSchemas : f[k][s] = DocChainsOf(schemas, f, k, s)
  BY <1>4
<1>6. ASSUME NEW k \in 0..depth, NEW s \in Doc!AllSchemas PROVE DocChainsOf(schemas, Step(f), k, s) = DocChainsOf(schemas, f, k, s)
  <2>1. \A j \in 0..depth : \A x \in Doc!AllSchemas : Step(f)[j][x] = f[j][x]
    BY <1>5
  <2> HIDE DEF Step
  <2> QED
    BY <2>1, DocChainsAgree
<1>7. DocAreChains(schemas, depth, Step(f))
  <2> DEFINE g == Step(f)
  <2>1. g = [k \in 0..depth |-> [s \in Doc!AllSchemas |-> DocChainsOf(schemas, f, k, s)]]
    OBVIOUS
  <2>2. \A k \in 0..depth : \A s \in Doc!AllSchemas : DocChainsOf(schemas, g, k, s) = DocChainsOf(schemas, f, k, s)
    BY <1>6
  <2> HIDE DEF g
  <2>3. g = [k \in 0..depth |-> [s \in Doc!AllSchemas |-> DocChainsOf(schemas, g, k, s)]]
    BY <2>1, <2>2
  <2>4. DocAreChains(schemas, depth, g)
    BY <2>3 DEF DocAreChains
  <2> QED
    BY <2>4 DEF g
<1> HIDE DEF Step
<1> QED
  BY <1>7 DEF DocChains

LEMMA DocChainsAre ==
  ASSUME Doc!OpenApiAssumption, NEW schemas, DocSchemas(schemas), NEW depth \in Nat
  PROVE  /\ \A k \in 0..depth : \A s \in Doc!AllSchemas :
              DocChains(schemas, depth)[k][s] = DocChainsOf(schemas, DocChains(schemas, depth), k, s)
         /\ \A s : Doc!Chains(schemas, s, depth) = DocChains(schemas, depth)[depth][s]
<1>1. \A k \in 0..depth : \A s \in Doc!AllSchemas :
        DocChains(schemas, depth)[k][s] = DocChainsOf(schemas, DocChains(schemas, depth), k, s)
  <2> DEFINE p == DocChains(schemas, depth)
  <2>1. p = [k \in 0..depth |-> [s \in Doc!AllSchemas |-> DocChainsOf(schemas, p, k, s)]]
    BY DocChainsExist DEF DocAreChains
  <2> HIDE DEF p
  <2>2. \A k \in 0..depth : \A s \in Doc!AllSchemas : p[k][s] = DocChainsOf(schemas, p, k, s)
    BY <2>1
  <2> QED
    BY <2>2 DEF p
<1>2. ASSUME NEW t PROVE Doc!Chains(schemas, t, depth) = DocChains(schemas, depth)[depth][t]
  BY DEF Doc!Chains, DocChains, DocAreChains, DocChainsOf, Word, After
<1> QED
  BY <1>1, <1>2

\* The references inside a schema.
LEMMA DocRefsIn ==
  ASSUME Doc!OpenApiAssumption, NEW s \in Doc!AllSchemas
  PROVE  /\ s.kind = "ref" => Doc!Refs[s] = {s.to}
         /\ s.kind = "array" => Doc!Refs[s.items] \subseteq Doc!Refs[s]
         /\ s.kind = "object" => \A f \in DOMAIN s.props : Doc!Refs[s.props[f]] \subseteq Doc!Refs[s]
<1> DEFINE R == Doc!Refs
<1>1. R[s] = DocRefsOf(R, s)
  BY DocRefsAre
<1> HIDE DEF R
<1>2. s.kind # "ref" => \A x \in Doc!Inside(s) : R[x] \subseteq R[s]
  BY <1>1 DEF DocRefsOf
<1>3. s.kind = "ref" => R[s] = {s.to}
  BY <1>1 DEF DocRefsOf
<1>4. s.kind = "array" => s.items \in Doc!Inside(s)
  BY DEF Doc!Inside
<1>5. s.kind = "object" => \A f \in DOMAIN s.props : s.props[f] \in Doc!Inside(s)
  BY DEF Doc!Inside
<1> QED
  BY <1>2, <1>3, <1>4, <1>5 DEF R

(* A ranking of the components that a schema leads to.  A call that has seen none of lower rank than b, and whose
   schema leads to such only, has met everything within k levels. *)
DocRanked(schemas, led, rank) ==
  /\ led \subseteq DOMAIN schemas /\ rank \in [led -> Nat]
  /\ \A n \in led : \A m \in Doc!Refs[schemas[n]] \intersect DOMAIN schemas : m \in led /\ rank[m] < rank[n]
DocReady(schemas, led, rank, b, k, call) ==
  /\ \A n \in Doc!Refs[call.schema] \intersect DOMAIN schemas : n \in led /\ rank[n] < b
  /\ \A n \in call.seen \intersect led : b <= rank[n]
  /\ b * (Height + 1) + Nesting[call.schema] < k
DocMeets(schemas, depth, k, call) ==
  \E E \in SUBSET Words(DocStrings) :
    /\ DocPaths(schemas)[call] = After(call.prefix, E)
    /\ DocChains(schemas, depth)[k][call.schema] = Openings(DocStrings, E)

LEMMA DocMeetsEnd ==
  ASSUME Doc!OpenApiAssumption, NEW schemas, NEW depth, NEW k, NEW call \in Doc!Calls,
         DocPaths(schemas)[call] = IF call.prefix = <<>> THEN {} ELSE {call.prefix},
         DocChains(schemas, depth)[k][call.schema] = {<<>>}
  PROVE  DocMeets(schemas, depth, k, call)
<1>1. call.prefix \in Words(DocStrings) /\ <<>> \in Words(DocStrings)
  BY DocKinds, WordsAre DEF Words, DocStrings
<1>2. CASE call.prefix = <<>>
  <2>1. {} \in SUBSET Words(DocStrings) /\ Openings(DocStrings, {}) = {<<>>} /\ After(call.prefix, {}) = {}
    BY DEF Openings, After
  <2> QED
    BY <1>2, <2>1 DEF DocMeets
<1>3. CASE call.prefix # <<>>
  <2> DEFINE E == {<<>>}
  <2>1. After(call.prefix, E) = {call.prefix}
    <3>1. call.prefix \o <<>> = call.prefix
      BY <1>1, WordsJoin
    <3> QED
      BY <3>1 DEF After
  <2>2. Openings(DocStrings, E) = {<<>>}
    <3>1. \A c \in Words(DocStrings) : \A d \in Words(DocStrings) : c \o d = <<>> <=> c = <<>> /\ d = <<>>
      BY ConcatEqualIffEmpty DEF Words
    <3>2. \A c \in Words(DocStrings) : \A d \in Words(DocStrings) : <<>> = c \o d => c = <<>>
      BY <3>1
    <3> QED
      BY <3>2 DEF Openings
  <2>3. E \in SUBSET Words(DocStrings)
    BY <1>1
  <2> HIDE DEF E
  <2> QED
    BY <1>3, <2>1, <2>2, <2>3 DEF DocMeets
<1> QED
  BY <1>2, <1>3

LEMMA DocMeetsOn ==
  ASSUME NEW schemas, NEW depth, NEW k, NEW call, NEW next, DocMeets(schemas, depth, k - 1, next), next.prefix = call.prefix,
         DocPaths(schemas)[call] = DocPaths(schemas)[next],
         DocChains(schemas, depth)[k][call.schema] = DocChains(schemas, depth)[k - 1][next.schema]
  PROVE  DocMeets(schemas, depth, k, call)
BY DEF DocMeets

LEMMA DocMeetsObject ==
  ASSUME Doc!OpenApiAssumption, NEW schemas, DocSchemas(schemas), NEW depth \in Nat, NEW k \in 1..depth, NEW call \in Doc!Calls,
         call.schema.kind = "object",
         \A f \in DOMAIN call.schema.props : DocMeets(schemas, depth, k - 1, Doc!IntoField(call, f))
  PROVE  DocMeets(schemas, depth, k, call)
<1> DEFINE names == DOMAIN call.schema.props
           paths == DocPaths(schemas)
           chains == DocChains(schemas, depth)
           Next(f) == Doc!IntoField(call, f)
           E == [f \in names |-> CHOOSE e \in SUBSET Words(DocStrings) :
                                   /\ paths[Next(f)] = After(Next(f).prefix, e)
                                   /\ chains[k - 1][Next(f).schema] = Openings(DocStrings, e)]
<1>1. ASSUME NEW f \in names
      PROVE  /\ E[f] \in SUBSET Words(DocStrings) /\ paths[Next(f)] = After(Next(f).prefix, E[f])
             /\ chains[k - 1][Next(f).schema] = Openings(DocStrings, E[f])
  <2>1. DocMeets(schemas, depth, k - 1, Next(f))
    OBVIOUS
  <2> HIDE DEF Next, paths, chains
  <2>2. \E e \in SUBSET Words(DocStrings) :
          paths[Next(f)] = After(Next(f).prefix, e) /\ chains[k - 1][Next(f).schema] = Openings(DocStrings, e)
    BY <2>1 DEF DocMeets, paths, chains
  <2> QED
    BY <2>2
<1>2. ASSUME NEW f \in names PROVE Next(f).prefix = Append(call.prefix, f) /\ Next(f).schema = call.schema.props[f] /\ f \in DocStrings
  BY DocField DEF DocStrings
<1> HIDE DEF E, Next, paths, chains
<1>3. names \subseteq DocStrings /\ call.prefix \in Words(DocStrings) /\ \A f \in names : E[f] \subseteq Words(DocStrings)
  BY <1>1, <1>2, DocKinds DEF Words, DocStrings
<1> DEFINE J == Joined(names, E)
<1>4. /\ J \subseteq Words(DocStrings)
      /\ After(call.prefix, J) = UNION {After(Append(call.prefix, f), OrEmpty(E[f])) : f \in names}
      /\ Openings(DocStrings, J) = {<<>>} \union UNION {After(Word(f), Openings(DocStrings, E[f])) : f \in names}
  <2> HIDE DEF names
  <2> QED
    BY <1>3, JoinedIs
<1>5. paths[call] = After(call.prefix, J)
  <2> DEFINE A(f) == After(Append(call.prefix, f), OrEmpty(E[f]))
             B(f) == DocBelow(paths, call, f)
  <2>1. ASSUME NEW f \in names PROVE A(f) = B(f)
    <3>1. B(f) = IF paths[Next(f)] = {} THEN {Append(call.prefix, f)} ELSE paths[Next(f)]
      BY DEF DocBelow, Next
    <3>2. paths[Next(f)] = After(Append(call.prefix, f), E[f])
      BY <1>1, <1>2
    <3>3. CASE E[f] = {}
      <4>1. Append(call.prefix, f) \in Words(DocStrings)
        BY <1>2, <1>3, WordsAre
      <4>2. Append(call.prefix, f) \o <<>> = Append(call.prefix, f)
        BY <4>1, WordsJoin
      <4>3. A(f) = {Append(call.prefix, f) \o <<>>}
        BY <3>3 DEF OrEmpty, After
      <4>4. paths[Next(f)] = {}
        BY <3>2, <3>3 DEF After
      <4> QED
        BY <3>1, <4>2, <4>3, <4>4
    <3>4. CASE E[f] # {}
      <4>1. paths[Next(f)] # {}
        BY <3>2, <3>4 DEF After
      <4>2. A(f) = After(Append(call.prefix, f), E[f])
        BY <3>4 DEF OrEmpty
      <4> QED
        BY <3>1, <3>2, <4>1, <4>2
    <3> QED
      BY <3>3, <3>4
  <2>2. paths[call] = UNION {B(f) : f \in names}
    <3>1. paths[call] = DocPathsOf(schemas, paths, call)
      BY DocPathsAre DEF paths
    <3>2. ~Doc!Followed(schemas, call.schema, call.seen)
      BY DEF Doc!Followed
    <3> QED
      BY <3>1, <3>2 DEF DocPathsOf
  <2> HIDE DEF A, B
  <2>3. {A(f) : f \in names} = {B(f) : f \in names}
    BY <2>1
  <2>4. After(call.prefix, J) = UNION {A(f) : f \in names}
    BY <1>4 DEF A
  <2> QED
    BY <2>2, <2>3, <2>4
<1>6. chains[k][call.schema] = Openings(DocStrings, J)
  <2> DEFINE A(f) == After(Word(f), chains[k - 1][call.schema.props[f]])
             B(f) == After(Word(f), Openings(DocStrings, E[f]))
  <2>1. ASSUME NEW f \in names PROVE A(f) = B(f)
    BY <1>1, <1>2
  <2>2. chains[k][call.schema] = {<<>>} \union UNION {A(f) : f \in names}
    <3>1. chains[k][call.schema] = DocChainsOf(schemas, chains, k, call.schema)
      <4>1. k \in 0..depth
        OBVIOUS
      <4> QED
        BY <4>1, DocChainsAre, DocKinds DEF chains
    <3>2. k > 0 /\ k # 0 /\ call.schema.kind = "object"
      OBVIOUS
    <3> QED
      BY <3>1, <3>2 DEF DocChainsOf
  <2> HIDE DEF A, B
  <2>3. {A(f) : f \in names} = {B(f) : f \in names}
    BY <2>1
  <2>4. Openings(DocStrings, J) = {<<>>} \union UNION {B(f) : f \in names}
    BY <1>4 DEF B
  <2> QED
    BY <2>2, <2>3, <2>4
<1> HIDE DEF J
<1> QED
  BY <1>4, <1>5, <1>6 DEF DocMeets, paths, chains

\* What is inside the schema of a call that is ready is ready one level further on.
LEMMA DocReadyInside ==
  ASSUME Doc!OpenApiAssumption, NEW schemas, NEW led, NEW rank, NEW b \in Nat, NEW k \in Nat, NEW call \in Doc!Calls, NEW next \in Doc!Calls,
         DocReady(schemas, led, rank, b, k, call), next.seen = call.seen,
         Doc!Refs[next.schema] \subseteq Doc!Refs[call.schema], Nesting[next.schema] < Nesting[call.schema]
  PROVE  DocReady(schemas, led, rank, b, k - 1, next)
<1>1. \A n \in Doc!Refs[next.schema] \intersect DOMAIN schemas : n \in led /\ rank[n] < b
  BY DEF DocReady
<1>2. \A n \in next.seen \intersect led : b <= rank[n]
  BY DEF DocReady
<1>3. b * (Height + 1) + Nesting[next.schema] < k - 1
  <2>1. Height \in Nat /\ Nesting[call.schema] \in Nat /\ Nesting[next.schema] \in Nat
    <3>1. call.schema \in Doc!AllSchemas /\ next.schema \in Doc!AllSchemas
      BY DocKinds
    <3> QED
      BY <3>1, DocInside
  <2>2. b * (Height + 1) + Nesting[call.schema] < k
    BY DEF DocReady
  <2> DEFINE m == b * (Height + 1)
  <2>3. m \in Nat
    BY <2>1
  <2> HIDE DEF m
  <2>4. m + Nesting[call.schema] < k
    BY <2>2 DEF m
  <2>5. m + Nesting[next.schema] < k - 1
    BY <2>1, <2>3, <2>4
  <2> QED
    BY <2>5 DEF m
<1> QED
  BY <1>1, <1>2, <1>3 DEF DocReady

\* A reference leads to a component of lower rank, whose references have lower ranks still.
LEMMA DocReadyOnwards ==
  ASSUME Doc!OpenApiAssumption, NEW schemas, DocSchemas(schemas), NEW led, NEW rank, DocRanked(schemas, led, rank),
         NEW b \in Nat, NEW k \in Nat, NEW call \in Doc!Calls, DocReady(schemas, led, rank, b, k, call),
         call.schema.kind = "ref", call.schema.to \in DOMAIN schemas
  PROVE  /\ Doc!Followed(schemas, call.schema, call.seen) /\ rank[call.schema.to] \in Nat
         /\ DocReady(schemas, led, rank, rank[call.schema.to], k - 1, Doc!Onwards(schemas, call))
<1> DEFINE n == call.schema.to
           next == Doc!Onwards(schemas, call)
<1>1. Doc!Refs[call.schema] = {n}
  BY DocKinds, DocRefsIn
<1>2. n \in led /\ rank[n] < b /\ n \in DOMAIN schemas
  BY <1>1 DEF DocReady
<1>3. rank[n] \in Nat
  BY <1>2 DEF DocRanked
<1>4. n \notin call.seen
  BY <1>2, <1>3 DEF DocReady
<1>5. Doc!Followed(schemas, call.schema, call.seen)
  BY <1>2, <1>4 DEF Doc!Followed
<1>6. next.schema = schemas[n] /\ next.seen = call.seen \union {n} /\ next \in Doc!Calls
  BY <1>5, DocOnwards
<1> HIDE DEF next, n
<1>7. ASSUME NEW m \in Doc!Refs[next.schema] \intersect DOMAIN schemas PROVE m \in led /\ rank[m] < rank[n]
  BY <1>2, <1>6, <1>7 DEF DocRanked
<1>8. ASSUME NEW m \in next.seen \intersect led PROVE rank[n] <= rank[m]
  <2>1. rank[m] \in Nat
    BY <1>8 DEF DocRanked
  <2>2. m = n \/ b <= rank[m]
    BY <1>6, <1>8 DEF DocReady
  <2> QED
    BY <1>2, <1>3, <2>1, <2>2
<1>9. rank[n] * (Height + 1) + Nesting[next.schema] < k - 1
  <2>1. Height \in Nat /\ Nesting[call.schema] \in Nat /\ Nesting[next.schema] \in Nat /\ Nesting[next.schema] <= Height
    <3>1. call.schema \in Doc!AllSchemas /\ next.schema \in Doc!AllSchemas
      BY <1>6, DocKinds
    <3> QED
      BY <3>1, DocInside
  <2> DEFINE r == rank[n]
             h == Nesting[next.schema]
  <2>2. r \in Nat /\ h \in Nat /\ h <= Height /\ r < b
    BY <1>2, <1>3, <2>1
  <2>3. b * (Height + 1) + Nesting[call.schema] < k
    BY DEF DocReady
  <2> HIDE DEF r, h
  <2>4. r * (Height + 1) + h < b * (Height + 1)
    BY <2>1, <2>2, DocProducts
  <2> DEFINE x == r * (Height + 1)
             y == b * (Height + 1)
  <2>5. x \in Nat /\ y \in Nat
    BY <2>1, <2>2
  <2>6. x + h < y /\ y + Nesting[call.schema] < k
    BY <2>3, <2>4
  <2> HIDE DEF x, y
  <2>7. x + h < k - 1
    BY <2>1, <2>2, <2>5, <2>6
  <2> QED
    BY <2>7 DEF x, r, h
<1>10. DocReady(schemas, led, rank, rank[n], k - 1, next)
  BY <1>7, <1>8, <1>9 DEF DocReady
<1> QED
  BY <1>3, <1>5, <1>10 DEF n, next

LEMMA DocChainsNext ==
  ASSUME Doc!OpenApiAssumption, NEW schemas, DocSchemas(schemas), NEW depth \in Nat, NEW k \in 1..depth, NEW s \in Doc!AllSchemas
  PROVE  LET chains == DocChains(schemas, depth) IN
         /\ s.kind = "ref" /\ s.to \in DOMAIN schemas => chains[k][s] = chains[k - 1][schemas[s.to]]
         /\ s.kind = "array" => chains[k][s] = chains[k - 1][s.items]
         /\ s.kind \in {"leaf", "shared"} => chains[k][s] = {<<>>}
         /\ s.kind = "ref" /\ s.to \notin DOMAIN schemas => chains[k][s] = {<<>>}
<1> DEFINE chains == DocChains(schemas, depth)
<1>1. chains[k][s] = DocChainsOf(schemas, chains, k, s)
  <2>1. k \in 0..depth
    OBVIOUS
  <2> QED
    BY <2>1, DocChainsAre
<1> HIDE DEF chains
<1>2. k # 0
  OBVIOUS
<1>3. s.kind = "ref" /\ s.to \in DOMAIN schemas => chains[k][s] = chains[k - 1][schemas[s.to]]
  BY <1>1, <1>2 DEF DocChainsOf
<1>4. s.kind = "array" => chains[k][s] = chains[k - 1][s.items]
  BY <1>1, <1>2 DEF DocChainsOf
<1>5. s.kind \in {"leaf", "shared"} => chains[k][s] = {<<>>}
  BY <1>1, <1>2 DEF DocChainsOf
<1>6. s.kind = "ref" /\ s.to \notin DOMAIN schemas => chains[k][s] = {<<>>}
  BY <1>1, <1>2 DEF DocChainsOf
<1> QED
  BY <1>3, <1>4, <1>5, <1>6 DEF chains

LEMMA DocPathsNext ==
  ASSUME Doc!OpenApiAssumption, NEW schemas, DocSchemas(schemas), NEW call \in Doc!Calls
  PROVE  LET paths == DocPaths(schemas) IN
         /\ Doc!Followed(schemas, call.schema, call.seen) => paths[call] = paths[Doc!Onwards(schemas, call)]
         /\ call.schema.kind = "array" => paths[call] = paths[Doc!IntoItems(call)]
         /\ call.schema.kind \in {"leaf", "shared"} \/ (call.schema.kind = "ref" /\ call.schema.to \notin DOMAIN schemas) =>
              paths[call] = IF call.prefix = <<>> THEN {} ELSE {call.prefix}
<1> DEFINE paths == DocPaths(schemas)
<1>1. paths[call] = DocPathsOf(schemas, paths, call)
  BY DocPathsAre
<1> HIDE DEF paths
<1>2. Doc!Followed(schemas, call.schema, call.seen) => call.schema.kind = "ref" /\ call.schema.to \in DOMAIN schemas
  BY DEF Doc!Followed
<1>3. Doc!Followed(schemas, call.schema, call.seen) => paths[call] = paths[Doc!Onwards(schemas, call)]
  BY <1>1, <1>2 DEF DocPathsOf
<1>4. call.schema.kind = "array" => paths[call] = paths[Doc!IntoItems(call)]
  BY <1>1, <1>2 DEF DocPathsOf
<1>5. call.schema.kind \in {"leaf", "shared"} \/ (call.schema.kind = "ref" /\ call.schema.to \notin DOMAIN schemas) =>
        paths[call] = IF call.prefix = <<>> THEN {} ELSE {call.prefix}
  BY <1>1, <1>2 DEF DocPathsOf
<1> QED
  BY <1>3, <1>4, <1>5 DEF paths

LEMMA DocMeetsStep ==
  ASSUME Doc!OpenApiAssumption, NEW schemas, DocSchemas(schemas), NEW led, NEW rank, DocRanked(schemas, led, rank),
         NEW depth \in Nat, NEW k \in 1..depth, NEW call \in Doc!Calls, NEW b \in Nat, DocReady(schemas, led, rank, b, k, call),
         \A c \in Doc!Calls : \A a \in Nat : DocReady(schemas, led, rank, a, k - 1, c) => DocMeets(schemas, depth, k - 1, c)
  PROVE  DocMeets(schemas, depth, k, call)
<1>1. k \in Nat /\ call.schema \in Doc!AllSchemas /\ call.schema.kind \in {"ref", "shared", "object", "array", "leaf"}
  BY DocKinds
<1>2. CASE call.schema.kind = "ref" /\ call.schema.to \in DOMAIN schemas
  <2> DEFINE next == Doc!Onwards(schemas, call)
             a == rank[call.schema.to]
  <2>1. Doc!Followed(schemas, call.schema, call.seen) /\ a \in Nat /\ DocReady(schemas, led, rank, a, k - 1, next)
    BY <1>1, <1>2, DocReadyOnwards
  <2>2. next \in Doc!Calls /\ next.prefix = call.prefix /\ next.schema = schemas[call.schema.to]
    BY <2>1, DocOnwards
  <2>3. DocPaths(schemas)[call] = DocPaths(schemas)[next]
    BY <2>1, DocPathsNext
  <2>4. DocChains(schemas, depth)[k][call.schema] = DocChains(schemas, depth)[k - 1][next.schema]
    BY <1>1, <1>2, <2>2, DocChainsNext
  <2> HIDE DEF next, a
  <2>5. DocMeets(schemas, depth, k - 1, next)
    BY <2>1, <2>2
  <2> QED
    BY <2>2, <2>3, <2>4, <2>5, DocMeetsOn
<1>3. CASE call.schema.kind \in {"leaf", "shared"}
  <2>1. DocPaths(schemas)[call] = IF call.prefix = <<>> THEN {} ELSE {call.prefix}
    BY <1>3, DocPathsNext
  <2>2. DocChains(schemas, depth)[k][call.schema] = {<<>>}
    BY <1>1, <1>3, DocChainsNext
  <2> QED
    BY <2>1, <2>2, DocMeetsEnd
<1>4. CASE call.schema.kind = "array"
  <2> DEFINE next == Doc!IntoItems(call)
  <2>1. next \in Doc!Calls /\ next.prefix = call.prefix /\ next.schema = call.schema.items /\ next.seen = call.seen
    BY <1>4, DocItems
  <2>2. Nesting[next.schema] < Nesting[call.schema] /\ Doc!Refs[next.schema] \subseteq Doc!Refs[call.schema]
    BY <1>1, <1>4, <2>1, DocInside, DocRefsIn
  <2>3. DocPaths(schemas)[call] = DocPaths(schemas)[next]
    BY <1>4, DocPathsNext
  <2>4. DocChains(schemas, depth)[k][call.schema] = DocChains(schemas, depth)[k - 1][next.schema]
    BY <1>1, <1>4, <2>1, DocChainsNext
  <2> HIDE DEF next
  <2>5. DocReady(schemas, led, rank, b, k - 1, next)
    BY <1>1, <2>1, <2>2, DocReadyInside
  <2>6. DocMeets(schemas, depth, k - 1, next)
    BY <2>1, <2>5
  <2> QED
    BY <2>1, <2>3, <2>4, <2>6, DocMeetsOn
<1>5. CASE call.schema.kind = "object"
  <2>1. ASSUME NEW f \in DOMAIN call.schema.props PROVE DocMeets(schemas, depth, k - 1, Doc!IntoField(call, f))
    <3> DEFINE next == Doc!IntoField(call, f)
    <3>1. next \in Doc!Calls /\ next.schema = call.schema.props[f] /\ next.seen = call.seen
      BY <1>5, <2>1, DocField
    <3>2. Nesting[next.schema] < Nesting[call.schema] /\ Doc!Refs[next.schema] \subseteq Doc!Refs[call.schema]
      BY <1>1, <1>5, <2>1, <3>1, DocInside, DocRefsIn
    <3> HIDE DEF next
    <3>3. DocReady(schemas, led, rank, b, k - 1, next)
      BY <1>1, <3>1, <3>2, DocReadyInside
    <3>4. DocMeets(schemas, depth, k - 1, next)
      BY <3>1, <3>3
    <3> QED
      BY <3>4 DEF next
  <2> QED
    BY <1>5, <2>1, DocMeetsObject
<1>6. CASE call.schema.kind = "ref" /\ call.schema.to \notin DOMAIN schemas
  <2>1. DocPaths(schemas)[call] = IF call.prefix = <<>> THEN {} ELSE {call.prefix}
    BY <1>6, DocPathsNext
  <2>2. DocChains(schemas, depth)[k][call.schema] = {<<>>}
    BY <1>1, <1>6, DocChainsNext
  <2> QED
    BY <2>1, <2>2, DocMeetsEnd
<1> QED
  BY <1>1, <1>2, <1>3, <1>4, <1>5, <1>6

\* By induction on the level.
LEMMA DocMeetsAll ==
  ASSUME Doc!OpenApiAssumption, NEW schemas, DocSchemas(schemas), NEW led, NEW rank, DocRanked(schemas, led, rank), NEW depth \in Nat
  PROVE  \A k \in 0..depth : \A call \in Doc!Calls : \A b \in Nat :
           DocReady(schemas, led, rank, b, k, call) => DocMeets(schemas, depth, k, call)
<1> DEFINE P(k) == \A call \in Doc!Calls : \A b \in Nat : DocReady(schemas, led, rank, b, k, call) => DocMeets(schemas, depth, k, call)
           T == {k \in Nat : k \in 0..depth => P(k)}
<1>1. 0 \in T
  <2>1. ASSUME NEW call \in Doc!Calls, NEW b \in Nat PROVE ~DocReady(schemas, led, rank, b, 0, call)
    <3>1. Height \in Nat /\ Nesting[call.schema] \in Nat
      <4>1. call.schema \in Doc!AllSchemas
        BY DocKinds
      <4> QED
        BY <4>1, DocInside
    <3>2. b * (Height + 1) \in Nat
      BY <3>1
    <3>3. ~(b * (Height + 1) + Nesting[call.schema] < 0)
      BY <3>1, <3>2
    <3> QED
      BY <3>3 DEF DocReady
  <2> QED
    BY <2>1
<1>2. ASSUME NEW n \in T PROVE n + 1 \in T
  <2>1. n \in Nat /\ n + 1 \in Nat /\ (n + 1) - 1 = n
    BY <1>2
  <2>2. ASSUME n + 1 \in 0..depth, NEW call \in Doc!Calls, NEW b \in Nat, DocReady(schemas, led, rank, b, n + 1, call)
        PROVE  DocMeets(schemas, depth, n + 1, call)
    <3>1. n \in 0..depth /\ n + 1 \in 1..depth
      BY <2>1, <2>2
    <3>2. P(n)
      BY <1>2, <3>1
    <3> DEFINE k == n + 1
    <3>3. k \in 1..depth /\ k - 1 = n /\ DocReady(schemas, led, rank, b, k, call)
      BY <2>1, <2>2, <3>1
    <3> HIDE DEF k, T
    <3>4. \A c \in Doc!Calls : \A a \in Nat : DocReady(schemas, led, rank, a, k - 1, c) => DocMeets(schemas, depth, k - 1, c)
      BY <3>2, <3>3
    <3>5. DocMeets(schemas, depth, k, call)
      BY <3>3, <3>4, DocMeetsStep
    <3> QED
      BY <3>5 DEF k
  <2>3. n + 1 \in 0..depth => P(n + 1)
    BY <2>2
  <2> HIDE DEF P
  <2> QED
    BY <2>1, <2>3
<1>3. \A n \in Nat : n \in T
  <2>1. T \in SUBSET Nat
    OBVIOUS
  <2> HIDE DEF T
  <2> QED
    BY <1>1, <1>2, <2>1, DocAllNumbers
<1>4. ASSUME NEW k \in 0..depth PROVE P(k)
  BY <1>3
<1> QED
  BY <1>4

\* A schema that is not recursive has the chains that its leaf paths begin with.
LEMMA DocChainsOfPaths ==
  ASSUME Doc!OpenApiAssumption, NEW schemas, DocSchemas(schemas), DOMAIN schemas \subseteq ComponentNames,
         NEW s \in Doc!AllSchemas, s.kind = "ref", s.to \in DOMAIN schemas, Doc!Ends(schemas, s)
  PROVE  Doc!Chains(schemas, s, Doc!Deepest) = Openings(DocStrings, Doc!LeafPaths(schemas, schemas[s.to]))
<1> DEFINE c == Cardinality(ComponentNames)
           t == schemas[s.to]
           call == Doc!CallOf(t)
           depth == Doc!Deepest
<1>1. c \in Nat /\ Doc!Cardinality(ComponentNames) = c
  <2>1. IsFiniteSet(ComponentNames)
    BY DEF Doc!OpenApiAssumption, Doc!IsFiniteSet, IsFiniteSet
  <2> QED
    BY <2>1, FS_CardinalityType DEF Doc!Cardinality, Cardinality
<1>2. PICK led \in SUBSET DOMAIN schemas : \E rank \in [led -> 0..c - 1] :
        /\ Doc!Refs[s] \intersect DOMAIN schemas \subseteq led
        /\ \A n \in led : \A m \in Doc!Refs[schemas[n]] \intersect DOMAIN schemas : m \in led /\ rank[m] < rank[n]
  BY <1>1 DEF Doc!Ends
<1>3. PICK rank \in [led -> 0..c - 1] :
        /\ Doc!Refs[s] \intersect DOMAIN schemas \subseteq led
        /\ \A n \in led : \A m \in Doc!Refs[schemas[n]] \intersect DOMAIN schemas : m \in led /\ rank[m] < rank[n]
  BY <1>2
<1>4. DocRanked(schemas, led, rank)
  <2>1. rank \in [led -> Nat]
    BY <1>1, <1>3
  <2> QED
    BY <1>2, <1>3, <2>1 DEF DocRanked
<1>5. s.to \in led
  <2>1. Doc!Refs[s] = {s.to}
    BY DocRefsIn
  <2> QED
    BY <1>3, <2>1
<1> DEFINE b == rank[s.to]
<1>6. b \in Nat /\ b <= c - 1
  BY <1>1, <1>3, <1>5
<1>7. t \in Doc!AllSchemas
  BY DEF DocSchemas
<1>8. call \in Doc!Calls /\ call.schema = t /\ call.seen = {} /\ call.prefix = <<>>
  BY <1>7, DocCallOf DEF Doc!CallOf
<1>9. Height \in Nat /\ Nesting[t] \in Nat /\ Nesting[t] <= Height
  BY <1>7, DocInside
<1>10. depth = (c + 1) * (Height + 1)
  BY <1>1 DEF Doc!Deepest
<1>11. depth \in Nat /\ b * (Height + 1) + Nesting[t] < depth - 1
  <2> HIDE DEF b, c, depth, t
  <2>1. b * (Height + 1) + Nesting[t] < c * (Height + 1)
    <3> DEFINE h == Nesting[t]
    <3>1. h \in Nat /\ h <= Height /\ b < c
      BY <1>1, <1>6, <1>9
    <3> HIDE DEF h
    <3>2. b * (Height + 1) + h < c * (Height + 1)
      BY <1>1, <1>6, <1>9, <3>1, DocProducts
    <3> QED
      BY <3>2 DEF h
  <2> DEFINE x == b * (Height + 1)
             y == c * (Height + 1)
  <2>2. x \in Nat /\ y \in Nat /\ depth = y + Height + 1
    BY <1>1, <1>6, <1>9, <1>10
  <2> HIDE DEF x, y
  <2>3. x + Nesting[t] < y
    BY <2>1 DEF x, y
  <2>4. depth \in Nat /\ x + Nesting[t] < depth - 1
    BY <1>9, <2>2, <2>3
  <2> QED
    BY <2>4 DEF x
<1> DEFINE k == depth - 1
<1>12. k \in Nat /\ k \in 0..depth /\ depth \in 1..depth
  <2> HIDE DEF depth
  <2>1. b * (Height + 1) \in Nat
    BY <1>6, <1>9
  <2> DEFINE x == b * (Height + 1)
  <2>2. x \in Nat /\ x + Nesting[t] < depth - 1
    BY <1>11, <2>1
  <2> HIDE DEF x, t
  <2> QED
    BY <1>9, <1>11, <2>2
<1>13. DocReady(schemas, led, rank, b, k, call)
  <2>1. \A n \in Doc!Refs[t] \intersect DOMAIN schemas : n \in led /\ rank[n] < b
    BY <1>4, <1>5 DEF DocRanked
  <2> HIDE DEF t, b, call, depth
  <2> QED
    BY <1>8, <1>11, <2>1 DEF DocReady
<1>14. Doc!LeafPaths(schemas, t) = DocPaths(schemas)[call] /\ Doc!Chains(schemas, s, depth) = DocChains(schemas, depth)[depth][s]
  <2> HIDE DEF t, depth
  <2> QED
    BY <1>11, DocPathsAre, DocChainsAre
<1>15. DocChains(schemas, depth)[depth][s] = DocChains(schemas, depth)[k][t]
  <2> HIDE DEF depth
  <2> QED
    BY <1>11, <1>12, DocChainsNext
<1> HIDE DEF call, depth, t, b, k
<1>16. DocMeets(schemas, depth, k, call)
  BY <1>4, <1>6, <1>8, <1>11, <1>12, <1>13, DocMeetsAll
<1>17. PICK E \in SUBSET Words(DocStrings) : DocPaths(schemas)[call] = After(<<>>, E) /\ DocChains(schemas, depth)[k][t] = Openings(DocStrings, E)
  BY <1>8, <1>16 DEF DocMeets
<1>18. After(<<>>, E) = E
  <2>1. \A e \in E : <<>> \o e = e
    BY <1>17, WordsJoin, WordsAre
  <2> QED
    BY <2>1 DEF After
<1> QED
  BY <1>14, <1>15, <1>17, <1>18 DEF depth, t

\* Equal keys: the same operations and contents, and a component that one refers to is in both with one set of leaf paths.
LEMMA DocSameKeys ==
  ASSUME NEW a, NEW b, Doc!IsDocument(a), Doc!IsDocument(b), Doc!KeyDiff(a, b) = {}
  PROVE  /\ DOMAIN a.ops = DOMAIN b.ops
         /\ \A n \in Doc!DirectRefs(a) :
              /\ n \in DOMAIN a.schemas /\ n \in DOMAIN b.schemas
              /\ Doc!LeafPaths(a.schemas, a.schemas[n]) = Doc!LeafPaths(b.schemas, b.schemas[n])
<1>1. Doc!Changed(Doc!KeyPaths(a), Doc!KeyPaths(b)) = {}
  BY DocDiffs
<1>2. DOMAIN a.ops = DOMAIN b.ops
  <2>1. DOMAIN Doc!KeyPaths(a) = DOMAIN a.ops /\ DOMAIN Doc!KeyPaths(b) = DOMAIN b.ops
    BY DocKeyPathsOf
  <2>2. \A p \in DOMAIN Doc!KeyPaths(a) \union DOMAIN Doc!KeyPaths(b) : p \in DOMAIN Doc!KeyPaths(a) /\ p \in DOMAIN Doc!KeyPaths(b)
    BY <1>1 DEF Doc!Changed
  <2> QED
    BY <2>1, <2>2
<1>3. ASSUME NEW n \in Doc!DirectRefs(a)
      PROVE  /\ n \in DOMAIN a.schemas /\ n \in DOMAIN b.schemas
             /\ Doc!LeafPaths(a.schemas, a.schemas[n]) = Doc!LeafPaths(b.schemas, b.schemas[n])
  <2>1. n \notin Doc!KeyDiff(a, b)
    OBVIOUS
  <2> QED
    BY <1>3, <2>1, DocDiffs
<1> QED
  BY <1>2, <1>3

LEMMA DocGuard ==
  ASSUME Doc!OpenApiAssumption, NEW a, NEW b, Doc!IsDocument(a), Doc!IsDocument(b), Doc!KeyDiff(a, b) = {},
         NEW p \in DOMAIN a.ops, NEW c \in DOMAIN a.ops[p].content, a.ops[p].content[c].kind = "ref",
         Doc!Ends(a.schemas, a.ops[p].content[c]), Doc!Ends(b.schemas, a.ops[p].content[c])
  PROVE  Doc!Chains(a.schemas, a.ops[p].content[c], Doc!Deepest) = Doc!Chains(b.schemas, a.ops[p].content[c], Doc!Deepest)
<1> DEFINE s == a.ops[p].content[c]
           n == s.to
<1>1. s \in Doc!AllSchemas
  <2>1. Doc!IsOperation(a.ops[p])
    BY DEF Doc!IsDocument
  <2> QED
    BY <2>1 DEF Doc!IsOperation
<1>2. n \in Doc!DirectRefs(a)
  <2>1. n \in Doc!Refs[s]
    BY <1>1, DocRefsIn
  <2>2. n \in UNION {Doc!Refs[a.ops[p].content[d]] : d \in DOMAIN a.ops[p].content}
    BY <2>1
  <2> QED
    BY <2>2 DEF Doc!DirectRefs
<1> HIDE DEF n
<1>3. /\ n \in DOMAIN a.schemas /\ n \in DOMAIN b.schemas
      /\ Doc!LeafPaths(a.schemas, a.schemas[n]) = Doc!LeafPaths(b.schemas, b.schemas[n])
  BY <1>2, DocSameKeys
<1>4. DocSchemas(a.schemas) /\ DocSchemas(b.schemas) /\ DOMAIN a.schemas \subseteq ComponentNames /\ DOMAIN b.schemas \subseteq ComponentNames
  BY DocSchemasOf DEF Doc!IsDocument
<1>5. s.kind = "ref" /\ s.to = n /\ Doc!Ends(a.schemas, s) /\ Doc!Ends(b.schemas, s)
  BY DEF n
<1> HIDE DEF s
<1>6. Doc!Chains(a.schemas, s, Doc!Deepest) = Openings(DocStrings, Doc!LeafPaths(a.schemas, a.schemas[n]))
  BY <1>1, <1>3, <1>4, <1>5, DocChainsOfPaths
<1>7. Doc!Chains(b.schemas, s, Doc!Deepest) = Openings(DocStrings, Doc!LeafPaths(b.schemas, b.schemas[n]))
  BY <1>1, <1>3, <1>4, <1>5, DocChainsOfPaths
<1> QED
  BY <1>3, <1>6, <1>7 DEF s

LEMMA DocGuards == ASSUME Doc!OpenApiAssumption, Doc!TypeOK PROVE Doc!GuardMissesNoKey
<1>1. Doc!IsDocument(docLive) /\ Doc!IsDocument(docYaml)
  BY DEF Doc!TypeOK
<1>2. ASSUME Doc!KeyDiff(docLive, docYaml) = {}, NEW p \in DOMAIN docLive.ops, NEW c \in DOMAIN docLive.ops[p].content,
             docLive.ops[p].content[c].kind = "ref",
             Doc!Ends(docLive.schemas, docLive.ops[p].content[c]), Doc!Ends(docYaml.schemas, docLive.ops[p].content[c])
      PROVE  Doc!Chains(docLive.schemas, docLive.ops[p].content[c], Doc!Deepest)
               = Doc!Chains(docYaml.schemas, docLive.ops[p].content[c], Doc!Deepest)
  BY <1>1, <1>2, DocGuard
<1>3. Doc!KeyDiff(docLive, docYaml) = {} => DOMAIN docLive.ops = DOMAIN docYaml.ops
  BY <1>1, DocSameKeys
<1> QED
  BY <1>2, <1>3 DEF Doc!GuardMissesNoKey

(***************************************************************************)
(* A release changes operations and components: the documents stay such.   *)
(***************************************************************************)
LEMMA DocWithOps ==
  ASSUME NEW doc, Doc!IsDocument(doc), NEW v, \A p \in DOMAIN v : Doc!IsOperation(v[p])
  PROVE  Doc!IsDocument([doc EXCEPT !.ops = v])
<1> DEFINE new == [doc EXCEPT !.ops = v]
<1>1. /\ DOMAIN doc = {"ops", "schemas", "shared"} /\ DOMAIN doc.schemas \subseteq ComponentNames
      /\ \A n \in DOMAIN doc.schemas : doc.schemas[n] \in Doc!AllSchemas
      /\ \A n \in DOMAIN doc.shared : doc.shared[n] \in Doc!AllSchemas
  BY DEF Doc!IsDocument
<1>2. DOMAIN new = {"ops", "schemas", "shared"} /\ new.ops = v /\ new.schemas = doc.schemas /\ new.shared = doc.shared
  BY <1>1
<1> HIDE DEF new
<1>3. Doc!IsDocument(new)
  BY <1>1, <1>2 DEF Doc!IsDocument
<1> QED
  BY <1>3 DEF new

LEMMA DocWithSchemas ==
  ASSUME NEW doc, Doc!IsDocument(doc), NEW v, DOMAIN v \subseteq ComponentNames, \A n \in DOMAIN v : v[n] \in Doc!AllSchemas
  PROVE  Doc!IsDocument([doc EXCEPT !.schemas = v])
<1> DEFINE new == [doc EXCEPT !.schemas = v]
<1>1. /\ DOMAIN doc = {"ops", "schemas", "shared"} /\ \A p \in DOMAIN doc.ops : Doc!IsOperation(doc.ops[p])
      /\ \A n \in DOMAIN doc.shared : doc.shared[n] \in Doc!AllSchemas
  BY DEF Doc!IsDocument
<1>2. DOMAIN new = {"ops", "schemas", "shared"} /\ new.ops = doc.ops /\ new.schemas = v /\ new.shared = doc.shared
  BY <1>1
<1> HIDE DEF new
<1>3. Doc!IsDocument(new)
  BY <1>1, <1>2 DEF Doc!IsDocument
<1> QED
  BY <1>3 DEF new

LEMMA DocWithShared ==
  ASSUME NEW doc, Doc!IsDocument(doc), NEW v, \A n \in DOMAIN v : v[n] \in Doc!AllSchemas
  PROVE  Doc!IsDocument([doc EXCEPT !.shared = v])
<1> DEFINE new == [doc EXCEPT !.shared = v]
<1>1. /\ DOMAIN doc = {"ops", "schemas", "shared"} /\ \A p \in DOMAIN doc.ops : Doc!IsOperation(doc.ops[p])
      /\ DOMAIN doc.schemas \subseteq ComponentNames /\ \A n \in DOMAIN doc.schemas : doc.schemas[n] \in Doc!AllSchemas
  BY DEF Doc!IsDocument
<1>2. DOMAIN new = {"ops", "schemas", "shared"} /\ new.ops = doc.ops /\ new.schemas = doc.schemas /\ new.shared = v
  BY <1>1
<1> HIDE DEF new
<1>3. Doc!IsDocument(new)
  BY <1>1, <1>2 DEF Doc!IsDocument
<1> QED
  BY <1>3 DEF new

LEMMA DocEditedIs ==
  ASSUME Doc!OpenApiAssumption, NEW doc, Doc!IsDocument(doc), NEW new \in Doc!Edited(doc)
  PROVE  Doc!IsDocument(new)
<1>1. /\ \A p \in DOMAIN doc.ops : Doc!IsOperation(doc.ops[p])
      /\ DOMAIN doc.schemas \subseteq ComponentNames /\ \A n \in DOMAIN doc.schemas : doc.schemas[n] \in Doc!AllSchemas
      /\ \A n \in DOMAIN doc.shared : doc.shared[n] \in Doc!AllSchemas
  BY DEF Doc!IsDocument
<1>2. (\A op \in Operations : Doc!IsOperation(op)) /\ Schemas \subseteq Doc!AllSchemas
  BY DEF Doc!OpenApiAssumption
<1>3. \/ \E p \in OpNames : \E op \in Operations : new = [doc EXCEPT !.ops = Doc!With(@, p, op)]
      \/ \E p \in OpNames : new = [doc EXCEPT !.ops = Doc!Without(@, p)]
      \/ \E n \in ComponentNames : \E s \in Schemas : new = [doc EXCEPT !.schemas = Doc!With(@, n, s)]
      \/ \E n \in ComponentNames : new = [doc EXCEPT !.schemas = Doc!Without(@, n)]
      \/ \E n \in ComponentNames : \E s \in Schemas : new = [doc EXCEPT !.shared = Doc!With(@, n, s)]
  BY DEF Doc!Edited
<1>4. ASSUME NEW p \in OpNames, NEW op \in Operations, new = [doc EXCEPT !.ops = Doc!With(@, p, op)] PROVE Doc!IsDocument(new)
  <2> DEFINE v == Doc!With(doc.ops, p, op)
  <2>1. ASSUME NEW q \in DOMAIN v PROVE Doc!IsOperation(v[q])
    <3>1. q = p \/ (q \in DOMAIN doc.ops /\ q # p)
      BY <2>1 DEF Doc!With, Doc!Without
    <3>2. CASE q = p
      BY <1>2, <3>2 DEF Doc!With, Doc!Without
    <3>3. CASE q \in DOMAIN doc.ops /\ q # p
      BY <1>1, <3>3 DEF Doc!With, Doc!Without
    <3> QED
      BY <3>1, <3>2, <3>3
  <2>2. new = [doc EXCEPT !.ops = v]
    BY <1>4
  <2> HIDE DEF v
  <2> QED
    BY <2>1, <2>2, DocWithOps
<1>5. ASSUME NEW p \in OpNames, new = [doc EXCEPT !.ops = Doc!Without(@, p)] PROVE Doc!IsDocument(new)
  <2> DEFINE v == Doc!Without(doc.ops, p)
  <2>1. \A q \in DOMAIN v : Doc!IsOperation(v[q])
    BY <1>1 DEF Doc!With, Doc!Without
  <2>2. new = [doc EXCEPT !.ops = v]
    BY <1>5
  <2> HIDE DEF v
  <2> QED
    BY <2>1, <2>2, DocWithOps
<1>6. ASSUME NEW n \in ComponentNames, NEW s \in Schemas, new = [doc EXCEPT !.schemas = Doc!With(@, n, s)] PROVE Doc!IsDocument(new)
  <2> DEFINE v == Doc!With(doc.schemas, n, s)
  <2>1. DOMAIN v \subseteq ComponentNames
    BY <1>1 DEF Doc!With, Doc!Without
  <2>2. ASSUME NEW q \in DOMAIN v PROVE v[q] \in Doc!AllSchemas
    <3>1. q = n \/ (q \in DOMAIN doc.schemas /\ q # n)
      BY <2>2 DEF Doc!With, Doc!Without
    <3>2. CASE q = n
      BY <1>2, <3>2 DEF Doc!With, Doc!Without
    <3>3. CASE q \in DOMAIN doc.schemas /\ q # n
      BY <1>1, <3>3 DEF Doc!With, Doc!Without
    <3> QED
      BY <3>1, <3>2, <3>3
  <2>3. new = [doc EXCEPT !.schemas = v]
    BY <1>6
  <2> HIDE DEF v
  <2> QED
    BY <2>1, <2>2, <2>3, DocWithSchemas
<1>7. ASSUME NEW n \in ComponentNames, new = [doc EXCEPT !.schemas = Doc!Without(@, n)] PROVE Doc!IsDocument(new)
  <2> DEFINE v == Doc!Without(doc.schemas, n)
  <2>1. DOMAIN v \subseteq ComponentNames /\ \A q \in DOMAIN v : v[q] \in Doc!AllSchemas
    BY <1>1 DEF Doc!With, Doc!Without
  <2>2. new = [doc EXCEPT !.schemas = v]
    BY <1>7
  <2> HIDE DEF v
  <2> QED
    BY <2>1, <2>2, DocWithSchemas
<1>8. ASSUME NEW n \in ComponentNames, NEW s \in Schemas, new = [doc EXCEPT !.shared = Doc!With(@, n, s)] PROVE Doc!IsDocument(new)
  <2> DEFINE v == Doc!With(doc.shared, n, s)
  <2>1. ASSUME NEW q \in DOMAIN v PROVE v[q] \in Doc!AllSchemas
    <3>1. q = n \/ (q \in DOMAIN doc.shared /\ q # n)
      BY <2>1 DEF Doc!With
    <3>2. CASE q = n
      BY <1>2, <3>2 DEF Doc!With
    <3>3. CASE q \in DOMAIN doc.shared /\ q # n
      BY <1>1, <3>3 DEF Doc!With
    <3> QED
      BY <3>1, <3>2, <3>3
  <2>2. new = [doc EXCEPT !.shared = v]
    BY <1>8
  <2> HIDE DEF v
  <2> QED
    BY <2>1, <2>2, DocWithShared
<1> QED
  BY <1>3, <1>4, <1>5, <1>6, <1>7, <1>8

DocIInv == Doc!TypeOK

LEMMA DocInitially == ASSUME Doc!OpenApiAssumption, Doc!Init PROVE DocIInv
  BY DEF Doc!OpenApiAssumption, Doc!Init, DocIInv, Doc!TypeOK

LEMMA DocInductive == ASSUME Doc!OpenApiAssumption, DocIInv, [Doc!Next]_(Doc!vars) PROVE DocIInv'
<1>0. MaxEdits \in Nat /\ docEdits \in 0..MaxEdits
  BY DEF Doc!OpenApiAssumption, DocIInv, Doc!TypeOK
<1>1. CASE Doc!ChangeLive
  <2>1. Doc!IsDocument(docLive') /\ docYaml' = docYaml
    <3>1. Doc!IsDocument(docLive) /\ docLive' \in Doc!Edited(docLive) /\ docYaml' = docYaml
      BY <1>1 DEF Doc!ChangeLive, DocIInv, Doc!TypeOK
    <3> QED
      BY <3>1, DocEditedIs
  <2>2. docEdits < MaxEdits /\ docEdits' = docEdits + 1
    BY <1>1 DEF Doc!ChangeLive
  <2>3. docEdits' \in 0..MaxEdits
    BY <1>0, <2>2
  <2>4. Doc!IsDocument(docYaml')
    BY <2>1 DEF DocIInv, Doc!TypeOK
  <2> QED
    BY <2>1, <2>3, <2>4 DEF DocIInv, Doc!TypeOK
<1>2. CASE Doc!ChangeYaml
  <2>1. Doc!IsDocument(docYaml') /\ docLive' = docLive
    <3>1. Doc!IsDocument(docYaml) /\ docYaml' \in Doc!Edited(docYaml) /\ docLive' = docLive
      BY <1>2 DEF Doc!ChangeYaml, DocIInv, Doc!TypeOK
    <3> QED
      BY <3>1, DocEditedIs
  <2>2. docEdits < MaxEdits /\ docEdits' = docEdits + 1
    BY <1>2 DEF Doc!ChangeYaml
  <2>3. docEdits' \in 0..MaxEdits
    BY <1>0, <2>2
  <2>4. Doc!IsDocument(docLive')
    BY <2>1 DEF DocIInv, Doc!TypeOK
  <2> QED
    BY <2>1, <2>3, <2>4 DEF DocIInv, Doc!TypeOK
<1>3. CASE UNCHANGED Doc!vars
  BY <1>3 DEF DocIInv, Doc!TypeOK, Doc!vars
<1> QED
  BY <1>1, <1>2, <1>3 DEF Doc!Next

LEMMA DocTypes == DocIInv => Doc!TypeOK
  BY DEF DocIInv

LEMMA DocPromises == ASSUME Doc!OpenApiAssumption, DocIInv PROVE Doc!ViewsNest /\ Doc!GuardMissesNoKey /\ Doc!ValuesAreIgnored
  BY DocViews, DocGuards DEF DocIInv

LEMMA DocAlways == ASSUME Doc!OpenApiAssumption PROVE Doc!Spec => []DocIInv
  BY DocInitially, DocInductive, PTL DEF Doc!Spec

\* Whatever releases define, both documents stay such: operations with schemas in them and components by their names,
\* within the bound on the changes.
THEOREM DocDocumentsStayDocuments == ASSUME Doc!OpenApiAssumption PROVE Doc!Spec => []Doc!TypeOK
  BY DocAlways, DocTypes, PTL

\* For all documents, also with recursive components: what the key view shows to differ the semantic view shows too, and
\* documents with one contract differ in neither, apart from references that neither resolves.
THEOREM DocViewsNest == ASSUME Doc!OpenApiAssumption PROVE Doc!Spec => []Doc!ViewsNest
<1>1. DocIInv => Doc!ViewsNest
  BY DocPromises
<1> QED
  BY <1>1, DocAlways, PTL

\* When the version guard finds no key to differ, no operation is missing in one document, and a client meets the same
\* chains of fields in both, at every depth, in each body or response that refers to a schema that is not recursive.
THEOREM DocNoKeyIsMissed == ASSUME Doc!OpenApiAssumption PROVE Doc!Spec => []Doc!GuardMissesNoKey
<1>1. DocIInv => Doc!GuardMissesNoKey
  BY DocPromises
<1> QED
  BY <1>1, DocAlways, PTL

\* Documents that differ in types, formats, enumerations and required flags only have no key that differs, whatever
\* their components are, recursive ones included.
THEOREM DocValuesIgnored == ASSUME Doc!OpenApiAssumption PROVE Doc!Spec => []Doc!ValuesAreIgnored
<1>1. DocIInv => Doc!ValuesAreIgnored
  BY DocPromises
<1> QED
  BY <1>1, DocAlways, PTL

-----------------------------------------------------------------------------
(***************************************************************************)
(* The alarm tests.                                                        *)
(***************************************************************************)
\* Tests come in the order of the file.
AlmOrdered ==
  /\ almTodo \in Seq(Alm!TestNames)
  /\ \A i, j \in DOMAIN almTodo : i < j => almTodo[j] \in Alm!After(almTodo[i])
  /\ \A i \in DOMAIN almTodo : almTodo[i] \in Alm!After(almTest)

\* Which test makes which request.
AlmWhere ==
  /\ almTest \in Alm!TestNames \cup {""}
  /\ almPc \in {"next", "start", "active_list", "seed", "await", "get", "ack", "get_acked", "clear", "get_cleared",
                "wait", "history_list", "history_get", "history_delete", "history_gone", "refuse"}
  /\ almTest = "" => almPc = "next"
  /\ almPc = "active_list" => almTest = "list"
  /\ almPc \in {"seed", "await"} => almTest = "lifecycle"
  /\ almPc \in {"get", "ack", "get_acked", "clear", "get_cleared"} => almTest \in {"clear", "lifecycle"}
  /\ almPc = "wait" => almTest = "clear"
  /\ almPc = "history_list" => almTest \in {"history", "lifecycle"}
  /\ almPc = "history_get" => almTest \in {"by_id", "delete", "lifecycle"}
  /\ almPc \in {"history_delete", "history_gone"} => almTest \in {"delete", "lifecycle"}

AlmIds == Alarms \cup {Alm!NoAlarm}
AlmStates == [active : AlmIds, history : AlmIds, listed : BOOLEAN, byId : BOOLEAN, deleted : BOOLEAN]
AlmRecorded == almWf \in AlmStates /\ almIds \in AlmIds /\ (almPc = "ack" => almIds \in Alarms)

\* A test handles the alarm that an earlier one has handed on.
AlmIdle == almPc \in {"next", "start"}
AlmHandles ==
  /\ almTest = "clear" /\ ~AlmIdle => almIds = almWf.active /\ almIds # Alm!NoAlarm
  /\ almTest \in {"history", "by_id", "delete"} /\ ~AlmIdle => almIds = almWf.history /\ almIds # Alm!NoAlarm

\* An alarm that goes on to the history part has been cleared by this session.
AlmOwned ==
  /\ almPc \in {"get_cleared", "wait", "history_list", "history_get", "history_delete", "history_gone"} => almIds \in almCleared
  /\ almWf.history # Alm!NoAlarm => almWf.history \in almCleared
  /\ Alm!OnlyOwnRemoved

\* An alarm is in one place at a time, and does not come back.
AlmApart ==
  /\ almActive \subseteq Alarms /\ almAcked \subseteq Alarms /\ almMoving \subseteq Alarms /\ almPast \subseteq Alarms /\ almCleared \subseteq Alarms
  /\ \A a \in Alarms :
       /\ a \in almActive => a \notin almMoving /\ a \notin almPast /\ a \notin almCleared
       /\ a \in almMoving => a \notin almPast
  /\ almPc = "history_gone" => almIds \notin almPast /\ almIds \notin almMoving

\* What the phases of the workflow say of one another.
AlmStory ==
  /\ almWf.history # Alm!NoAlarm => almWf.history = almWf.active /\ almTest \notin {"", "list"}
  /\ almWf.byId => almWf.listed
  /\ almTest = "by_id" /\ ~AlmIdle => almWf.listed
  /\ almTest = "delete" /\ ~AlmIdle => almWf.byId /\ almWf.history # Alm!NoAlarm
  /\ almPc = "history_gone" => almIds \in almRemoved
  /\ almWf.deleted => /\ almWf.history # Alm!NoAlarm /\ almWf.history \in almRemoved /\ almWf.byId
                      /\ almTest \in {"delete", "lifecycle", "noaccess"}

\* Without trouble the alarm is still where the test that handed it on left it.
AlmUndisturbed ==
  /\ almFailed \subseteq {"lifecycle"}
  /\ \/ almTest \in {"", "list"}
     \/ almTest = "clear" /\ almPc \in {"start", "get", "ack", "get_acked", "clear"}
     => almWf.active = Alm!NoAlarm \/ almWf.active \in almActive
  /\ \/ almTest \in {"", "list", "clear", "history", "by_id"}
     \/ almTest = "delete" /\ almPc \in {"start", "history_get", "history_delete"}
     => almWf.history = Alm!NoAlarm \/ almWf.history \in almPast
AlmHonesty == ~almTrouble => AlmUndisturbed

AlmCounts == almN \in 0..Polls /\ almOthers \in 0..AlmRivals /\ almTrouble \in BOOLEAN /\ almFailed \subseteq Alm!TestNames

AlmIInv == AlmOrdered /\ AlmWhere /\ AlmRecorded /\ AlmHandles /\ AlmOwned /\ AlmApart /\ AlmStory /\ AlmHonesty /\ AlmCounts

\* What the order of the file says of the test that follows.
LEMMA AlmOrder ==
  ASSUME almTest \in Alm!TestNames \cup {""}, NEW t \in Alm!TestNames, t \in Alm!After(almTest)
  PROVE  /\ t = "list" => almTest = ""
         /\ t = "clear" => almTest \in {"", "list"}
         /\ t = "history" => almTest \in {"", "list", "clear"}
         /\ t = "by_id" => almTest \in {"", "list", "clear", "history"}
         /\ t = "delete" => almTest \in {"", "list", "clear", "history", "by_id"}
         /\ almTest \in {"delete", "lifecycle"} => t \in {"lifecycle", "noaccess"}
         /\ almTest # "noaccess"
  BY DEF Alm!After, Alm!TestNames

\* The next test is one of those to come, and what is left stays in order.
LEMMA AlmFollowing ==
  ASSUME AlmOrdered, almTodo # <<>>
  PROVE  /\ Head(almTodo) \in Alm!TestNames /\ Tail(almTodo) \in Seq(Alm!TestNames) /\ Head(almTodo) \in Alm!After(almTest)
         /\ \A i, j \in DOMAIN Tail(almTodo) : i < j => Tail(almTodo)[j] \in Alm!After(Tail(almTodo)[i])
         /\ \A i \in DOMAIN Tail(almTodo) : Tail(almTodo)[i] \in Alm!After(Head(almTodo))
<1>1. /\ Head(almTodo) \in Alm!TestNames /\ Tail(almTodo) \in Seq(Alm!TestNames) /\ Len(almTodo) \in Nat /\ Len(almTodo) > 0
      /\ Head(almTodo) = almTodo[1] /\ DOMAIN almTodo = 1..Len(almTodo) /\ DOMAIN Tail(almTodo) = 1..(Len(almTodo) - 1)
      /\ \A i \in 1..(Len(almTodo) - 1) : Tail(almTodo)[i] = almTodo[i + 1]
  BY HeadTailProperties, LenProperties, EmptySeq DEF AlmOrdered
<1>2. \A i \in DOMAIN Tail(almTodo) : i \in Nat /\ i + 1 \in DOMAIN almTodo /\ Tail(almTodo)[i] = almTodo[i + 1] /\ 1 < i + 1
  BY <1>1
<1>3. 1 \in DOMAIN almTodo
  BY <1>1
<1>4. \A i, j \in DOMAIN Tail(almTodo) : i < j => Tail(almTodo)[j] \in Alm!After(Tail(almTodo)[i])
  <2> SUFFICES ASSUME NEW i \in DOMAIN Tail(almTodo), NEW j \in DOMAIN Tail(almTodo), i < j
               PROVE  Tail(almTodo)[j] \in Alm!After(Tail(almTodo)[i])
    OBVIOUS
  <2>1. i + 1 < j + 1
    BY <1>2
  <2> QED
    BY <1>2, <2>1 DEF AlmOrdered
<1> QED
  BY <1>1, <1>2, <1>3, <1>4 DEF AlmOrdered

\* A session starts with no alarm taken and no request made.
LEMMA AlmInitInv == ASSUME Alm!AlarmAssumption PROVE Alm!Init => AlmIInv
<1> SUFFICES ASSUME Alm!Init PROVE AlmIInv
  OBVIOUS
<1>1. AlmOrdered
  <2>1. almTodo \in AlmSelections /\ almTest = ""
    BY DEF Alm!Init
  <2>2. almTodo \in Seq(Alm!TestNames) /\ \A i, j \in DOMAIN almTodo : i < j => almTodo[j] \in Alm!After(almTodo[i])
    BY <2>1 DEF Alm!AlarmAssumption
  <2>3. \A i \in DOMAIN almTodo : almTodo[i] \in Alm!TestNames
    BY <2>2, LenProperties
  <2>4. Alm!After("") = Alm!TestNames
    BY DEF Alm!After
  <2> QED
    BY <2>1, <2>2, <2>3, <2>4 DEF AlmOrdered
<1>2. AlmWhere /\ AlmHandles
  BY DEF Alm!Init, AlmWhere, AlmHandles, AlmIdle
<1>3. AlmRecorded
  BY DEF Alm!Init, AlmRecorded, AlmStates, AlmIds
<1>4. AlmOwned /\ AlmApart
  BY DEF Alm!Init, AlmOwned, Alm!OnlyOwnRemoved, AlmApart
<1>5. AlmStory
  BY DEF Alm!Init, AlmStory, AlmIdle
<1>6. AlmHonesty
  BY DEF Alm!Init, AlmHonesty, AlmUndisturbed
<1>7. AlmCounts
  <2>1. almN = 0 /\ almOthers = 0 /\ almFailed = {} /\ almTrouble = FALSE
    BY DEF Alm!Init
  <2>2. Polls \in Nat /\ AlmRivals \in Nat
    BY DEF Alm!AlarmAssumption
  <2>3. almN \in 0..Polls /\ almOthers \in 0..AlmRivals
    BY <2>1, <2>2
  <2>4. almTrouble \in BOOLEAN /\ almFailed \subseteq Alm!TestNames
    BY <2>1
  <2> QED
    BY <2>3, <2>4 DEF AlmCounts
<1> QED
  BY <1>1, <1>2, <1>3, <1>4, <1>5, <1>6, <1>7 DEF AlmIInv

\* Every step keeps the order.
LEMMA AlmOrderedKept == AlmOrdered /\ [Alm!Next]_(Alm!vars) => AlmOrdered'
<1> SUFFICES ASSUME AlmOrdered, [Alm!Next]_(Alm!vars) PROVE AlmOrdered'
  OBVIOUS
<1>q. UNCHANGED <<almTodo, almTest>> => AlmOrdered'
  BY DEF AlmOrdered
<1> USE DEF Alm!At, Alm!run, Alm!vars
<1>1. CASE Alm!StartTest
  BY <1>1, AlmFollowing DEF Alm!StartTest, AlmOrdered
<1>2. CASE Alm!Start
  BY <1>2, <1>q DEF Alm!Start
<1>3. CASE Alm!Seed
  BY <1>3, <1>q DEF Alm!Seed
<1>4. CASE Alm!FindActive
  BY <1>4, <1>q DEF Alm!FindActive
<1>5. CASE Alm!Get
  BY <1>5, <1>q DEF Alm!Get
<1>6. CASE Alm!Ack
  BY <1>6, <1>q DEF Alm!Ack
<1>7. CASE Alm!Clear
  BY <1>7, <1>q DEF Alm!Clear
<1>8. CASE Alm!GetCleared
  BY <1>8, <1>q DEF Alm!GetCleared
<1>9. CASE Alm!AwaitHistory
  BY <1>9, <1>q DEF Alm!AwaitHistory
<1>10. CASE Alm!ListHistory
  BY <1>10, <1>q DEF Alm!ListHistory
<1>11. CASE Alm!GetHistory
  BY <1>11, <1>q DEF Alm!GetHistory
<1>12. CASE Alm!DeleteHistory
  BY <1>12, <1>q DEF Alm!DeleteHistory
<1>13. CASE Alm!HistoryGone
  BY <1>13, <1>q DEF Alm!HistoryGone
<1>14. CASE Alm!NoAccess
  BY <1>14, <1>q DEF Alm!NoAccess
<1>15. CASE Alm!Ems
  BY <1>15, <1>q DEF Alm!Ems
<1>16. CASE Alm!OtherClient
  BY <1>16, <1>q DEF Alm!OtherClient
<1>17. CASE UNCHANGED Alm!vars
  BY <1>17, <1>q DEF Alm!vars
<1> QED
  BY <1>1, <1>2, <1>3, <1>4, <1>5, <1>6, <1>7, <1>8, <1>9, <1>10, <1>11, <1>12, <1>13, <1>14, <1>15,
     <1>16, <1>17 DEF Alm!Next, Alm!Tests

\* Every step leads to a request of its test.
LEMMA AlmWhereKept == AlmOrdered /\ AlmWhere /\ [Alm!Next]_(Alm!vars) => AlmWhere'
<1> SUFFICES ASSUME AlmOrdered, AlmWhere, [Alm!Next]_(Alm!vars) PROVE AlmWhere'
  OBVIOUS
<1> USE DEF AlmWhere, Alm!Go, Alm!Finish, Alm!Skip, Alm!Fail, Alm!Refused, Alm!At, Alm!Same, Alm!Quiet, Alm!Take, Alm!Drop, Alm!run, Alm!ems, Alm!seen,
            Alm!vars
<1>1. CASE Alm!StartTest
  BY <1>1, AlmFollowing DEF Alm!StartTest, Alm!TestNames
<1>2. CASE Alm!Start
  BY <1>2 DEF Alm!Start, Alm!First, Alm!TestNames
<1>3. CASE Alm!Seed
  BY <1>3 DEF Alm!Seed
<1>4. CASE Alm!FindActive
  BY <1>4 DEF Alm!FindActive
<1>5. CASE Alm!Get
  BY <1>5 DEF Alm!Get
<1>6. CASE Alm!Ack
  BY <1>6 DEF Alm!Ack
<1>7. CASE Alm!Clear
  BY <1>7 DEF Alm!Clear
<1>8. CASE Alm!GetCleared
  BY <1>8 DEF Alm!GetCleared
<1>9. CASE Alm!AwaitHistory
  BY <1>9 DEF Alm!AwaitHistory
<1>10. CASE Alm!ListHistory
  BY <1>10 DEF Alm!ListHistory
<1>11. CASE Alm!GetHistory
  BY <1>11 DEF Alm!GetHistory
<1>12. CASE Alm!DeleteHistory
  BY <1>12 DEF Alm!DeleteHistory
<1>13. CASE Alm!HistoryGone
  BY <1>13 DEF Alm!HistoryGone
<1>14. CASE Alm!NoAccess
  BY <1>14 DEF Alm!NoAccess
<1>15. CASE Alm!Ems
  BY <1>15 DEF Alm!Ems
<1>16. CASE Alm!OtherClient
  BY <1>16 DEF Alm!OtherClient
<1>17. CASE UNCHANGED Alm!vars
  BY <1>17 DEF Alm!vars
<1> QED
  BY <1>1, <1>2, <1>3, <1>4, <1>5, <1>6, <1>7, <1>8, <1>9, <1>10, <1>11, <1>12, <1>13, <1>14, <1>15,
     <1>16, <1>17 DEF Alm!Next, Alm!Tests

\* The workflow keeps records.
LEMMA AlmRecordedKept == AlmRecorded /\ AlmApart /\ [Alm!Next]_(Alm!vars) => AlmRecorded'
<1> SUFFICES ASSUME AlmRecorded, AlmApart, [Alm!Next]_(Alm!vars) PROVE AlmRecorded'
  OBVIOUS
<1> USE DEF AlmRecorded, AlmStates, AlmIds, Alm!Go, Alm!Finish, Alm!Skip, Alm!Fail, Alm!Refused, Alm!At, Alm!Same, Alm!Quiet, Alm!Take, Alm!Drop,
            Alm!run, Alm!ems, Alm!seen, Alm!vars
<1>1. CASE Alm!StartTest
  BY <1>1 DEF Alm!StartTest
<1>2. CASE Alm!Start
  BY <1>2 DEF Alm!Start, Alm!First
<1>3. CASE Alm!Seed
  BY <1>3 DEF Alm!Seed
<1>4. CASE Alm!FindActive
  BY <1>4 DEF Alm!FindActive, AlmApart
<1>5. CASE Alm!Get
  BY <1>5 DEF Alm!Get, AlmApart
<1>6. CASE Alm!Ack
  BY <1>6 DEF Alm!Ack
<1>7. CASE Alm!Clear
  BY <1>7 DEF Alm!Clear
<1>8. CASE Alm!GetCleared
  BY <1>8 DEF Alm!GetCleared
<1>9. CASE Alm!AwaitHistory
  BY <1>9 DEF Alm!AwaitHistory
<1>10. CASE Alm!ListHistory
  BY <1>10 DEF Alm!ListHistory
<1>11. CASE Alm!GetHistory
  BY <1>11 DEF Alm!GetHistory
<1>12. CASE Alm!DeleteHistory
  BY <1>12 DEF Alm!DeleteHistory
<1>13. CASE Alm!HistoryGone
  BY <1>13 DEF Alm!HistoryGone
<1>14. CASE Alm!NoAccess
  BY <1>14 DEF Alm!NoAccess
<1>15. CASE Alm!Ems
  BY <1>15 DEF Alm!Ems
<1>16. CASE Alm!OtherClient
  BY <1>16 DEF Alm!OtherClient
<1>17. CASE UNCHANGED Alm!vars
  BY <1>17 DEF Alm!vars
<1> QED
  BY <1>1, <1>2, <1>3, <1>4, <1>5, <1>6, <1>7, <1>8, <1>9, <1>10, <1>11, <1>12, <1>13, <1>14, <1>15,
     <1>16, <1>17 DEF Alm!Next, Alm!Tests

\* The alarm stays the same during a test.
LEMMA AlmHandlesKept == AlmWhere /\ AlmHandles /\ [Alm!Next]_(Alm!vars) => AlmHandles'
<1> SUFFICES ASSUME AlmWhere, AlmHandles, [Alm!Next]_(Alm!vars) PROVE AlmHandles'
  OBVIOUS
<1>i. almPc' \in {"next", "start"} => AlmHandles'
  BY DEF AlmHandles, AlmIdle
<1>s. UNCHANGED <<almTest, almWf, almIds>> /\ almPc \notin {"next", "start"} => AlmHandles'
  BY DEF AlmHandles, AlmIdle
<1>f. \A s : Alm!Finish(s) \/ Alm!Fail \/ Alm!Skip \/ Alm!Refused => almPc' = "next"
  BY DEF Alm!Finish, Alm!Fail, Alm!Skip, Alm!Refused
<1> USE DEF Alm!Go, Alm!At, Alm!Same, Alm!Quiet, Alm!Take, Alm!Drop, Alm!run, Alm!ems, Alm!seen, Alm!vars
<1>1. CASE Alm!StartTest
  BY <1>1, <1>i, <1>s DEF Alm!StartTest
<1>2. CASE Alm!Start
  BY <1>2, <1>i, <1>f DEF Alm!Start, Alm!First, Alm!Blocked, AlmHandles, AlmIdle, AlmWhere, Alm!TestNames
<1>3. CASE Alm!Seed
  BY <1>3, <1>f, <1>i, <1>s DEF Alm!Seed
<1>4. CASE Alm!FindActive
  <2>1. almPc' = "next" \/ (UNCHANGED <<almTest, almWf, almIds>> /\ almPc \notin {"next", "start"}) \/ (almTest = "lifecycle" /\ UNCHANGED almTest)
    BY <1>4, <1>f DEF Alm!FindActive, AlmWhere
  <2> QED
    BY <1>i, <1>s, <2>1 DEF AlmHandles
<1>5. CASE Alm!Get
  BY <1>5, <1>f, <1>i, <1>s DEF Alm!Get
<1>6. CASE Alm!Ack
  BY <1>6, <1>f, <1>i, <1>s DEF Alm!Ack
<1>7. CASE Alm!Clear
  BY <1>7, <1>f, <1>i, <1>s DEF Alm!Clear
<1>8. CASE Alm!GetCleared
  BY <1>8, <1>f, <1>i, <1>s DEF Alm!GetCleared
<1>9. CASE Alm!AwaitHistory
  BY <1>9, <1>f, <1>i, <1>s DEF Alm!AwaitHistory
<1>10. CASE Alm!ListHistory
  BY <1>10, <1>f, <1>i, <1>s DEF Alm!ListHistory
<1>11. CASE Alm!GetHistory
  BY <1>11, <1>f, <1>i, <1>s DEF Alm!GetHistory
<1>12. CASE Alm!DeleteHistory
  BY <1>12, <1>f, <1>i, <1>s DEF Alm!DeleteHistory
<1>13. CASE Alm!HistoryGone
  BY <1>13, <1>f, <1>i, <1>s DEF Alm!HistoryGone
<1>14. CASE Alm!NoAccess
  BY <1>14, <1>f, <1>i, <1>s DEF Alm!NoAccess
<1>15. CASE Alm!Ems
  BY <1>15, <1>s, <1>i DEF Alm!Ems, AlmHandles, AlmIdle
<1>16. CASE Alm!OtherClient
  BY <1>16 DEF Alm!OtherClient, AlmHandles, AlmIdle
<1>17. CASE UNCHANGED Alm!vars
  BY <1>17 DEF AlmHandles, AlmIdle
<1> QED
  BY <1>1, <1>2, <1>3, <1>4, <1>5, <1>6, <1>7, <1>8, <1>9, <1>10, <1>11, <1>12, <1>13, <1>14, <1>15,
     <1>16, <1>17 DEF Alm!Next, Alm!Tests

\* Only alarms that this session has cleared are deleted.
LEMMA AlmOwnedKept == AlmRecorded /\ AlmWhere /\ AlmHandles /\ AlmOwned /\ [Alm!Next]_(Alm!vars) => AlmOwned'
<1> SUFFICES ASSUME AlmRecorded, AlmWhere, AlmHandles, AlmOwned, [Alm!Next]_(Alm!vars) PROVE AlmOwned'
  OBVIOUS
<1>k. UNCHANGED <<almCleared, almRemoved>> /\ almWf'.history = almWf.history
        /\ (almPc' \in {"next", "start", "active_list", "seed", "await", "get", "ack", "get_acked", "clear"}
            \/ (almIds' \in almCleared))
      => AlmOwned'
  BY DEF AlmOwned, Alm!OnlyOwnRemoved
<1>w. /\ [almWf EXCEPT !.listed = TRUE].history = almWf.history /\ [almWf EXCEPT !.byId = TRUE].history = almWf.history
      /\ [almWf EXCEPT !.deleted = TRUE].history = almWf.history /\ \A a : [almWf EXCEPT !.active = a].history = almWf.history
  BY DEF AlmRecorded, AlmStates
<1> USE DEF AlmOwned, Alm!OnlyOwnRemoved, AlmWhere, Alm!Go, Alm!Finish, Alm!Skip, Alm!Fail, Alm!Refused, Alm!At, Alm!Same, Alm!Quiet, Alm!Take,
            Alm!Drop, Alm!run, Alm!ems, Alm!seen, Alm!vars
<1>1. CASE Alm!StartTest
  BY <1>1 DEF Alm!StartTest
<1>2. CASE Alm!Start
  BY <1>2 DEF Alm!Start, Alm!First, Alm!Blocked, Alm!TestNames
<1>3. CASE Alm!Seed
  BY <1>3 DEF Alm!Seed
<1>4. CASE Alm!FindActive
  <2>1. almWf'.history = almWf.history /\ UNCHANGED <<almCleared, almRemoved>>
    BY <1>4, <1>w DEF Alm!FindActive
  <2>2. almPc' \in {"next", "get", "await"}
    BY <1>4 DEF Alm!FindActive
  <2> QED
    BY <1>k, <2>1, <2>2
<1>5. CASE Alm!Get
  BY <1>5 DEF Alm!Get
<1>6. CASE Alm!Ack
  BY <1>6 DEF Alm!Ack
<1>7. CASE Alm!Clear
  BY <1>7 DEF Alm!Clear
<1>8. CASE Alm!GetCleared
  BY <1>8 DEF Alm!GetCleared
<1>9. CASE Alm!AwaitHistory
  BY <1>9 DEF Alm!AwaitHistory, AlmRecorded, AlmStates
<1>10. CASE Alm!ListHistory
  <2>1. almWf'.history = almWf.history /\ UNCHANGED <<almCleared, almRemoved>>
    BY <1>10, <1>w DEF Alm!ListHistory
  <2>2. almPc' \in {"next", "history_get"} /\ almIds' = almIds /\ almIds \in almCleared
    BY <1>10 DEF Alm!ListHistory
  <2> QED
    BY <1>k, <2>1, <2>2
<1>11. CASE Alm!GetHistory
  <2>1. almWf'.history = almWf.history /\ UNCHANGED <<almCleared, almRemoved>>
    BY <1>11, <1>w DEF Alm!GetHistory
  <2>2. almPc' \in {"next", "history_delete"} /\ almIds' = almIds /\ almIds \in almCleared
    BY <1>11 DEF Alm!GetHistory
  <2> QED
    BY <1>k, <2>1, <2>2
<1>12. CASE Alm!DeleteHistory
  BY <1>12 DEF Alm!DeleteHistory
<1>13. CASE Alm!HistoryGone
  <2>1. almWf'.history = almWf.history /\ UNCHANGED <<almCleared, almRemoved>>
    BY <1>13, <1>w DEF Alm!HistoryGone
  <2>2. almPc' \in {"next"} /\ almIds' = almIds /\ almIds \in almCleared
    BY <1>13 DEF Alm!HistoryGone
  <2> QED
    BY <1>k, <2>1, <2>2
<1>14. CASE Alm!NoAccess
  BY <1>14 DEF Alm!NoAccess
<1>15. CASE Alm!Ems
  BY <1>15 DEF Alm!Ems
<1>16. CASE Alm!OtherClient
  BY <1>16 DEF Alm!OtherClient
<1>17. CASE UNCHANGED Alm!vars
  BY <1>17 DEF Alm!vars
<1> QED
  BY <1>1, <1>2, <1>3, <1>4, <1>5, <1>6, <1>7, <1>8, <1>9, <1>10, <1>11, <1>12, <1>13, <1>14, <1>15,
     <1>16, <1>17 DEF Alm!Next, Alm!Tests

\* Alarms stay apart.
LEMMA AlmApartKept == AlmRecorded /\ AlmApart /\ AlmOwned /\ [Alm!Next]_(Alm!vars) => AlmApart'
<1> SUFFICES ASSUME AlmRecorded, AlmApart, AlmOwned, [Alm!Next]_(Alm!vars) PROVE AlmApart'
  OBVIOUS
<1> USE DEF AlmApart, Alm!Go, Alm!Finish, Alm!Skip, Alm!Fail, Alm!Refused, Alm!At, Alm!Same, Alm!Quiet, Alm!Take, Alm!Drop, Alm!run, Alm!ems, Alm!seen,
            Alm!vars
<1>1. CASE Alm!StartTest
  BY <1>1 DEF Alm!StartTest
<1>2. CASE Alm!Start
  BY <1>2 DEF Alm!Start, Alm!First
<1>3. CASE Alm!Seed
  BY <1>3 DEF Alm!Seed
<1>4. CASE Alm!FindActive
  BY <1>4 DEF Alm!FindActive
<1>5. CASE Alm!Get
  BY <1>5 DEF Alm!Get
<1>6. CASE Alm!Ack
  BY <1>6 DEF Alm!Ack, AlmRecorded
<1>7. CASE Alm!Clear
  BY <1>7 DEF Alm!Clear
<1>8. CASE Alm!GetCleared
  BY <1>8 DEF Alm!GetCleared
<1>9. CASE Alm!AwaitHistory
  BY <1>9 DEF Alm!AwaitHistory
<1>10. CASE Alm!ListHistory
  BY <1>10 DEF Alm!ListHistory
<1>11. CASE Alm!GetHistory
  BY <1>11 DEF Alm!GetHistory
<1>12. CASE Alm!DeleteHistory
  BY <1>12 DEF Alm!DeleteHistory, AlmOwned
<1>13. CASE Alm!HistoryGone
  BY <1>13 DEF Alm!HistoryGone
<1>14. CASE Alm!NoAccess
  BY <1>14 DEF Alm!NoAccess
<1>15. CASE Alm!Ems
  BY <1>15 DEF Alm!Ems, Alm!Unused
<1>16. CASE Alm!OtherClient
  <2>1. almPc = "history_gone" => almIds \notin almActive
    BY DEF AlmOwned, AlmApart
  <2> QED
    BY <1>16, <2>1 DEF Alm!OtherClient
<1>17. CASE UNCHANGED Alm!vars
  BY <1>17 DEF Alm!vars
<1> QED
  BY <1>1, <1>2, <1>3, <1>4, <1>5, <1>6, <1>7, <1>8, <1>9, <1>10, <1>11, <1>12, <1>13, <1>14, <1>15,
     <1>16, <1>17 DEF Alm!Next, Alm!Tests

\* What the phases say of one another is kept.
LEMMA AlmStoryKept == AlmRecorded /\ AlmOrdered /\ AlmWhere /\ AlmHandles /\ AlmStory /\ [Alm!Next]_(Alm!vars) => AlmStory'
<1> SUFFICES ASSUME AlmRecorded, AlmOrdered, AlmWhere, AlmHandles, AlmStory, [Alm!Next]_(Alm!vars) PROVE AlmStory'
  OBVIOUS
<1>k. /\ UNCHANGED <<almWf, almTest>> /\ almRemoved \subseteq almRemoved' /\ almPc' # "history_gone"
      /\ (almPc' \in {"next", "start"} \/ almPc \notin {"next", "start"})
      => AlmStory'
  BY DEF AlmStory, AlmIdle
<1>n. \A s : Alm!Finish(s) \/ Alm!Fail \/ Alm!Skip \/ Alm!Refused => almPc' = "next"
  BY DEF Alm!Finish, Alm!Fail, Alm!Skip, Alm!Refused
<1> USE DEF Alm!Go, Alm!Finish, Alm!Skip, Alm!Fail, Alm!Refused, Alm!At, Alm!Same, Alm!Quiet, Alm!Take, Alm!Drop, Alm!run, Alm!ems, Alm!seen, Alm!vars
<1>1. CASE Alm!StartTest
  <2>1. almTest' \in Alm!TestNames /\ almTest' \in Alm!After(almTest) /\ UNCHANGED <<almWf, almIds, almRemoved>> /\ almPc' = "start"
    BY <1>1, AlmFollowing DEF Alm!StartTest
  <2>2. almWf.history # Alm!NoAlarm => almTest' \notin {"", "list"}
    BY <2>1, AlmOrder DEF AlmWhere, AlmStory, Alm!TestNames
  <2>3. almWf.deleted => almTest' \in {"lifecycle", "noaccess"}
    BY <2>1, AlmOrder DEF AlmWhere, AlmStory
  <2> QED
    BY <2>1, <2>2, <2>3 DEF AlmStory, AlmIdle
<1>2. CASE Alm!Start
  <2>1. UNCHANGED <<almWf, almTest, almRemoved>> /\ almPc' # "history_gone" /\ almPc = "start"
    BY <1>2 DEF Alm!Start, Alm!First
  <2>2. almPc' = "next" \/ ~Alm!Blocked
    BY <1>2 DEF Alm!Start
  <2>3. CASE almPc' = "next"
    BY <1>k, <2>1, <2>3
  <2>4. CASE ~Alm!Blocked
    BY <2>1, <2>4 DEF AlmStory, AlmIdle, Alm!Blocked
  <2> QED
    BY <2>2, <2>3, <2>4
<1>3. CASE Alm!Seed
  <2>1. UNCHANGED <<almWf, almTest>> /\ almRemoved \subseteq almRemoved'
    BY <1>3 DEF Alm!Seed
  <2>2. almPc \notin {"next", "start"} /\ almPc' \in {"next", "await"}
    BY <1>3, <1>n DEF Alm!Seed
  <2> QED
    BY <1>k, <2>1, <2>2
<1>4. CASE Alm!FindActive
  <2>1. CASE UNCHANGED almWf
    <3>1. almPc' \in {"next", "get", "await"} /\ almPc \notin {"next", "start"} /\ UNCHANGED <<almTest, almRemoved>>
      BY <1>4, <1>n DEF Alm!FindActive
    <3> QED
      BY <1>k, <2>1, <3>1
  <2>2. CASE \E a \in almActive : almWf' = [almWf EXCEPT !.active = a] /\ almTest = "list"
    <3>1. almWf.history = Alm!NoAlarm /\ ~almWf.deleted /\ almPc' = "next" /\ UNCHANGED almTest
      BY <1>4, <2>2, <1>n DEF Alm!FindActive, AlmStory
    <3>2. almWf'.history = almWf.history /\ almWf'.listed = almWf.listed /\ almWf'.byId = almWf.byId /\ almWf'.deleted = almWf.deleted
      BY <2>2 DEF AlmRecorded, AlmStates
    <3> QED
      BY <3>1, <3>2 DEF AlmStory, AlmIdle
  <2> QED
    BY <1>4, <2>1, <2>2 DEF Alm!FindActive
<1>5. CASE Alm!Get
  <2>1. UNCHANGED <<almWf, almTest>> /\ almRemoved \subseteq almRemoved'
    BY <1>5 DEF Alm!Get
  <2>2. almPc \notin {"next", "start"} /\ almPc' \in {"next", "ack", "clear"}
    BY <1>5, <1>n DEF Alm!Get
  <2> QED
    BY <1>k, <2>1, <2>2
<1>6. CASE Alm!Ack
  <2>1. UNCHANGED <<almWf, almTest>> /\ almRemoved \subseteq almRemoved'
    BY <1>6 DEF Alm!Ack
  <2>2. almPc \notin {"next", "start"} /\ almPc' \in {"next", "get_acked"}
    BY <1>6, <1>n DEF Alm!Ack
  <2> QED
    BY <1>k, <2>1, <2>2
<1>7. CASE Alm!Clear
  <2>1. UNCHANGED <<almWf, almTest>> /\ almRemoved \subseteq almRemoved'
    BY <1>7 DEF Alm!Clear
  <2>2. almPc \notin {"next", "start"} /\ almPc' \in {"next", "get_cleared"}
    BY <1>7, <1>n DEF Alm!Clear
  <2> QED
    BY <1>k, <2>1, <2>2
<1>8. CASE Alm!GetCleared
  <2>1. UNCHANGED <<almWf, almTest>> /\ almRemoved \subseteq almRemoved'
    BY <1>8 DEF Alm!GetCleared
  <2>2. almPc \notin {"next", "start"} /\ almPc' \in {"next", "wait", "history_list"}
    BY <1>8, <1>n DEF Alm!GetCleared
  <2> QED
    BY <1>k, <2>1, <2>2
<1>9. CASE Alm!AwaitHistory
  <2>1. CASE UNCHANGED almWf
    <3>1. UNCHANGED <<almTest, almRemoved>> /\ almPc' # "history_gone" /\ almPc \notin {"next", "start"}
      BY <1>9, <1>n DEF Alm!AwaitHistory
    <3> QED
      BY <1>k, <2>1, <3>1
  <2>2. CASE almWf' = [almWf EXCEPT !.history = almIds] /\ almTest = "clear" /\ almPc = "wait" /\ almPc' = "next"
    <3>1. almPc' = "next" /\ UNCHANGED <<almTest, almRemoved>>
      BY <1>9, <2>2 DEF Alm!AwaitHistory
    <3>2. almWf'.active = almWf.active /\ almWf'.history = almIds /\ almWf'.listed = almWf.listed /\ almWf'.byId = almWf.byId /\ almWf'.deleted = almWf.deleted
      BY <2>2 DEF AlmRecorded, AlmStates
    <3> QED
      BY <2>2, <3>1, <3>2 DEF AlmStory, AlmIdle, AlmHandles, AlmWhere
  <2> QED
    BY <1>9, <2>1, <2>2 DEF Alm!AwaitHistory, AlmWhere
<1>10. CASE Alm!ListHistory
  <2>1. CASE UNCHANGED almWf
    <3>1. UNCHANGED <<almTest, almRemoved>> /\ almPc' # "history_gone" /\ almPc \notin {"next", "start"}
      BY <1>10, <1>n DEF Alm!ListHistory
    <3> QED
      BY <1>k, <2>1, <3>1
  <2>2. CASE almWf' = [almWf EXCEPT !.listed = TRUE] /\ almTest = "history"
    <3>1. almPc' = "next" /\ UNCHANGED <<almTest, almRemoved>>
      BY <1>10, <2>2 DEF Alm!ListHistory
    <3>2. almWf'.active = almWf.active /\ almWf'.history = almWf.history /\ almWf'.listed = TRUE /\ almWf'.byId = almWf.byId /\ almWf'.deleted = almWf.deleted
      BY <2>2 DEF AlmRecorded, AlmStates
    <3> QED
      BY <2>2, <3>1, <3>2 DEF AlmStory, AlmIdle, AlmHandles, AlmWhere
  <2> QED
    BY <1>10, <2>1, <2>2 DEF Alm!ListHistory
<1>11. CASE Alm!GetHistory
  <2>1. CASE UNCHANGED almWf
    <3>1. UNCHANGED <<almTest, almRemoved>> /\ almPc' # "history_gone" /\ almPc \notin {"next", "start"}
      BY <1>11, <1>n DEF Alm!GetHistory
    <3> QED
      BY <1>k, <2>1, <3>1
  <2>2. CASE almWf' = [almWf EXCEPT !.byId = TRUE] /\ almTest = "by_id" /\ almPc = "history_get"
    <3>1. almPc' = "next" /\ UNCHANGED <<almTest, almRemoved>>
      BY <1>11, <2>2 DEF Alm!GetHistory
    <3>2. almWf'.active = almWf.active /\ almWf'.history = almWf.history /\ almWf'.listed = almWf.listed /\ almWf'.byId = TRUE /\ almWf'.deleted = almWf.deleted
      BY <2>2 DEF AlmRecorded, AlmStates
    <3> QED
      BY <2>2, <3>1, <3>2 DEF AlmStory, AlmIdle, AlmHandles, AlmWhere
  <2> QED
    BY <1>11, <2>1, <2>2 DEF Alm!GetHistory
<1>12. CASE Alm!DeleteHistory
  <2>1. UNCHANGED <<almWf, almTest, almIds>> /\ almRemoved \subseteq almRemoved' /\ almPc = "history_delete"
    BY <1>12 DEF Alm!DeleteHistory
  <2>2. almPc' = "next" \/ (almPc' = "history_gone" /\ almIds \in almRemoved')
    BY <1>12 DEF Alm!DeleteHistory
  <2> QED
    BY <2>1, <2>2 DEF AlmStory, AlmIdle
<1>13. CASE Alm!HistoryGone
  <2>1. CASE UNCHANGED almWf
    <3>1. UNCHANGED <<almTest, almRemoved>> /\ almPc' # "history_gone" /\ almPc \notin {"next", "start"}
      BY <1>13, <1>n DEF Alm!HistoryGone
    <3> QED
      BY <1>k, <2>1, <3>1
  <2>2. CASE almWf' = [almWf EXCEPT !.deleted = TRUE] /\ almTest = "delete" /\ almPc = "history_gone"
    <3>1. almPc' = "next" /\ UNCHANGED <<almTest, almRemoved>>
      BY <1>13, <2>2 DEF Alm!HistoryGone
    <3>2. almWf'.active = almWf.active /\ almWf'.history = almWf.history /\ almWf'.listed = almWf.listed /\ almWf'.byId = almWf.byId /\ almWf'.deleted = TRUE
      BY <2>2 DEF AlmRecorded, AlmStates
    <3>3. almWf.history # Alm!NoAlarm /\ almWf.history \in almRemoved /\ almWf.byId
      BY <2>2 DEF AlmStory, AlmHandles, AlmIdle
    <3> QED
      <4>1. almWf'.history # Alm!NoAlarm => almWf'.history = almWf'.active /\ almTest' \notin {"", "list"}
        BY <2>2, <3>1, <3>2 DEF AlmStory
      <4>2. almWf'.byId => almWf'.listed
        BY <3>2 DEF AlmStory
      <4>3. almWf'.history # Alm!NoAlarm /\ almWf'.history \in almRemoved' /\ almWf'.byId
        BY <3>1, <3>2, <3>3
      <4> QED
        BY <2>2, <3>1, <4>1, <4>2, <4>3 DEF AlmStory, AlmIdle
  <2> QED
    BY <1>13, <2>1, <2>2 DEF Alm!HistoryGone
<1>14. CASE Alm!NoAccess
  <2>1. UNCHANGED <<almWf, almTest>> /\ almRemoved \subseteq almRemoved'
    BY <1>14 DEF Alm!NoAccess
  <2>2. almPc \notin {"next", "start"} /\ almPc' \in {"next"}
    BY <1>14, <1>n DEF Alm!NoAccess
  <2> QED
    BY <1>k, <2>1, <2>2
<1>15. CASE Alm!Ems
  BY <1>15 DEF Alm!Ems, AlmStory, AlmIdle
<1>16. CASE Alm!OtherClient
  BY <1>16 DEF Alm!OtherClient, AlmStory, AlmIdle
<1>17. CASE UNCHANGED Alm!vars
  BY <1>17 DEF AlmStory, AlmIdle
<1> QED
  BY <1>1, <1>2, <1>3, <1>4, <1>5, <1>6, <1>7, <1>8, <1>9, <1>10, <1>11, <1>12, <1>13, <1>14, <1>15,
     <1>16, <1>17 DEF Alm!Next, Alm!Tests

\* What has gone wrong is not forgotten.
LEMMA AlmTroubleStays == almTrouble /\ [Alm!Next]_(Alm!vars) => almTrouble'
<1> SUFFICES ASSUME almTrouble, [Alm!Next]_(Alm!vars) PROVE almTrouble'
  OBVIOUS
<1>r. Alm!Refused => almTrouble'
  BY DEF Alm!Refused
<1>h. UNCHANGED almTrouble => almTrouble'
  OBVIOUS
<1>1. CASE Alm!StartTest
  BY <1>1, <1>r, <1>h DEF Alm!StartTest, Alm!Honest
<1>2. CASE Alm!Start
  BY <1>2, <1>r, <1>h DEF Alm!Start, Alm!Honest
<1>3. CASE Alm!Seed
  BY <1>3, <1>r, <1>h DEF Alm!Seed, Alm!Honest
<1>4. CASE Alm!FindActive
  BY <1>4, <1>r, <1>h DEF Alm!FindActive, Alm!Honest
<1>5. CASE Alm!Get
  BY <1>5, <1>r, <1>h DEF Alm!Get, Alm!Honest
<1>6. CASE Alm!Ack
  BY <1>6, <1>r, <1>h DEF Alm!Ack, Alm!Honest
<1>7. CASE Alm!Clear
  BY <1>7, <1>r, <1>h DEF Alm!Clear, Alm!Honest
<1>8. CASE Alm!GetCleared
  BY <1>8, <1>r, <1>h DEF Alm!GetCleared, Alm!Honest
<1>9. CASE Alm!AwaitHistory
  BY <1>9, <1>r, <1>h DEF Alm!AwaitHistory, Alm!Honest
<1>10. CASE Alm!ListHistory
  BY <1>10, <1>r, <1>h DEF Alm!ListHistory, Alm!Honest
<1>11. CASE Alm!GetHistory
  BY <1>11, <1>r, <1>h DEF Alm!GetHistory, Alm!Honest
<1>12. CASE Alm!DeleteHistory
  BY <1>12, <1>r, <1>h DEF Alm!DeleteHistory, Alm!Honest
<1>13. CASE Alm!HistoryGone
  BY <1>13, <1>r, <1>h DEF Alm!HistoryGone, Alm!Honest
<1>14. CASE Alm!NoAccess
  BY <1>14, <1>r, <1>h DEF Alm!NoAccess, Alm!Honest
<1>15. CASE Alm!Ems
  BY <1>15, <1>r, <1>h DEF Alm!Ems, Alm!Honest
<1>16. CASE Alm!OtherClient
  BY <1>16, <1>r, <1>h DEF Alm!OtherClient, Alm!Honest
<1>17. CASE UNCHANGED Alm!vars
  BY <1>17, <1>r, <1>h DEF Alm!vars, Alm!Honest
<1> QED
  BY <1>1, <1>2, <1>3, <1>4, <1>5, <1>6, <1>7, <1>8, <1>9, <1>10, <1>11, <1>12, <1>13, <1>14, <1>15,
     <1>16, <1>17 DEF Alm!Next, Alm!Tests

\* Without trouble nothing disturbs the alarms, and no test fails.
LEMMA AlmHonestyKept == AlmIInv /\ [Alm!Next]_(Alm!vars) => AlmHonesty'
<1> SUFFICES ASSUME AlmRecorded, AlmOrdered, AlmWhere, AlmHandles, AlmOwned, AlmApart, AlmStory, AlmHonesty, [Alm!Next]_(Alm!vars), ~almTrouble'
             PROVE  AlmUndisturbed'
  BY DEF AlmIInv, AlmHonesty
<1>t. ~almTrouble /\ AlmUndisturbed
  BY AlmTroubleStays DEF AlmHonesty
<1> USE DEF Alm!Go, Alm!Finish, Alm!Skip, Alm!Fail, Alm!Refused, Alm!Honest, Alm!At, Alm!Same, Alm!Quiet, Alm!Take, Alm!Drop, Alm!run, Alm!ems, Alm!seen,
            Alm!vars
<1>1. CASE Alm!StartTest
  <2>1. almTest' \in Alm!TestNames /\ almTest' \in Alm!After(almTest) /\ almPc' = "start" /\ UNCHANGED <<almWf, almFailed, almActive, almPast, almTrouble>>
    BY <1>1, AlmFollowing DEF Alm!StartTest
  <2>3. /\ almTest' \in {"list", "clear"} => almTest \in {"", "list"}
        /\ almTest' \in {"list", "clear", "history", "by_id", "delete"} => almTest \in {"", "list", "clear", "history", "by_id"}
    BY <2>1, AlmOrder DEF AlmWhere
  <2> QED
    BY <2>1, <1>t, <2>3 DEF AlmUndisturbed, Alm!TestNames
<1>2. CASE Alm!Start
  BY <1>2 DEF Alm!Start, AlmWhere, AlmHandles, AlmIdle, AlmHonesty, AlmUndisturbed
<1>3. CASE Alm!Seed
  BY <1>3 DEF Alm!Seed, AlmWhere, AlmHandles, AlmIdle, AlmHonesty, AlmUndisturbed
<1>4. CASE Alm!FindActive
  <2>2. UNCHANGED <<almTest, almFailed, almActive, almPast>> /\ almPc' \in {"next", "get", "await"} /\ almPc \in {"active_list", "await"}
    BY <1>4 DEF Alm!FindActive
  <2>3. CASE UNCHANGED almWf
    BY <1>t, <2>2, <2>3 DEF AlmUndisturbed, AlmWhere
  <2>4. CASE \E a \in almActive : almWf' = [almWf EXCEPT !.active = a] /\ almTest = "list"
    <3>1. almWf'.active \in almActive /\ almWf'.history = almWf.history
      BY <2>4 DEF AlmRecorded, AlmStates
    <3> QED
      BY <1>t, <2>2, <2>4, <3>1 DEF AlmUndisturbed
  <2> QED
    BY <1>4, <2>3, <2>4 DEF Alm!FindActive, AlmWhere
<1>5. CASE Alm!Get
  <2>2. UNCHANGED <<almTest, almWf, almActive, almPast>> /\ almPc' \in {"next", "ack", "clear"} /\ almPc \notin {"next", "start"}
    BY <1>5 DEF Alm!Get
  <2>3. almFailed' \subseteq {"lifecycle"}
    <3>1. almFailed \subseteq {"lifecycle"}
      BY <1>t DEF AlmUndisturbed
    <3>2. almFailed' = almFailed \/ (almFailed' = almFailed \cup {almTest} /\ almTest = "lifecycle")
      BY <1>5, <1>t DEF Alm!Get, AlmUndisturbed, AlmWhere, AlmHandles, AlmIdle
    <3> QED
      BY <3>1, <3>2
  <2> QED
    BY <1>5, <1>t, <2>2, <2>3 DEF AlmUndisturbed, AlmWhere, Alm!Get
<1>6. CASE Alm!Ack
  BY <1>6 DEF Alm!Ack, AlmWhere, AlmHandles, AlmIdle, AlmHonesty, AlmUndisturbed
<1>7. CASE Alm!Clear
  BY <1>7 DEF Alm!Clear, AlmWhere, AlmHandles, AlmIdle, AlmHonesty, AlmUndisturbed
<1>8. CASE Alm!GetCleared
  <2>2. UNCHANGED <<almTest, almWf, almActive, almPast>> /\ almPc' \in {"next", "wait", "history_list"} /\ almPc \notin {"next", "start"}
    BY <1>8 DEF Alm!GetCleared
  <2>3. almFailed' \subseteq {"lifecycle"}
    <3>1. almFailed \subseteq {"lifecycle"}
      BY <1>t DEF AlmUndisturbed
    <3>2. almFailed' = almFailed \/ (almFailed' = almFailed \cup {almTest} /\ almTest = "lifecycle")
      BY <1>8, <1>t DEF Alm!GetCleared, AlmUndisturbed, AlmOwned, AlmApart
    <3> QED
      BY <3>1, <3>2
  <2> QED
    BY <1>8, <1>t, <2>2, <2>3 DEF AlmUndisturbed, AlmWhere, Alm!GetCleared
<1>9. CASE Alm!AwaitHistory
  <2>2. UNCHANGED <<almTest, almActive, almPast>> /\ almPc' \in {"next", "wait"} /\ almPc \notin {"next", "start"}
    BY <1>9 DEF Alm!AwaitHistory
  <2>3. almFailed' \subseteq {"lifecycle"}
    <3>1. almFailed \subseteq {"lifecycle"}
      BY <1>t DEF AlmUndisturbed
    <3>2. almFailed' = almFailed \/ (almFailed' = almFailed \cup {almTest} /\ almTest = "lifecycle")
      BY <1>9, <1>t DEF Alm!AwaitHistory, AlmUndisturbed, AlmWhere
    <3> QED
      BY <3>1, <3>2
  <2>4. CASE UNCHANGED almWf
    BY <1>9, <1>t, <2>2, <2>3, <2>4 DEF AlmUndisturbed, AlmWhere, Alm!AwaitHistory
  <2>5. CASE almWf' = [almWf EXCEPT !.history = almIds] /\ almTest = "clear" /\ almIds \in almPast
    <3>1. almWf'.active = almWf.active /\ almWf'.history = almIds
      BY <2>5 DEF AlmRecorded, AlmStates
    <3>2. almTest = "clear" /\ almIds \in almPast
      BY <2>5
    <3> QED
      BY <1>t, <2>2, <2>3, <3>1, <3>2 DEF AlmUndisturbed
  <2> QED
    BY <1>9, <2>4, <2>5 DEF Alm!AwaitHistory, AlmWhere
<1>10. CASE Alm!ListHistory
  <2>2. UNCHANGED <<almTest, almActive, almPast>> /\ almPc' \in {"next", "history_get"} /\ almPc \notin {"next", "start"}
    BY <1>10 DEF Alm!ListHistory
  <2>3. almFailed' \subseteq {"lifecycle"}
    <3>1. almFailed \subseteq {"lifecycle"}
      BY <1>t DEF AlmUndisturbed
    <3>2. almFailed' = almFailed \/ (almFailed' = almFailed \cup {almTest} /\ almTest = "lifecycle")
      BY <1>10, <1>t DEF Alm!ListHistory, AlmUndisturbed, AlmWhere, AlmHandles, AlmIdle
    <3> QED
      BY <3>1, <3>2
  <2>4. CASE UNCHANGED almWf
    BY <1>10, <1>t, <2>2, <2>3, <2>4 DEF AlmUndisturbed, AlmWhere, Alm!ListHistory
  <2>5. CASE almWf' = [almWf EXCEPT !.listed = TRUE] /\ almTest = "history"
    <3>1. almWf'.active = almWf.active /\ almWf'.history = almWf.history
      BY <2>5 DEF AlmRecorded, AlmStates
    <3>2. almTest = "history"
      BY <2>5
    <3> QED
      BY <1>t, <2>2, <2>3, <3>1, <3>2 DEF AlmUndisturbed
  <2> QED
    BY <1>10, <2>4, <2>5 DEF Alm!ListHistory, AlmWhere
<1>11. CASE Alm!GetHistory
  <2>2. UNCHANGED <<almTest, almActive, almPast>> /\ almPc' \in {"next", "history_delete"} /\ almPc \notin {"next", "start"}
    BY <1>11 DEF Alm!GetHistory
  <2>3. almFailed' \subseteq {"lifecycle"}
    <3>1. almFailed \subseteq {"lifecycle"}
      BY <1>t DEF AlmUndisturbed
    <3>2. almFailed' = almFailed \/ (almFailed' = almFailed \cup {almTest} /\ almTest = "lifecycle")
      BY <1>11, <1>t DEF Alm!GetHistory, AlmUndisturbed, AlmWhere, AlmHandles, AlmIdle
    <3> QED
      BY <3>1, <3>2
  <2>4. CASE UNCHANGED almWf
    BY <1>11, <1>t, <2>2, <2>3, <2>4 DEF AlmUndisturbed, AlmWhere, Alm!GetHistory
  <2>5. CASE almWf' = [almWf EXCEPT !.byId = TRUE] /\ almTest = "by_id"
    <3>1. almWf'.active = almWf.active /\ almWf'.history = almWf.history
      BY <2>5 DEF AlmRecorded, AlmStates
    <3>2. almTest = "by_id"
      BY <2>5
    <3> QED
      BY <1>t, <2>2, <2>3, <3>1, <3>2 DEF AlmUndisturbed
  <2> QED
    BY <1>11, <2>4, <2>5 DEF Alm!GetHistory, AlmWhere
<1>12. CASE Alm!DeleteHistory
  BY <1>12 DEF Alm!DeleteHistory, AlmWhere, AlmHandles, AlmIdle, AlmHonesty, AlmUndisturbed
<1>13. CASE Alm!HistoryGone
  <2>2. UNCHANGED <<almTest, almActive, almPast>> /\ almPc' \in {"next"} /\ almPc \notin {"next", "start"}
    BY <1>13 DEF Alm!HistoryGone
  <2>3. almFailed' \subseteq {"lifecycle"}
    <3>1. almFailed \subseteq {"lifecycle"}
      BY <1>t DEF AlmUndisturbed
    <3>2. almFailed' = almFailed \/ (almFailed' = almFailed \cup {almTest} /\ almTest = "lifecycle")
      BY <1>13, <1>t DEF Alm!HistoryGone, AlmUndisturbed, AlmApart
    <3> QED
      BY <3>1, <3>2
  <2>4. CASE UNCHANGED almWf
    BY <1>13, <1>t, <2>2, <2>3, <2>4 DEF AlmUndisturbed, AlmWhere, Alm!HistoryGone
  <2>5. CASE almWf' = [almWf EXCEPT !.deleted = TRUE] /\ almTest = "delete"
    <3>1. almWf'.active = almWf.active /\ almWf'.history = almWf.history
      BY <2>5 DEF AlmRecorded, AlmStates
    <3>2. almTest = "delete"
      BY <2>5
    <3> QED
      BY <1>t, <2>2, <2>3, <3>1, <3>2 DEF AlmUndisturbed
  <2> QED
    BY <1>13, <2>4, <2>5 DEF Alm!HistoryGone, AlmWhere
<1>14. CASE Alm!NoAccess
  BY <1>14 DEF Alm!NoAccess, AlmWhere, AlmHandles, AlmIdle, AlmHonesty, AlmUndisturbed
<1>15. CASE Alm!Ems
  BY <1>15 DEF Alm!Ems, AlmWhere, AlmHandles, AlmIdle, AlmHonesty, AlmUndisturbed
<1>16. CASE Alm!OtherClient
  BY <1>16 DEF Alm!OtherClient, AlmWhere, AlmHandles, AlmIdle, AlmHonesty, AlmUndisturbed
<1>17. CASE UNCHANGED Alm!vars
  BY <1>17 DEF Alm!vars, AlmWhere, AlmHandles, AlmIdle, AlmHonesty, AlmUndisturbed
<1> QED
  BY <1>1, <1>2, <1>3, <1>4, <1>5, <1>6, <1>7, <1>8, <1>9, <1>10, <1>11, <1>12, <1>13, <1>14, <1>15,
     <1>16, <1>17 DEF Alm!Next, Alm!Tests

\* The bounds are kept.
LEMMA AlmCountsKept == Alm!AlarmAssumption /\ AlmWhere /\ AlmCounts /\ [Alm!Next]_(Alm!vars) => AlmCounts'
<1> SUFFICES ASSUME Alm!AlarmAssumption, AlmWhere, AlmCounts, [Alm!Next]_(Alm!vars) PROVE AlmCounts'
  OBVIOUS
<1> USE DEF Alm!Next, Alm!Tests, Alm!StartTest, Alm!Start, Alm!Seed, Alm!FindActive, Alm!Get, Alm!Ack, Alm!Clear, Alm!GetCleared, Alm!AwaitHistory, Alm!ListHistory,
            Alm!GetHistory, Alm!DeleteHistory, Alm!HistoryGone, Alm!NoAccess, Alm!Ems, Alm!OtherClient, Alm!vars, Alm!run, Alm!At
<1>1. almN' = almN \/ (almN > 0 /\ almN' = almN - 1) \/ almN' = Polls
  BY DEF Alm!Same
<1>2. almOthers' = almOthers \/ (almOthers < AlmRivals /\ almOthers' = almOthers + 1)
  OBVIOUS
<1>3. almTrouble' = almTrouble \/ almTrouble' = TRUE
  BY DEF Alm!Honest, Alm!Refused
<1>4. almFailed' = almFailed \/ (almPc # "next" /\ almFailed' = almFailed \cup {almTest})
  BY DEF Alm!Go, Alm!Finish, Alm!Skip, Alm!Fail, Alm!Refused
<1> QED
  <2>1. almN' \in 0..Polls
    BY ONLY <1>1, AlmCounts, Alm!AlarmAssumption DEF AlmCounts, Alm!AlarmAssumption
  <2>2. almOthers' \in 0..AlmRivals
    BY ONLY <1>2, AlmCounts, Alm!AlarmAssumption DEF AlmCounts, Alm!AlarmAssumption
  <2>3. almTrouble' \in BOOLEAN
    BY ONLY <1>3, AlmCounts DEF AlmCounts
  <2>4. almFailed' \subseteq Alm!TestNames
    BY ONLY <1>4, AlmCounts, AlmWhere DEF AlmCounts, AlmWhere
  <2> QED
    BY ONLY <2>1, <2>2, <2>3, <2>4 DEF AlmCounts

\* The invariant is inductive.
LEMMA AlmInductive == Alm!AlarmAssumption /\ AlmIInv /\ [Alm!Next]_(Alm!vars) => AlmIInv'
BY AlmOrderedKept, AlmWhereKept, AlmRecordedKept, AlmHandlesKept, AlmOwnedKept, AlmApartKept, AlmStoryKept,
   AlmHonestyKept, AlmCountsKept DEF AlmIInv

\* The invariant types the state.
LEMMA AlmTypes == AlmIInv => Alm!TypeOK
<1> SUFFICES ASSUME AlmIInv PROVE Alm!TypeOK
  OBVIOUS
<1>1. almTest \in Alm!TestNames \union {""} /\ almFailed \subseteq Alm!TestNames
  BY DEF AlmIInv, AlmWhere, AlmCounts
<1>2. almTrouble \in BOOLEAN
  BY DEF AlmIInv, AlmCounts
<1>3. almN \in 0..Polls /\ almOthers \in 0..AlmRivals
  BY DEF AlmIInv, AlmCounts
<1>4. {almIds, almWf.active, almWf.history} \subseteq Alarms \union {Alm!NoAlarm}
  BY DEF AlmIInv, AlmRecorded, AlmStates, AlmIds
<1>5. almRemoved \subseteq Alarms
  BY DEF AlmIInv, AlmOwned, Alm!OnlyOwnRemoved, AlmApart
<1>6. almActive \cup almAcked \cup almMoving \cup almPast \cup almCleared \subseteq Alarms
  BY DEF AlmIInv, AlmApart
<1>7. almActive \intersect (almMoving \union almPast) = {} /\ almMoving \intersect almPast = {}
  BY DEF AlmIInv, AlmApart
<1> QED
  BY <1>1, <1>2, <1>3, <1>4, <1>5, <1>6, <1>7 DEF Alm!TypeOK

\* The invariant says what the tests promise.
LEMMA AlmPromises == Alm!AlarmAssumption /\ AlmIInv => Alm!OnlyOwnRemoved /\ Alm!DeletedWentAllTheWay /\ Alm!HonestEmsPasses
<1> SUFFICES ASSUME Alm!AlarmAssumption, AlmIInv PROVE Alm!OnlyOwnRemoved /\ Alm!DeletedWentAllTheWay /\ Alm!HonestEmsPasses
  OBVIOUS
<1>1. Alm!OnlyOwnRemoved /\ Alm!HonestEmsPasses
  BY DEF AlmIInv, AlmOwned, AlmHonesty, AlmUndisturbed, Alm!HonestEmsPasses
<1>2. Alm!DeletedWentAllTheWay
  <2> SUFFICES ASSUME almWf.deleted
               PROVE  almWf.history \in almCleared \intersect almRemoved /\ almWf.active = almWf.history /\ almWf.listed /\ almWf.byId
    BY DEF Alm!DeletedWentAllTheWay
  <2> QED
    BY DEF AlmIInv, AlmStory, AlmOwned
<1> QED
  BY <1>1, <1>2

\* Every state the alarm tests reach satisfies the invariant.
LEMMA AlmInvariance == ASSUME Alm!AlarmAssumption PROVE Alm!Spec => []AlmIInv
<1>1. Alm!Init => AlmIInv
  BY AlmInitInv
<1>2. AlmIInv /\ [Alm!Next]_(Alm!vars) => AlmIInv'
  BY AlmInductive
<1> QED
  BY <1>1, <1>2, PTL DEF Alm!Spec

\* The tests, the EMS and the history keep their types.
THEOREM AlmTypeCorrect == ASSUME Alm!AlarmAssumption PROVE Alm!Spec => []Alm!TypeOK
  BY AlmInvariance, AlmTypes, PTL

\* A session deletes only alarms from the history that it has cleared itself.
THEOREM AlmOwnRemoved == ASSUME Alm!AlarmAssumption PROVE Alm!Spec => []Alm!OnlyOwnRemoved
  BY AlmInvariance, AlmPromises, PTL

\* A delete that passed stands for an alarm that went through every phase.
THEOREM AlmDeletedReal == ASSUME Alm!AlarmAssumption PROVE Alm!Spec => []Alm!DeletedWentAllTheWay
  BY AlmInvariance, AlmPromises, PTL

\* No test but the lifecycle fails of an EMS that does its part.
THEOREM AlmHonestPasses == ASSUME Alm!AlarmAssumption PROVE Alm!Spec => []Alm!HonestEmsPasses
  BY AlmInvariance, AlmPromises, PTL
=============================================================================
